-------------------------------- MODULE Receipt --------------------------------
(***************************************************************************)
(* The data_hash of an award's receipt, as the server computes it          *)
(* (rust/src/player_profile.rs) and as the game SDK checks it              *)
(* (game-sdk-rust/src/lib.rs).  A JSON object is a function from keys to   *)
(* values; SHA-256 over its text is taken as injective.                    *)
(***************************************************************************)
EXTENDS Sequences

Sha256OfJson(object) == <<"sha256", object>>

\* How serde writes an enum: an object with the variant as its one key.
Wrapped(variant, details) == [key \in {variant} |-> details]

\* award_entitlement and award_achievement hash the details before they wrap
\* them in TransactionData.
DataHash(details) == Sha256OfJson(details)

\* verify_receipt_integrity hashes ReceiptDetails, which is the enum.  A receipt
\* from the server always names a block.
VerifyReceiptIntegrity(receipt) == receipt.data_hash = Sha256OfJson(receipt.details)
=============================================================================
