-------------------------------- MODULE Tokens --------------------------------
(***************************************************************************)
(* Developer tokens and their scopes (rust/src/api.rs): how the table of   *)
(* tokens is read from a file or from the environment, and what a token    *)
(* found in it allows.                                                     *)
(***************************************************************************)
EXTENDS Sequences, SequencesExt, FiniteSetsExt, Positions

CONSTANTS
    Blank,  \* a scope that is nothing but white space
    Unset   \* a variable that is not set; an entry's missing token

Scopes == {"manage:concepts", "register:definitions",
           "award:achievements", "grant:entitlements"}

\* normalize_scopes: no scopes at all means every scope.
NormalizeScopes(raw) == IF raw = <<>> THEN Scopes ELSE ToSet(raw) \ {Blank}

\* parse_developer_tokens_file.  A map from developer to token is iterated in
\* an order nobody chose; a list keeps its order.
FileTables(file) ==
    IF file.format = "map"
    THEN {[i \in DOMAIN devs |-> [developer |-> devs[i],
                                  token |-> file.tokens[devs[i]],
                                  scopes |-> Scopes]] :
            devs \in SetToSeqs(DOMAIN file.tokens)}
    ELSE {[i \in DOMAIN file.entries |->
             [file.entries[i] EXCEPT !.scopes = NormalizeScopes(@)]]}

\* The entries that have a token; one without a colon has none.
Given(var) == At(var, {i \in DOMAIN var : var[i].token # Unset})

\* Fault for algorithms: no scopes means none.
EnvTablePlain(var) ==
    LET entries == Given(var)
    IN  [i \in DOMAIN entries |->
            [entries[i] EXCEPT !.scopes = ToSet(@) \ {Blank}]]

\* parse_developer_tokens_env: entries without a token are skipped, and blank
\* scopes are gone before normalize_scopes sees them.
EnvTable(var) ==
    LET entries == Given(var)
        named(raw) == At(raw, {i \in DOMAIN raw : raw[i] # Blank})
    IN  [i \in DOMAIN entries |->
            [entries[i] EXCEPT !.scopes = NormalizeScopes(named(@))]]

DefaultTable ==
    <<[developer |-> "dev1", token |-> "token1", scopes |-> Scopes],
      [developer |-> "dev2", token |-> "token2", scopes |-> Scopes]>>

\* DEVELOPER_TOKENS: the tables a configuration may lead to.  A file that
\* cannot be read or parsed (Unset) is passed over.
DeveloperTokenTables(config) ==
    IF config.file # Unset THEN FileTables(config.file)
    ELSE IF config.env # Unset THEN {EnvTable(config.env)}
    ELSE {DefaultTable}

\* authorized_token: the first entry with this token, as a set.
AuthorizedToken(table, token) ==
    LET matches == {i \in DOMAIN table : table[i].token = token}
    IN  IF matches = {} THEN {} ELSE {table[Min(matches)]}

\* developer_authorized_for.
DeveloperAuthorizedFor(table, token, developer, scope) ==
    \E auth \in AuthorizedToken(table, token) :
        auth.developer = developer /\ scope \in auth.scopes
=============================================================================
