-------------------------------- MODULE BitVec --------------------------------
(***************************************************************************)
(* The vectors of rust/src/hd.rs: a dimension and a sequence of lanes, each *)
(* lane a word of LaneBits bits, taken as the set of the bits that are on.  *)
(* Nothing ties the lanes of a vector that a caller sent to its dimension.  *)
(***************************************************************************)
EXTENDS Naturals, Sequences, FiniteSets, SequencesExt, FiniteSetsExt

CONSTANT LaneBits   \* 64

ASSUME LaneBitsAssumption == LaneBits \in Nat \ {0}

Lane == SUBSET (0..LaneBits - 1)

LaneCount(dim) == (dim + LaneBits - 1) \div LaneBits

\* BitVec::new.
NewVector(dim) == [dim |-> dim, lanes |-> [n \in 1..LaneCount(dim) |-> {}]]

LaneOf(idx) == (idx \div LaneBits) + 1
BitOf(idx) == idx % LaneBits

\* Both panic when the index is beyond the last lane.
InRange(v, idx) == LaneOf(idx) \in DOMAIN v.lanes
GetBit(v, idx) == BitOf(idx) \in v.lanes[LaneOf(idx)]

\* Fault for algorithms: the lane is assigned and not or-ed.
SetBitAlone(v, idx) == [v EXCEPT !.lanes[LaneOf(idx)] = {BitOf(idx)}]

SetBit(v, idx) == [v EXCEPT !.lanes[LaneOf(idx)] = @ \cup {BitOf(idx)}]

\* A new vector with these bits set, one after the other.
WithBits(dim, on) == FoldSet(LAMBDA idx, v : SetBit(v, idx), NewVector(dim), on)

\* BitVec::seed: draws[i] is whether the generator's number i + 1 is odd.
Seed(draws, dim) == WithBits(dim, {i \in 0..dim - 1 : draws[i + 1]})

XorLane(a, b) == (a \ b) \cup (b \ a)

\* zip ends with the shorter sequence of lanes.
Zipped(v, w) == DOMAIN v.lanes \cap DOMAIN w.lanes

\* Fault for algorithms: the lanes the other vector lacks are kept.
XorKeeping(v, w) ==
    [v EXCEPT !.lanes = [n \in DOMAIN v.lanes |->
        IF n \in DOMAIN w.lanes THEN XorLane(v.lanes[n], w.lanes[n]) ELSE v.lanes[n]]]

\* xor, for vectors of one dimension.
Xor(v, w) ==
    [v EXCEPT !.lanes = [n \in Zipped(v, w) |-> XorLane(v.lanes[n], w.lanes[n])]]

\* rotate_left, for a dimension other than zero and lanes that cover it.
RotateLeft(v, k) ==
    LET shift == k % v.dim
    IN  IF shift = 0 THEN v
        ELSE WithBits(v.dim, {i \in 0..v.dim - 1 :
                                GetBit(v, (i + v.dim - shift) % v.dim)})

\* hamming_distance, for vectors of one dimension.
HammingDistance(v, w) ==
    MapThenSumSet(LAMBDA n : Cardinality(XorLane(v.lanes[n], w.lanes[n])), Zipped(v, w))

\* threshold_sum; the threshold is counted in halves.
ThresholdSum(v, w, halves) ==
    WithBits(v.dim, {i \in 0..v.dim - 1 :
        Cardinality({n \in {1, 2} : GetBit(<<v, w>>[n], i)}) >= halves})
=============================================================================
