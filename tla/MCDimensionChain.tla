-------------------------- MODULE MCDimensionChain --------------------------
(***************************************************************************)
(* Small instances of DimensionChain.                                      *)
(***************************************************************************)
EXTENDS DimensionChain, TLC

CONSTANTS k1, k2

MCKeys == {k1, k2}
OneKey == {k1}
KeySymmetry == Permutations(MCKeys)

\* A snapshot (no tiebreak), a CDC event at the same timestamp, and a later one.
MCSequences == {<<1, Null>>, <<1, 1>>, <<2, 1>>, <<3, 1>>}

MCPayloads == {1, 2}

\* to_json orders the payloads the other way round.
ReversedRank == [p \in MCPayloads |-> -p]
SameRank == [p \in MCPayloads |-> p]
=============================================================================
