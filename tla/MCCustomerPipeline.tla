------------------------- MODULE MCCustomerPipeline -------------------------
(***************************************************************************)
(* Small instances of CustomerPipeline.                                    *)
(***************************************************************************)
EXTENDS CustomerPipeline, TLC

CONSTANTS alice, s1, s2, u1, u2

MCTimes == {1, 2}
MCPayloads == 0..7
MCSparkRank == [p \in MCPayloads |-> p]
MCPoints == MCTimes \X {Null, 1}
=============================================================================
