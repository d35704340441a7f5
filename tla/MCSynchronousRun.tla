------------------------- MODULE MCSynchronousRun --------------------------
(***************************************************************************)
(* Small instances of SynchronousRun.                                      *)
(***************************************************************************)
EXTENDS SynchronousRun, TLC

CONSTANTS q1, q2

MCBatches == {<<q1>>, <<q1, q2>>}
MCNone == {}
MCSymmetry == Permutations(Document) \cup Permutations(Connection)
                \cup Permutations(Session)
=============================================================================
