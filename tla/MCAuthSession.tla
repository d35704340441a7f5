---------------------------- MODULE MCAuthSession ----------------------------
(***************************************************************************)
(* Small instances of AuthSession for TLC.                                 *)
(***************************************************************************)
EXTENDS AuthSession, TLC

MCSymmetry == Permutations(Tab)
=============================================================================
