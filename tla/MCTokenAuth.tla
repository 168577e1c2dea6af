---------------------------- MODULE MCTokenAuth ----------------------------
(***************************************************************************)
(* Instances of TokenAuth for TLC.                                         *)
(***************************************************************************)
EXTENDS TokenAuth, TLC

\* No definition orders keys or goroutines or CHOOSEs among them.
KeySymmetry ==
    Permutations(Users) \cup Permutations(TokenIds) \cup Permutations(Workers)
=============================================================================
