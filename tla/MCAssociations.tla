--------------------------- MODULE MCAssociations ---------------------------
(***************************************************************************)
(* Instances of Associations for TLC.                                      *)
(***************************************************************************)
EXTENDS Associations, TLC

\* Keys drawn by the database and goroutines are interchangeable: no
\* definition orders or CHOOSEs among them.
KeySymmetry ==
    Permutations(Users) \cup Permutations(BatchIds) \cup Permutations(SensorIds)
        \cup Permutations(AssocIds) \cup Permutations(Workers)
=============================================================================
