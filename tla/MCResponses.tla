---------------------------- MODULE MCResponses ----------------------------
(***************************************************************************)
(* Instances of Responses for TLC.                                         *)
(***************************************************************************)
EXTENDS Responses, TLC

\* No definition orders keys, aliases or goroutines or CHOOSEs among them.
KeySymmetry ==
    Permutations(Users) \cup Permutations(BatchIds) \cup Permutations(SensorIds)
        \cup Permutations(AssocIds) \cup Permutations(MeasIds) \cup Permutations(Aliases)
        \cup Permutations(Workers) \cup Permutations(Posters)
=============================================================================
