---------------------------- MODULE MCMonitoring ----------------------------
(***************************************************************************)
(* Instances of Monitoring for TLC.                                        *)
(***************************************************************************)
EXTENDS Monitoring, TLC

\* No definition orders keys or goroutines or CHOOSEs among them.
KeySymmetry ==
    Permutations(Users) \cup Permutations(BatchIds) \cup Permutations(SensorIds)
        \cup Permutations(AssocIds) \cup Permutations(MeasIds)
        \cup Permutations(Workers) \cup Permutations(Posters)
=============================================================================
