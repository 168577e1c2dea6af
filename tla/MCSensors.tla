----------------------------- MODULE MCSensors -----------------------------
(***************************************************************************)
(* Instances of Sensors for TLC.                                           *)
(***************************************************************************)
EXTENDS Sensors, TLC

\* No definition orders keys, names or goroutines or CHOOSEs among them.
KeySymmetry ==
    Permutations(Users) \cup Permutations(BatchIds) \cup Permutations(SensorIds)
        \cup Permutations(AssocIds) \cup Permutations(Names)
        \cup Permutations(Workers) \cup Permutations(Editors)
=============================================================================
