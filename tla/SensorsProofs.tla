---------------------------- MODULE SensorsProofs ----------------------------
(***************************************************************************)
(* Renames beside everything else, for any users, keys and goroutines.     *)
(***************************************************************************)
EXTENDS Sensors, AssociationsProofs

\* What a rename has read: the sensor's owner is the user who asked, and stays
\* so unless the sensor or the user is deleted.
ReadHolds ==
    \A e \in Editors :
        Edits(e, "save") =>
            /\ edit[e].owner = edit[e].user
            /\ StillOwned(sensorOwner[edit[e].sensor], edit[e].user)

RenameInv == OwnershipInv /\ STypeOK /\ ReadHolds

\* The type of a request follows from its step.
LEMMA RenameTypes ==
    ASSUME STypeOK, NEW e \in Editors, ~Edits(e, "idle")
    PROVE  edit[e] \in Rename
BY DEF STypeOK, Edits, Idle

\* The UPDATE writes the owner that the row has anyway.
LEMMA SaveKeepsOwners ==
    ASSUME RenameInv, NEW e \in Editors, SaveSensor(e)
    PROVE  UNCHANGED vars
<1>1. edit[e] \in Rename /\ Edits(e, "save")
  BY RenameTypes DEF RenameInv, SaveSensor, Edits
<1>2. /\ edit[e].owner = edit[e].user /\ edit[e].sensor \in SensorIds
      /\ StillOwned(sensorOwner[edit[e].sensor], edit[e].user)
  BY <1>1 DEF RenameInv, ReadHolds, Rename
<1>3. CASE SensorExists(edit[e].sensor) /\ edit[e].owner \in users
  <2>1. sensorOwner[edit[e].sensor] = edit[e].owner
    BY <1>2, <1>3 DEF StillOwned, SensorExists, Absent
  <2>2. sensorOwner' = sensorOwner
    BY <1>2, <1>3, <2>1 DEF SaveSensor, RenameInv, STypeOK, TypeOK
  <2> QED
    BY <2>2 DEF SaveSensor, vars
<1>4. CASE ~(SensorExists(edit[e].sensor) /\ edit[e].owner \in users)
  BY <1>4 DEF SaveSensor, vars
<1> QED
  BY <1>3, <1>4

LEMMA RenameStepIsStutter ==
    ASSUME RenameInv, RenameStep
    PROVE  UNCHANGED vars
BY SaveKeepsOwners DEF RenameStep, BeginRename, FindEdited, AbortEdit

\* Of associations, sensors and batches every step is one of Associations.
LEMMA SensorsStep == RenameInv /\ [SNext]_svars => [Next]_vars
<1> SUFFICES ASSUME RenameInv, [SNext]_svars
             PROVE  [Next]_vars
  OBVIOUS
<1>1. CASE RenameStep
  BY <1>1, RenameStepIsStutter
<1>2. CASE UNCHANGED svars
  BY <1>2 DEF svars, vars
<1>3. CASE OtherStep
  BY <1>3 DEF OtherStep, Next, CreateStep
<1>4. ASSUME NEW u \in Users, NEW s \in SensorIds, SCreateSensor(u, s)
      PROVE  Next
  BY <1>4 DEF SCreateSensor, Next, CreateStep
<1>5. ASSUME NEW s \in SensorIds, SDeleteSensor(s)
      PROVE  Next
  BY <1>5 DEF SDeleteSensor, Next, DeleteSensorStep
<1> QED
  BY <1>1, <1>2, <1>3, <1>4, <1>5 DEF SNext

LEMMA STypeStep == RenameInv /\ [SNext]_svars => STypeOK'
<1> SUFFICES ASSUME RenameInv, [SNext]_svars
             PROVE  STypeOK'
  OBVIOUS
<1>1. TypeOK'
  BY SensorsStep, TypeStep DEF RenameInv, STypeOK
<1> USE DEF RenameInv, STypeOK
<1>2. ASSUME NEW e \in Editors, BeginRename(e)
      PROVE  STypeOK'
  <2>1. PICK r \in Rename : edit' = [edit EXCEPT ![e] = r]
    BY <1>2 DEF BeginRename, Rename
  <2> QED
    BY <1>1, <1>2, <2>1 DEF BeginRename
<1>3. ASSUME NEW e \in Editors, FindEdited(e)
      PROVE  STypeOK'
  <2>1. edit[e] \in Rename
    BY <1>3, RenameTypes DEF FindEdited, Edits
  <2>2. CASE sensorOwner[edit[e].sensor] = edit[e].user
    <3> DEFINE r == [edit[e] EXCEPT
                        !.step = IF edit[e].name = NULL THEN "panic" ELSE "save",
                        !.owner = sensorOwner[edit[e].sensor]]
    <3>1. r \in Rename
      BY <2>1, <2>2 DEF Rename
    <3>2. edit' = [edit EXCEPT ![e] = r]
      BY <1>3, <2>2 DEF FindEdited
    <3> HIDE DEF r
    <3> QED
      BY <1>1, <1>3, <3>1, <3>2 DEF FindEdited
  <2>3. CASE sensorOwner[edit[e].sensor] # edit[e].user
    BY <1>1, <1>3, <2>3 DEF FindEdited, EndEdit
  <2> QED
    BY <2>2, <2>3
<1>4. ASSUME NEW e \in Editors, SaveSensor(e)
      PROVE  STypeOK'
  <2>1. edit[e] \in Rename
    BY <1>4, RenameTypes DEF SaveSensor, Edits
  <2> QED
    BY <1>1, <1>4, <2>1 DEF SaveSensor, EndEdit, Rename
<1>5. ASSUME NEW e \in Editors, AbortEdit(e)
      PROVE  STypeOK'
  BY <1>1, <1>5 DEF AbortEdit, EndEdit
<1>6. ASSUME NEW u \in Users, NEW s \in SensorIds, SCreateSensor(u, s)
      PROVE  STypeOK'
  BY <1>1, <1>6 DEF SCreateSensor
<1>7. ASSUME NEW s \in SensorIds, SDeleteSensor(s)
      PROVE  STypeOK'
  BY <1>1, <1>7 DEF SDeleteSensor
<1>8. CASE UNCHANGED <<name, edit>>
  BY <1>1, <1>8
<1> QED
  BY <1>2, <1>3, <1>4, <1>5, <1>6, <1>7, <1>8 DEF SNext, RenameStep, svars

\* A step that is not of editor e leaves what e has read.
LEMMA ReadHoldsStep == RenameInv /\ [SNext]_svars => ReadHolds'
<1> SUFFICES ASSUME RenameInv, [SNext]_svars,
                    NEW e \in Editors, Edits(e, "save")'
             PROVE  /\ edit'[e].owner = edit'[e].user
                    /\ StillOwned(sensorOwner[edit[e].sensor], edit[e].user)'
  BY DEF ReadHolds
<1>1. edit \in [Editors -> Rename \cup {Idle}] /\ [Next]_vars
  BY SensorsStep DEF RenameInv, STypeOK
<1>2. CASE edit'[e] = edit[e]
  <2>1. edit[e] \in Rename /\ Edits(e, "save")
    BY <1>2, RenameTypes DEF RenameInv, Edits
  <2>2. /\ edit[e].owner = edit[e].user
        /\ edit[e].sensor \in SensorIds /\ edit[e].user \in Users
        /\ StillOwned(sensorOwner[edit[e].sensor], edit[e].user)
    BY <2>1 DEF RenameInv, ReadHolds, Rename
  <2>3. PICK s \in SensorIds, u \in Users : edit[e].sensor = s /\ edit[e].user = u
    BY <2>2
  <2>4. StillOwned(sensorOwner[s], u)'
    BY <1>1, <2>2, <2>3, SensorOwnerSteps DEF RenameInv
  <2> QED
    BY <1>2, <2>2, <2>3, <2>4 DEF StillOwned
<1>3. CASE FindEdited(e)
  <2>1. edit[e] \in Rename
    BY <1>3, RenameTypes DEF RenameInv, FindEdited, Edits
  <2>2. sensorOwner[edit[e].sensor] = edit[e].user
    BY <1>1, <1>3 DEF FindEdited, EndEdit, Edits, Idle
  <2>3. /\ edit'[e].owner = edit[e].user /\ edit'[e].user = edit[e].user
        /\ edit'[e].sensor = edit[e].sensor
    BY <1>1, <1>3, <2>1, <2>2 DEF FindEdited, Rename
  <2>4. edit[e].user \in users /\ sensorOwner' = sensorOwner /\ users' = users
    BY <1>3, <2>1, <2>2 DEF FindEdited, vars, RenameInv, OwnershipInv, OwnersExist, Rename
  <2> QED
    BY <2>2, <2>3, <2>4 DEF StillOwned
<1>4. ~BeginRename(e) /\ ~SaveSensor(e) /\ ~AbortEdit(e)
  BY <1>1 DEF BeginRename, SaveSensor, AbortEdit, EndEdit, Edits, Idle
<1>5. ASSUME NEW x \in Editors, x # e,
             BeginRename(x) \/ FindEdited(x) \/ SaveSensor(x) \/ AbortEdit(x)
      PROVE  edit'[e] = edit[e]
  BY <1>1, <1>5 DEF BeginRename, FindEdited, SaveSensor, AbortEdit, EndEdit
<1> QED
  BY <1>2, <1>3, <1>4, <1>5 DEF SNext, RenameStep, SCreateSensor, SDeleteSensor, svars

LEMMA RenameInvariant == SSpec => []RenameInv
<1>1. SInit => RenameInv
  BY OwnershipInit DEF SInit, RenameInv, OwnershipInv, STypeOK, ReadHolds, Edits, Idle
<1>2. RenameInv /\ [SNext]_svars => RenameInv'
  BY SensorsStep, OwnershipStep, STypeStep, ReadHoldsStep DEF RenameInv
<1> QED
  BY <1>1, <1>2, PTL DEF SSpec

\* Rows and requests hold values of their types; no over-long name is held.
THEOREM STypeCorrect == SSpec => []STypeOK
BY RenameInvariant, PTL DEF RenameInv

\* Writing the owner back as it was read changes no owner, so whatever is
\* proved of Associations holds beside any number of renames.
THEOREM RenamesAreNoSteps == SSpec => RenamesChangeNoOwner
<1>1. SInit => Init
  BY DEF SInit
<1> QED
  BY <1>1, RenameInvariant, SensorsStep, PTL DEF SSpec, Spec, RenamesChangeNoOwner

\* Only the owner of the moment renames a sensor.
THEOREM OwnerRenames == SSpec => OnlyOwnerRenames
<1> DEFINE RenamedByOwner(s) ==
      SensorExists(s) /\ SensorExists(s)' /\ name'[s] # name[s] =>
          \E e \in Editors :
              /\ Edits(e, "save") /\ edit[e].sensor = s
              /\ edit[e].user = sensorOwner[s] /\ edit[e].user \in users
<1>1. ASSUME RenameInv, [SNext]_svars, NEW s \in SensorIds,
             SensorExists(s), SensorExists(s)', name'[s] # name[s]
      PROVE  RenamedByOwner(s)
  <2>1. name \in [SensorIds -> Names \cup {BadName, NULL}]
    BY <1>1 DEF RenameInv, STypeOK
  <2>2. ASSUME NEW u \in Users, NEW x \in SensorIds, SCreateSensor(u, x)
        PROVE  FALSE
    BY <1>1, <2>1, <2>2 DEF SCreateSensor, CreateSensor, SensorExists, Absent
  <2>3. ASSUME NEW x \in SensorIds, SDeleteSensor(x)
        PROVE  FALSE
    BY <1>1, <2>1, <2>3 DEF SDeleteSensor, DeleteSensor, SensorExists, Absent,
                            RenameInv, STypeOK, TypeOK
  <2>4. PICK e \in Editors : SaveSensor(e)
    BY <1>1, <2>2, <2>3 DEF SNext, RenameStep, BeginRename, FindEdited, AbortEdit, svars
  <2>5. edit[e] \in Rename /\ Edits(e, "save")
    BY <1>1, <2>4, RenameTypes DEF RenameInv, SaveSensor, Edits
  <2>6. edit[e].sensor = s /\ edit[e].owner \in users
    BY <1>1, <2>1, <2>4 DEF SaveSensor
  <2>7. edit[e].owner = edit[e].user /\ StillOwned(sensorOwner[s], edit[e].user)
    BY <1>1, <2>5, <2>6 DEF RenameInv, ReadHolds
  <2> QED
    BY <1>1, <2>5, <2>6, <2>7 DEF StillOwned, SensorExists, Absent
<1>2. RenameInv /\ [SNext]_svars => [\A s \in SensorIds : RenamedByOwner(s)]_svars
  BY <1>1
<1> QED
  BY <1>2, RenameInvariant, PTL DEF SSpec, OnlyOwnerRenames
=============================================================================
