------------------------------ MODULE Sensors ------------------------------
(***************************************************************************)
(* Renaming sensors while they are associated, deleted and disowned.       *)
(*                                                                         *)
(* updateSensor reads the whole row, sets the name and writes every column *)
(* back, user_id included, by an UPDATE that names only the key.  Nothing  *)
(* locks the row in between, so the owner it writes may be out of date.    *)
(***************************************************************************)
EXTENDS Associations

CONSTANTS
    Editors,        \* goroutines serving updateSensor
    Names,          \* names of 1 to 25 characters
    BadName         \* an empty name, or a longer one

ASSUME NameAssumption == NULL \notin Names /\ BadName \notin Names \cup {NULL}

VARIABLES
    name,           \* sensors.name; NULL while there is no row
    edit            \* the rename each editor is serving

svars == <<now, users, batchOwner, sensorOwner, assoc, req, name, edit>>

\* name is NULL when the client leaves it out.  owner: the user_id read.
Rename == [step : {"find", "save", "panic"}, user : Users, sensor : SensorIds,
           name : Names \cup {NULL}, owner : Users \cup {NULL}]

Edits(e, step) == edit[e].step = step
EndEdit(e) == edit' = [edit EXCEPT ![e] = Idle]

SInit ==
    /\ Init
    /\ name = [s \in SensorIds |-> NULL]
    /\ edit = [e \in Editors |-> Idle]

\* createSensor takes any name: only updateSensor looks at its length.
SCreateSensor(u, s) ==
    /\ CreateSensor(u, s)
    /\ \E n \in Names \cup {BadName} : name' = [name EXCEPT ![s] = n]
    /\ UNCHANGED edit

SDeleteSensor(s) ==
    /\ DeleteSensor(s)
    /\ name' = [name EXCEPT ![s] = NULL]
    /\ UNCHANGED edit

-----------------------------------------------------------------------------
(* updateSensor                                                            *)

\* Faulty: the length is not looked at.
BeginRenameAny(e) ==
    /\ Edits(e, "idle")
    /\ \E u \in Users, s \in SensorIds, n \in Names \cup {BadName, NULL} :
         edit' = [edit EXCEPT ![e] = [step |-> "find", user |-> u, sensor |-> s,
                                      name |-> n, owner |-> NULL]]
    /\ UNCHANGED <<vars, name>>

\* A name of the wrong length is answered at once with a user error.
BeginRename(e) ==
    /\ Edits(e, "idle")
    /\ \E u \in Users, s \in SensorIds, n \in Names \cup {NULL} :
         edit' = [edit EXCEPT ![e] = [step |-> "find", user |-> u, sensor |-> s,
                                      name |-> n, owner |-> NULL]]
    /\ UNCHANGED <<vars, name>>

\* Faulty: the query does not filter by user.
FindAnyEdited(e) ==
    /\ Edits(e, "find")
    /\ IF sensorOwner[edit[e].sensor] \in Users
       THEN edit' = [edit EXCEPT ![e].step = IF edit[e].name = NULL THEN "panic" ELSE "save",
                                 ![e].owner = sensorOwner[edit[e].sensor]]
       ELSE EndEdit(e)
    /\ UNCHANGED <<vars, name>>

\* FindSensor by uuid and user; a sensor that is not found is answered by null.
\* A name left out passed the length check and is dereferenced here.
FindEdited(e) ==
    /\ Edits(e, "find")
    /\ LET r == edit[e] IN
         IF sensorOwner[r.sensor] = r.user
         THEN edit' = [edit EXCEPT
                ![e].step = IF r.name = NULL THEN "panic" ELSE "save",
                ![e].owner = sensorOwner[r.sensor]]
         ELSE EndEdit(e)
    /\ UNCHANGED <<vars, name>>

\* Faulty: user_id has no foreign key.
SaveUnchecked(e) ==
    /\ Edits(e, "save")
    /\ EndEdit(e)
    /\ SensorExists(edit[e].sensor)
    /\ sensorOwner' = [sensorOwner EXCEPT ![edit[e].sensor] = edit[e].owner]
    /\ name' = [name EXCEPT ![edit[e].sensor] = edit[e].name]
    /\ UNCHANGED <<now, users, batchOwner, assoc, req>>

\* UPDATE sensors SET user_id, name WHERE id.  The foreign key refuses the user
\* who has gone since the row was read; a row that has gone is an error.
SaveSensor(e) ==
    /\ Edits(e, "save")
    /\ EndEdit(e)
    /\ LET r == edit[e] IN
         \/ /\ SensorExists(r.sensor) /\ r.owner \in users
            /\ sensorOwner' = [sensorOwner EXCEPT ![r.sensor] = r.owner]
            /\ name' = [name EXCEPT ![r.sensor] = r.name]
         \/ /\ ~(SensorExists(r.sensor) /\ r.owner \in users)
            /\ UNCHANGED <<sensorOwner, name>>
    /\ UNCHANGED <<now, users, batchOwner, assoc, req>>

\* graphql-go recovers the panic of a resolver and answers with an error; a
\* failed statement or the end of the process leaves no trace either.
AbortEdit(e) ==
    /\ ~Edits(e, "idle")
    /\ EndEdit(e)
    /\ UNCHANGED <<vars, name>>

RenameStep ==
    \E e \in Editors :
        BeginRename(e) \/ FindEdited(e) \/ SaveSensor(e) \/ AbortEdit(e)

OtherStep ==
    \/ RequestStep \/ Tick
    \/ \E u \in Users, b \in BatchIds : CreateBatch(u, b)
    \/ DeleteBatchStep \/ DeleteUserStep

SNext ==
    \/ OtherStep /\ UNCHANGED <<name, edit>>
    \/ \E u \in Users, s \in SensorIds : SCreateSensor(u, s)
    \/ \E s \in SensorIds : SDeleteSensor(s)
    \/ RenameStep

SSpec == SInit /\ [][SNext]_svars

-----------------------------------------------------------------------------
(* Properties *)

\* Every row and every editor's local variables hold values of their types; a
\* name that updateSensor holds is neither empty nor too long.
STypeOK ==
    /\ TypeOK
    /\ name \in [SensorIds -> Names \cup {BadName, NULL}]
    /\ edit \in [Editors -> Rename \cup {Idle}]

\* Writing user_id back as it was read never changes an owner, whoever is
\* deleted between the SELECT and the UPDATE: to the associations a rename is
\* no step at all, and everything shown of them holds beside renames.
RenamesChangeNoOwner == Spec

\* A sensor is renamed only by a request of the user who owns it at that very
\* moment: once it is ownerless, a rename that was under way does not succeed.
OnlyOwnerRenames ==
    [][\A s \in SensorIds :
         SensorExists(s) /\ SensorExists(s)' /\ name'[s] # name[s] =>
             \E e \in Editors :
                 /\ Edits(e, "save") /\ edit[e].sensor = s
                 /\ edit[e].user = sensorOwner[s] /\ edit[e].user \in users]_svars

\* "Optional because there will be other updateable properties": a request may
\* leave the name out.
NameIsOptional == \A e \in Editors : ~Edits(e, "panic")
=============================================================================
