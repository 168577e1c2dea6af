------------------------ MODULE AssociationRegistry ------------------------
(***************************************************************************)
(* What the associations promise, with every request done in one step: a   *)
(* book of associations in which a client opens one only when it has none  *)
(* open on that sensor, and a closed one stays closed.  With a single      *)
(* client that is the promise of the API, one open association per sensor; *)
(* with several it is what is left of it when nothing spans the check and  *)
(* the INSERT.                                                             *)
(***************************************************************************)

CONSTANTS Users, BatchIds, SensorIds, AssocIds, Clients, NULL, Unborn, Dead

VARIABLES
    batchOwner,     \* owner of each batch: a user, NULL, Unborn or Dead
    sensorOwner,    \* owner of each sensor
    book            \* the associations, open or closed

vars == <<batchOwner, sensorOwner, book>>

Absent == {Unborn, Dead}
Entry == [batch : BatchIds, sensor : SensorIds, open : BOOLEAN, by : Clients]
Entered == {i \in AssocIds : book[i] \notin Absent}

Init ==
    /\ batchOwner = [b \in BatchIds |-> Unborn]
    /\ sensorOwner = [s \in SensorIds |-> Unborn]
    /\ book = [i \in AssocIds |-> Unborn]

AddBatch(b) ==
    /\ batchOwner[b] = Unborn
    /\ \E u \in Users : batchOwner' = [batchOwner EXCEPT ![b] = u]
    /\ UNCHANGED <<sensorOwner, book>>

AddSensor(s) ==
    /\ sensorOwner[s] = Unborn
    /\ \E u \in Users : sensorOwner' = [sensorOwner EXCEPT ![s] = u]
    /\ UNCHANGED <<batchOwner, book>>

\* The pair has one owner, or had one who was deleted; an owner's sensor has
\* no other association opened by this client.
Open(c, b, s, i) ==
    /\ batchOwner[b] \notin Absent
    /\ batchOwner[b] = sensorOwner[s]
    /\ sensorOwner[s] \in Users =>
         \A j \in Entered :
             book[j].sensor = s /\ book[j].by = c => ~book[j].open
    /\ book[i] = Unborn
    /\ book' = [book EXCEPT ![i] = [batch |-> b, sensor |-> s, open |-> TRUE, by |-> c]]
    /\ UNCHANGED <<batchOwner, sensorOwner>>

Close(i) ==
    /\ i \in Entered
    /\ book' = [book EXCEPT ![i].open = FALSE]
    /\ UNCHANGED <<batchOwner, sensorOwner>>

Disown(u) ==
    /\ batchOwner' = [b \in BatchIds |-> IF batchOwner[b] = u THEN NULL ELSE batchOwner[b]]
    /\ sensorOwner' = [s \in SensorIds |-> IF sensorOwner[s] = u THEN NULL ELSE sensorOwner[s]]
    /\ UNCHANGED book

Strike(doomed) == [i \in AssocIds |-> IF i \in doomed THEN Dead ELSE book[i]]

RemoveBatch(b) ==
    /\ batchOwner[b] \notin Absent
    /\ batchOwner' = [batchOwner EXCEPT ![b] = Dead]
    /\ book' = Strike({i \in Entered : book[i].batch = b})
    /\ UNCHANGED sensorOwner

RemoveSensor(s) ==
    /\ sensorOwner[s] \notin Absent
    /\ sensorOwner' = [sensorOwner EXCEPT ![s] = Dead]
    /\ book' = Strike({i \in Entered : book[i].sensor = s})
    /\ UNCHANGED batchOwner

Next ==
    \/ \E b \in BatchIds : AddBatch(b) \/ RemoveBatch(b)
    \/ \E s \in SensorIds : AddSensor(s) \/ RemoveSensor(s)
    \/ \E c \in Clients, b \in BatchIds, s \in SensorIds, i \in AssocIds : Open(c, b, s, i)
    \/ \E i \in AssocIds : Close(i)
    \/ \E u \in Users : Disown(u)

Spec == Init /\ [][Next]_vars
=============================================================================
