---------------------------- MODULE Associations ----------------------------
(***************************************************************************)
(* Which sensor monitors which batch: the rows of the table                *)
(* batch_sensor_association, the batches and sensors they tie together,    *)
(* and the requests that open and revise them.                             *)
(*                                                                         *)
(* The server runs one goroutine per request (a worker) and never opens a  *)
(* database transaction, so each SQL statement commits by itself and other *)
(* workers run between any two statements of a resolver.  An action is one *)
(* statement together with the Go code up to the next one; req[w] is what  *)
(* the goroutine holds in its local variables between statements.          *)
(*                                                                         *)
(* Names, descriptions, volumes and the other columns that no decision     *)
(* here reads are left out.                                                *)
(*                                                                         *)
(* A definition marked "Faulty" is a slip the code could have had instead  *)
(* of the definition below it; nothing uses it but the runs that show      *)
(* which property would notice.                                            *)
(***************************************************************************)
EXTENDS Naturals

CONSTANTS
    Users,          \* primary keys of the users
    BatchIds,       \* keys a batch row can get
    SensorIds,      \* keys a sensor row can get
    AssocIds,       \* keys an association row can get
    Workers,        \* goroutines serving requests at the same time
    UpdateStarts,   \* values a client may send as associatedAt
    UpdateEnds,     \* values a client may send as disassociatedAt
    MaxTime,        \* bound of the clock
    NULL,           \* the SQL NULL
    Unborn, Dead    \* the states of a key before INSERT and after DELETE

Absent == {Unborn, Dead}

ASSUME SentinelAssumption ==
    /\ Unborn # Dead /\ NULL # Unborn /\ NULL # Dead
    /\ \A x \in {NULL, Unborn, Dead} : x \notin Users

ASSUME TimeAssumption ==
    /\ MaxTime \in Nat
    /\ NULL \notin Nat
    /\ UpdateStarts \subseteq Nat
    /\ UpdateEnds \subseteq Nat \cup {NULL}

\* No client sends null for (or leaves out) disassociatedAt.
CloseOnly == NULL \notin UpdateEnds

VARIABLES
    now,            \* the clock, advancing between statements
    users,          \* user rows
    batchOwner,     \* batches.user_id, or the state of an absent row
    sensorOwner,    \* sensors.user_id, or the state of an absent row
    assoc,          \* batch_sensor_association rows
    req             \* the request each worker is serving

vars == <<now, users, batchOwner, sensorOwner, assoc, req>>
rows == <<users, batchOwner, sensorOwner, assoc>>

\* at, dis: associated_at and disassociated_at.  The column list is the
\* schema's; `by' is a history field, the worker that inserted the row.
AssocRow == [batch : BatchIds, sensor : SensorIds, at : Nat,
             dis : Nat \cup {NULL}, by : Workers]

ASSUME RowAssumption == Unborn \notin AssocRow /\ Dead \notin AssocRow

Owner == Users \cup {NULL} \cup Absent

Idle == [step |-> "idle"]

\* since: the clock when the check for an open association returned.
AssociateRequest ==
    [step : {"batch", "sensor", "active", "insert"}, user : Users,
     batch : BatchIds, sensor : SensorIds, since : Nat]

UpdateRequest ==
    [step : {"association", "update"}, user : Users, id : AssocIds,
     at : UpdateStarts, dis : UpdateEnds]

Request == AssociateRequest \cup UpdateRequest \cup {Idle}

-----------------------------------------------------------------------------
(* Rows and queries *)

Live == {i \in AssocIds : assoc[i] \notin Absent}

BatchExists(b) == batchOwner[b] \notin Absent
SensorExists(s) == sensorOwner[s] \notin Absent

\* The joined row belongs to user u: b.user_id = u AND s.user_id = u.
Visible(i, u) ==
    /\ batchOwner[assoc[i].batch] = u
    /\ sensorOwner[assoc[i].sensor] = u

\* Faulty: an association opened at this very instant is not open yet.
ActiveRowsBefore(s, u) ==
    {i \in Live : assoc[i].sensor = s /\ assoc[i].dis = NULL /\ Visible(i, u)
                    /\ assoc[i].at < now}

\* The rows FindBatchSensorAssociation selects before an insert.
ActiveRows(s, u) ==
    {i \in Live : assoc[i].sensor = s /\ assoc[i].dis = NULL /\ Visible(i, u)}

-----------------------------------------------------------------------------
(* Request bookkeeping *)

Serve(w, step) == req[w].step = step
Advance(w, step) == req' = [req EXCEPT ![w].step = step]
\* Faulty: the local variables outlive the request.
ReplyKeeping(w) == req' = [req EXCEPT ![w].step = "idle"]
Reply(w) == req' = [req EXCEPT ![w] = Idle]

Init ==
    /\ now = 0
    /\ users = Users
    /\ batchOwner = [b \in BatchIds |-> Unborn]
    /\ sensorOwner = [s \in SensorIds |-> Unborn]
    /\ assoc = [i \in AssocIds |-> Unborn]
    /\ req = [w \in Workers |-> Idle]

-----------------------------------------------------------------------------
(* createBatch and createSensor: one INSERT, which the foreign key on      *)
(* user_id refuses when the user has gone since the token was looked up.   *)

CreateBatch(u, b) ==
    /\ u \in users
    /\ batchOwner[b] = Unborn
    /\ batchOwner' = [batchOwner EXCEPT ![b] = u]
    /\ UNCHANGED <<now, users, sensorOwner, assoc, req>>

CreateSensor(u, s) ==
    /\ u \in users
    /\ sensorOwner[s] = Unborn
    /\ sensorOwner' = [sensorOwner EXCEPT ![s] = u]
    /\ UNCHANGED <<now, users, batchOwner, assoc, req>>

-----------------------------------------------------------------------------
(* associateSensorToBatch *)

\* The middleware has put the token's user in the request context, who may have
\* been deleted since; the client names any batch and any sensor.
BeginAssociate(w) ==
    /\ Serve(w, "idle")
    /\ \E u \in Users, b \in BatchIds, s \in SensorIds :
         req' = [req EXCEPT ![w] = [step |-> "batch", user |-> u, batch |-> b,
                                    sensor |-> s, since |-> 0]]
    /\ UNCHANGED <<now, rows>>

\* Faulty: the query does not filter by user.
FindAnyBatch(w) ==
    /\ Serve(w, "batch")
    /\ IF BatchExists(req[w].batch) THEN Advance(w, "sensor") ELSE Reply(w)
    /\ UNCHANGED <<now, rows>>

FindBatch(w) ==
    /\ Serve(w, "batch")
    /\ IF batchOwner[req[w].batch] = req[w].user
       THEN Advance(w, "sensor")
       ELSE Reply(w)                    \* "Specified Batch does not exist."
    /\ UNCHANGED <<now, rows>>

\* Faulty: the query does not filter by user.
FindAnySensor(w) ==
    /\ Serve(w, "sensor")
    /\ IF SensorExists(req[w].sensor) THEN Advance(w, "active") ELSE Reply(w)
    /\ UNCHANGED <<now, rows>>

FindSensor(w) ==
    /\ Serve(w, "sensor")
    /\ IF sensorOwner[req[w].sensor] = req[w].user
       THEN Advance(w, "active")
       ELSE Reply(w)                    \* "Specified Sensor does not exist."
    /\ UNCHANGED <<now, rows>>

\* Faulty: refuses only a sensor already on this very batch.
CheckSameBatch(w) ==
    /\ Serve(w, "active")
    /\ IF \A i \in ActiveRows(req[w].sensor, req[w].user) : assoc[i].batch # req[w].batch
       THEN req' = [req EXCEPT ![w].step = "insert", ![w].since = now]
       ELSE Reply(w)
    /\ UNCHANGED <<now, rows>>

CheckActive(w) ==
    /\ Serve(w, "active")
    /\ IF ActiveRows(req[w].sensor, req[w].user) = {}
       THEN req' = [req EXCEPT ![w].step = "insert", ![w].since = now]
       ELSE Reply(w)                    \* "Sensor already associated to Batch."
    /\ UNCHANGED <<now, rows>>

\* Faulty: the columns have no foreign keys.
InsertUnchecked(w) ==
    /\ Serve(w, "insert")
    /\ Reply(w)
    /\ \E i \in AssocIds, t \in req[w].since .. now :
         /\ assoc[i] = Unborn
         /\ assoc' = [assoc EXCEPT ![i] =
              [batch |-> req[w].batch, sensor |-> req[w].sensor, at |-> t,
               dis |-> NULL, by |-> w]]
    /\ UNCHANGED <<now, users, batchOwner, sensorOwner>>

\* Faulty: associated_at is left at its zero value.
InsertUnstamped(w) ==
    /\ Serve(w, "insert")
    /\ Reply(w)
    /\ LET r == req[w] IN
         \/ /\ BatchExists(r.batch) /\ SensorExists(r.sensor)
            /\ \E i \in AssocIds :
                 /\ assoc[i] = Unborn
                 /\ assoc' = [assoc EXCEPT ![i] =
                      [batch |-> r.batch, sensor |-> r.sensor, at |-> 0,
                       dis |-> NULL, by |-> w]]
         \/ /\ ~(BatchExists(r.batch) /\ SensorExists(r.sensor))
            /\ UNCHANGED assoc
    /\ UNCHANGED <<now, users, batchOwner, sensorOwner>>

\* Faulty: an INSERT that is refused is tried again, from the check on.
InsertRetrying(w) ==
    /\ Serve(w, "insert")
    /\ LET r == req[w] IN
         \/ /\ BatchExists(r.batch) /\ SensorExists(r.sensor)
            /\ Reply(w)
            /\ \E i \in AssocIds, t \in r.since .. now :
                 /\ assoc[i] = Unborn
                 /\ assoc' = [assoc EXCEPT ![i] =
                      [batch |-> r.batch, sensor |-> r.sensor, at |-> t,
                       dis |-> NULL, by |-> w]]
         \/ /\ ~(BatchExists(r.batch) /\ SensorExists(r.sensor))
            /\ Advance(w, "active")
            /\ UNCHANGED assoc
    /\ UNCHANGED <<now, users, batchOwner, sensorOwner>>

\* associated_at is time.Now() in Go, read at some point since the check.  The
\* foreign keys refuse the row when the batch or the sensor has been deleted.
InsertAssociation(w) ==
    /\ Serve(w, "insert")
    /\ Reply(w)
    /\ LET r == req[w] IN
         \/ /\ BatchExists(r.batch) /\ SensorExists(r.sensor)
            /\ \E i \in AssocIds, t \in r.since .. now :
                 /\ assoc[i] = Unborn
                 /\ assoc' = [assoc EXCEPT ![i] =
                      [batch |-> r.batch, sensor |-> r.sensor, at |-> t,
                       dis |-> NULL, by |-> w]]
         \/ /\ ~(BatchExists(r.batch) /\ SensorExists(r.sensor))
            /\ UNCHANGED assoc
    /\ UNCHANGED <<now, users, batchOwner, sensorOwner>>

-----------------------------------------------------------------------------
(* updateBatchSensorAssociation *)

BeginUpdate(w) ==
    /\ Serve(w, "idle")
    /\ \E u \in Users, i \in AssocIds, at \in UpdateStarts, dis \in UpdateEnds :
         req' = [req EXCEPT ![w] = [step |-> "association", user |-> u, id |-> i,
                                    at |-> at, dis |-> dis]]
    /\ UNCHANGED <<now, rows>>

\* Faulty: the query does not filter by user.
FindAnyAssociation(w) ==
    /\ Serve(w, "association")
    /\ IF req[w].id \in Live THEN Advance(w, "update") ELSE Reply(w)
    /\ UNCHANGED <<now, rows>>

FindAssociation(w) ==
    /\ Serve(w, "association")
    /\ IF req[w].id \in Live /\ Visible(req[w].id, req[w].user)
       THEN Advance(w, "update")
       ELSE Reply(w)                    \* "BatchSensorAssociation does not exist."
    /\ UNCHANGED <<now, rows>>

\* Faulty: a closed association is deleted instead of kept as history.
UpdateForgets(w) ==
    /\ Serve(w, "update")
    /\ Reply(w)
    /\ IF req[w].id \in Live
       THEN assoc' = [assoc EXCEPT ![req[w].id] = Dead]
       ELSE UNCHANGED assoc
    /\ UNCHANGED <<now, users, batchOwner, sensorOwner>>

\* UPDATE ... WHERE id = ?: both ends of the interval come from the client and
\* are written together; batch_id and sensor_id are rewritten with the values
\* read, which nothing changes.  A row deleted since it was read is an error.
UpdateAssociation(w) ==
    /\ Serve(w, "update")
    /\ Reply(w)
    /\ LET r == req[w] IN
         IF r.id \in Live
         THEN assoc' = [assoc EXCEPT ![r.id].at = r.at, ![r.id].dis = r.dis]
         ELSE UNCHANGED assoc
    /\ UNCHANGED <<now, users, batchOwner, sensorOwner>>

-----------------------------------------------------------------------------
(* A statement fails (connection lost, database down) or the process dies:  *)
(* the request ends with an error reply or none.  A statement that had      *)
(* committed before its answer was lost is that statement's own action.     *)

Abort(w) ==
    /\ ~Serve(w, "idle")
    /\ Reply(w)
    /\ UNCHANGED <<now, rows>>

-----------------------------------------------------------------------------
(* Rows deleted by an operator, with the ON DELETE clauses of the schema.   *)

Orphan(owner, u) == [x \in DOMAIN owner |-> IF owner[x] = u THEN NULL ELSE owner[x]]

\* Faulty: the user_id columns have no foreign key.
DeleteUserAlone(u) ==
    /\ u \in users
    /\ users' = users \ {u}
    /\ UNCHANGED <<now, batchOwner, sensorOwner, assoc, req>>

DeleteUser(u) ==
    /\ u \in users
    /\ users' = users \ {u}
    /\ batchOwner' = Orphan(batchOwner, u)
    /\ sensorOwner' = Orphan(sensorOwner, u)
    /\ UNCHANGED <<now, assoc, req>>

Cascade(doomed) == [i \in AssocIds |-> IF i \in doomed THEN Dead ELSE assoc[i]]

DeleteBatch(b) ==
    /\ BatchExists(b)
    /\ batchOwner' = [batchOwner EXCEPT ![b] = Dead]
    /\ assoc' = Cascade({i \in Live : assoc[i].batch = b})
    /\ UNCHANGED <<now, users, sensorOwner, req>>

DeleteSensor(s) ==
    /\ SensorExists(s)
    /\ sensorOwner' = [sensorOwner EXCEPT ![s] = Dead]
    /\ assoc' = Cascade({i \in Live : assoc[i].sensor = s})
    /\ UNCHANGED <<now, users, batchOwner, req>>

Tick ==
    /\ now < MaxTime
    /\ now' = now + 1
    /\ UNCHANGED <<rows, req>>

-----------------------------------------------------------------------------

AssociateStep(w) ==
    BeginAssociate(w) \/ FindBatch(w) \/ FindSensor(w) \/ CheckActive(w)
        \/ InsertAssociation(w)

UpdateStep(w) == BeginUpdate(w) \/ FindAssociation(w) \/ UpdateAssociation(w)

RequestStep == \E w \in Workers : AssociateStep(w) \/ UpdateStep(w) \/ Abort(w)

CreateStep ==
    \E u \in Users : \/ \E b \in BatchIds : CreateBatch(u, b)
                     \/ \E s \in SensorIds : CreateSensor(u, s)

DeleteBatchStep == \E b \in BatchIds : DeleteBatch(b)
DeleteSensorStep == \E s \in SensorIds : DeleteSensor(s)
DeleteUserStep == \E u \in Users : DeleteUser(u)

Next ==
    \/ RequestStep
    \/ CreateStep
    \/ DeleteBatchStep \/ DeleteSensorStep \/ DeleteUserStep
    \/ Tick

Spec == Init /\ [][Next]_vars

-----------------------------------------------------------------------------
(* Properties *)

\* Every variable holds a value of its column's or local variable's type.
TypeOK ==
    /\ now \in Nat
    /\ users \subseteq Users
    /\ batchOwner \in [BatchIds -> Owner]
    /\ sensorOwner \in [SensorIds -> Owner]
    /\ assoc \in [AssocIds -> AssocRow \cup Absent]
    /\ req \in [Workers -> Request]

\* An association ties a batch and a sensor of the same user, whoever is
\* deleted while associateSensorToBatch runs between its three lookups: no
\* user's sensor ever monitors another user's batch, and no association
\* outlives its batch or its sensor.
OwnersAgree ==
    \A i \in Live :
        /\ BatchExists(assoc[i].batch)
        /\ batchOwner[assoc[i].batch] = sensorOwner[assoc[i].sensor]

Active(i) == i \in Live /\ assoc[i].dis = NULL
Owned(s) == sensorOwner[s] \in Users

\* What "Sensor already associated to Batch." promises: a sensor monitors at
\* most one batch at a time.
OneActivePerSensor ==
    \A i, j \in AssocIds :
        /\ Active(i) /\ Active(j)
        /\ assoc[i].sensor = assoc[j].sensor
        /\ Owned(assoc[i].sensor)
        => i = j

\* What the check before the INSERT gives without a transaction: a sensor has
\* never more open associations than there are requests served at one time,
\* because those of a single worker exclude one another.
OneActivePerWorker ==
    \A i, j \in AssocIds :
        /\ Active(i) /\ Active(j)
        /\ assoc[i].sensor = assoc[j].sensor
        /\ assoc[i].by = assoc[j].by
        /\ Owned(assoc[i].sensor)
        => i = j

\* The schema keeps associations "permanently": a row goes only with its batch
\* or its sensor, never comes back, and never moves to another pair.
HistoryPermanent ==
    [][\A i \in AssocIds :
         /\ i \in Live =>
              \/ i \in Live' /\ assoc'[i].batch = assoc[i].batch
                             /\ assoc'[i].sensor = assoc[i].sensor
              \/ batchOwner'[assoc[i].batch] = Dead
              \/ sensorOwner'[assoc[i].sensor] = Dead
         /\ assoc[i] = Dead => assoc'[i] = Dead]_vars

\* The interval of a row changes only by a request of the user who owns the
\* batch and the sensor, or owned them until the user was deleted.
OnlyOwnerRevises ==
    [][\A i \in Live :
         i \in Live' /\ assoc'[i] # assoc[i] =>
             \E w \in Workers :
                 /\ Serve(w, "update")
                 /\ req[w].id = i
                 /\ batchOwner[assoc[i].batch] \in {req[w].user, NULL}
                 /\ sensorOwner[assoc[i].sensor] \in {req[w].user, NULL}]_vars
-----------------------------------------------------------------------------
(* Why they hold: what a worker has read stays true until it acts on it.    *)

\* What a row owned by u when a worker read it can be later on.
StillOwned(owner, u) == owner \in (IF u \in users THEN {u, Dead} ELSE {NULL, Dead})

\* A foreign key: an owner is a user who exists.
OwnersExist ==
    /\ \A b \in BatchIds : batchOwner[b] \in Users => batchOwner[b] \in users
    /\ \A s \in SensorIds : sensorOwner[s] \in Users => sensorOwner[s] \in users

\* What worker w has found for its user is, at every later statement of the
\* request, still that user's unless it or the user has been deleted.
Remembers(w) ==
    LET r == req[w] IN
    /\ r.step \in {"sensor", "active", "insert"} =>
         StillOwned(batchOwner[r.batch], r.user)
    /\ r.step \in {"active", "insert"} =>
         StillOwned(sensorOwner[r.sensor], r.user)
    /\ r.step = "update" =>
         /\ assoc[r.id] # Unborn
         /\ r.id \in Live =>
              /\ StillOwned(batchOwner[assoc[r.id].batch], r.user)
              /\ StillOwned(sensorOwner[assoc[r.id].sensor], r.user)

\* No lookup of a request goes stale in a way that matters: ownership of what
\* it found never passes to somebody else.
LookupsHold == \A w \in Workers : Remembers(w)

\* Between the check and the INSERT no association opened by the same worker
\* turns up on the sensor.
CheckHolds ==
    \A w \in Workers, i \in AssocIds :
        /\ Serve(w, "insert") /\ Owned(req[w].sensor)
        /\ Active(i) /\ assoc[i].sensor = req[w].sensor
        => assoc[i].by # w

-----------------------------------------------------------------------------
(* The registry these requests implement                                   *)

Book ==
    [i \in AssocIds |->
        IF i \in Live
        THEN [batch |-> assoc[i].batch, sensor |-> assoc[i].sensor,
              open |-> assoc[i].dis = NULL, by |-> assoc[i].by]
        ELSE assoc[i]]

Registry == INSTANCE AssociationRegistry WITH Clients <- Workers, book <- Book

ASSUME EntryAssumption == Unborn \notin Registry!Entry /\ Dead \notin Registry!Entry

\* As long as clients only close associations, the statements of concurrent
\* requests have the effect of the registry's single steps.
ImplementsRegistry == Registry!Spec
=============================================================================
