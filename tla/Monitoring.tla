----------------------------- MODULE Monitoring -----------------------------
(***************************************************************************)
(* Temperature measurements and the batch each one belongs to.  A          *)
(* measurement row names a sensor and a time, never a batch: the batch is  *)
(* looked up among the sensor's associations whenever somebody asks, so it *)
(* depends on everything Associations lets happen before and after the     *)
(* measurement is stored.                                                  *)
(*                                                                         *)
(* Measurements arrive through POST /api/v1/measurement (REST) and through *)
(* createTemperatureMeasurement (GraphQL), each served by a goroutine of   *)
(* its own, a poster.  Temperatures, units and texts are left out.         *)
(***************************************************************************)
EXTENDS Associations

CONSTANTS
    MeasIds,        \* keys a measurement row can get
    Posters,        \* goroutines storing measurements
    RecordedTimes   \* values a client may send as recorded_at

ASSUME MonitoringAssumption == RecordedTimes \subseteq Nat /\ NULL \notin SensorIds

VARIABLES
    measured,       \* temperature_measurements rows
    post            \* the measurement each poster is storing

mvars == <<now, users, batchOwner, sensorOwner, assoc, req, measured, post>>

MeasRow == [user : Users \cup {NULL}, sensor : SensorIds \cup {NULL}, recorded : Nat]

ASSUME MeasRowAssumption == Unborn \notin MeasRow /\ Dead \notin MeasRow

\* recorded is NULL when a field of the request does not parse.
Arrived == [step : {"form", "resolve"}, user : Users, sensor : SensorIds,
            recorded : RecordedTimes \cup {NULL}]
Accepted == [step : {"insert"}, user : Users, sensor : SensorIds,
             recorded : RecordedTimes]

Stored == {m \in MeasIds : measured[m] \notin Absent}

-----------------------------------------------------------------------------
(* Which batch a measurement belongs to                                    *)

\* Faulty: the interval excludes its end.
CoversOpen(row, r) == row.at <= r /\ (row.dis = NULL \/ row.dis > r)

\* associated_at <= r AND (disassociated_at IS NULL OR disassociated_at >= r)
Covers(row, r) == row.at <= r /\ (row.dis = NULL \/ row.dis >= r)

\* The rows TemperatureMeasurement.Batch() joins; its LIMIT 1 without ORDER BY
\* returns the batch of any one of them.  A NULL sensor_id equals nothing.
Covering(m) ==
    {i \in Live : assoc[i].sensor = measured[m].sensor
                    /\ Covers(assoc[i], measured[m].recorded)}

BatchOf(m) == {assoc[i].batch : i \in Covering(m)}

\* The edges of temperatureMeasurements(batchId: b) for user u: one for each
\* joined pair of a measurement of u and an association of its sensor with b.
Listed(u, b) ==
    {e \in Stored \X Live :
        /\ measured[e[1]].user = u
        /\ measured[e[1]].sensor = assoc[e[2]].sensor
        /\ assoc[e[2]].batch = b
        /\ measured[e[1]].recorded >= assoc[e[2]].at
        /\ \/ assoc[e[2]].dis = NULL
           \/ measured[e[1]].recorded <= assoc[e[2]].dis}

-----------------------------------------------------------------------------
(* Storing a measurement                                                   *)

Posts(p, step) == post[p].step = step
Done(p) == post' = [post EXCEPT ![p] = Idle]

MInit ==
    /\ Init
    /\ measured = [m \in MeasIds |-> Unborn]
    /\ post = [p \in Posters |-> Idle]

\* The bound: nobody posts a measurement once the keys are used up.
KeyLeft == \E m \in MeasIds : measured[m] = Unborn

Arrive(p, step) ==
    /\ Posts(p, "idle")
    /\ KeyLeft
    /\ \E u \in Users, s \in SensorIds, r \in RecordedTimes \cup {NULL} :
         post' = [post EXCEPT ![p] = [step |-> step, user |-> u, sensor |-> s,
                                      recorded |-> r]]
    /\ UNCHANGED <<vars, measured>>

BeginForm(p) == Arrive(p, "form")
BeginCreate(p) == Arrive(p, "resolve")

\* Faulty: the query does not filter by user.
SensorKnown(p) == SensorExists(post[p].sensor)

SensorFound(p) == sensorOwner[post[p].sensor] = post[p].user

\* The form looks the sensor up whatever the other fields hold, and is valid
\* when nothing is wrong with any of them.
ValidateForm(p) ==
    /\ Posts(p, "form")
    /\ IF post[p].recorded # NULL /\ SensorFound(p)
       THEN post' = [post EXCEPT ![p].step = "insert"]
       ELSE Done(p)                     \* 400
    /\ UNCHANGED <<vars, measured>>

\* Faulty: the parse error is not returned.
ResolveUnparsed(p) ==
    /\ Posts(p, "resolve")
    /\ IF SensorFound(p) THEN post' = [post EXCEPT ![p].step = "insert"] ELSE Done(p)
    /\ UNCHANGED <<vars, measured>>

\* GraphQL refuses an unknown sensor first and an unparsable time second.
ResolveSensor(p) ==
    /\ Posts(p, "resolve")
    /\ \/ ~SensorFound(p) /\ Done(p)
       \/ SensorFound(p) /\ post[p].recorded = NULL /\ Done(p)
       \/ /\ SensorFound(p) /\ post[p].recorded # NULL
          /\ post' = [post EXCEPT ![p].step = "insert"]
    /\ UNCHANGED <<vars, measured>>

\* The foreign keys refuse the row when the user or the sensor has gone.
InsertMeasurement(p) ==
    /\ Posts(p, "insert")
    /\ Done(p)
    /\ LET r == post[p] IN
         \/ /\ r.user \in users /\ SensorExists(r.sensor)
            /\ \E m \in MeasIds :
                 /\ measured[m] = Unborn
                 /\ measured' = [measured EXCEPT ![m] =
                      [user |-> r.user, sensor |-> r.sensor, recorded |-> r.recorded]]
         \/ /\ ~(r.user \in users /\ SensorExists(r.sensor))
            /\ UNCHANGED measured
    /\ UNCHANGED vars

\* A failed statement, a lost connection or the end of the process.  A client
\* that gets no answer may send the same measurement again.
AbortPost(p) ==
    /\ ~Posts(p, "idle")
    /\ Done(p)
    /\ UNCHANGED <<vars, measured>>

PostStep ==
    \E p \in Posters :
        \/ BeginForm(p) \/ BeginCreate(p)
        \/ ValidateForm(p) \/ ResolveSensor(p)
        \/ InsertMeasurement(p) \/ AbortPost(p)

-----------------------------------------------------------------------------
(* Deletions reach the measurements too: ON DELETE SET NULL.                *)

\* Faulty: ON DELETE CASCADE.
Purge(field, x) ==
    [m \in MeasIds |->
        IF m \in Stored /\ measured[m][field] = x THEN Dead ELSE measured[m]]

Blank(field, x) ==
    [m \in MeasIds |->
        IF m \in Stored /\ measured[m][field] = x
        THEN [measured[m] EXCEPT ![field] = NULL]
        ELSE measured[m]]

MDeleteUser(u) ==
    DeleteUser(u) /\ measured' = Blank("user", u) /\ UNCHANGED post

MDeleteSensor(s) ==
    DeleteSensor(s) /\ measured' = Blank("sensor", s) /\ UNCHANGED post

MNext ==
    \/ (RequestStep \/ CreateStep \/ DeleteBatchStep \/ Tick) /\ UNCHANGED <<measured, post>>
    \/ \E u \in Users : MDeleteUser(u)
    \/ \E s \in SensorIds : MDeleteSensor(s)
    \/ PostStep

MSpec == MInit /\ [][MNext]_mvars

-----------------------------------------------------------------------------
(* Properties *)

\* Every row and every poster's local variables hold values of their types.
MTypeOK ==
    /\ TypeOK
    /\ measured \in [MeasIds -> MeasRow \cup Absent]
    /\ post \in [Posters -> Arrived \cup Accepted \cup {Idle}]

\* A measurement was taken by a sensor of the user it is stored for: no
\* interleaving of a lookup, deletions and the INSERT stores one for a sensor
\* of somebody else.
MeasurementOwnersAgree ==
    \A m \in Stored :
        measured[m].sensor # NULL =>
            sensorOwner[measured[m].sensor] = measured[m].user

\* The sensor a poster found for its user is still that user's at the INSERT,
\* unless it or the user has been deleted.
PostLookupsHold ==
    \A p \in Posters :
        Posts(p, "insert") => StillOwned(sensorOwner[post[p].sensor], post[p].user)

\* Batch() joins no user (see its TODO), and still never answers with a batch
\* of anybody but the measurement's own user.
NoForeignAttribution ==
    \A m \in Stored : \A b \in BatchOf(m) : batchOwner[b] = measured[m].user

\* Asking a measurement for its batch and asking a batch for its measurements
\* are two queries written apart; they agree, deleted rows included.
QueriesAgree ==
    \A u \in users, b \in BatchIds, m \in Stored :
        (\E i \in Live : <<m, i>> \in Listed(u, b))
            <=> measured[m].user = u /\ b \in BatchOf(m)

\* "The batch being monitored": a measurement belongs to one batch at most.
UniqueAttribution == \A m \in Stored : \A b, c \in BatchOf(m) : b = c

\* The batch of a stored measurement is history.  Only an update of an
\* association of its sensor rewrites it, and deletions blank it; a new
\* association takes a measurement only if it was recorded no earlier than the
\* check for an open association.
Revised(s) ==
    \E w \in Workers :
        UpdateAssociation(w) /\ req[w].id \in Live /\ assoc[req[w].id].sensor = s

MayGain(m, b) ==
    \/ Revised(measured[m].sensor)
    \/ \E w \in Workers :
         /\ Serve(w, "insert")
         /\ req[w].batch = b /\ req[w].sensor = measured[m].sensor
         /\ measured[m].recorded >= req[w].since

MayLose(m, b) ==
    \/ Revised(measured[m].sensor)
    \/ batchOwner'[b] = Dead \/ sensorOwner'[measured[m].sensor] = Dead

Explained(m) ==
    /\ \A b \in BatchOf(m)' \ BatchOf(m) : MayGain(m, b)
    /\ \A b \in BatchOf(m) \ BatchOf(m)' : MayLose(m, b)

AttributionStable == [][\A m \in Stored : Explained(m)]_mvars

\* A stored measurement stays, with its time, its user and its sensor, but for
\* the references that deletions blank.
MeasurementKept ==
    [][\A m \in Stored :
         /\ m \in Stored'
         /\ measured'[m].recorded = measured[m].recorded
         /\ measured'[m].user \in {measured[m].user} \cup (IF measured[m].user \in users' THEN {} ELSE {NULL})
         /\ \/ measured'[m].sensor = measured[m].sensor
            \/ measured'[m].sensor = NULL /\ sensorOwner'[measured[m].sensor] = Dead]_mvars
=============================================================================
