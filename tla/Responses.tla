----------------------------- MODULE Responses -----------------------------
(***************************************************************************)
(* Putting together the response to temperatureMeasurement(id: ...).  The  *)
(* measurement is one SELECT; its batch, its sensor and the creator of the *)
(* batch are looked up afterwards, each by a statement of its own, while   *)
(* other requests write and rows are deleted.                              *)
(*                                                                         *)
(* graphql-go resolves the fields of an object in goroutines of their own. *)
(* A document may ask for the batch several times under different aliases; *)
(* the measurement in memory remembers its batch in a field that nothing   *)
(* locks.                                                                  *)
(*                                                                         *)
(* A SELECT of a field may fail on its own: the field is then answered by  *)
(* null or an error, and the rest of the response goes out.                *)
(***************************************************************************)
EXTENDS Monitoring

CONSTANTS
    Readers,        \* requests for a measurement
    Aliases         \* the names under which the document asks for the batch

VARIABLE look       \* the response each reader is putting together

rvars == <<now, users, batchOwner, sensorOwner, assoc, req, measured, post, look>>

\* A batch as SELECT b.* reads it: CreatedBy is nil, UserId is the column.
BatchRead == [batch : BatchIds, owner : Users \cup {NULL}]

\* own: the field found nothing remembered.  creator: what createdBy gave.  A
\* lookup that failed is answered like one that found no row; "failed" tells
\* them apart, as only the log and the text of an error do.
Field == [step : {"check", "query", "store", "return", "creator", "done"},
          found : BatchRead \cup {NULL}, own : BOOLEAN,
          creator : {"unasked", "user", "error", "failed", "panic"}]

\* sensor: the owner of the sensor shown, or "null", or "failed".
Response ==
    [step : {"resolve"}, user : Users, node : MeasRow,
     batch : BatchRead \cup {NULL}, field : [Aliases -> Field],
     sensor : Users \cup {"todo", "null", "failed"}]

Query == [step : {"load"}, user : Users, meas : MeasIds]

ASSUME ResponseAssumption ==
    /\ NULL \notin BatchRead
    /\ {"todo", "null", "failed"} \cap Users = {}

NewField == [step |-> "check", found |-> NULL, own |-> FALSE, creator |-> "unasked"]

At(r, f, step) == look[r].step = "resolve" /\ look[r].field[f].step = step

\* Field f of reader r goes on with the given values.
Set(r, f, value) == look' = [look EXCEPT ![r].field[f] = value]

RInit == MInit /\ look = [r \in Readers |-> Idle]

-----------------------------------------------------------------------------
(* The measurement                                                         *)

Ask(r) ==
    /\ look[r].step = "idle"
    /\ \E u \in Users, m \in MeasIds :
         look' = [look EXCEPT ![r] = [step |-> "load", user |-> u, meas |-> m]]
    /\ UNCHANGED mvars

\* FindTemperatureMeasurement by id and user.
Load(r) ==
    /\ look[r].step = "load"
    /\ IF look[r].meas \in Stored /\ measured[look[r].meas].user = look[r].user
       THEN look' = [look EXCEPT ![r] =
                [step |-> "resolve", user |-> look[r].user, node |-> measured[look[r].meas],
                 batch |-> NULL, field |-> [f \in Aliases |-> NewField],
                 sensor |-> "todo"]]
       ELSE look' = [look EXCEPT ![r] = Idle]
    /\ UNCHANGED mvars

-----------------------------------------------------------------------------
(* batch: TemperatureMeasurement.Batch() under each alias                   *)

\* if tm.batch == nil
CheckRemembered(r, f) ==
    /\ At(r, f, "check")
    /\ IF look[r].batch = NULL
       THEN Set(r, f, [look[r].field[f] EXCEPT !.step = "query", !.own = TRUE])
       ELSE Set(r, f, [look[r].field[f] EXCEPT !.step = "return"])
    /\ UNCHANGED mvars

\* The associations that cover the measurement as it was loaded.
CoveringNode(node) ==
    {i \in Live : assoc[i].sensor = node.sensor /\ Covers(assoc[i], node.recorded)}

\* Faulty: the error of the SELECT is not looked at, and without a row the empty
\* batch remembered.
QueryUnchecked(r, f) ==
    /\ At(r, f, "query")
    /\ \E b \in {NULL} \cup {assoc[i].batch : i \in CoveringNode(look[r].node)} :
         Set(r, f, [look[r].field[f] EXCEPT
             !.step = "store",
             !.found = [batch |-> b, owner |-> IF b = NULL THEN NULL ELSE batchOwner[b]]])
    /\ UNCHANGED mvars

\* LIMIT 1 without ORDER BY: any one of the rows.  No row is an error like that
\* of a SELECT that fails, which it may at any time: logged and answered by null.
QueryBatch(r, f) ==
    /\ At(r, f, "query")
    /\ \/ Set(r, f, [look[r].field[f] EXCEPT !.step = "done"])
       \/ \E i \in CoveringNode(look[r].node) :
            Set(r, f, [look[r].field[f] EXCEPT
                !.step = "store",
                !.found = [batch |-> assoc[i].batch, owner |-> batchOwner[assoc[i].batch]]])
    /\ UNCHANGED mvars

\* tm.batch = &b
Remember(r, f) ==
    /\ At(r, f, "store")
    /\ look' = [look EXCEPT ![r].batch = look[r].field[f].found,
                            ![r].field[f].step = "return"]
    /\ UNCHANGED mvars

\* Faulty: only the key is remembered, and its row read once more.
ReturnFresh(r, f) ==
    /\ At(r, f, "return")
    /\ LET b == look[r].batch.batch IN
         Set(r, f, [look[r].field[f] EXCEPT
             !.step = "creator",
             !.found = [batch |-> b, owner |-> batchOwner[b]]])
    /\ UNCHANGED mvars

\* return tm.batch: what is remembered by now, perhaps by another field; or,
\* without a lock, the value this goroutine has just stored.
Return(r, f) ==
    /\ At(r, f, "return")
    /\ \E b \in {look[r].batch} \cup ({look[r].field[f].found} \ {NULL}) :
         Set(r, f, [look[r].field[f] EXCEPT !.step = "creator", !.found = b])
    /\ UNCHANGED mvars

\* What FindUser answers for the key of a batch: the user, or an error that tells
\* that there is none, or one of the database.
CreatorAnswers(owner) == {"failed", IF owner \in users THEN "user" ELSE "error"}

\* batch { createdBy }: a NULL user_id is dereferenced, and the panic recovered
\* by graphql-go, before there is any statement that could fail.
FindCreator(r, f) ==
    /\ At(r, f, "creator")
    /\ LET owner == look[r].field[f].found.owner IN
         \E c \in IF owner = NULL THEN {"panic"} ELSE CreatorAnswers(owner) :
             Set(r, f, [look[r].field[f] EXCEPT !.step = "done", !.creator = c])
    /\ UNCHANGED mvars

-----------------------------------------------------------------------------
(* sensor: FindSensor by id alone                                          *)

\* Without a sensor_id there is no statement.  The user is joined for every
\* sensor, and the NULLs of an ownerless one do not fit the User: it is answered
\* by null like one that has gone, or one whose SELECT failed.
NodeSensorAnswers(s) ==
    IF s = NULL THEN {"null"}
    ELSE {"failed", IF sensorOwner[s] \in Users THEN sensorOwner[s] ELSE "null"}

FindNodeSensor(r) ==
    /\ look[r].step = "resolve" /\ look[r].sensor = "todo"
    /\ \E x \in NodeSensorAnswers(look[r].node.sensor) :
         look' = [look EXCEPT ![r].sensor = x]
    /\ UNCHANGED mvars

\* The response goes out when every field has its value; or it never does.
Send(r) ==
    /\ look[r].step = "resolve"
    /\ look[r].sensor # "todo"
    /\ \A f \in Aliases : look[r].field[f].step = "done"
    /\ look' = [look EXCEPT ![r] = Idle]
    /\ UNCHANGED mvars

Lose(r) ==
    /\ look[r].step # "idle"
    /\ look' = [look EXCEPT ![r] = Idle]
    /\ UNCHANGED mvars

FieldStep(r, f) ==
    CheckRemembered(r, f) \/ QueryBatch(r, f) \/ Remember(r, f) \/ Return(r, f)
        \/ FindCreator(r, f)

RNext ==
    \/ MNext /\ UNCHANGED look
    \/ \E r \in Readers :
         \/ Ask(r) \/ Load(r) \/ FindNodeSensor(r) \/ Send(r) \/ Lose(r)
         \/ \E f \in Aliases : FieldStep(r, f)

RSpec == RInit /\ [][RNext]_rvars

-----------------------------------------------------------------------------
(* Properties *)

\* Every response in the making holds values of its fields' types.
RTypeOK == look \in [Readers -> {Idle} \cup Query \cup Response]

\* What a user may find under a field: the user's own, or, after the user was
\* deleted, what has no owner any more.
Own(owner, u) == owner = u \/ (owner = NULL /\ u \notin users)

\* Neither Batch() nor the lookup of the sensor filters by user; still a
\* response never shows anybody else's batch or sensor.
ResponseOwn ==
    \A r \in Readers :
        look[r].step = "resolve" =>
            /\ look[r].sensor \in {look[r].user, "todo", "null", "failed"}
            /\ \A f \in Aliases :
                 LET b == look[r].field[f].found IN b # NULL => Own(b.owner, look[r].user)

\* Unless a field's own SELECT fails, it comes out wrong only because something
\* was deleted under the response: createdBy of a batch when the user was, the
\* sensor of a measurement when it or the user was.  The failure of one field is
\* no other's: a batch that could not be read leaves nothing behind from which a
\* creator would be looked up.
FailuresExplained ==
    \A r \in Readers :
        look[r].step = "resolve" =>
            /\ \A f \in Aliases :
                 look[r].field[f].creator \in {"error", "panic"} =>
                     look[r].user \notin users
            /\ look[r].sensor = "null" =>
                 \/ look[r].user \notin users
                 \/ look[r].node.sensor = NULL
                 \/ sensorOwner[look[r].node.sensor] = Dead

\* "Forcing use of Batch() enforces consistency": aliases show different
\* batches only if two of the fields looked before either had remembered its
\* batch, and each was given one.  Otherwise one query answers all that are
\* answered, however many SELECTs fail beside it.
AliasesAgreeUnlessRaced ==
    \A r \in Readers, f, g \in Aliases :
        /\ At(r, f, "done") /\ At(r, g, "done")
        /\ NULL \notin {look[r].field[f].found, look[r].field[g].found}
        /\ look[r].field[f].found # look[r].field[g].found
        => \E p, q \in Aliases :
             /\ p # q
             /\ \A h \in {p, q} : look[r].field[h].own /\ look[r].field[h].found # NULL
=============================================================================
