--------------------------- MODULE ResponsesProofs ---------------------------
(***************************************************************************)
(* What a response shows, for any number of readers, aliases, users, rows, *)
(* posters and workers.                                                    *)
(***************************************************************************)
EXTENDS Responses, MonitoringProofs

-----------------------------------------------------------------------------
(* Readers change nothing                                                  *)

LEMMA ResponsesStep == [RNext]_rvars => [MNext]_mvars
BY DEF RNext, Ask, Load, FindNodeSensor, Send, Lose, FieldStep, CheckRemembered,
       QueryBatch, Remember, Return, FindCreator, rvars, mvars

\* Readers are no steps of Monitoring: what is proved of it holds beside them.
THEOREM ResponsesRefineMonitoring == RSpec => MSpec
<1>1. RInit => MInit
  BY DEF RInit
<1> QED
  BY <1>1, ResponsesStep, PTL DEF RSpec, MSpec

-----------------------------------------------------------------------------
(* Types *)

LEMMA FieldTypes ==
    ASSUME RTypeOK, NEW r \in Readers, look[r].step = "resolve", NEW f \in Aliases
    PROVE  look[r] \in Response /\ look[r].field[f] \in Field
BY DEF RTypeOK, Query, Idle, Response

\* Reader r's field f becomes x, and b what is remembered.
Becomes(r, f, x, b) ==
    /\ look[r].step = "resolve"
    /\ x \in Field /\ b \in BatchRead \cup {NULL}
    /\ look' = [look EXCEPT ![r] = [look[r] EXCEPT !.batch = b, !.field[f] = x]]

\* The rest of a field's values.
Keeps(x, o) == x.found = o.found /\ x.own = o.own /\ x.creator = o.creator

Found(i) == [batch |-> assoc[i].batch, owner |-> batchOwner[assoc[i].batch]]

\* What one statement does to the field o of v.
Change(v, o, x, b) ==
    \/ /\ o.step = "check" /\ v.batch = NULL /\ b = NULL
       /\ x.step = "query" /\ x.own = TRUE /\ x.found = o.found /\ x.creator = o.creator
    \/ /\ o.step = "check" /\ v.batch # NULL /\ b = v.batch
       /\ x.step = "return" /\ Keeps(x, o)
    \/ /\ o.step = "query" /\ b = v.batch
       /\ x.step = "done" /\ Keeps(x, o)
    \/ /\ o.step = "query" /\ b = v.batch
       /\ x.found # NULL /\ \E i \in CoveringNode(v.node) : x.found = Found(i)
       /\ x.step = "store" /\ x.own = o.own /\ x.creator = o.creator
    \/ /\ o.step = "store" /\ b = o.found
       /\ x.step = "return" /\ Keeps(x, o)
    \/ /\ o.step = "return" /\ b = v.batch
       /\ x.found \in {v.batch} \cup ({o.found} \ {NULL})
       /\ x.step = "creator" /\ x.own = o.own /\ x.creator = o.creator
    \/ /\ o.step = "creator" /\ b = v.batch
       /\ x.step = "done" /\ x.found = o.found /\ x.own = o.own
       /\ x.creator \in {"error", "panic"} =>
            o.found.owner = NULL \/ o.found.owner \notin users

\* Every field has been found before it is shown or remembered.
Filled(v) ==
    \A f \in Aliases :
        /\ v.field[f].step \in {"store", "creator"} => v.field[f].found # NULL
        /\ v.field[f].step = "return" => v.batch # NULL

LEMMA FieldSteps ==
    ASSUME OwnershipInv, RTypeOK, NEW r \in Readers, NEW f \in Aliases,
           FieldStep(r, f), Filled(look[r])
    PROVE  \E x, b : Becomes(r, f, x, b) /\ Change(look[r], look[r].field[f], x, b)
<1> DEFINE v == look[r]
           o == look[r].field[f]
<1>1. v.step = "resolve"
  BY DEF FieldStep, CheckRemembered, QueryBatch, Remember, Return, FindCreator, At
<1>2. v \in Response /\ o \in Field
  BY <1>1, FieldTypes
<1>3. ASSUME NEW x \in Field, Set(r, f, x)
      PROVE  Becomes(r, f, x, v.batch)
  BY <1>1, <1>2, <1>3 DEF Set, Becomes, Response, RTypeOK
<1>4. CASE CheckRemembered(r, f)
  <2>1. CASE v.batch = NULL
    <3> DEFINE x == [o EXCEPT !.step = "query", !.own = TRUE]
    <3>1. x \in Field /\ Change(v, o, x, v.batch)
      BY <1>2, <1>4, <2>1 DEF Field, Change, CheckRemembered, At
    <3>2. Set(r, f, x)
      BY <1>4, <2>1 DEF CheckRemembered
    <3> HIDE DEF x, v, o
    <3> QED
      BY <1>3, <3>1, <3>2 DEF v, o
  <2>2. CASE v.batch # NULL
    <3> DEFINE x == [o EXCEPT !.step = "return"]
    <3>1. x \in Field /\ Change(v, o, x, v.batch)
      BY <1>2, <1>4, <2>2 DEF Field, Change, CheckRemembered, At, Keeps
    <3>2. Set(r, f, x)
      BY <1>4, <2>2 DEF CheckRemembered
    <3> HIDE DEF x, v, o
    <3> QED
      BY <1>3, <3>1, <3>2 DEF v, o
  <2> QED
    BY <2>1, <2>2
<1>5. CASE QueryBatch(r, f)
  <2>1. ASSUME Set(r, f, [o EXCEPT !.step = "done"])
        PROVE  \E x, b : Becomes(r, f, x, b) /\ Change(v, o, x, b)
    <3> DEFINE x == [o EXCEPT !.step = "done"]
    <3>1. x \in Field /\ Change(v, o, x, v.batch)
      BY <1>2, <1>5 DEF Field, Change, QueryBatch, At, Keeps
    <3> HIDE DEF x, v, o
    <3> QED
      BY <1>3, <2>1, <3>1 DEF x, v, o
  <2>2. ASSUME NEW i \in CoveringNode(v.node),
               Set(r, f, [o EXCEPT !.step = "store", !.found = Found(i)])
        PROVE  \E x, b : Becomes(r, f, x, b) /\ Change(v, o, x, b)
    <3> DEFINE x == [o EXCEPT !.step = "store", !.found = Found(i)]
    <3>1. /\ assoc[i].batch \in BatchIds
          /\ batchOwner[assoc[i].batch] \in Owner
      BY DEF CoveringNode, Live, OwnershipInv, TypeOK, AssocRow
    <3>2. batchOwner[assoc[i].batch] \notin Absent
      BY DEF CoveringNode, OwnershipInv, OwnersAgree, BatchExists
    <3>3. Found(i) \in BatchRead
      BY <3>1, <3>2 DEF Found, BatchRead, Owner
    <3>4. x \in Field /\ Change(v, o, x, v.batch)
      BY <1>2, <1>5, <3>3, ResponseAssumption DEF Field, Change, QueryBatch, At
    <3> HIDE DEF x, v, o
    <3> QED
      BY <1>3, <2>2, <3>4 DEF x, v, o
  <2> QED
    BY <1>5, <2>1, <2>2 DEF QueryBatch, Found
<1>6. CASE Remember(r, f)
  <2> DEFINE x == [o EXCEPT !.step = "return"]
  <2>1. x \in Field /\ Change(v, o, x, o.found)
    BY <1>2, <1>6 DEF Field, Change, Remember, At, Keeps
  <2>2. [v EXCEPT !.batch = o.found, !.field[f].step = "return"]
            = [v EXCEPT !.batch = o.found, !.field[f] = x]
    BY <1>2 DEF Response
  <2>3. look' = [look EXCEPT ![r] = [v EXCEPT !.batch = o.found, !.field[f].step = "return"]]
    BY <1>6 DEF Remember, RTypeOK
  <2>4. o.found \in BatchRead \cup {NULL}
    BY <1>2 DEF Field
  <2>5. Becomes(r, f, x, o.found)
    BY <1>1, <2>1, <2>2, <2>3, <2>4 DEF Becomes
  <2> QED
    BY <2>1, <2>5
<1>7. CASE Return(r, f)
  <2>1. PICK b \in {v.batch} \cup ({o.found} \ {NULL}) :
            Set(r, f, [o EXCEPT !.step = "creator", !.found = b])
    BY <1>7 DEF Return
  <2> DEFINE x == [o EXCEPT !.step = "creator", !.found = b]
  <2>2. b \in BatchRead \cup {NULL}
    BY <1>2, <2>1 DEF Field, Response
  <2>3. x \in Field /\ Change(v, o, x, v.batch)
    BY <1>2, <1>7, <2>1, <2>2 DEF Field, Change, Return, At
  <2> HIDE DEF x, v, o
  <2> QED
    BY <1>3, <2>1, <2>3 DEF x, v, o
<1>8. CASE FindCreator(r, f)
  <2>1. PICK c \in IF o.found.owner = NULL THEN {"panic"} ELSE CreatorAnswers(o.found.owner) :
            Set(r, f, [o EXCEPT !.step = "done", !.creator = c])
    BY <1>8 DEF FindCreator
  <2>2. /\ c \in {"user", "error", "failed", "panic"}
        /\ c \in {"error", "panic"} => o.found.owner = NULL \/ o.found.owner \notin users
    BY <2>1 DEF CreatorAnswers
  <2> DEFINE x == [o EXCEPT !.step = "done", !.creator = c]
  <2>3. x \in Field
    BY <1>2, <2>2 DEF Field
  <2>4. x.creator = c /\ x.step = "done" /\ x.found = o.found /\ x.own = o.own
    BY <1>2 DEF Field
  <2>5. Change(v, o, x, v.batch)
    BY <1>8, <2>2, <2>4 DEF Change, FindCreator, At
  <2> HIDE DEF x, v, o
  <2> QED
    BY <1>3, <2>1, <2>3, <2>5 DEF x, v, o
<1> QED
  BY <1>4, <1>5, <1>6, <1>7, <1>8 DEF FieldStep

-----------------------------------------------------------------------------
(* What a response holds                                                   *)

\* The sensor of the node, and what is shown for it, are the reader's own, and
\* null only when a deletion explains it.
SensorInv(v) ==
    /\ v.node.sensor # NULL => StillOwned(sensorOwner[v.node.sensor], v.user)
    /\ v.sensor \in {v.user, "todo", "null", "failed"}
    /\ v.sensor = "null" =>
         \/ v.user \notin users \/ v.node.sensor = NULL
         \/ sensorOwner[v.node.sensor] = Dead

\* What is found and remembered is the reader's own.
FieldInv(v, o) ==
    /\ o.found # NULL => Own(o.found.owner, v.user)
    /\ o.creator \in {"error", "panic"} => v.user \notin users

BatchInv(v) ==
    /\ v.batch # NULL => Own(v.batch.owner, v.user)
    /\ \A f \in Aliases : FieldInv(v, v.field[f])

\* A field that has asked the database and was given a batch; it is past storing it.
Gave(o) == o.own /\ o.found # NULL

Asked(o) == Gave(o) /\ o.step \notin {"check", "query", "store"}

\* Who remembered what: only a field that found nothing remembered asks the
\* database, and as long as one such at most was given a batch, all have that.
Single(v) == \A p, q \in Aliases : Gave(v.field[p]) /\ Gave(v.field[q]) => p = q

MemoryInv(v) ==
    /\ \A f \in Aliases :
         /\ v.field[f].step \in {"query", "store"} => v.field[f].own
         /\ v.field[f].step \in {"check", "query"} => v.field[f].found = NULL
    /\ v.batch = NULL =>
         \A f \in Aliases : v.field[f].found # NULL => v.field[f].step = "store"
    /\ v.batch # NULL => \E f \in Aliases : Asked(v.field[f])
    /\ Single(v) =>
         \A f \in Aliases :
             \/ v.field[f].found \in {NULL, v.batch}
             \/ v.field[f].step = "store" /\ v.batch = NULL

ReaderInv(v) ==
    v.step = "resolve" => SensorInv(v) /\ BatchInv(v) /\ Filled(v) /\ MemoryInv(v)

ResponseInv == MeasurementInv /\ RTypeOK /\ \A r \in Readers : ReaderInv(look[r])

\* Deletions are for good.
LEMMA GoneForGood ==
    ASSUME OwnershipInv, [Next]_vars
    PROVE  /\ users' \subseteq users
           /\ \A s \in SensorIds : sensorOwner[s] = Dead => sensorOwner'[s] = Dead
<1>1. TypeOK
  BY DEF OwnershipInv
<1>2. ASSUME NEW u \in Users, DeleteUser(u)
      PROVE  /\ users' \subseteq users
             /\ \A s \in SensorIds : sensorOwner[s] = Dead => sensorOwner'[s] = Dead
  BY <1>1, <1>2, SentinelAssumption DEF DeleteUser, Orphan, TypeOK
<1>3. ASSUME NEW s \in SensorIds, DeleteSensor(s)
      PROVE  /\ users' = users
             /\ \A x \in SensorIds : sensorOwner[x] = Dead => sensorOwner'[x] = Dead
  BY <1>1, <1>3 DEF DeleteSensor, TypeOK
<1>4. ASSUME NEW u \in Users, NEW s \in SensorIds, CreateSensor(u, s)
      PROVE  /\ users' = users
             /\ \A x \in SensorIds : sensorOwner[x] = Dead => sensorOwner'[x] = Dead
  BY <1>1, <1>4, SentinelAssumption DEF CreateSensor, TypeOK
<1> QED
  BY <1>2, <1>3, <1>4
     DEF Next, RequestStep, AssociateStep, UpdateStep, CreateStep, DeleteBatchStep,
         DeleteSensorStep, DeleteUserStep, CreateBatch, BeginAssociate, FindBatch,
         FindSensor, CheckActive, InsertAssociation, BeginUpdate, FindAssociation,
         UpdateAssociation, Abort, DeleteBatch, Tick, vars, rows

LEMMA ResponseTyped ==
    ASSUME RTypeOK, NEW r \in Readers, look[r].step = "resolve"
    PROVE  /\ look[r] \in Response
           /\ look[r].user \in Users /\ look[r].node \in MeasRow
           /\ look[r].node.sensor \in SensorIds \cup {NULL}
           /\ \A f \in Aliases : look[r].field[f] \in Field
           /\ DOMAIN look[r].field = Aliases
BY FieldTypes DEF Response, MeasRow, RTypeOK, Query, Idle

\* Whatever others do, a response in the making stays as it should be.
LEMMA WaitingReader ==
    ASSUME ResponseInv, [RNext]_rvars, NEW r \in Readers, look'[r] = look[r]
    PROVE  ReaderInv(look[r])'
<1> DEFINE v == look[r]
<1> SUFFICES ASSUME v.step = "resolve"
             PROVE  SensorInv(look[r])' /\ BatchInv(look[r])' /\ Filled(look[r])'
                        /\ MemoryInv(look[r])'
  BY DEF ReaderInv
<1>1. OwnershipInv /\ [Next]_vars /\ RTypeOK /\ ReaderInv(v)
  BY ResponsesStep, MonitoringStep DEF ResponseInv, MeasurementInv
<1>2. SensorInv(v) /\ BatchInv(v) /\ Filled(v) /\ MemoryInv(v)
  BY <1>1 DEF ReaderInv
<1>3. /\ users' \subseteq users
      /\ \A s \in SensorIds : sensorOwner[s] = Dead => sensorOwner'[s] = Dead
  BY <1>1, GoneForGood
<1>4. PICK u \in Users, s \in SensorIds \cup {NULL} : v.user = u /\ v.node.sensor = s
  BY <1>1, ResponseTyped
<1>5. s # NULL => StillOwned(sensorOwner[s], u)'
  BY <1>1, <1>2, <1>4, SensorOwnerSteps DEF SensorInv
<1>6. SensorInv(look[r])'
  BY <1>2, <1>3, <1>4, <1>5 DEF SensorInv, StillOwned
<1>7. BatchInv(look[r])'
  <2>1. \A owner : Own(owner, u) => Own(owner, u)'
    BY <1>3 DEF Own
  <2>2. v.batch # NULL => Own(v.batch.owner, u)'
    BY <1>2, <1>4, <2>1 DEF BatchInv
  <2>3. ASSUME NEW f \in Aliases
        PROVE  FieldInv(v, v.field[f])'
    <3>1. FieldInv(v, v.field[f])
      BY <1>2 DEF BatchInv
    <3> QED
      BY <1>3, <1>4, <2>1, <3>1 DEF FieldInv, Own
  <2> QED
    BY <1>4, <2>2, <2>3 DEF BatchInv, Own, FieldInv
<1>8. Filled(look[r])' /\ MemoryInv(look[r])'
  BY <1>2 DEF Filled, MemoryInv, Single, Gave, Asked
<1> QED
  BY <1>6, <1>7, <1>8

\* What covers a measurement of the reader's is a batch of the reader's.
LEMMA CoveringOwn ==
    ASSUME ResponseInv, NEW r \in Readers, look[r].step = "resolve",
           NEW i \in CoveringNode(look[r].node)
    PROVE  Own(Found(i).owner, look[r].user)
<1>1. OwnershipInv /\ SensorInv(look[r]) /\ RTypeOK
  BY DEF ResponseInv, ReaderInv, MeasurementInv
<1>2. i \in Live /\ assoc[i] \in AssocRow /\ assoc[i].sensor = look[r].node.sensor
  BY <1>1 DEF CoveringNode, OwnershipInv, TypeOK, Live
<1>3. /\ batchOwner[assoc[i].batch] \notin Absent
      /\ batchOwner[assoc[i].batch] = sensorOwner[look[r].node.sensor]
  BY <1>1, <1>2 DEF OwnershipInv, OwnersAgree, BatchExists
<1>4. look[r].node.sensor # NULL
  BY <1>2, MonitoringAssumption DEF AssocRow
<1> QED
  BY <1>1, <1>3, <1>4 DEF SensorInv, StillOwned, Own, Found, Absent

\* One field at a time.
LEMMA FieldReader ==
    ASSUME ResponseInv, NEW r \in Readers, NEW f \in Aliases, FieldStep(r, f)
    PROVE  ReaderInv(look[r])'
<1> DEFINE v == look[r]
           o == look[r].field[f]
<1>1. v.step = "resolve"
  BY DEF FieldStep, CheckRemembered, QueryBatch, Remember, Return, FindCreator, At
<1>2. /\ OwnershipInv /\ RTypeOK /\ SensorInv(v) /\ BatchInv(v) /\ Filled(v) /\ MemoryInv(v)
      /\ v \in Response /\ o \in Field /\ v.user \in Users
  BY <1>1, ResponseTyped DEF ResponseInv, MeasurementInv, ReaderInv
<1>3. PICK x, b : Becomes(r, f, x, b) /\ Change(v, o, x, b)
  BY <1>2, FieldSteps
<1>4. UNCHANGED mvars
  BY DEF FieldStep, CheckRemembered, QueryBatch, Remember, Return, FindCreator
<1> DEFINE n == look'[r]
<1>5. /\ n = [v EXCEPT !.batch = b, !.field[f] = x]
      /\ n.step = v.step /\ n.user = v.user /\ n.node = v.node /\ n.sensor = v.sensor
      /\ n.batch = b /\ n.field[f] = x
      /\ \A g \in Aliases : g # f => n.field[g] = v.field[g]
  BY <1>2, <1>3 DEF Becomes, RTypeOK, Response
<1> HIDE DEF n
<1>6. SensorInv(n) /\ SensorInv(look[r])' = SensorInv(n)
  BY <1>2, <1>4, <1>5 DEF SensorInv, StillOwned, mvars, n
<1>7. FieldInv(n, x)
  <2>1. FieldInv(v, o)
    BY <1>2 DEF BatchInv
  <2>2. v.batch # NULL => Own(v.batch.owner, v.user)
    BY <1>2 DEF BatchInv
  <2>3. o.step = "creator" => o.found # NULL
    BY <1>2 DEF Filled
  <2>4. o.step = "return" => v.batch # NULL
    BY <1>2 DEF Filled
  <2>5. \A i \in CoveringNode(v.node) : Own(Found(i).owner, v.user)
    BY <1>1, CoveringOwn
  <2> QED
    BY <1>2, <1>3, <1>5, <2>1, <2>2, <2>3, <2>4, <2>5, SentinelAssumption
       DEF Change, Keeps, FieldInv, Own
<1>8. BatchInv(n)
  <2>1. b # NULL => Own(b.owner, v.user)
    BY <1>2, <1>3 DEF Change, BatchInv, FieldInv
  <2>2. ASSUME NEW g \in Aliases, g # f
        PROVE  FieldInv(n, n.field[g])
    BY <1>2, <1>5, <2>2 DEF BatchInv, FieldInv
  <2> QED
    BY <1>5, <1>7, <2>1, <2>2 DEF BatchInv
<1>9. Filled(n)
  <2>1. v.batch # NULL => b # NULL
    BY <1>2, <1>3 DEF Change, Filled
  <2>2. x.step \in {"store", "creator"} => x.found # NULL
    BY <1>2, <1>3 DEF Change, Filled
  <2>3. x.step = "return" => b # NULL
    BY <1>2, <1>3 DEF Change, Filled
  <2> QED
    BY <1>2, <1>5, <2>1, <2>2, <2>3 DEF Filled
<1>10. MemoryInv(n)
  <2>1. /\ o.own => x.own
        /\ o.found # NULL => x.found # NULL
        /\ x.step \in {"query", "store"} => x.own
        /\ x.step \in {"check", "query"} => x.found = NULL
        /\ x.step \in {"check", "query", "store"} => o.step \in {"check", "query", "store"}
    BY <1>2, <1>3 DEF MemoryInv, Change, Keeps, Filled
  <2>2. ASSUME b = NULL, NEW g \in Aliases, n.field[g].found # NULL
        PROVE  n.field[g].step = "store"
    BY <1>2, <1>3, <1>5, <2>2 DEF MemoryInv, Change, Keeps, Filled
  <2>3. ASSUME b # NULL
        PROVE  \E g \in Aliases : Asked(n.field[g])
    <3>1. CASE o.step = "store"
      <4>1. x.step = "return" /\ Keeps(x, o)
        BY <1>3, <3>1 DEF Change
      <4>2. o.own /\ o.found # NULL
        BY <1>2, <3>1 DEF MemoryInv, Filled
      <4> QED
        BY <1>5, <4>1, <4>2 DEF Keeps, Gave, Asked
    <3>2. CASE o.step # "store"
      <4>1. v.batch # NULL
        BY <1>3, <2>3, <3>2 DEF Change
      <4>2. PICK g \in Aliases : Asked(v.field[g])
        BY <1>2, <4>1 DEF MemoryInv
      <4>3. Asked(n.field[g])
        BY <1>5, <2>1, <4>2 DEF Gave, Asked
      <4> QED
        BY <4>3
    <3> QED
      BY <3>1, <3>2
  <2>4. \A g \in Aliases : Gave(v.field[g]) => Gave(n.field[g])
    BY <1>5, <2>1 DEF Gave
  <2>5. ASSUME Single(n), NEW g \in Aliases
        PROVE  \/ n.field[g].found \in {NULL, b}
               \/ n.field[g].step = "store" /\ b = NULL
    <3>1. Single(v)
      BY <2>4, <2>5 DEF Single
    <3>2. \/ v.field[g].found \in {NULL, v.batch}
          \/ v.field[g].step = "store" /\ v.batch = NULL
      BY <1>2, <3>1 DEF MemoryInv
    <3>3. CASE o.step \in {"query", "store"} /\ x.step # "done"
      <4>1. Gave(x)
        BY <1>2, <1>3, <3>3 DEF MemoryInv, Filled, Change, Keeps, Gave
      <4>2. \A h \in Aliases : Gave(v.field[h]) => h = f
        BY <1>5, <2>4, <2>5, <4>1 DEF Single
      <4>3. v.batch = NULL
        BY <1>2, <3>3, <4>2 DEF MemoryInv, Asked, Gave
      <4>4. g # f => v.field[g].found = NULL
        BY <1>2, <4>2, <4>3 DEF MemoryInv, Gave
      <4> QED
        BY <1>3, <1>5, <3>3, <4>3, <4>4 DEF Change, Keeps
    <3>4. CASE o.step \notin {"query", "store"} \/ x.step = "done"
      <4>1. b = v.batch
        BY <1>3, <3>4 DEF Change
      <4> QED
        BY <1>2, <1>3, <1>5, <3>2, <3>4, <4>1 DEF Change, Keeps, Filled
    <3> QED
      BY <3>3, <3>4
  <2>6. ASSUME NEW g \in Aliases
        PROVE  /\ n.field[g].step \in {"query", "store"} => n.field[g].own
               /\ n.field[g].step \in {"check", "query"} => n.field[g].found = NULL
    BY <1>2, <1>5, <2>1 DEF MemoryInv
  <2> QED
    BY <1>5, <2>2, <2>3, <2>5, <2>6 DEF MemoryInv
<1> QED
  BY <1>4, <1>5, <1>6, <1>8, <1>9, <1>10
     DEF ReaderInv, BatchInv, FieldInv, Own, Filled, MemoryInv, Single, Gave, Asked, mvars, n

\* The measurement: it is loaded for the user it belongs to, with a sensor that
\* is the user's.
LEMMA LoadReader ==
    ASSUME ResponseInv, NEW r \in Readers, Load(r)
    PROVE  RTypeOK' /\ ReaderInv(look[r])'
<1>1. /\ OwnershipInv /\ MTypeOK /\ RTypeOK /\ MeasurementOwnersAgree
      /\ look[r] \in Query /\ UNCHANGED mvars
  BY DEF ResponseInv, MeasurementInv, Load, RTypeOK, Idle, Response
<1>2. CASE look' = [look EXCEPT ![r] = Idle]
  BY <1>1, <1>2 DEF RTypeOK, ReaderInv, Idle
<1>3. CASE look[r].meas \in Stored /\ measured[look[r].meas].user = look[r].user
  <2> DEFINE m == look[r].meas
             v == [step |-> "resolve", user |-> look[r].user, node |-> measured[m],
                   batch |-> NULL, field |-> [f \in Aliases |-> NewField],
                   sensor |-> "todo"]
  <2>1. m \in MeasIds /\ measured[m] \in MeasRow /\ look[r].user \in Users
    BY <1>1, <1>3 DEF Query, Stored, MTypeOK
  <2>2. NewField \in Field
    BY DEF NewField, Field
  <2>3. v \in Response
    BY <2>1, <2>2 DEF Response
  <2>4. look' = [look EXCEPT ![r] = v]
    BY <1>3 DEF Load
  <2>5. /\ v.step = "resolve" /\ v.user = look[r].user /\ v.node = measured[m]
        /\ v.batch = NULL /\ v.sensor = "todo" /\ \A f \in Aliases : v.field[f] = NewField
    OBVIOUS
  <2> HIDE DEF v
  <2>6. RTypeOK' /\ look'[r] = v
    BY <1>1, <2>3, <2>4 DEF RTypeOK
  <2>7. measured[m].sensor # NULL =>
            sensorOwner[measured[m].sensor] = look[r].user /\ look[r].user \in users
    BY <1>1, <1>3, <2>1
       DEF MeasurementOwnersAgree, OwnershipInv, OwnersExist, MeasRow
  <2>8. SensorInv(look[r])'
    BY <1>1, <2>1, <2>5, <2>6, <2>7, ResponseAssumption DEF SensorInv, StillOwned, mvars
  <2>9. BatchInv(look[r])' /\ Filled(look[r])' /\ MemoryInv(look[r])'
    BY <2>5, <2>6 DEF BatchInv, FieldInv, Filled, MemoryInv, NewField
  <2> QED
    BY <2>6, <2>8, <2>9 DEF ReaderInv
<1> QED
  BY <1>2, <1>3 DEF Load

LEMMA NodeSensorReader ==
    ASSUME ResponseInv, NEW r \in Readers, FindNodeSensor(r)
    PROVE  RTypeOK' /\ ReaderInv(look[r])'
<1> DEFINE v == look[r]
           s == look[r].node.sensor
<1>1. /\ v.step = "resolve" /\ RTypeOK /\ OwnershipInv
      /\ SensorInv(v) /\ BatchInv(v) /\ Filled(v) /\ MemoryInv(v)
      /\ v \in Response /\ v.user \in Users /\ s \in SensorIds \cup {NULL}
  BY ResponseTyped DEF ResponseInv, MeasurementInv, ReaderInv, FindNodeSensor
<1>2. PICK c \in NodeSensorAnswers(s) : look' = [look EXCEPT ![r].sensor = c]
  BY DEF FindNodeSensor
<1>3. look' = [look EXCEPT ![r] = [v EXCEPT !.sensor = c]] /\ UNCHANGED mvars
  BY <1>2 DEF FindNodeSensor, ResponseInv, RTypeOK
<1>4. c \in Users \cup {"null", "failed"}
  BY <1>2 DEF NodeSensorAnswers
<1>5. [v EXCEPT !.sensor = c] \in Response
  BY <1>1, <1>4 DEF Response
<1>6. /\ look'[r].step = v.step /\ look'[r].user = v.user /\ look'[r].node = v.node
      /\ look'[r].sensor = c /\ look'[r].batch = v.batch /\ look'[r].field = v.field
  BY <1>1, <1>3 DEF Response, RTypeOK
<1>7. RTypeOK'
  BY <1>1, <1>3, <1>5 DEF RTypeOK
<1>8. s # NULL => StillOwned(sensorOwner[s], v.user)
  BY <1>1 DEF SensorInv
<1>9. /\ c \in {v.user, "null", "failed"}
      /\ c = "null" => v.user \notin users \/ s = NULL \/ sensorOwner[s] = Dead
  BY <1>1, <1>2, <1>8, SentinelAssumption, ResponseAssumption
     DEF StillOwned, NodeSensorAnswers
<1>10. SensorInv(look[r])'
  BY <1>3, <1>6, <1>8, <1>9 DEF SensorInv, StillOwned, mvars
<1>11. BatchInv(look[r])' /\ Filled(look[r])' /\ MemoryInv(look[r])'
  BY <1>1, <1>3, <1>6
     DEF BatchInv, FieldInv, Own, Filled, MemoryInv, Single, Gave, Asked, mvars
<1> QED
  BY <1>7, <1>10, <1>11 DEF ReaderInv

\* Between responses there is nothing to say.
LEMMA RestReader ==
    ASSUME ResponseInv, NEW r \in Readers, Ask(r) \/ Send(r) \/ Lose(r)
    PROVE  RTypeOK' /\ ReaderInv(look[r])'
<1>1. RTypeOK
  BY DEF ResponseInv
<1>2. CASE Ask(r)
  BY <1>1, <1>2 DEF Ask, RTypeOK, Query, ReaderInv
<1>3. CASE Send(r) \/ Lose(r)
  BY <1>1, <1>3 DEF Send, Lose, RTypeOK, Idle, ReaderInv
<1> QED
  BY <1>2, <1>3

LEMMA FieldReaderTypes ==
    ASSUME ResponseInv, NEW r \in Readers, NEW f \in Aliases, FieldStep(r, f)
    PROVE  RTypeOK'
<1>1. /\ look[r].step = "resolve" /\ OwnershipInv /\ RTypeOK
      /\ look[r] \in Response /\ Filled(look[r])
  BY ResponseTyped
     DEF FieldStep, CheckRemembered, QueryBatch, Remember, Return, FindCreator, At,
         ResponseInv, MeasurementInv, ReaderInv
<1>2. PICK x, b : Becomes(r, f, x, b)
  BY <1>1, FieldSteps
<1>3. [look[r] EXCEPT !.batch = b, !.field[f] = x] \in Response
  BY <1>1, <1>2 DEF Response, Becomes
<1> QED
  BY <1>1, <1>2, <1>3 DEF Becomes, RTypeOK

LEMMA ResponseStep == ResponseInv /\ [RNext]_rvars => ResponseInv'
<1> SUFFICES ASSUME ResponseInv, [RNext]_rvars
             PROVE  ResponseInv'
  OBVIOUS
<1>1. MeasurementInv'
  BY ResponsesStep, MeasurementStep DEF ResponseInv
<1>2. ASSUME NEW r \in Readers,
             Ask(r) \/ Load(r) \/ FindNodeSensor(r) \/ Send(r) \/ Lose(r)
               \/ \E f \in Aliases : FieldStep(r, f)
      PROVE  /\ RTypeOK' /\ ReaderInv(look[r])'
             /\ \A q \in Readers : q # r => look'[q] = look[q]
  <2>1. RTypeOK' /\ ReaderInv(look[r])'
    BY <1>2, LoadReader, NodeSensorReader, RestReader, FieldReader, FieldReaderTypes
  <2>2. \A q \in Readers : q # r => look'[q] = look[q]
    BY <1>2 DEF Ask, Load, FindNodeSensor, Send, Lose, FieldStep, CheckRemembered,
                QueryBatch, Remember, Return, FindCreator, Set, ResponseInv, RTypeOK
  <2> QED
    BY <2>1, <2>2
<1>3. CASE UNCHANGED look
  <2>1. RTypeOK'
    BY <1>3 DEF ResponseInv, RTypeOK
  <2>2. \A q \in Readers : ReaderInv(look[q])'
    BY <1>3, WaitingReader
  <2> QED
    BY <1>1, <2>1, <2>2 DEF ResponseInv
<1>4. ASSUME NEW r \in Readers,
             Ask(r) \/ Load(r) \/ FindNodeSensor(r) \/ Send(r) \/ Lose(r)
               \/ \E f \in Aliases : FieldStep(r, f)
      PROVE  ResponseInv'
  <2>1. \A q \in Readers : ReaderInv(look[q])'
    BY <1>2, <1>4, WaitingReader
  <2> QED
    BY <1>1, <1>2, <1>4, <2>1 DEF ResponseInv
<1> QED
  BY <1>3, <1>4 DEF RNext, rvars

LEMMA ResponseInvariant == RSpec => []ResponseInv
<1>1. RInit => ResponseInv
  BY MeasurementInit DEF RInit, ResponseInv, RTypeOK, ReaderInv, Idle
<1> QED
  BY <1>1, ResponseStep, PTL DEF RSpec

THEOREM RTypeCorrect == RSpec => []RTypeOK
BY ResponseInvariant, PTL DEF ResponseInv

\* Though two of its lookups name no user, a response never shows another
\* user's batch or sensor.
THEOREM ResponsesAreOwn == RSpec => []ResponseOwn
<1>1. ResponseInv => ResponseOwn
  BY DEF ResponseInv, ReaderInv, ResponseOwn, SensorInv, BatchInv, FieldInv
<1> QED
  BY <1>1, ResponseInvariant, PTL

\* What comes out wrong, its own SELECT not having failed, was deleted under the
\* response, whatever else failed.
THEOREM FailuresAreExplained == RSpec => []FailuresExplained
<1>1. ResponseInv => FailuresExplained
  BY DEF ResponseInv, ReaderInv, FailuresExplained, SensorInv, BatchInv, FieldInv
<1> QED
  BY <1>1, ResponseInvariant, PTL

\* However many aliases ask and however many of their SELECTs fail, they agree
\* unless two of them were given a batch by the database.
THEOREM AliasesAgree == RSpec => []AliasesAgreeUnlessRaced
<1>1. ResponseInv => AliasesAgreeUnlessRaced
  <2> SUFFICES ASSUME ResponseInv, NEW r \in Readers, NEW f \in Aliases, NEW g \in Aliases,
                      At(r, f, "done"), At(r, g, "done"),
                      look[r].field[f].found # NULL, look[r].field[g].found # NULL,
                      ~ \E p, q \in Aliases :
                          p # q /\ Gave(look[r].field[p]) /\ Gave(look[r].field[q])
               PROVE  look[r].field[f].found = look[r].field[g].found
    BY DEF AliasesAgreeUnlessRaced, Gave
  <2>1. MemoryInv(look[r])
    BY DEF ResponseInv, ReaderInv, At
  <2>2. Single(look[r])
    BY DEF Single
  <2> QED
    BY <2>1, <2>2 DEF MemoryInv, At
<1> QED
  BY <1>1, ResponseInvariant, PTL
=============================================================================
