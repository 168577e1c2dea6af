---------------------------- MODULE ServerProofs ----------------------------
(***************************************************************************)
(* Proofs about Server, for any users, tokens, rows and workers: its parts *)
(* keep what is proved of each by itself, and rows are written only at the *)
(* request of whoever presented their owner's token.                       *)
(***************************************************************************)
EXTENDS Server, TokenAuthProofs

AP == INSTANCE AssociationsProofs WITH req <- job

-----------------------------------------------------------------------------
(* The parts *)

\* A step of the server is one of each part, or none.
LEMMA PartsStep == TypeOK /\ [SvNext]_svars => [Next]_vars /\ [A!Next]_(A!vars)
<1> SUFFICES ASSUME TypeOK, [SvNext]_svars
             PROVE  [Next]_vars /\ [A!Next]_(A!vars)
  OBVIOUS
<1> USE DEF vars, tables, A!vars, A!rows
<1>1. ASSUME NEW w \in Workers, SignIn(w)
      PROVE  Next /\ UNCHANGED A!vars
  BY <1>1 DEF SignIn, Next, LoginStep, BeginLogin, BeginMakeToken, FindUser, SaveToken
<1>2. ASSUME NEW w \in Workers, Receive(w) \/ LookUp(w) \/ Drop(w) \/ Answer(w)
      PROVE  Next /\ UNCHANGED A!vars
  BY <1>2 DEF Receive, LookUp, Drop, Answer, Next, ApiStep, BeginRequest, Authenticate,
              Respond, Abort
<1>3. ASSUME NEW w \in Workers, StartJob(w)
      PROVE  A!Next /\ UNCHANGED vars
  BY <1>3 DEF StartJob, A!Next, A!RequestStep, A!AssociateStep, A!UpdateStep,
              A!BeginAssociate, A!BeginUpdate
<1>4. ASSUME NEW w \in Workers, RunJob(w)
      PROVE  A!Next /\ UNCHANGED vars
  BY <1>4 DEF RunJob, A!Next, A!RequestStep, A!AssociateStep, A!UpdateStep,
              A!FindBatch, A!FindSensor, A!CheckActive, A!InsertAssociation,
              A!FindAssociation, A!UpdateAssociation
<1>5. ASSUME NEW w \in Workers, FailJob(w)
      PROVE  A!Next /\ UNCHANGED vars
  BY <1>5 DEF FailJob, A!Abort, A!Next, A!RequestStep
<1>6. ASSUME NEW w \in Workers, CreateRow(w)
      PROVE  [A!Next]_(A!vars) /\ UNCHANGED vars
  <2>1. req[w].user \in Users
    BY <1>6, RequestTypes DEF CreateRow, NextField, ApiRequest
  <2> QED
    BY <1>6, <2>1 DEF CreateRow, A!CreateBatch, A!CreateSensor, A!Next, A!CreateStep
<1>7. ASSUME NEW u \in Users, RemoveUser(u)
      PROVE  Next /\ A!Next
  BY <1>7 DEF RemoveUser, Next, A!Next, A!DeleteUserStep
<1>8. ASSUME NEW t \in TokenIds, Revoke(t)
      PROVE  Next /\ UNCHANGED A!vars
  BY <1>8 DEF Revoke, Next, DeleteToken, Expire
<1>9. CASE RemoveRow
  BY <1>9 DEF RemoveRow, A!Next, A!DeleteBatchStep, A!DeleteSensorStep, A!DeleteBatch,
              A!DeleteSensor
<1>10. CASE Pass
  BY <1>10 DEF Pass, A!Tick, A!Next
<1>11. CASE UNCHANGED svars
  BY <1>11 DEF svars
<1> QED
  BY <1>1, <1>2, <1>3, <1>4, <1>5, <1>6, <1>7, <1>8, <1>9, <1>10, <1>11 DEF SvNext

LEMMA PartsInit == SvInit => Init /\ A!Init
BY DEF SvInit

LEMMA ServerTypeCorrect == SvSpec => []TypeOK
<1>1. SvInit => TypeOK
  BY PartsInit DEF Init, TypeOK, Absent
<1>2. TypeOK /\ [SvNext]_svars => TypeOK'
  BY PartsStep, TypeStep
<1> QED
  BY <1>1, <1>2, PTL DEF SvSpec

\* Whatever is proved of TokenAuth and of Associations holds of the server.
THEOREM ComponentsImplemented == SvSpec => ImplementsComponents
<1>1. SvInit => Init /\ A!Init
  BY PartsInit
<1>2. TypeOK /\ [SvNext]_svars => [Next]_vars /\ [A!Next]_(A!vars)
  BY PartsStep
<1> QED
  BY <1>1, <1>2, ServerTypeCorrect, PTL DEF SvSpec, Spec, A!Spec, ImplementsComponents

-----------------------------------------------------------------------------
(* What the parts bring along *)

\* Of Associations: ownership as AssociationsProofs shows it.
RowsInv == A!TypeOK /\ A!OwnersAgree /\ A!LookupsHold

LEMMA SameRows == AP!OwnershipInv => RowsInv
<1>1. AP!TypeOK => A!TypeOK
  BY Zenon DEF A!TypeOK, AP!TypeOK, A!AssocRow, AP!AssocRow, A!Absent, AP!Absent,
         A!Owner, AP!Owner, A!Request, AP!Request, A!AssociateRequest,
         AP!AssociateRequest, A!UpdateRequest, AP!UpdateRequest, A!Idle, AP!Idle
<1>2. AP!OwnersAgree => A!OwnersAgree
  BY Zenon DEF A!OwnersAgree, AP!OwnersAgree, A!Live, AP!Live, A!Absent, AP!Absent,
         A!BatchExists, AP!BatchExists
<1>3. AP!LookupsHold => A!LookupsHold
  BY Zenon DEF A!LookupsHold, AP!LookupsHold, A!Remembers, AP!Remembers, A!Live, AP!Live,
         A!StillOwned, AP!StillOwned, A!Absent, AP!Absent
<1> QED
  BY <1>1, <1>2, <1>3 DEF AP!OwnershipInv, RowsInv

LEMMA SameSpec == A!Spec => AP!Spec
<1>1. A!Init => AP!Init
  BY DEF A!Init, AP!Init, A!Idle, AP!Idle
<1>2. [A!Next]_(A!vars) => [AP!Next]_(AP!vars)
  BY Zenon
     DEF A!Next, AP!Next, A!vars, AP!vars, A!RequestStep, AP!RequestStep,
         A!AssociateStep, AP!AssociateStep, A!UpdateStep, AP!UpdateStep,
         A!CreateStep, AP!CreateStep, A!DeleteBatchStep, AP!DeleteBatchStep,
         A!DeleteSensorStep, AP!DeleteSensorStep, A!DeleteUserStep,
         AP!DeleteUserStep, A!BeginAssociate, AP!BeginAssociate, A!FindBatch,
         AP!FindBatch, A!FindSensor, AP!FindSensor, A!CheckActive, AP!CheckActive,
         A!InsertAssociation, AP!InsertAssociation, A!BeginUpdate, AP!BeginUpdate,
         A!FindAssociation, AP!FindAssociation, A!UpdateAssociation,
         AP!UpdateAssociation, A!Abort, AP!Abort, A!CreateBatch, AP!CreateBatch,
         A!CreateSensor, AP!CreateSensor, A!DeleteBatch, AP!DeleteBatch,
         A!DeleteSensor, AP!DeleteSensor, A!DeleteUser, AP!DeleteUser, A!Tick,
         AP!Tick, A!Serve, AP!Serve, A!Advance, AP!Advance, A!Reply, AP!Reply,
         A!Idle, AP!Idle, A!rows, AP!rows, A!Live, AP!Live, A!Visible, AP!Visible,
         A!ActiveRows, AP!ActiveRows, A!BatchExists, AP!BatchExists, A!SensorExists,
         AP!SensorExists, A!Absent, AP!Absent, A!Cascade, AP!Cascade, A!Orphan,
         AP!Orphan
<1> QED
  BY <1>1, <1>2, PTL DEF A!Spec, AP!Spec

\* The assumptions of Associations, as TablesAssumption states them.
LEMMA SameAssumptions ==
    /\ Unborn # Dead /\ NULL # Unborn /\ NULL # Dead
    /\ \A x \in {NULL, Unborn, Dead} : x \notin Users
    /\ NULL \notin Nat
    /\ \A x \in {Unborn, Dead} : x \notin AP!AssocRow /\ x \notin AP!Registry!Entry
<1>1. A!AssocRow = AP!AssocRow /\ A!Registry!Entry = AP!Registry!Entry
  BY DEF A!AssocRow, AP!AssocRow, A!Registry!Entry, AP!Registry!Entry
<1> QED
  BY <1>1, TablesAssumption, TokenAssumption DEF Absent

LEMMA RowsInvariant == SvSpec => []RowsInv
<1>1. AP!Spec => []AP!OwnershipInv
  BY AP!OwnershipInvariant, SameAssumptions, TablesAssumption
<1> QED
  BY <1>1, SameRows, SameSpec, ComponentsImplemented, PTL DEF ImplementsComponents

\* Of TokenAuth: the user of a request is the one its token was made for.
LEMMA AuthInvariant == SvSpec => []AuthInv
BY AuthenticationInvariant, ComponentsImplemented, PTL DEF ImplementsComponents

-----------------------------------------------------------------------------
(* The worker: one request, one mutation of it at a time                   *)

Executes(w) == Busy(w) => Serve(w, "serve") /\ job[w].user = req[w].user

\* A statement of a mutation keeps the mutation's user, or ends it.
LEMMA JobKeepsUser ==
    ASSUME A!TypeOK, NEW w \in Workers, RunJob(w) \/ FailJob(w)
    PROVE  /\ Busy(w) /\ UNCHANGED req
           /\ ~Busy(w)' \/ job'[w].user = job[w].user
           /\ \A v \in Workers : v # w => job'[v] = job[v]
<1>1. job[w] \in A!Request /\ DOMAIN job = Workers
  BY DEF A!TypeOK
<1>2. ASSUME A!Reply(w)
      PROVE  ~Busy(w)' /\ \A v \in Workers : v # w => job'[v] = job[v]
  BY <1>1, <1>2 DEF A!Reply, A!Idle, Busy, A!TypeOK
<1>3. ASSUME NEW step, A!Advance(w, step), job[w] # A!Idle
      PROVE  job'[w].user = job[w].user /\ \A v \in Workers : v # w => job'[v] = job[v]
  BY <1>1, <1>3 DEF A!Advance, A!Request, A!AssociateRequest, A!UpdateRequest, A!TypeOK
<1>4. CASE A!FindBatch(w)
  BY <1>2, <1>3, <1>4 DEF A!FindBatch, A!Serve, Busy, A!Idle, RunJob, FailJob
<1>5. CASE A!FindSensor(w)
  BY <1>2, <1>3, <1>5 DEF A!FindSensor, A!Serve, Busy, A!Idle, RunJob, FailJob
<1>6. CASE A!CheckActive(w)
  <2>1. CASE A!Reply(w)
    BY <1>2, <1>6, <2>1 DEF A!CheckActive, A!Serve, Busy, RunJob, FailJob
  <2>2. CASE ~A!Reply(w)
    <3>1. job' = [job EXCEPT ![w].step = "insert", ![w].since = now]
      BY <1>6, <2>2 DEF A!CheckActive
    <3>2. job[w] \in A!AssociateRequest
      BY <1>1, <1>6 DEF A!CheckActive, A!Serve, A!Request, A!UpdateRequest, A!Idle
    <3>3. job'[w].user = job[w].user /\ \A v \in Workers : v # w => job'[v] = job[v]
      BY <3>1, <3>2 DEF A!AssociateRequest, A!TypeOK
    <3> QED
      BY <1>6, <3>3 DEF A!CheckActive, A!Serve, Busy, RunJob, FailJob
  <2> QED
    BY <2>1, <2>2
<1>7. CASE A!InsertAssociation(w)
  BY <1>2, <1>7 DEF A!InsertAssociation, A!Serve, Busy, RunJob, FailJob
<1>8. CASE A!FindAssociation(w)
  BY <1>2, <1>3, <1>8 DEF A!FindAssociation, A!Serve, Busy, A!Idle, RunJob, FailJob
<1>9. CASE A!UpdateAssociation(w)
  BY <1>2, <1>9 DEF A!UpdateAssociation, A!Serve, Busy, RunJob, FailJob
<1>10. CASE A!Abort(w)
  BY <1>2, <1>10 DEF A!Abort, A!Serve, Busy, RunJob, FailJob
<1> QED
  BY <1>4, <1>5, <1>6, <1>7, <1>8, <1>9, <1>10 DEF RunJob, FailJob

\* What the token components do to a worker's request, they do to an idle
\* mutation.
LEMMA OnlyServing ==
    ASSUME TypeOK, NEW w \in Workers,
           SignIn(w) \/ Receive(w) \/ LookUp(w) \/ Drop(w) \/ Answer(w)
    PROVE  /\ UNCHANGED job
           /\ Serve(w, "serve") => ~Busy(w)
           /\ \A v \in Workers : v # w => req'[v] = req[v]
  BY DEF SignIn, Receive, LookUp, Drop, Answer, BeginLogin, BeginMakeToken, FindUser,
         SaveToken, BeginRequest, Authenticate, Respond, Abort, Reply, Serve, TypeOK

LEMMA ExecutesStep ==
    ASSUME TypeOK, A!TypeOK, [SvNext]_svars, \A w \in Workers : Executes(w),
           NEW w \in Workers
    PROVE  Executes(w)'
<1>1. Executes(w)
  OBVIOUS
<1>2. CASE req'[w] = req[w] /\ job'[w] = job[w]
  BY <1>1, <1>2 DEF Executes, Busy, Serve
<1>3. ASSUME NEW v \in Workers,
             SignIn(v) \/ Receive(v) \/ LookUp(v) \/ Drop(v) \/ Answer(v)
      PROVE  Executes(w)'
  BY <1>1, <1>2, <1>3, OnlyServing DEF Executes, Busy
<1>4. ASSUME NEW v \in Workers, RunJob(v) \/ FailJob(v)
      PROVE  Executes(w)'
  BY <1>1, <1>2, <1>4, JobKeepsUser DEF Executes, Serve
<1>5. ASSUME NEW v \in Workers, StartJob(v)
      PROVE  Executes(w)'
  <2>1. /\ Serve(v, "serve") /\ UNCHANGED req /\ job'[v].user = req[v].user
        /\ \A x \in Workers : x # v => job'[x] = job[x]
    BY <1>5 DEF StartJob, NextField, A!BeginAssociate, A!BeginUpdate, A!TypeOK
  <2> QED
    BY <1>2, <2>1 DEF Executes, Serve
<1>6. CASE UNCHANGED <<req, job>>
  BY <1>2, <1>6
<1> QED
  BY <1>3, <1>4, <1>5, <1>6
     DEF SvNext, CreateRow, A!CreateBatch, A!CreateSensor, tables, RemoveUser, DeleteUser,
         A!DeleteUser, Revoke, DeleteToken, Expire, RemoveRow, A!DeleteBatchStep,
         A!DeleteSensorStep, A!DeleteBatch, A!DeleteSensor, Pass, A!Tick, svars, vars

ServingInv == fields \in [Workers -> 0 .. MaxFields] /\ \A w \in Workers : Executes(w)

LEMMA FieldsStep ==
    ASSUME fields \in [Workers -> 0 .. MaxFields], [SvNext]_svars
    PROVE  fields' \in [Workers -> 0 .. MaxFields]
<1>1. \A w \in Workers : fields[w] > 0 => fields[w] - 1 \in 0 .. MaxFields
  BY MaxFieldsAssumption
<1>2. 0 \in 0 .. MaxFields
  BY MaxFieldsAssumption
<1>3. ASSUME NEW w \in Workers, NextField(w)
      PROVE  fields' \in [Workers -> 0 .. MaxFields]
  BY <1>1, <1>3 DEF NextField
<1>4. ASSUME NEW w \in Workers, Receive(w) \/ Drop(w) \/ FailJob(w) \/ Answer(w)
      PROVE  fields' \in [Workers -> 0 .. MaxFields]
  BY <1>2, <1>4 DEF Receive, Drop, FailJob, Answer
<1> QED
  BY <1>3, <1>4
     DEF SvNext, SignIn, LookUp, StartJob, CreateRow, RunJob, RemoveUser, Revoke, RemoveRow,
         Pass, svars

LEMMA ServingInvariant == SvSpec => []ServingInv
<1>1. SvInit => ServingInv
  BY MaxFieldsAssumption DEF SvInit, A!Init, A!Idle, ServingInv, Executes, Busy
<1>2. TypeOK /\ RowsInv /\ ServingInv /\ [SvNext]_svars => ServingInv'
  BY ExecutesStep, FieldsStep DEF ServingInv, RowsInv
<1> QED
  BY <1>1, <1>2, ServerTypeCorrect, RowsInvariant, PTL DEF SvSpec

\* A worker executes mutations only for a request it serves, as its user.
THEOREM SvTypeCorrect == SvSpec => []SvTypeOK
<1>1. RowsInv /\ ServingInv => SvTypeOK
  BY DEF RowsInv, ServingInv, SvTypeOK, Executes
<1> QED
  BY <1>1, RowsInvariant, ServingInvariant, PTL

-----------------------------------------------------------------------------
(* Who writes *)

\* A request that is served as a user presented that user's token.
LEMMA ServedPresented ==
    ASSUME AuthInv, NEW w \in Workers, Serve(w, "serve"), req[w].user # NULL
    PROVE  ActsFor(w, req[w].user)
BY DEF AuthInv, ActsAsIssued, RevokedActsAsNobody, ActsFor

\* Only createBatch gives a key its row, and for the request's user.
LEMMA BatchesAuthorized ==
    ASSUME AuthInv, A!TypeOK, [SvNext]_svars,
           NEW b \in BatchIds, batchOwner[b] = Unborn, batchOwner'[b] # Unborn
    PROVE  \E w \in Workers : ActsFor(w, batchOwner'[b])
<1>1. ASSUME NEW w \in Workers, CreateRow(w)
      PROVE  ActsFor(w, batchOwner'[b])
  <2>1. PICK c \in BatchIds : A!CreateBatch(req[w].user, c)
    BY <1>1 DEF CreateRow, A!CreateSensor, tables
  <2>2. batchOwner'[b] = req[w].user
    BY <2>1 DEF A!CreateBatch, A!TypeOK
  <2> QED
    BY <1>1, <2>2, ServedPresented DEF CreateRow, NextField
<1>2. ASSUME NEW u \in Users, RemoveUser(u)
      PROVE  FALSE
  BY <1>2, TokenAssumption DEF RemoveUser, A!DeleteUser, A!Orphan, A!TypeOK
<1>3. ASSUME RemoveRow
      PROVE  FALSE
  BY <1>3 DEF RemoveRow, A!DeleteBatchStep, A!DeleteSensorStep, A!DeleteBatch,
              A!DeleteSensor, A!BatchExists, A!Absent, A!TypeOK
<1>4. batchOwner' # batchOwner
  OBVIOUS
<1> QED
  BY <1>1, <1>2, <1>3, <1>4
     DEF SvNext, SignIn, Receive, LookUp, Drop, StartJob, A!BeginAssociate, A!BeginUpdate,
         A!rows, RunJob, A!FindBatch, A!FindSensor, A!CheckActive, A!InsertAssociation,
         A!FindAssociation, A!UpdateAssociation, FailJob, A!Abort, Answer, Revoke, Pass,
         A!Tick, tables, svars

LEMMA SensorsAuthorized ==
    ASSUME AuthInv, A!TypeOK, [SvNext]_svars,
           NEW s \in SensorIds, sensorOwner[s] = Unborn, sensorOwner'[s] # Unborn
    PROVE  \E w \in Workers : ActsFor(w, sensorOwner'[s])
<1>1. ASSUME NEW w \in Workers, CreateRow(w)
      PROVE  ActsFor(w, sensorOwner'[s])
  <2>1. PICK c \in SensorIds : A!CreateSensor(req[w].user, c)
    BY <1>1 DEF CreateRow, A!CreateBatch, tables
  <2>2. sensorOwner'[s] = req[w].user
    BY <2>1 DEF A!CreateSensor, A!TypeOK
  <2> QED
    BY <1>1, <2>2, ServedPresented DEF CreateRow, NextField
<1>2. ASSUME NEW u \in Users, RemoveUser(u)
      PROVE  FALSE
  BY <1>2, TokenAssumption DEF RemoveUser, A!DeleteUser, A!Orphan, A!TypeOK
<1>3. ASSUME RemoveRow
      PROVE  FALSE
  BY <1>3 DEF RemoveRow, A!DeleteBatchStep, A!DeleteSensorStep, A!DeleteBatch,
              A!DeleteSensor, A!SensorExists, A!Absent, A!TypeOK
<1>4. sensorOwner' # sensorOwner
  OBVIOUS
<1> QED
  BY <1>1, <1>2, <1>3, <1>4
     DEF SvNext, SignIn, Receive, LookUp, Drop, StartJob, A!BeginAssociate, A!BeginUpdate,
         A!rows, RunJob, A!FindBatch, A!FindSensor, A!CheckActive, A!InsertAssociation,
         A!FindAssociation, A!UpdateAssociation, FailJob, A!Abort, Answer, Revoke, Pass,
         A!Tick, tables, svars

\* The pair that worker w ties or revises is its user's, or was.
PairOf(w, i) ==
    /\ batchOwner[assoc'[i].batch] \in {job[w].user, NULL}
    /\ sensorOwner[assoc'[i].sensor] \in {job[w].user, NULL}

LEMMA AssociationsAuthorized ==
    ASSUME RowsInv, [SvNext]_svars,
           NEW i \in AssocIds, assoc'[i] # assoc[i], assoc'[i] \notin Absent
    PROVE  \E w \in Workers : RunJob(w) /\ PairOf(w, i)
<1>1. A!TypeOK /\ A!Absent = Absent
  BY DEF RowsInv, A!Absent, Absent
<1>2. ASSUME NEW w \in Workers, A!InsertAssociation(w)
      PROVE  PairOf(w, i)
  <2>1. PICK j \in AssocIds, t \in job[w].since .. now :
            /\ A!BatchExists(job[w].batch) /\ A!SensorExists(job[w].sensor)
            /\ assoc' = [assoc EXCEPT ![j] =
                  [batch |-> job[w].batch, sensor |-> job[w].sensor, at |-> t,
                   dis |-> NULL, by |-> w]]
    BY <1>2 DEF A!InsertAssociation
  <2>2. assoc'[i].batch = job[w].batch /\ assoc'[i].sensor = job[w].sensor
    BY <1>1, <2>1 DEF A!TypeOK
  <2>3. /\ A!StillOwned(batchOwner[job[w].batch], job[w].user)
        /\ A!StillOwned(sensorOwner[job[w].sensor], job[w].user)
    BY <1>2 DEF RowsInv, A!LookupsHold, A!Remembers, A!InsertAssociation, A!Serve
  <2> QED
    BY <2>1, <2>2, <2>3 DEF PairOf, A!StillOwned, A!BatchExists, A!SensorExists, A!Absent
<1>3. ASSUME NEW w \in Workers, A!UpdateAssociation(w)
      PROVE  PairOf(w, i)
  <2>1. /\ job[w].id = i /\ i \in A!Live
        /\ assoc' = [assoc EXCEPT ![i].at = job[w].at, ![i].dis = job[w].dis]
    BY <1>1, <1>3 DEF A!UpdateAssociation, A!TypeOK
  <2>2. assoc[i] \in A!AssocRow
    BY <1>1, <2>1 DEF A!TypeOK, A!Live
  <2>3. assoc'[i].batch = assoc[i].batch /\ assoc'[i].sensor = assoc[i].sensor
    BY <1>1, <2>1, <2>2 DEF A!TypeOK, A!AssocRow
  <2>4. /\ A!StillOwned(batchOwner[assoc[i].batch], job[w].user)
        /\ A!StillOwned(sensorOwner[assoc[i].sensor], job[w].user)
    BY <1>3, <2>1 DEF RowsInv, A!LookupsHold, A!Remembers, A!UpdateAssociation, A!Serve
  <2>5. /\ batchOwner[assoc[i].batch] \notin A!Absent
        /\ batchOwner[assoc[i].batch] = sensorOwner[assoc[i].sensor]
    BY <2>1 DEF RowsInv, A!OwnersAgree, A!BatchExists
  <2> QED
    BY <2>3, <2>4, <2>5 DEF PairOf, A!StillOwned, A!Absent
<1>4. ASSUME RemoveRow
      PROVE  FALSE
  BY <1>1, <1>4 DEF RemoveRow, A!DeleteBatchStep, A!DeleteSensorStep, A!DeleteBatch,
                    A!DeleteSensor, A!Cascade, Absent
<1>5. assoc' # assoc
  OBVIOUS
<1>6. PICK w \in Workers : RunJob(w)
  BY <1>4, <1>5
     DEF SvNext, SignIn, Receive, LookUp, Drop, StartJob, A!BeginAssociate, A!BeginUpdate,
         A!rows, CreateRow, A!CreateBatch, A!CreateSensor, FailJob, A!Abort, Answer,
         RemoveUser, A!DeleteUser, Revoke, Pass, A!Tick, tables, svars
<1>7. A!InsertAssociation(w) \/ A!UpdateAssociation(w)
  BY <1>5, <1>6 DEF RunJob, A!FindBatch, A!FindSensor, A!CheckActive, A!FindAssociation,
                    A!rows
<1> QED
  BY <1>2, <1>3, <1>6, <1>7

\* However deletions, revocations and other requests interleave with the
\* mutations of a document, rows are created, tied and revised only for a user
\* whose token was presented, unrevoked, with the request.
THEOREM WritesAreAuthorized == SvSpec => WritesAuthorized
<1> DEFINE Authorized ==
      /\ \A b \in BatchIds :
            batchOwner[b] = Unborn /\ batchOwner'[b] # Unborn =>
                \E w \in Workers : ActsFor(w, batchOwner'[b])
      /\ \A s \in SensorIds :
            sensorOwner[s] = Unborn /\ sensorOwner'[s] # Unborn =>
                \E w \in Workers : ActsFor(w, sensorOwner'[s])
      /\ \A i \in AssocIds :
            assoc'[i] # assoc[i] /\ assoc'[i] \notin Absent =>
                \E w \in Workers :
                    /\ Busy(w) /\ ActsFor(w, job[w].user)
                    /\ batchOwner[assoc'[i].batch] \in {job[w].user, NULL}
                    /\ sensorOwner[assoc'[i].sensor] \in {job[w].user, NULL}
<1>1. ASSUME AuthInv, RowsInv, ServingInv, [SvNext]_svars,
             NEW i \in AssocIds, assoc'[i] # assoc[i], assoc'[i] \notin Absent
      PROVE  \E w \in Workers :
                 /\ Busy(w) /\ ActsFor(w, job[w].user)
                 /\ batchOwner[assoc'[i].batch] \in {job[w].user, NULL}
                 /\ sensorOwner[assoc'[i].sensor] \in {job[w].user, NULL}
  <2>1. PICK w \in Workers : RunJob(w) /\ PairOf(w, i)
    BY <1>1, AssociationsAuthorized
  <2>2. A!TypeOK
    BY <1>1 DEF RowsInv
  <2>3. Busy(w)
    BY <2>1, <2>2, JobKeepsUser
  <2>4. Serve(w, "serve") /\ job[w].user = req[w].user
    BY <1>1, <2>3 DEF ServingInv, Executes
  <2>5. job[w].user # NULL
    BY <2>2, <2>3, TokenAssumption
       DEF Busy, A!TypeOK, A!Request, A!AssociateRequest, A!UpdateRequest, A!Idle
  <2>6. ActsFor(w, job[w].user)
    BY <1>1, <2>4, <2>5, ServedPresented
  <2> QED
    BY <2>1, <2>3, <2>6 DEF PairOf
<1>2. AuthInv /\ RowsInv /\ ServingInv /\ [SvNext]_svars => [Authorized]_svars
  BY <1>1, BatchesAuthorized, SensorsAuthorized DEF RowsInv
<1> QED
  BY <1>2, AuthInvariant, RowsInvariant, ServingInvariant, PTL DEF SvSpec, WritesAuthorized

-----------------------------------------------------------------------------
(* A request comes to its end: the half of EveryRequestAnswered that needs *)
(* no fairness.  Work counts the statements a request can still take.       *)

RequestLeft(step) ==
    CASE step = "find" -> 2 [] step = "save" -> 1
      [] step = "lookup" -> 2 [] step = "serve" -> 1
      [] OTHER -> 0

MutationLeft(step) ==
    CASE step = "batch" -> 4 [] step = "sensor" -> 3 [] step = "active" -> 2
      [] step = "insert" -> 1
      [] step = "association" -> 2 [] step = "update" -> 1
      [] OTHER -> 0

\* A mutation that has not begun takes one statement to begin and at most four
\* to end.
DocumentLeft(w) == 5 * fields[w] + MutationLeft(job[w].step)

Work(w) ==
    RequestLeft(req[w].step)
        + (IF Serve(w, "lookup") \/ Serve(w, "serve") THEN DocumentLeft(w) ELSE 0)

\* No step adds to the work of a request that has begun; what its goroutine
\* does for it, or what ends it, takes some away.
RunsDown(w) ==
    /\ Serving(w) => Work(w)' < Work(w)
    /\ ~Serve(w, "idle") =>
          Work(w)' < Work(w) \/ UNCHANGED <<req[w], job[w], fields[w]>>

LEMMA WorkIsNat ==
    ASSUME fields \in [Workers -> 0 .. MaxFields], NEW w \in Workers
    PROVE  /\ Work(w) \in Nat /\ DocumentLeft(w) \in Nat
           /\ RequestLeft(req[w].step) \in Nat /\ MutationLeft(job[w].step) \in Nat
           /\ fields[w] \in Nat
  BY MaxFieldsAssumption DEF Work, DocumentLeft, RequestLeft, MutationLeft

\* A statement of a mutation, or its failure, brings the mutation nearer its end.
LEMMA MutationRunsDown ==
    ASSUME A!TypeOK, NEW w \in Workers, RunJob(w) \/ FailJob(w)
    PROVE  MutationLeft(job'[w].step) < MutationLeft(job[w].step)
<1>1. job[w] \in A!Request /\ DOMAIN job = Workers
  BY DEF A!TypeOK
<1>2. ASSUME A!Reply(w)
      PROVE  job'[w].step = "idle"
  BY <1>1, <1>2 DEF A!Reply, A!Idle
<1>3. ASSUME NEW step, A!Advance(w, step), job[w] # A!Idle
      PROVE  job'[w].step = step
  BY <1>1, <1>3 DEF A!Advance, A!Request, A!AssociateRequest, A!UpdateRequest
<1> USE DEF MutationLeft, A!Serve
<1>4. CASE A!FindBatch(w)
  BY <1>2, <1>3, <1>4 DEF A!FindBatch, A!Idle
<1>5. CASE A!FindSensor(w)
  BY <1>2, <1>3, <1>5 DEF A!FindSensor, A!Idle
<1>6. CASE A!CheckActive(w)
  <2>1. CASE A!Reply(w)
    BY <1>2, <1>6, <2>1 DEF A!CheckActive
  <2>2. CASE ~A!Reply(w)
    <3>1. job' = [job EXCEPT ![w].step = "insert", ![w].since = now]
      BY <1>6, <2>2 DEF A!CheckActive
    <3>2. job[w] \in A!AssociateRequest
      BY <1>1, <1>6 DEF A!CheckActive, A!Request, A!UpdateRequest, A!Idle
    <3>3. job'[w].step = "insert"
      BY <1>1, <3>1, <3>2 DEF A!AssociateRequest
    <3> QED
      BY <1>6, <3>3 DEF A!CheckActive
  <2> QED
    BY <2>1, <2>2
<1>7. CASE A!InsertAssociation(w)
  BY <1>2, <1>7 DEF A!InsertAssociation
<1>8. CASE A!FindAssociation(w)
  BY <1>2, <1>3, <1>8 DEF A!FindAssociation, A!Idle
<1>9. CASE A!UpdateAssociation(w)
  BY <1>2, <1>9 DEF A!UpdateAssociation
<1>10. CASE A!Abort(w)
  <2>1. job[w].step # "idle" /\ job'[w].step = "idle"
    BY <1>2, <1>10 DEF A!Abort
  <2>2. job[w].step \in {"batch", "sensor", "active", "insert", "association", "update"}
    BY <1>1, <2>1 DEF A!Request, A!AssociateRequest, A!UpdateRequest, A!Idle
  <2> QED
    BY <2>1, <2>2
<1> QED
  BY <1>4, <1>5, <1>6, <1>7, <1>8, <1>9, <1>10 DEF RunJob, FailJob

WorkerStep(w) ==
    \/ SignIn(w) \/ Receive(w) \/ LookUp(w) \/ Drop(w)
    \/ StartJob(w) \/ CreateRow(w) \/ RunJob(w) \/ FailJob(w) \/ Answer(w)

\* The mutation that begins is at its first statement, and has used up one of
\* the document.
LEMMA MutationBegins ==
    ASSUME A!TypeOK, fields \in [Workers -> 0 .. MaxFields], NEW w \in Workers,
           StartJob(w) \/ CreateRow(w)
    PROVE  /\ UNCHANGED req /\ Serve(w, "serve")
           /\ fields'[w] = fields[w] - 1 /\ MutationLeft(job'[w].step) \in 0 .. 4
           /\ \A v \in Workers : v # w => fields'[v] = fields[v] /\ job'[v] = job[v]
<1>1. /\ UNCHANGED req /\ Serve(w, "serve") /\ fields'[w] = fields[w] - 1
      /\ \A v \in Workers : v # w => fields'[v] = fields[v]
      /\ job[w].step = "idle"
  BY DEF StartJob, CreateRow, NextField, Busy
<1>2. CASE StartJob(w)
  <2>1. /\ job'[w].step \in {"batch", "association"}
        /\ \A v \in Workers : v # w => job'[v] = job[v]
    BY <1>2 DEF StartJob, A!BeginAssociate, A!BeginUpdate, A!TypeOK
  <2> QED
    BY <1>1, <2>1 DEF MutationLeft
<1>3. CASE CreateRow(w)
  <2>1. UNCHANGED job
    BY <1>3 DEF CreateRow, A!CreateBatch, A!CreateSensor
  <2> QED
    BY <1>1, <2>1 DEF MutationLeft
<1> QED
  BY <1>2, <1>3

LEMMA OthersRest ==
    ASSUME TypeOK, A!TypeOK, fields \in [Workers -> 0 .. MaxFields],
           NEW v \in Workers, WorkerStep(v), NEW w \in Workers, w # v
    PROVE  UNCHANGED <<req[w], job[w], fields[w]>>
<1>1. CASE SignIn(v) \/ Receive(v) \/ LookUp(v) \/ Drop(v) \/ Answer(v)
  <2>1. fields'[w] = fields[w]
    BY <1>1 DEF SignIn, Receive, LookUp, Drop, Answer
  <2> QED
    BY <1>1, <2>1, OnlyServing
<1>2. CASE RunJob(v) \/ FailJob(v)
  <2>1. fields'[w] = fields[w]
    BY <1>2 DEF RunJob, FailJob
  <2> QED
    BY <1>2, <2>1, JobKeepsUser
<1>3. CASE StartJob(v) \/ CreateRow(v)
  BY <1>3, MutationBegins
<1> QED
  BY <1>1, <1>2, <1>3 DEF WorkerStep

\* A request that has begun is brought nearer its end by every step of its own
\* goroutine.
LEMMA OwnRunsDown ==
    ASSUME TypeOK, A!TypeOK, ServingInv, NEW w \in Workers, WorkerStep(w),
           ~Serve(w, "idle"), fields' \in [Workers -> 0 .. MaxFields]
    PROVE  Work(w)' < Work(w)
<1>1. /\ fields \in [Workers -> 0 .. MaxFields] /\ fields[w] \in Nat /\ fields'[w] \in Nat
      /\ MutationLeft(job[w].step) \in Nat
  BY WorkIsNat, MaxFieldsAssumption DEF ServingInv
<1>2. req[w] \in LoginRequest \cup ApiRequest /\ DOMAIN req = Workers
  BY DEF TypeOK, Serve, Idle
<1>3. ASSUME req'[w].step = "idle"
      PROVE  Work(w)' < Work(w)
  <2>1. Work(w)' = 0
    BY <1>3 DEF Work, RequestLeft, Serve
  <2>2. RequestLeft(req[w].step) > 0
    BY <1>2 DEF RequestLeft, LoginRequest, ApiRequest
  <2>3. DocumentLeft(w) \in Nat /\ RequestLeft(req[w].step) \in Nat
    BY <1>1, WorkIsNat
  <2> QED
    BY <2>1, <2>2, <2>3 DEF Work
<1>4. ASSUME Reply(w)
      PROVE  Work(w)' < Work(w)
  BY <1>2, <1>3, <1>4 DEF Reply, Idle
<1>5. CASE SignIn(w)
  <2>1. FindUser(w) \/ SaveToken(w)
    BY <1>5 DEF SignIn, BeginLogin, BeginMakeToken
  <2>2. CASE ~Reply(w)
    <3>1. Serve(w, "find") /\ req' = [req EXCEPT ![w].step = "save"]
      BY <2>1, <2>2 DEF FindUser, SaveToken
    <3>2. req'[w].step = "save"
      BY <1>2, <3>1 DEF LoginRequest, ApiRequest
    <3> QED
      BY <3>1, <3>2 DEF Work, RequestLeft, Serve
  <2> QED
    BY <1>4, <2>2
<1>6. CASE Receive(w)
  BY <1>6 DEF Receive, BeginRequest
<1>7. CASE LookUp(w)
  <2>1. /\ req[w].step = "lookup" /\ req'[w].step = "serve"
        /\ UNCHANGED <<fields, job>>
    <3>1. PICK user, failed, logged :
            req' = [req EXCEPT ![w].step = "serve", ![w].user = user,
                               ![w].failed = failed, ![w].logged = logged]
      BY <1>7, Zenon DEF LookUp, Authenticate
    <3>2. req[w] \in ApiRequest
      BY <1>7, RequestTypes DEF LookUp, Authenticate
    <3> QED
      BY <1>2, <1>7, <3>1, <3>2 DEF LookUp, Authenticate, Serve, ApiRequest
  <2> QED
    BY <1>1, <2>1 DEF Work, RequestLeft, DocumentLeft, Serve
<1>8. CASE Drop(w) \/ Answer(w)
  BY <1>4, <1>8 DEF Drop, Abort, Answer, Respond
<1>9. CASE StartJob(w) \/ CreateRow(w)
  <2>1. /\ UNCHANGED req /\ Serve(w, "serve") /\ fields'[w] = fields[w] - 1
        /\ MutationLeft(job'[w].step) \in 0 .. 4
    BY <1>1, <1>9, MutationBegins
  <2>2. Work(w) = 1 + DocumentLeft(w) /\ Work(w)' = 1 + DocumentLeft(w)'
    BY <2>1 DEF Work, RequestLeft, Serve
  <2>3. DocumentLeft(w)' = 5 * fields'[w] + MutationLeft(job'[w].step)
    BY <2>1 DEF DocumentLeft
  <2>4. /\ DocumentLeft(w) \in Nat /\ DocumentLeft(w)' \in Nat
        /\ DocumentLeft(w)' < DocumentLeft(w)
    BY <1>1, <2>1, <2>3 DEF DocumentLeft
  <2> QED
    BY <2>2, <2>4
<1>10. CASE RunJob(w) \/ FailJob(w)
  <2>1. UNCHANGED req /\ Serve(w, "serve")
    BY <1>10, JobKeepsUser DEF ServingInv, Executes
  <2>2. fields'[w] <= fields[w]
    BY <1>1, <1>10 DEF RunJob, FailJob
  <2>3. MutationLeft(job'[w].step) < MutationLeft(job[w].step)
    BY <1>10, MutationRunsDown
  <2>4. MutationLeft(job'[w].step) \in Nat
    BY DEF MutationLeft
  <2>5. Work(w) = 1 + DocumentLeft(w) /\ Work(w)' = 1 + DocumentLeft(w)'
    BY <2>1 DEF Work, RequestLeft, Serve
  <2>6. /\ DocumentLeft(w) \in Nat /\ DocumentLeft(w)' \in Nat
        /\ DocumentLeft(w)' < DocumentLeft(w)
    BY <1>1, <2>2, <2>3, <2>4 DEF DocumentLeft
  <2> QED
    BY <2>5, <2>6
<1> QED
  BY <1>5, <1>6, <1>7, <1>8, <1>9, <1>10 DEF WorkerStep

LEMMA WorkStep ==
    ASSUME TypeOK, A!TypeOK, ServingInv, [SvNext]_svars, NEW w \in Workers
    PROVE  RunsDown(w)
<1>1. fields' \in [Workers -> 0 .. MaxFields] /\ fields \in [Workers -> 0 .. MaxFields]
  BY FieldsStep DEF ServingInv
<1>2. Serving(w) => WorkerStep(w) /\ ~Serve(w, "idle")
  <2>1. RunJob(w) => ~Serve(w, "idle")
    BY JobKeepsUser DEF ServingInv, Executes, Serve
  <2> QED
    BY <2>1 DEF Serving, WorkerStep, SignIn, FindUser, SaveToken, LookUp, Authenticate,
                StartJob, CreateRow, NextField, Answer, Respond, Serve
<1>3. ASSUME NEW v \in Workers, WorkerStep(v), ~Serve(w, "idle")
      PROVE  Work(w)' < Work(w) \/ UNCHANGED <<req[w], job[w], fields[w]>>
  BY <1>1, <1>3, OwnRunsDown, OthersRest
<1>4. ASSUME UNCHANGED <<req, job, fields>>
      PROVE  UNCHANGED <<req[w], job[w], fields[w]>>
  BY <1>4
<1>5. Serving(w) => Work(w)' < Work(w)
  BY <1>1, <1>2, OwnRunsDown
<1> QED
  BY <1>3, <1>4, <1>5
     DEF RunsDown, SvNext, WorkerStep, RemoveUser, DeleteUser, A!DeleteUser, Revoke,
         DeleteToken, Expire, RemoveRow, A!DeleteBatchStep, A!DeleteSensorStep,
         A!DeleteBatch, A!DeleteSensor, Pass, A!Tick, svars, vars

\* However other requests and deletions interleave with it, no request goes on
\* for ever: every statement its goroutine takes brings it nearer its answer,
\* and nothing else takes it away from there.
THEOREM RequestsRunDown == SvSpec => [][\A w \in Workers : RunsDown(w)]_svars
<1>1. TypeOK /\ RowsInv /\ ServingInv /\ [SvNext]_svars => \A w \in Workers : RunsDown(w)
  BY WorkStep DEF RowsInv
<1> QED
  BY <1>1, ServerTypeCorrect, RowsInvariant, ServingInvariant, PTL DEF SvSpec

\* That makes at most 5 * (MaxFields + 1) statements for any request, and an
\* idle worker is one with nothing left to do.
WorkBounded(w) ==
    /\ Work(w) \in 0 .. 5 * (MaxFields + 1)
    /\ Work(w) = 0 <=> Serve(w, "idle")

LEMMA WorkHasBound ==
    ASSUME TypeOK, A!TypeOK, ServingInv, NEW w \in Workers
    PROVE  WorkBounded(w)
<1>1. fields[w] \in Nat /\ fields[w] <= MaxFields /\ MaxFields \in Nat
  BY MaxFieldsAssumption DEF ServingInv
<1>2. MutationLeft(job[w].step) \in 0 .. 4
  BY DEF MutationLeft
<1>3. DocumentLeft(w) \in 0 .. 5 * MaxFields + 4
  BY <1>1, <1>2 DEF DocumentLeft
<1>4. Serve(w, "lookup") => DocumentLeft(w) <= 5 * MaxFields
  <2>1. Serve(w, "lookup") => MutationLeft(job[w].step) = 0
    BY DEF ServingInv, Executes, Busy, Serve, MutationLeft
  <2> QED
    BY <1>1, <2>1 DEF DocumentLeft
<1>5. /\ Serve(w, "idle") => req[w].step = "idle"
      /\ req[w].step \in {"idle", "find", "save", "lookup", "serve"}
  BY DEF TypeOK, Serve, Idle, LoginRequest, ApiRequest
<1>6. /\ Serve(w, "lookup") => Work(w) = 2 + DocumentLeft(w)
      /\ Serve(w, "serve") => Work(w) = 1 + DocumentLeft(w)
      /\ Serve(w, "idle") => Work(w) = 0
      /\ Serve(w, "find") => Work(w) = 2
      /\ Serve(w, "save") => Work(w) = 1
  BY <1>3 DEF Work, RequestLeft, Serve
<1> QED
  BY <1>1, <1>3, <1>4, <1>5, <1>6 DEF WorkBounded, Serve

\* A request is answered after at most so many statements of its goroutine.
THEOREM WorkAlwaysBounded == SvSpec => [](\A w \in Workers : WorkBounded(w))
<1>1. TypeOK /\ RowsInv /\ ServingInv => \A w \in Workers : WorkBounded(w)
  BY WorkHasBound DEF RowsInv
<1> QED
  BY <1>1, ServerTypeCorrect, RowsInvariant, ServingInvariant, PTL

-----------------------------------------------------------------------------
(* What was proved of the parts, of the whole                              *)

\* Mutations that run under a request and rows that go with its user leave
\* the tokens what they are by themselves.
THEOREM ServerKeepsRights ==
    SvSpec => /\ [](ActsAsIssued /\ RevokedActsAsNobody /\ TokensHaveUsers)
              /\ ImplementsAccess
<1>1. AuthInv => ActsAsIssued /\ RevokedActsAsNobody /\ TokensHaveUsers
  BY DEF AuthInv
<1> QED
  BY <1>1, AuthInvariant, ComponentsImplemented, AccessImplemented, PTL
     DEF ImplementsComponents

LEMMA SameChecks == AP!OneActivePerWorker => A!OneActivePerWorker
  BY Zenon DEF A!OneActivePerWorker, AP!OneActivePerWorker, A!Active, AP!Active,
     A!Live, AP!Live, A!Absent, AP!Absent, A!Owned, AP!Owned

LEMMA SameHistory == AP!HistoryPermanent => A!HistoryPermanent
<1> DEFINE KeptIn(L) ==
      \A i \in AssocIds :
         /\ i \in L =>
              \/ i \in L' /\ assoc'[i].batch = assoc[i].batch
                          /\ assoc'[i].sensor = assoc[i].sensor
              \/ batchOwner'[assoc[i].batch] = Dead
              \/ sensorOwner'[assoc[i].sensor] = Dead
         /\ assoc[i] = Dead => assoc'[i] = Dead
<1>1. AP!Live = A!Live /\ AP!vars = A!vars
  BY DEF A!Live, AP!Live, A!Absent, AP!Absent, A!vars, AP!vars
<1>2. [KeptIn(AP!Live)]_(AP!vars) => [KeptIn(A!Live)]_(A!vars)
  <2>1. (AP!Live)' = (A!Live)' /\ (AP!vars)' = (A!vars)'
    BY DEF A!Live, AP!Live, A!Absent, AP!Absent, A!vars, AP!vars
  <2> QED
    BY <1>1, <2>1
<1> QED
  BY <1>2, PTL DEF AP!HistoryPermanent, A!HistoryPermanent

\* Behind the middleware, too, an association ties a batch and a sensor of one
\* user, a request never acts on what has become somebody else's, and history
\* is kept.
THEOREM ServerKeepsOwners ==
    SvSpec => [](A!OwnersAgree /\ A!LookupsHold) /\ A!HistoryPermanent
<1>1. RowsInv => A!OwnersAgree /\ A!LookupsHold
  BY DEF RowsInv
<1>2. AP!Spec => AP!HistoryPermanent
  BY AP!HistoryIsPermanent, SameAssumptions, TablesAssumption
<1> QED
  BY <1>1, <1>2, SameHistory, SameSpec, RowsInvariant, ComponentsImplemented, PTL
     DEF ImplementsComponents

\* As long as clients only close associations, the mutations of one worker,
\* of one document or of several, open no two associations on a sensor.
THEOREM ServerKeepsChecks ==
    ASSUME A!CloseOnly PROVE SvSpec => []A!OneActivePerWorker
<1>1. AP!CloseOnly
  BY DEF A!CloseOnly, AP!CloseOnly
<1>2. AP!Spec => []AP!OneActivePerWorker
  BY <1>1, AP!OneActivePerWorkerAlways, SameAssumptions, TablesAssumption
<1> QED
  BY <1>2, SameChecks, SameSpec, ComponentsImplemented, PTL DEF ImplementsComponents
=============================================================================
