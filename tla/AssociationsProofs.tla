------------------------- MODULE AssociationsProofs -------------------------
(***************************************************************************)
(* Proofs about Associations for every set of users, keys, workers and     *)
(* client-supplied times.                                                  *)
(***************************************************************************)
EXTENDS Associations, TLAPS

-----------------------------------------------------------------------------
(* Types *)

\* Setting the step of a request to another step of its kind, or dropping the
\* request, leaves req a function into Request.
LEMMA RequestTypes ==
    ASSUME req \in [Workers -> Request], NEW w \in Workers
    PROVE  /\ Serve(w, "batch") \/ Serve(w, "sensor") \/ Serve(w, "active")
                \/ Serve(w, "insert") => req[w] \in AssociateRequest
           /\ Serve(w, "association") \/ Serve(w, "update") =>
                req[w] \in UpdateRequest
           /\ Reply(w) => req' \in [Workers -> Request]
           /\ \A r \in Request :
                req' = [req EXCEPT ![w] = r] => req' \in [Workers -> Request]
<1>1. req[w] \in Request
  OBVIOUS
<1>2. /\ Serve(w, "batch") \/ Serve(w, "sensor") \/ Serve(w, "active")
            \/ Serve(w, "insert") => req[w] \in AssociateRequest
      /\ Serve(w, "association") \/ Serve(w, "update") => req[w] \in UpdateRequest
  BY <1>1 DEF Serve, Request, AssociateRequest, UpdateRequest, Idle
<1>3. Idle \in Request
  BY DEF Request
<1> QED
  BY <1>2, <1>3 DEF Reply

\* TypeOK is inductive.
LEMMA TypeStep == TypeOK /\ [Next]_vars => TypeOK'
<1> SUFFICES ASSUME TypeOK, [Next]_vars
             PROVE  TypeOK'
  OBVIOUS
<1> USE DEF TypeOK
<1>1. ASSUME NEW u \in Users, NEW b \in BatchIds, CreateBatch(u, b)
      PROVE  TypeOK'
  BY <1>1 DEF CreateBatch, Owner
<1>2. ASSUME NEW u \in Users, NEW s \in SensorIds, CreateSensor(u, s)
      PROVE  TypeOK'
  BY <1>2 DEF CreateSensor, Owner
<1>3. ASSUME NEW w \in Workers, AssociateStep(w) \/ UpdateStep(w) \/ Abort(w)
      PROVE  TypeOK'
  <2>1. CASE BeginAssociate(w)
    <3>1. PICK r \in AssociateRequest : req' = [req EXCEPT ![w] = r]
      BY <2>1 DEF BeginAssociate, AssociateRequest
    <3> QED
      BY <2>1, <3>1 DEF BeginAssociate, rows, Request
  <2>2. CASE FindBatch(w)
    BY <2>2, RequestTypes DEF FindBatch, rows, Advance, AssociateRequest, Request
  <2>3. CASE FindSensor(w)
    BY <2>3, RequestTypes DEF FindSensor, rows, Advance, AssociateRequest, Request
  <2>4. CASE CheckActive(w)
    BY <2>4, RequestTypes DEF CheckActive, rows, AssociateRequest, Request
  <2>5. CASE InsertAssociation(w)
    <3>1. req[w] \in AssociateRequest /\ req' \in [Workers -> Request]
      BY <2>5, RequestTypes DEF InsertAssociation
    <3>2. CASE assoc' = assoc
      BY <2>5, <3>1, <3>2 DEF InsertAssociation
    <3>3. CASE assoc' # assoc
      <4>1. PICK i \in AssocIds, t \in req[w].since .. now :
              assoc' = [assoc EXCEPT ![i] =
                 [batch |-> req[w].batch, sensor |-> req[w].sensor, at |-> t,
                  dis |-> NULL, by |-> w]]
        BY <2>5, <3>3 DEF InsertAssociation
      <4>2. [batch |-> req[w].batch, sensor |-> req[w].sensor, at |-> t,
             dis |-> NULL, by |-> w] \in AssocRow
        BY <3>1, <4>1 DEF AssocRow, AssociateRequest
      <4> QED
        BY <2>5, <3>1, <4>1, <4>2 DEF InsertAssociation
    <3> QED
      BY <3>2, <3>3
  <2>6. CASE BeginUpdate(w)
    <3>1. PICK r \in UpdateRequest : req' = [req EXCEPT ![w] = r]
      BY <2>6 DEF BeginUpdate, UpdateRequest
    <3> QED
      BY <2>6, <3>1 DEF BeginUpdate, rows, Request
  <2>7. CASE FindAssociation(w)
    BY <2>7, RequestTypes DEF FindAssociation, rows, Advance, UpdateRequest, Request
  <2>8. CASE UpdateAssociation(w)
    <3>1. req[w] \in UpdateRequest /\ req' \in [Workers -> Request]
      BY <2>8, RequestTypes DEF UpdateAssociation
    <3>2. CASE req[w].id \in Live
      <4>1. assoc[req[w].id] \in AssocRow
        BY <3>1, <3>2 DEF Live, UpdateRequest
      <4>2. [assoc[req[w].id] EXCEPT !.at = req[w].at, !.dis = req[w].dis] \in AssocRow
        BY <3>1, <4>1, TimeAssumption DEF AssocRow, UpdateRequest
      <4>3. assoc' = [assoc EXCEPT ![req[w].id] =
                        [assoc[req[w].id] EXCEPT !.at = req[w].at, !.dis = req[w].dis]]
        BY <2>8, <3>1, <3>2 DEF UpdateAssociation, Live, UpdateRequest
      <4> QED
        BY <2>8, <3>1, <4>2, <4>3 DEF UpdateAssociation
    <3>3. CASE req[w].id \notin Live
      BY <2>8, <3>1, <3>3 DEF UpdateAssociation
    <3> QED
      BY <3>2, <3>3
  <2>9. CASE Abort(w)
    BY <2>9, RequestTypes DEF Abort, rows
  <2> QED
    BY <1>3, <2>1, <2>2, <2>3, <2>4, <2>5, <2>6, <2>7, <2>8, <2>9
       DEF AssociateStep, UpdateStep
<1>4. ASSUME NEW u \in Users, DeleteUser(u)
      PROVE  TypeOK'
  BY <1>4 DEF DeleteUser, Orphan, Owner
<1>5. ASSUME NEW b \in BatchIds, DeleteBatch(b)
      PROVE  TypeOK'
  BY <1>5 DEF DeleteBatch, Cascade, Owner, Absent
<1>6. ASSUME NEW s \in SensorIds, DeleteSensor(s)
      PROVE  TypeOK'
  BY <1>6 DEF DeleteSensor, Cascade, Owner, Absent
<1>7. CASE Tick
  BY <1>7 DEF Tick, rows
<1>8. CASE UNCHANGED vars
  BY <1>8 DEF vars
<1> QED
  BY <1>1, <1>2, <1>3, <1>4, <1>5, <1>6, <1>7, <1>8
     DEF Next, RequestStep, CreateStep, DeleteBatchStep, DeleteSensorStep, DeleteUserStep

\* Types are correct in every reachable state.
THEOREM TypeCorrect == Spec => []TypeOK
<1>1. Init => TypeOK
  BY TimeAssumption DEF Init, TypeOK, Owner, Absent, Request
<1> QED
  BY <1>1, TypeStep, PTL DEF Spec

-----------------------------------------------------------------------------
(* Ownership                                                               *)
(*                                                                         *)
(* OwnersAgree is not inductive: an INSERT relies on two lookups made one  *)
(* after the other.  OwnershipInv adds what a worker still knows of them.  *)

OwnershipInv == TypeOK /\ OwnersExist /\ OwnersAgree /\ LookupsHold

\* Workers that do not move keep what they know when no row changes.
LEMMA RowsKept ==
    ASSUME OwnershipInv, UNCHANGED rows
    PROVE  /\ OwnersExist' /\ OwnersAgree'
           /\ \A w \in Workers : req'[w] = req[w] => Remembers(w)'
<1>1. Live' = Live
  BY DEF rows, Live
<1> QED
  BY <1>1 DEF OwnershipInv, OwnersExist, OwnersAgree, LookupsHold, Remembers,
              StillOwned, rows, BatchExists

\* A request that has not looked anything up has nothing to remember.
LEMMA NothingLookedUp ==
    ASSUME NEW w \in Workers, req'[w].step \in {"idle", "batch", "association"}
    PROVE  Remembers(w)'
BY DEF Remembers

\* A statement of worker w that only reads: the others keep what they know.
LEMMA ReadStep ==
    ASSUME OwnershipInv, OwnershipInv => TypeOK', UNCHANGED rows,
           NEW w \in Workers, \A v \in Workers \ {w} : req'[v] = req[v],
           Remembers(w)'
    PROVE  OwnershipInv'
BY RowsKept DEF OwnershipInv, LookupsHold

\* An update touches neither the set of rows nor the pair a row ties.
LEMMA UpdateKeepsPair ==
    ASSUME TypeOK, NEW w \in Workers, UpdateAssociation(w)
    PROVE  /\ Live' = Live
           /\ \A i \in Live : /\ assoc'[i].batch = assoc[i].batch
                               /\ assoc'[i].sensor = assoc[i].sensor
                               /\ assoc'[i].by = assoc[i].by
           /\ \A i \in AssocIds : assoc'[i] = Unborn => assoc[i] = Unborn
<1>1. req[w] \in UpdateRequest
  BY RequestTypes DEF TypeOK, UpdateAssociation
<1>2. CASE req[w].id \in Live
  <2>1. assoc[req[w].id] \in AssocRow
    BY <1>1, <1>2 DEF Live, TypeOK, UpdateRequest
  <2> DEFINE new == [assoc[req[w].id] EXCEPT !.at = req[w].at, !.dis = req[w].dis]
  <2>2. /\ new \in AssocRow
        /\ new.batch = assoc[req[w].id].batch
        /\ new.sensor = assoc[req[w].id].sensor
        /\ new.by = assoc[req[w].id].by
    BY <1>1, <2>1, TimeAssumption DEF AssocRow, UpdateRequest
  <2>3. assoc' = [assoc EXCEPT ![req[w].id] = new]
    BY <1>1, <1>2 DEF UpdateAssociation, TypeOK, Live, UpdateRequest
  <2> HIDE DEF new
  <2> QED
    BY <1>1, <1>2, <2>2, <2>3, RowAssumption DEF Live, Absent, TypeOK, UpdateRequest
<1>3. CASE req[w].id \notin Live
  BY <1>3 DEF UpdateAssociation, Live
<1> QED
  BY <1>2, <1>3

\* OwnershipInv is inductive.
LEMMA OwnershipStep == OwnershipInv /\ [Next]_vars => OwnershipInv'
<1> SUFFICES ASSUME OwnershipInv, [Next]_vars
             PROVE  OwnershipInv'
  OBVIOUS
<1>0. TypeOK /\ TypeOK'
  BY TypeStep DEF OwnershipInv
<1>1. ASSUME NEW u \in Users, NEW b \in BatchIds, CreateBatch(u, b)
      PROVE  OwnershipInv'
  <2>1. /\ u \in users /\ batchOwner[b] = Unborn
        /\ batchOwner' = [batchOwner EXCEPT ![b] = u]
        /\ UNCHANGED <<now, users, sensorOwner, assoc, req>>
        /\ Live' = Live
    BY <1>1 DEF CreateBatch, Live
  <2>2. OwnersExist'
    BY <1>0, <2>1 DEF OwnershipInv, OwnersExist, TypeOK
  <2>3. \A i \in Live : assoc[i] \in AssocRow /\ assoc[i].batch # b
    BY <1>0, <2>1 DEF OwnershipInv, OwnersAgree, BatchExists, Absent, Live, TypeOK
  <2>4. OwnersAgree'
    BY <1>0, <2>1, <2>3 DEF OwnershipInv, OwnersAgree, BatchExists, TypeOK, AssocRow
  <2>5. LookupsHold'
    <3> SUFFICES ASSUME NEW w \in Workers
                 PROVE  Remembers(w)'
      BY DEF LookupsHold
    <3>1. Remembers(w)
      BY DEF OwnershipInv, LookupsHold
    <3>2. req[w].step \in {"sensor", "active", "insert"} => req[w].batch # b
      BY <2>1, <3>1, SentinelAssumption, <1>0 DEF Remembers, StillOwned, TypeOK, Request, AssociateRequest, UpdateRequest, Idle
    <3> QED
      BY <1>0, <2>1, <2>3, <3>1, <3>2 DEF Remembers, StillOwned, TypeOK, AssocRow
  <2> QED
    BY <1>0, <2>2, <2>4, <2>5 DEF OwnershipInv
<1>2. ASSUME NEW u \in Users, NEW s \in SensorIds, CreateSensor(u, s)
      PROVE  OwnershipInv'
  <2>1. /\ u \in users /\ sensorOwner[s] = Unborn
        /\ sensorOwner' = [sensorOwner EXCEPT ![s] = u]
        /\ UNCHANGED <<now, users, batchOwner, assoc, req>>
        /\ Live' = Live
    BY <1>2 DEF CreateSensor, Live
  <2>2. OwnersExist'
    BY <1>0, <2>1 DEF OwnershipInv, OwnersExist, TypeOK
  <2>3. \A i \in Live : assoc[i] \in AssocRow /\ assoc[i].sensor # s
    BY <1>0, <2>1 DEF OwnershipInv, OwnersAgree, BatchExists, Absent, Live, TypeOK
  <2>4. OwnersAgree'
    BY <1>0, <2>1, <2>3 DEF OwnershipInv, OwnersAgree, BatchExists, TypeOK, AssocRow
  <2>5. LookupsHold'
    <3> SUFFICES ASSUME NEW w \in Workers
                 PROVE  Remembers(w)'
      BY DEF LookupsHold
    <3>1. Remembers(w)
      BY DEF OwnershipInv, LookupsHold
    <3>2. req[w].step \in {"active", "insert"} => req[w].sensor # s
      BY <2>1, <3>1, SentinelAssumption, <1>0 DEF Remembers, StillOwned, TypeOK, Request, AssociateRequest, UpdateRequest, Idle
    <3> QED
      BY <1>0, <2>1, <2>3, <3>1, <3>2 DEF Remembers, StillOwned, TypeOK, AssocRow
  <2> QED
    BY <1>0, <2>2, <2>4, <2>5 DEF OwnershipInv
<1>3. ASSUME NEW w \in Workers, AssociateStep(w) \/ UpdateStep(w) \/ Abort(w)
      PROVE  OwnershipInv'
  <2>0. req[w] \in Request /\ Remembers(w)
    BY <1>0 DEF TypeOK, OwnershipInv, LookupsHold
  <2>1. CASE BeginAssociate(w)
    <3>1. /\ UNCHANGED rows
          /\ \A v \in Workers \ {w} : req'[v] = req[v]
          /\ req'[w].step = "batch"
      BY <1>0, <2>1 DEF BeginAssociate, TypeOK
    <3> QED
      BY <1>0, <3>1, NothingLookedUp, ReadStep
  <2>2. CASE FindBatch(w)
    <3>1. /\ UNCHANGED rows
          /\ \A v \in Workers \ {w} : req'[v] = req[v]
          /\ req[w] \in AssociateRequest
      BY <1>0, <2>2, RequestTypes DEF FindBatch, Advance, Reply, TypeOK
    <3>2. CASE batchOwner[req[w].batch] = req[w].user
      <4>1. /\ req'[w].step = "sensor"
            /\ req'[w].batch = req[w].batch /\ req'[w].user = req[w].user
        BY <1>0, <2>2, <3>1, <3>2 DEF FindBatch, Advance, TypeOK, AssociateRequest
      <4>2. req[w].user \in users
        BY <3>1, <3>2 DEF OwnershipInv, OwnersExist, AssociateRequest
      <4>3. Remembers(w)'
        BY <3>1, <3>2, <4>1, <4>2 DEF Remembers, StillOwned, rows
      <4> QED
        BY <1>0, <3>1, <4>3, ReadStep
    <3>3. CASE batchOwner[req[w].batch] # req[w].user
      <4>1. req'[w].step = "idle"
        BY <1>0, <2>2, <3>3 DEF FindBatch, Reply, TypeOK, Idle
      <4> QED
        BY <1>0, <3>1, <4>1, NothingLookedUp, ReadStep
    <3> QED
      BY <3>2, <3>3
  <2>3. CASE FindSensor(w)
    <3>1. /\ UNCHANGED rows
          /\ \A v \in Workers \ {w} : req'[v] = req[v]
          /\ req[w] \in AssociateRequest /\ req[w].step = "sensor"
      BY <1>0, <2>3, RequestTypes DEF FindSensor, Advance, Reply, Serve, TypeOK
    <3>2. CASE sensorOwner[req[w].sensor] = req[w].user
      <4>1. /\ req'[w].step = "active"
            /\ req'[w].batch = req[w].batch /\ req'[w].user = req[w].user
            /\ req'[w].sensor = req[w].sensor
        BY <1>0, <2>3, <3>1, <3>2 DEF FindSensor, Advance, TypeOK, AssociateRequest
      <4>2. req[w].user \in users
        BY <3>1, <3>2 DEF OwnershipInv, OwnersExist, AssociateRequest
      <4>3. Remembers(w)'
        BY <2>0, <3>1, <3>2, <4>1, <4>2 DEF Remembers, StillOwned, rows
      <4> QED
        BY <1>0, <3>1, <4>3, ReadStep
    <3>3. CASE sensorOwner[req[w].sensor] # req[w].user
      <4>1. req'[w].step = "idle"
        BY <1>0, <2>3, <3>3 DEF FindSensor, Reply, TypeOK, Idle
      <4> QED
        BY <1>0, <3>1, <4>1, NothingLookedUp, ReadStep
    <3> QED
      BY <3>2, <3>3
  <2>4. CASE CheckActive(w)
    <3>1. /\ UNCHANGED rows
          /\ \A v \in Workers \ {w} : req'[v] = req[v]
          /\ req[w] \in AssociateRequest /\ req[w].step = "active"
      BY <1>0, <2>4, RequestTypes DEF CheckActive, Reply, Serve, TypeOK
    <3>2. CASE ActiveRows(req[w].sensor, req[w].user) = {}
      <4>1. /\ req'[w].step = "insert"
            /\ req'[w].batch = req[w].batch /\ req'[w].user = req[w].user
            /\ req'[w].sensor = req[w].sensor
        BY <1>0, <2>4, <3>1, <3>2 DEF CheckActive, TypeOK, AssociateRequest
      <4>2. Remembers(w)'
        BY <2>0, <3>1, <4>1 DEF Remembers, StillOwned, rows
      <4> QED
        BY <1>0, <3>1, <4>2, ReadStep
    <3>3. CASE ActiveRows(req[w].sensor, req[w].user) # {}
      <4>1. req'[w].step = "idle"
        BY <1>0, <2>4, <3>3 DEF CheckActive, Reply, TypeOK, Idle
      <4> QED
        BY <1>0, <3>1, <4>1, NothingLookedUp, ReadStep
    <3> QED
      BY <3>2, <3>3
  <2>5. CASE InsertAssociation(w)
    <3>1. /\ UNCHANGED <<now, users, batchOwner, sensorOwner>>
          /\ \A v \in Workers \ {w} : req'[v] = req[v]
          /\ req[w] \in AssociateRequest /\ req[w].step = "insert"
          /\ req'[w].step = "idle"
      BY <1>0, <2>5, RequestTypes DEF InsertAssociation, Reply, Serve, TypeOK, Idle
    <3>2. CASE UNCHANGED assoc
      BY <1>0, <3>1, <3>2, NothingLookedUp, ReadStep DEF rows
    <3>3. CASE assoc' # assoc
      <4>1. PICK i \in AssocIds, t \in req[w].since .. now :
              /\ assoc[i] = Unborn
              /\ assoc' = [assoc EXCEPT ![i] =
                   [batch |-> req[w].batch, sensor |-> req[w].sensor, at |-> t,
                    dis |-> NULL, by |-> w]]
              /\ BatchExists(req[w].batch) /\ SensorExists(req[w].sensor)
        BY <2>5, <3>3 DEF InsertAssociation
      <4>2. batchOwner[req[w].batch] = sensorOwner[req[w].sensor]
        BY <2>0, <3>1, <4>1 DEF Remembers, StillOwned, BatchExists, SensorExists, Absent
      <4>3. /\ i \notin Live
            /\ Live' \subseteq Live \cup {i}
            /\ \A j \in Live : assoc'[j] = assoc[j]
            /\ assoc'[i].batch = req[w].batch /\ assoc'[i].sensor = req[w].sensor
        BY <1>0, <4>1 DEF Live, Absent, TypeOK
      <4>4. OwnersAgree'
        BY <3>1, <4>1, <4>2, <4>3 DEF OwnershipInv, OwnersAgree, BatchExists
      <4>5. LookupsHold'
        <5> SUFFICES ASSUME NEW v \in Workers \ {w}
                     PROVE  Remembers(v)'
          BY <3>1, NothingLookedUp DEF LookupsHold
        <5>1. Remembers(v) /\ req'[v] = req[v] /\ req[v] \in Request
          BY <1>0, <3>1 DEF OwnershipInv, LookupsHold, TypeOK
        <5>2. req[v].step = "update" => req[v].id \in AssocIds /\ req[v].id # i
          BY <4>1, <5>1 DEF Remembers, Request, UpdateRequest, AssociateRequest, Idle
        <5> QED
          BY <1>0, <3>1, <4>1, <4>3, <5>1, <5>2 DEF Remembers, StillOwned, TypeOK
      <4> QED
        BY <1>0, <3>1, <4>4, <4>5 DEF OwnershipInv, OwnersExist
    <3> QED
      BY <3>2, <3>3
  <2>6. CASE BeginUpdate(w)
    <3>1. /\ UNCHANGED rows
          /\ \A v \in Workers \ {w} : req'[v] = req[v]
          /\ req'[w].step = "association"
      BY <1>0, <2>6 DEF BeginUpdate, TypeOK
    <3> QED
      BY <1>0, <3>1, NothingLookedUp, ReadStep
  <2>7. CASE FindAssociation(w)
    <3>1. /\ UNCHANGED rows
          /\ \A v \in Workers \ {w} : req'[v] = req[v]
          /\ req[w] \in UpdateRequest
      BY <1>0, <2>7, RequestTypes DEF FindAssociation, Advance, Reply, TypeOK
    <3>2. CASE req[w].id \in Live /\ Visible(req[w].id, req[w].user)
      <4>1. /\ req'[w].step = "update"
            /\ req'[w].id = req[w].id /\ req'[w].user = req[w].user
        BY <1>0, <2>7, <3>1, <3>2 DEF FindAssociation, Advance, TypeOK, UpdateRequest
      <4>2. assoc[req[w].id] \in AssocRow /\ assoc[req[w].id] # Unborn
        BY <1>0, <3>2 DEF TypeOK, Live, Absent
      <4>3. req[w].user \in users
        BY <3>1, <3>2, <4>2 DEF OwnershipInv, OwnersExist, Visible, AssocRow, UpdateRequest
      <4>4. Remembers(w)'
        BY <3>1, <3>2, <4>1, <4>2, <4>3 DEF Remembers, StillOwned, Visible, rows
      <4> QED
        BY <1>0, <3>1, <4>4, ReadStep
    <3>3. CASE ~(req[w].id \in Live /\ Visible(req[w].id, req[w].user))
      <4>1. req'[w].step = "idle"
        BY <1>0, <2>7, <3>3 DEF FindAssociation, Reply, TypeOK, Idle
      <4> QED
        BY <1>0, <3>1, <4>1, NothingLookedUp, ReadStep
    <3> QED
      BY <3>2, <3>3
  <2>8. CASE UpdateAssociation(w)
    <3>1. /\ UNCHANGED <<now, users, batchOwner, sensorOwner>>
          /\ \A v \in Workers \ {w} : req'[v] = req[v]
          /\ req'[w].step = "idle"
      BY <1>0, <2>8 DEF UpdateAssociation, Reply, TypeOK, Idle
    <3>2. /\ Live' = Live
          /\ \A i \in Live : /\ assoc'[i].batch = assoc[i].batch
                              /\ assoc'[i].sensor = assoc[i].sensor
          /\ \A i \in AssocIds : assoc'[i] = Unborn => assoc[i] = Unborn
      BY <2>8, UpdateKeepsPair, <1>0
    <3>3. OwnersAgree'
      BY <3>1, <3>2 DEF OwnershipInv, OwnersAgree, BatchExists
    <3>4. LookupsHold'
      <4> SUFFICES ASSUME NEW v \in Workers \ {w}
                   PROVE  Remembers(v)'
        BY <3>1, NothingLookedUp DEF LookupsHold
      <4>1. Remembers(v) /\ req'[v] = req[v] /\ req[v] \in Request
        BY <1>0, <3>1 DEF OwnershipInv, LookupsHold, TypeOK
      <4>2. req[v].step = "update" => req[v].id \in AssocIds
        BY <4>1 DEF Request, UpdateRequest, AssociateRequest, Idle
      <4> QED
        BY <3>1, <3>2, <4>1, <4>2 DEF Remembers, StillOwned
    <3> QED
      BY <1>0, <3>1, <3>3, <3>4 DEF OwnershipInv, OwnersExist
  <2>9. CASE Abort(w)
    <3>1. /\ UNCHANGED rows
          /\ \A v \in Workers \ {w} : req'[v] = req[v]
          /\ req'[w].step = "idle"
      BY <1>0, <2>9 DEF Abort, Reply, Idle, TypeOK
    <3> QED
      BY <1>0, <3>1, NothingLookedUp, ReadStep
  <2> QED
    BY <1>3, <2>1, <2>2, <2>3, <2>4, <2>5, <2>6, <2>7, <2>8, <2>9
       DEF AssociateStep, UpdateStep
<1>4. ASSUME NEW u \in Users, DeleteUser(u)
      PROVE  OwnershipInv'
  <2>1. /\ users' = users \ {u}
        /\ \A b \in BatchIds :
             batchOwner'[b] = IF batchOwner[b] = u THEN NULL ELSE batchOwner[b]
        /\ \A s \in SensorIds :
             sensorOwner'[s] = IF sensorOwner[s] = u THEN NULL ELSE sensorOwner[s]
        /\ assoc' = assoc /\ req' = req /\ Live' = Live
    BY <1>0, <1>4 DEF DeleteUser, Orphan, TypeOK, Live
  <2>2. OwnersExist'
    BY <2>1, SentinelAssumption DEF OwnershipInv, OwnersExist
  <2>3. \A i \in Live : assoc[i] \in AssocRow
    BY <1>0 DEF Live, TypeOK
  <2>4. OwnersAgree'
    BY <2>1, <2>3, SentinelAssumption
       DEF OwnershipInv, OwnersAgree, BatchExists, Absent, AssocRow
  <2>5. LookupsHold'
    <3> SUFFICES ASSUME NEW w \in Workers
                 PROVE  Remembers(w)'
      BY DEF LookupsHold
    <3>1. Remembers(w) /\ req[w] \in Request /\ req'[w] = req[w]
      BY <1>0, <2>1 DEF OwnershipInv, LookupsHold, TypeOK
    <3>2. \A o : StillOwned(o, req[w].user) /\ req[w].user \in Users =>
                 StillOwned(IF o = u THEN NULL ELSE o, req[w].user)'
      BY <2>1, SentinelAssumption DEF StillOwned
    <3> QED
      BY <2>1, <2>3, <3>1, <3>2
         DEF Remembers, Request, AssociateRequest, UpdateRequest, Idle, AssocRow
  <2> QED
    BY <1>0, <2>2, <2>4, <2>5 DEF OwnershipInv
<1>5. ASSUME NEW b \in BatchIds, DeleteBatch(b)
      PROVE  OwnershipInv'
  <2>1. /\ batchOwner' = [batchOwner EXCEPT ![b] = Dead]
        /\ UNCHANGED <<users, sensorOwner, req>>
        /\ \A i \in Live : assoc[i] \in AssocRow
        /\ Live' = {i \in Live : assoc[i].batch # b}
        /\ \A i \in Live' : assoc'[i] = assoc[i]
        /\ \A i \in AssocIds : assoc'[i] = Unborn => assoc[i] = Unborn
    BY <1>0, <1>5, SentinelAssumption DEF DeleteBatch, Cascade, Live, Absent, TypeOK
  <2>2. OwnersExist'
    BY <1>0, <2>1, SentinelAssumption DEF OwnershipInv, OwnersExist, TypeOK
  <2>3. OwnersAgree'
    BY <1>0, <2>1 DEF OwnershipInv, OwnersAgree, BatchExists, TypeOK, AssocRow
  <2>4. LookupsHold'
    <3> SUFFICES ASSUME NEW w \in Workers
                 PROVE  Remembers(w)'
      BY DEF LookupsHold
    <3>1. Remembers(w) /\ req[w] \in Request /\ req'[w] = req[w]
      BY <1>0, <2>1 DEF OwnershipInv, LookupsHold, TypeOK
    <3>2. \A o : StillOwned(o, req[w].user) => StillOwned(o, req[w].user)'
      BY <2>1 DEF StillOwned
    <3>3. StillOwned(Dead, req[w].user)'
      BY DEF StillOwned
    <3> QED
      BY <1>0, <2>1, <3>1, <3>2, <3>3
         DEF Remembers, Request, AssociateRequest, UpdateRequest, Idle, AssocRow, TypeOK
  <2> QED
    BY <1>0, <2>2, <2>3, <2>4 DEF OwnershipInv
<1>6. ASSUME NEW s \in SensorIds, DeleteSensor(s)
      PROVE  OwnershipInv'
  <2>1. /\ sensorOwner' = [sensorOwner EXCEPT ![s] = Dead]
        /\ UNCHANGED <<users, batchOwner, req>>
        /\ \A i \in Live : assoc[i] \in AssocRow
        /\ Live' = {i \in Live : assoc[i].sensor # s}
        /\ \A i \in Live' : assoc'[i] = assoc[i]
        /\ \A i \in AssocIds : assoc'[i] = Unborn => assoc[i] = Unborn
    BY <1>0, <1>6, SentinelAssumption DEF DeleteSensor, Cascade, Live, Absent, TypeOK
  <2>2. OwnersExist'
    BY <1>0, <2>1, SentinelAssumption DEF OwnershipInv, OwnersExist, TypeOK
  <2>3. OwnersAgree'
    BY <1>0, <2>1 DEF OwnershipInv, OwnersAgree, BatchExists, TypeOK, AssocRow
  <2>4. LookupsHold'
    <3> SUFFICES ASSUME NEW w \in Workers
                 PROVE  Remembers(w)'
      BY DEF LookupsHold
    <3>1. Remembers(w) /\ req[w] \in Request /\ req'[w] = req[w]
      BY <1>0, <2>1 DEF OwnershipInv, LookupsHold, TypeOK
    <3>2. \A o : StillOwned(o, req[w].user) => StillOwned(o, req[w].user)'
      BY <2>1 DEF StillOwned
    <3>3. StillOwned(Dead, req[w].user)'
      BY DEF StillOwned
    <3> QED
      BY <1>0, <2>1, <3>1, <3>2, <3>3
         DEF Remembers, Request, AssociateRequest, UpdateRequest, Idle, AssocRow, TypeOK
  <2> QED
    BY <1>0, <2>2, <2>3, <2>4 DEF OwnershipInv
<1>7. CASE Tick
  <2>1. UNCHANGED rows /\ req' = req
    BY <1>7 DEF Tick
  <2> QED
    BY <1>0, <2>1, RowsKept DEF OwnershipInv, LookupsHold
<1>8. CASE UNCHANGED vars
  <2>1. UNCHANGED rows /\ req' = req
    BY <1>8 DEF vars, rows
  <2> QED
    BY <1>0, <2>1, RowsKept DEF OwnershipInv, LookupsHold
<1> QED
  BY <1>1, <1>2, <1>3, <1>4, <1>5, <1>6, <1>7, <1>8
     DEF Next, RequestStep, CreateStep, DeleteBatchStep, DeleteSensorStep, DeleteUserStep

LEMMA OwnershipInit == Init => OwnershipInv
<1> SUFFICES ASSUME Init
             PROVE  OwnershipInv
  OBVIOUS
<1>1. TypeOK
  BY TimeAssumption DEF Init, TypeOK, Owner, Absent, Request
<1>2. Live = {}
  BY DEF Init, Live, Absent
<1>3. OwnersExist /\ OwnersAgree
  BY <1>2, SentinelAssumption DEF Init, OwnersExist, OwnersAgree
<1>4. LookupsHold
  BY DEF Init, LookupsHold, Remembers, Idle
<1> QED
  BY <1>1, <1>3, <1>4 DEF OwnershipInv

LEMMA OwnershipInvariant == Spec => []OwnershipInv
BY OwnershipInit, OwnershipStep, PTL DEF Spec

\* No sensor gets a new owner but the one a creation gives an unused key.
LEMMA SensorOwnerSteps ==
    ASSUME OwnershipInv, [Next]_vars, NEW s \in SensorIds, NEW u \in Users,
           StillOwned(sensorOwner[s], u)
    PROVE  StillOwned(sensorOwner[s], u)'
<1>1. TypeOK
  BY DEF OwnershipInv
<1>2. ASSUME NEW v \in Users, DeleteUser(v)
      PROVE  StillOwned(sensorOwner[s], u)'
  BY <1>1, <1>2, SentinelAssumption DEF DeleteUser, Orphan, StillOwned, TypeOK
<1>3. ASSUME NEW t \in SensorIds, DeleteSensor(t)
      PROVE  StillOwned(sensorOwner[s], u)'
  BY <1>1, <1>3 DEF DeleteSensor, StillOwned, TypeOK
<1>4. ASSUME NEW v \in Users, NEW t \in SensorIds, CreateSensor(v, t)
      PROVE  StillOwned(sensorOwner[s], u)'
  BY <1>1, <1>4, SentinelAssumption DEF CreateSensor, StillOwned, TypeOK
<1>5. CASE UNCHANGED <<users, sensorOwner>>
  BY <1>5 DEF StillOwned
<1> QED
  BY <1>2, <1>3, <1>4, <1>5
     DEF Next, RequestStep, AssociateStep, UpdateStep, CreateStep, DeleteBatchStep,
         DeleteSensorStep, DeleteUserStep, CreateBatch, BeginAssociate, FindBatch,
         FindSensor, CheckActive, InsertAssociation, BeginUpdate, FindAssociation,
         UpdateAssociation, Abort, DeleteBatch, Tick, vars, rows

\* However requests and deletions interleave, an association ties a batch and
\* a sensor of one user.
THEOREM OwnersAlwaysAgree == Spec => []OwnersAgree
BY OwnershipInvariant, PTL DEF OwnershipInv

\* What a request has looked up is never somebody else's when it acts on it.
THEOREM LookupsAlwaysHold == Spec => []LookupsHold
BY OwnershipInvariant, PTL DEF OwnershipInv

\* Every owner a batch or a sensor names is a user who exists.
THEOREM OwnersAlwaysExist == Spec => []OwnersExist
BY OwnershipInvariant, PTL DEF OwnershipInv

\* Only a request of the owner changes the interval of an association.
THEOREM OwnerRevises == Spec => OnlyOwnerRevises
<1> DEFINE ByOwner(i) ==
      \E w \in Workers :
          /\ Serve(w, "update")
          /\ req[w].id = i
          /\ batchOwner[assoc[i].batch] \in {req[w].user, NULL}
          /\ sensorOwner[assoc[i].sensor] \in {req[w].user, NULL}
<1> DEFINE Revised == \A i \in Live : i \in Live' /\ assoc'[i] # assoc[i] => ByOwner(i)
<1>1. ASSUME OwnershipInv, [Next]_vars
      PROVE  Revised
  <2> SUFFICES ASSUME NEW i \in Live, i \in Live', assoc'[i] # assoc[i]
               PROVE  ByOwner(i)
    OBVIOUS
  <2>1. TypeOK /\ i \in AssocIds /\ assoc[i] # Unborn
    BY <1>1 DEF OwnershipInv, Live, Absent
  <2>2. PICK w \in Workers : UpdateAssociation(w)
    <3>1. ASSUME NEW w \in Workers, InsertAssociation(w)
          PROVE  FALSE
      BY <1>1, <2>1, <3>1 DEF InsertAssociation, TypeOK
    <3>2. ASSUME NEW D, assoc' = Cascade(D)
          PROVE  FALSE
      BY <1>1, <2>1, <3>2 DEF Cascade, Live, Absent
    <3> QED
      BY <1>1, <3>1, <3>2
         DEF Next, RequestStep, AssociateStep, UpdateStep, CreateStep, DeleteBatchStep,
             DeleteSensorStep, DeleteUserStep, CreateBatch, CreateSensor, BeginAssociate,
             FindBatch, FindSensor, CheckActive, BeginUpdate, FindAssociation, Abort,
             DeleteUser, DeleteBatch, DeleteSensor, Tick, vars, rows
  <2>3. Serve(w, "update") /\ req[w].id = i
    BY <1>1, <2>1, <2>2 DEF UpdateAssociation, TypeOK
  <2>4. /\ StillOwned(batchOwner[assoc[i].batch], req[w].user)
        /\ StillOwned(sensorOwner[assoc[i].sensor], req[w].user)
    BY <1>1, <2>3 DEF OwnershipInv, LookupsHold, Remembers, Serve
  <2>5. /\ batchOwner[assoc[i].batch] \notin Absent
        /\ batchOwner[assoc[i].batch] = sensorOwner[assoc[i].sensor]
    BY <1>1 DEF OwnershipInv, OwnersAgree, BatchExists
  <2> QED
    BY <2>3, <2>4, <2>5 DEF StillOwned, Absent
<1> QED
  BY <1>1, OwnershipInvariant, PTL DEF Spec, OnlyOwnerRevises

\* Rows leave only by a cascade and never move or come back.
THEOREM HistoryIsPermanent == Spec => HistoryPermanent
<1> DEFINE Kept ==
      \A i \in AssocIds :
         /\ i \in Live =>
              \/ i \in Live' /\ assoc'[i].batch = assoc[i].batch
                             /\ assoc'[i].sensor = assoc[i].sensor
              \/ batchOwner'[assoc[i].batch] = Dead
              \/ sensorOwner'[assoc[i].sensor] = Dead
         /\ assoc[i] = Dead => assoc'[i] = Dead
<1>1. ASSUME OwnershipInv, [Next]_vars
      PROVE  Kept
  <2>0. TypeOK /\ \A i \in Live : i \in AssocIds /\ assoc[i] \in AssocRow
    BY <1>1 DEF OwnershipInv, TypeOK, Live
  <2>1. CASE UNCHANGED assoc
    BY <2>1 DEF Live
  <2>2. ASSUME NEW w \in Workers, InsertAssociation(w)
        PROVE  Kept
    <3>1. \/ UNCHANGED assoc
          \/ \E i \in AssocIds, r \in AssocRow :
               assoc[i] = Unborn /\ assoc' = [assoc EXCEPT ![i] = r]
      <4>1. req[w] \in AssociateRequest
        BY <2>0, <2>2, RequestTypes DEF TypeOK, InsertAssociation
      <4>2. \A t \in req[w].since .. now :
              [batch |-> req[w].batch, sensor |-> req[w].sensor, at |-> t,
               dis |-> NULL, by |-> w] \in AssocRow
        BY <2>0, <4>1 DEF AssocRow, AssociateRequest, TypeOK
      <4> QED
        BY <2>2, <4>2 DEF InsertAssociation
    <3> QED
      BY <2>0, <2>1, <3>1, SentinelAssumption DEF Live, Absent, TypeOK
  <2>3. ASSUME NEW w \in Workers, UpdateAssociation(w)
        PROVE  Kept
    <3>1. \A i \in AssocIds \ Live : assoc'[i] = assoc[i]
      BY <2>0, <2>3 DEF UpdateAssociation, TypeOK
    <3> QED
      BY <2>0, <2>3, <3>1, UpdateKeepsPair DEF Live, Absent
  <2>4. ASSUME NEW b \in BatchIds, DeleteBatch(b)
        PROVE  Kept
    BY <2>0, <2>4, SentinelAssumption DEF DeleteBatch, Cascade, Live, Absent, TypeOK, AssocRow
  <2>5. ASSUME NEW s \in SensorIds, DeleteSensor(s)
        PROVE  Kept
    BY <2>0, <2>5, SentinelAssumption DEF DeleteSensor, Cascade, Live, Absent, TypeOK, AssocRow
  <2> HIDE DEF Kept
  <2> QED
    BY <1>1, <2>1, <2>2, <2>3, <2>4, <2>5
       DEF Next, RequestStep, AssociateStep, UpdateStep, CreateStep, DeleteBatchStep,
           DeleteSensorStep, DeleteUserStep, CreateBatch, CreateSensor, BeginAssociate,
           FindBatch, FindSensor, CheckActive, BeginUpdate, FindAssociation, Abort,
           DeleteUser, Tick, vars, rows
<1> QED
  BY <1>1, OwnershipInvariant, PTL DEF Spec, HistoryPermanent

-----------------------------------------------------------------------------
(* The check before the INSERT                                             *)
(*                                                                         *)
(* When clients only close associations, a row that is open was inserted   *)
(* open, by a worker whose check had found none: for the rows of one       *)
(* worker the check and the INSERT are as good as atomic, because a worker *)
(* serves one request at a time.                                           *)

CheckInv == OwnershipInv /\ CheckHolds /\ OneActivePerWorker

\* Steps that open no association and give no sensor an owner: what is true
\* of the associations open on owned sensors stays true.
LEMMA NothingOpened ==
    ASSUME CheckInv,
           \A i \in AssocIds : Active(i)' =>
               /\ Active(i) /\ assoc'[i].sensor = assoc[i].sensor
               /\ assoc'[i].by = assoc[i].by
               /\ Owned(assoc[i].sensor)' => Owned(assoc[i].sensor),
           \A w \in Workers : Serve(w, "insert")' =>
               Serve(w, "insert") /\ req'[w].sensor = req[w].sensor
    PROVE  (CheckHolds /\ OneActivePerWorker)'
BY DEF CheckInv, CheckHolds, OneActivePerWorker

LEMMA CheckStep == CloseOnly /\ CheckInv /\ [Next]_vars => CheckInv'
<1> SUFFICES ASSUME CloseOnly, CheckInv, [Next]_vars
             PROVE  (CheckHolds /\ OneActivePerWorker)'
  BY OwnershipStep DEF CheckInv
<1>0. /\ TypeOK /\ OwnershipInv
      /\ \A i \in AssocIds : Active(i) => assoc[i] \in AssocRow
  BY DEF CheckInv, OwnershipInv, TypeOK, Active, Live
<1>1. ASSUME NEW u \in Users, NEW b \in BatchIds, CreateBatch(u, b)
      PROVE  (CheckHolds /\ OneActivePerWorker)'
  BY <1>1, NothingOpened DEF CreateBatch, Active, Live, Owned, Serve
<1>2. ASSUME NEW u \in Users, NEW s \in SensorIds, CreateSensor(u, s)
      PROVE  (CheckHolds /\ OneActivePerWorker)'
  <2>1. \A i \in AssocIds : Active(i) => assoc[i].sensor # s
    BY <1>0, <1>2 DEF CreateSensor, OwnershipInv, OwnersAgree, BatchExists, Absent, Active
  <2>2. \A i \in AssocIds : Active(i)' =>
          Active(i) /\ Owned(assoc[i].sensor)' = Owned(assoc[i].sensor)
    BY <1>0, <1>2, <2>1 DEF CreateSensor, Active, Live, Owned, TypeOK
  <2> QED
    BY <1>2, <2>2, NothingOpened DEF CreateSensor, Serve
<1>3. ASSUME NEW w \in Workers, AssociateStep(w) \/ UpdateStep(w) \/ Abort(w)
      PROVE  (CheckHolds /\ OneActivePerWorker)'
  <2>1. CASE BeginAssociate(w) \/ FindBatch(w) \/ FindSensor(w) \/ BeginUpdate(w)
                \/ FindAssociation(w) \/ Abort(w)
    <3>1. UNCHANGED rows /\ \A v \in Workers \ {w} : req'[v] = req[v]
      BY <1>0, <2>1 DEF BeginAssociate, FindBatch, FindSensor, BeginUpdate,
           FindAssociation, Abort, Advance, Reply, TypeOK
    <3>2. Reply(w) => ~Serve(w, "insert")'
      BY <1>0 DEF Reply, TypeOK, Serve, Idle
    <3>3. BeginAssociate(w) \/ BeginUpdate(w) => ~Serve(w, "insert")'
      BY <1>0 DEF BeginAssociate, BeginUpdate, TypeOK, Serve
    <3>4. ASSUME NEW step, Advance(w, step), step # "insert",
                 req[w] \in AssociateRequest \cup UpdateRequest
          PROVE  ~Serve(w, "insert")'
      BY <1>0, <3>4 DEF Advance, TypeOK, Serve, AssociateRequest, UpdateRequest
    <3>5. ~Serve(w, "insert")'
      BY <1>0, <2>1, <3>2, <3>3, <3>4, RequestTypes
         DEF FindBatch, FindSensor, FindAssociation, Abort, TypeOK
    <3> QED
      BY <3>1, <3>5, NothingOpened DEF rows, Active, Live, Owned, Serve
  <2>2. CASE CheckActive(w)
    <3>1. /\ UNCHANGED rows
          /\ \A v \in Workers \ {w} : req'[v] = req[v]
          /\ req[w] \in AssociateRequest /\ req[w].step = "active"
      BY <1>0, <2>2, RequestTypes DEF CheckActive, Reply, Serve, TypeOK
    <3>2. CASE ActiveRows(req[w].sensor, req[w].user) = {}
      <4>1. req'[w].sensor = req[w].sensor
        BY <1>0, <2>2, <3>1, <3>2 DEF CheckActive, TypeOK, AssociateRequest
      <4>2. Owned(req[w].sensor) => sensorOwner[req[w].sensor] = req[w].user
        BY <1>0, <3>1, SentinelAssumption
           DEF OwnershipInv, LookupsHold, Remembers, StillOwned, Owned
      <4>3. Owned(req[w].sensor) =>
              \A i \in AssocIds : Active(i) => assoc[i].sensor # req[w].sensor
        BY <1>0, <3>2, <4>2
           DEF ActiveRows, Visible, Active, OwnershipInv, OwnersAgree
      <4> QED
        BY <3>1, <4>1, <4>3
           DEF CheckInv, CheckHolds, OneActivePerWorker, rows, Active, Live, Owned, Serve
    <3>3. CASE ActiveRows(req[w].sensor, req[w].user) # {}
      <4>1. ~Serve(w, "insert")'
        BY <1>0, <2>2, <3>3 DEF CheckActive, Reply, TypeOK, Idle, Serve
      <4> QED
        BY <3>1, <4>1, NothingOpened DEF rows, Active, Live, Owned, Serve
    <3> QED
      BY <3>2, <3>3
  <2>3. CASE InsertAssociation(w)
    <3>1. /\ UNCHANGED <<now, users, batchOwner, sensorOwner>>
          /\ \A v \in Workers \ {w} : req'[v] = req[v]
          /\ ~Serve(w, "insert")' /\ Serve(w, "insert")
      BY <1>0, <2>3 DEF InsertAssociation, Reply, Serve, TypeOK, Idle
    <3>2. CASE UNCHANGED assoc
      BY <3>1, <3>2, NothingOpened DEF Active, Live, Owned, Serve
    <3>3. CASE assoc' # assoc
      <4>1. PICK n \in AssocIds :
              /\ \A i \in AssocIds \ {n} : assoc'[i] = assoc[i]
              /\ assoc'[n].sensor = req[w].sensor /\ assoc'[n].by = w
        BY <1>0, <2>3, <3>3 DEF InsertAssociation, TypeOK
      <4>2. \A i \in AssocIds \ {n} : Active(i)' <=> Active(i)
        BY <4>1 DEF Active, Live
      <4>3. \A i \in AssocIds \ {n} :
              Active(i) /\ assoc[i].sensor = req[w].sensor /\ Owned(req[w].sensor)
                => assoc[i].by # w
        BY <3>1 DEF CheckInv, CheckHolds
      <4>4. OneActivePerWorker'
        BY <3>1, <4>1, <4>2, <4>3 DEF CheckInv, OneActivePerWorker, Owned
      <4>5. CheckHolds'
        BY <3>1, <4>1, <4>2 DEF CheckInv, CheckHolds, Owned, Serve
      <4> QED
        BY <4>4, <4>5
    <3> QED
      BY <3>2, <3>3
  <2>4. CASE UpdateAssociation(w)
    <3>1. /\ UNCHANGED <<now, users, batchOwner, sensorOwner>>
          /\ \A v \in Workers \ {w} : req'[v] = req[v]
          /\ ~Serve(w, "insert")'
      BY <1>0, <2>4 DEF UpdateAssociation, Reply, Serve, TypeOK, Idle
    <3>2. \A i \in AssocIds : Active(i)' => Active(i)
      <4>1. req[w] \in UpdateRequest
        BY <1>0, <2>4, RequestTypes DEF UpdateAssociation, TypeOK
      <4>2. req[w].dis # NULL
        BY <4>1 DEF CloseOnly, UpdateRequest
      <4>3. CASE req[w].id \in Live
        <5>1. assoc[req[w].id] \in AssocRow /\ req[w].id \in AssocIds
          BY <1>0, <4>3 DEF TypeOK, Live
        <5> DEFINE new == [assoc[req[w].id] EXCEPT !.at = req[w].at, !.dis = req[w].dis]
        <5>2. assoc' = [assoc EXCEPT ![req[w].id] = new] /\ new.dis # NULL
          BY <2>4, <4>2, <4>3, <5>1 DEF UpdateAssociation, TypeOK, AssocRow
        <5> HIDE DEF new
        <5> QED
          BY <1>0, <5>1, <5>2 DEF Active, Live, TypeOK
      <4>4. CASE req[w].id \notin Live
        BY <2>4, <4>4 DEF UpdateAssociation, Active, Live
      <4> QED
        BY <4>3, <4>4
    <3> QED
      BY <1>0, <2>4, <3>1, <3>2, UpdateKeepsPair, NothingOpened DEF Active, Owned, Serve
  <2> QED
    BY <1>3, <2>1, <2>2, <2>3, <2>4 DEF AssociateStep, UpdateStep
<1>4. ASSUME NEW u \in Users, DeleteUser(u)
      PROVE  (CheckHolds /\ OneActivePerWorker)'
  <2>1. \A s \in SensorIds : Owned(s)' => Owned(s)
    BY <1>0, <1>4, SentinelAssumption DEF DeleteUser, Orphan, Owned, TypeOK
  <2> QED
    BY <1>0, <1>4, <2>1, NothingOpened DEF DeleteUser, Active, Live, Serve, AssocRow
<1>5. ASSUME NEW b \in BatchIds, DeleteBatch(b)
      PROVE  (CheckHolds /\ OneActivePerWorker)'
  <2>1. \A i \in AssocIds : Active(i)' => Active(i) /\ assoc'[i] = assoc[i]
    BY <1>5 DEF DeleteBatch, Cascade, Active, Live, Absent
  <2> QED
    BY <1>5, <2>1, NothingOpened DEF DeleteBatch, Owned, Serve
<1>6. ASSUME NEW s \in SensorIds, DeleteSensor(s)
      PROVE  (CheckHolds /\ OneActivePerWorker)'
  <2>1. \A i \in AssocIds : Active(i)' => Active(i) /\ assoc'[i] = assoc[i]
    BY <1>6 DEF DeleteSensor, Cascade, Active, Live, Absent
  <2>2. \A t \in SensorIds : Owned(t)' => Owned(t)
    BY <1>0, <1>6, SentinelAssumption DEF DeleteSensor, Owned, TypeOK
  <2> QED
    BY <1>0, <1>6, <2>1, <2>2, NothingOpened DEF DeleteSensor, Serve, AssocRow
<1>7. CASE Tick \/ UNCHANGED vars
  BY <1>7, NothingOpened DEF Tick, vars, rows, Active, Live, Owned, Serve
<1> QED
  BY <1>1, <1>2, <1>3, <1>4, <1>5, <1>6, <1>7
     DEF Next, RequestStep, CreateStep, DeleteBatchStep, DeleteSensorStep, DeleteUserStep

LEMMA CheckInvariant == ASSUME CloseOnly PROVE Spec => []CheckInv
<1>1. Init => CheckInv
  BY OwnershipInit DEF Init, CheckInv, CheckHolds, OneActivePerWorker, Active, Live,
                       Absent, Idle, Serve
<1>2. CheckInv /\ [Next]_vars => CheckInv'
  BY CheckStep
<1> QED
  BY <1>1, <1>2, PTL DEF Spec

\* If clients only close associations, a sensor never has more of them open
\* than there are workers.
THEOREM OneActivePerWorkerAlways ==
    ASSUME CloseOnly PROVE Spec => []OneActivePerWorker
BY CheckInvariant, PTL DEF CheckInv

\* The check before an INSERT stays true of the worker's own associations.
THEOREM CheckAlwaysHolds ==
    ASSUME CloseOnly PROVE Spec => []CheckHolds
BY CheckInvariant, PTL DEF CheckInv

\* A server that handles one request at a time never ties a sensor to two
\* batches at once.
THEOREM OneActivePerSensorWhenSerial ==
    ASSUME CloseOnly, \A v, w \in Workers : v = w
    PROVE  Spec => []OneActivePerSensor
<1>1. CheckInv => OneActivePerSensor
  BY DEF CheckInv, OwnershipInv, TypeOK, OneActivePerWorker, OneActivePerSensor, Active,
         Live, AssocRow
<1> QED
  BY <1>1, CheckInvariant, PTL
=============================================================================
