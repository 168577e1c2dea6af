-------------------------- MODULE MonitoringProofs --------------------------
(***************************************************************************)
(* Proofs about Monitoring.  Its behaviours are behaviours of Associations, *)
(* so what is proved there about associations holds here as well.          *)
(***************************************************************************)
EXTENDS Monitoring, AssociationsProofs

\* Storing measurements does not disturb the associations.
LEMMA MonitoringStep == [MNext]_mvars => [Next]_vars
BY DEF MNext, MDeleteUser, MDeleteSensor, PostStep, Arrive, BeginForm, BeginCreate,
       ValidateForm, ResolveSensor, InsertMeasurement, AbortPost, mvars, vars, Next,
       DeleteUserStep, DeleteSensorStep

THEOREM MonitoringRefinesAssociations == MSpec => Spec
<1>1. MInit => Init
  BY DEF MInit
<1> QED
  BY <1>1, MonitoringStep, PTL DEF MSpec, Spec

-----------------------------------------------------------------------------
(* Types *)

LEMMA MTypeInit == MInit => MTypeOK
BY OwnershipInit DEF MInit, MTypeOK, OwnershipInv, Absent

LEMMA BlankTypes ==
    ASSUME measured \in [MeasIds -> MeasRow \cup Absent],
           NEW field \in {"user", "sensor"}, NEW x
    PROVE  Blank(field, x) \in [MeasIds -> MeasRow \cup Absent]
<1>1. \A m \in Stored : measured[m] \in MeasRow /\ m \in MeasIds
  BY DEF Stored
<1>2. \A r \in MeasRow : [r EXCEPT !["user"] = NULL] \in MeasRow
                      /\ [r EXCEPT !["sensor"] = NULL] \in MeasRow
  BY DEF MeasRow
<1> QED
  BY <1>1, <1>2 DEF Blank

LEMMA MTypeStep == MTypeOK /\ [MNext]_mvars => MTypeOK'
<1> SUFFICES ASSUME MTypeOK, [MNext]_mvars
             PROVE  MTypeOK'
  OBVIOUS
<1>0. TypeOK'
  BY MonitoringStep, TypeStep DEF MTypeOK
<1>1. ASSUME NEW p \in Posters, BeginForm(p) \/ BeginCreate(p)
      PROVE  MTypeOK'
  <2>1. PICK r \in Arrived : post' = [post EXCEPT ![p] = r]
    BY <1>1 DEF BeginForm, BeginCreate, Arrive, Arrived, MTypeOK, TypeOK
  <2> QED
    BY <1>0, <1>1, <2>1 DEF MTypeOK, BeginForm, BeginCreate, Arrive
<1>2. ASSUME NEW p \in Posters, ValidateForm(p) \/ ResolveSensor(p)
      PROVE  MTypeOK'
  <2>1. post[p] \in Arrived
    BY <1>2 DEF ValidateForm, ResolveSensor, Posts, MTypeOK, Idle, Accepted
  <2>2. post[p].recorded # NULL => [post[p] EXCEPT !.step = "insert"] \in Accepted
    BY <2>1 DEF Arrived, Accepted
  <2>3. \/ /\ post[p].recorded # NULL
           /\ post' = [post EXCEPT ![p] = [post[p] EXCEPT !.step = "insert"]]
        \/ Done(p)
    BY <1>2 DEF ValidateForm, ResolveSensor, MTypeOK
  <2> QED
    BY <1>0, <1>2, <2>2, <2>3 DEF ValidateForm, ResolveSensor, Done, MTypeOK
<1>3. ASSUME NEW p \in Posters, InsertMeasurement(p)
      PROVE  MTypeOK'
  <2>1. post[p] \in Accepted
    BY <1>3 DEF InsertMeasurement, Posts, MTypeOK, Idle, Arrived
  <2>2. [user |-> post[p].user, sensor |-> post[p].sensor, recorded |-> post[p].recorded]
          \in MeasRow
    BY <2>1, MonitoringAssumption DEF Accepted, MeasRow
  <2> QED
    BY <1>0, <1>3, <2>2 DEF InsertMeasurement, Done, MTypeOK
<1>4. ASSUME NEW p \in Posters, AbortPost(p)
      PROVE  MTypeOK'
  BY <1>0, <1>4 DEF AbortPost, Done, MTypeOK
<1>5. CASE \/ \E u \in Users : MDeleteUser(u)
           \/ \E s \in SensorIds : MDeleteSensor(s)
  BY <1>0, <1>5, BlankTypes DEF MDeleteUser, MDeleteSensor, MTypeOK
<1>6. CASE UNCHANGED <<measured, post>>
  BY <1>0, <1>6 DEF MTypeOK
<1> QED
  BY <1>1, <1>2, <1>3, <1>4, <1>5, <1>6 DEF MNext, PostStep, mvars

-----------------------------------------------------------------------------
(* Whose measurements, whose batches                                       *)
(*                                                                         *)
(* MeasurementOwnersAgree needs to know that the sensor found for a poster *)
(* has not gone to somebody else by the time of the INSERT; attribution    *)
(* needs in addition that associations stay within one owner.              *)

MeasurementInv ==
    OwnershipInv /\ MTypeOK /\ MeasurementOwnersAgree /\ PostLookupsHold

LEMMA PostLookupsStep ==
    MeasurementInv /\ [MNext]_mvars => PostLookupsHold'
<1> SUFFICES ASSUME MeasurementInv, [MNext]_mvars,
                    NEW p \in Posters, Posts(p, "insert")'
             PROVE  StillOwned(sensorOwner[post[p].sensor], post[p].user)'
  BY DEF PostLookupsHold
<1>0. OwnershipInv /\ MTypeOK /\ MTypeOK' /\ [Next]_vars
  BY MTypeStep, MonitoringStep DEF MeasurementInv
<1>1. CASE post'[p] = post[p]
  <2>1. post[p] \in Accepted
    BY <1>0, <1>1 DEF MTypeOK, Posts, Arrived, Idle
  <2> QED
    BY <1>0, <1>1, <2>1, SensorOwnerSteps
       DEF MeasurementInv, PostLookupsHold, Posts, Accepted
<1>2. CASE post'[p] # post[p]
  <2>1. ValidateForm(p) \/ ResolveSensor(p)
    BY <1>0, <1>2 DEF MNext, MDeleteUser, MDeleteSensor, PostStep, Arrive, BeginForm,
         BeginCreate, InsertMeasurement, AbortPost, mvars, Posts, Done, MTypeOK, Idle,
         ValidateForm, ResolveSensor
  <2>2. post[p] \in Arrived
    BY <1>0, <2>1 DEF ValidateForm, ResolveSensor, Posts, MTypeOK, Idle, Accepted
  <2>3. /\ SensorFound(p) /\ UNCHANGED vars
        /\ post'[p].sensor = post[p].sensor /\ post'[p].user = post[p].user
    BY <1>0, <2>1, <2>2
       DEF ValidateForm, ResolveSensor, Posts, Done, MTypeOK, Idle, Arrived
  <2>4. post[p].user \in users
    BY <1>0, <2>2, <2>3 DEF OwnershipInv, OwnersExist, SensorFound, Arrived
  <2> QED
    BY <2>3, <2>4 DEF SensorFound, StillOwned, vars
<1> QED
  BY <1>1, <1>2

LEMMA MeasurementOwnersStep ==
    MeasurementInv /\ [MNext]_mvars => MeasurementOwnersAgree'
<1> SUFFICES ASSUME MeasurementInv, [MNext]_mvars
             PROVE  MeasurementOwnersAgree'
  OBVIOUS
<1>0. /\ OwnershipInv /\ MTypeOK /\ TypeOK /\ MeasurementOwnersAgree
      /\ \A m \in Stored : measured[m] \in MeasRow /\ m \in MeasIds
  BY DEF MeasurementInv, MTypeOK, Stored
<1>1. ASSUME NEW u \in Users, MDeleteUser(u)
      PROVE  MeasurementOwnersAgree'
  <2>1. /\ Stored' \subseteq Stored
        /\ \A m \in Stored :
             /\ measured'[m].sensor = measured[m].sensor
             /\ measured'[m].user = IF measured[m].user = u THEN NULL ELSE measured[m].user
    BY <1>0, <1>1 DEF MDeleteUser, Blank, Stored, MeasRow
  <2>2. \A s \in SensorIds :
          sensorOwner'[s] = IF sensorOwner[s] = u THEN NULL ELSE sensorOwner[s]
    BY <1>0, <1>1 DEF MDeleteUser, DeleteUser, Orphan, TypeOK
  <2> QED
    BY <1>0, <2>1, <2>2 DEF MeasurementOwnersAgree, MeasRow
<1>2. ASSUME NEW s \in SensorIds, MDeleteSensor(s)
      PROVE  MeasurementOwnersAgree'
  <2>1. /\ Stored' \subseteq Stored
        /\ \A m \in Stored :
             /\ measured'[m].user = measured[m].user
             /\ measured'[m].sensor = IF measured[m].sensor = s THEN NULL
                                      ELSE measured[m].sensor
    BY <1>0, <1>2 DEF MDeleteSensor, Blank, Stored, MeasRow
  <2>2. \A t \in SensorIds \ {s} : sensorOwner'[t] = sensorOwner[t]
    BY <1>0, <1>2 DEF MDeleteSensor, DeleteSensor, TypeOK
  <2> QED
    BY <1>0, <2>1, <2>2 DEF MeasurementOwnersAgree, MeasRow
<1>3. ASSUME NEW p \in Posters, InsertMeasurement(p), measured' # measured
      PROVE  MeasurementOwnersAgree'
  <2>1. PICK n \in MeasIds :
          /\ measured' = [measured EXCEPT ![n] =
               [user |-> post[p].user, sensor |-> post[p].sensor,
                recorded |-> post[p].recorded]]
          /\ post[p].user \in users /\ SensorExists(post[p].sensor)
    BY <1>3 DEF InsertMeasurement
  <2>2. sensorOwner[post[p].sensor] = post[p].user
    BY <1>3, <2>1
       DEF InsertMeasurement, MeasurementInv, PostLookupsHold, StillOwned, SensorExists,
           Absent
  <2> QED
    BY <1>0, <1>3, <2>1, <2>2
       DEF MeasurementOwnersAgree, InsertMeasurement, vars, Stored, MTypeOK
<1>4. ASSUME NEW u \in Users, NEW s \in SensorIds, CreateSensor(u, s), measured' = measured
      PROVE  MeasurementOwnersAgree'
  <2>1. \A m \in Stored : measured[m].sensor # s
    BY <1>0, <1>4, SentinelAssumption, MonitoringAssumption
       DEF CreateSensor, MeasurementOwnersAgree, MeasRow
  <2> QED
    BY <1>0, <1>4, <2>1 DEF CreateSensor, MeasurementOwnersAgree, Stored, TypeOK, MeasRow
<1>5. CASE UNCHANGED <<sensorOwner, measured>>
  BY <1>0, <1>5 DEF MeasurementOwnersAgree, Stored
<1> QED
  BY <1>1, <1>2, <1>3, <1>4, <1>5
     DEF MNext, RequestStep, AssociateStep, UpdateStep, CreateStep, DeleteBatchStep,
         CreateBatch, BeginAssociate, FindBatch, FindSensor, CheckActive,
         InsertAssociation, BeginUpdate, FindAssociation, UpdateAssociation, Abort,
         DeleteBatch, Tick, PostStep, BeginForm, BeginCreate, Arrive, ValidateForm,
         ResolveSensor, InsertMeasurement, AbortPost, vars, mvars, rows

LEMMA MeasurementInit == MInit => MeasurementInv
BY OwnershipInit, MTypeInit
   DEF MInit, MeasurementInv, MeasurementOwnersAgree, Stored, Absent, PostLookupsHold,
       Posts, Idle

LEMMA MeasurementStep == MeasurementInv /\ [MNext]_mvars => MeasurementInv'
BY MTypeStep, MonitoringStep, OwnershipStep, PostLookupsStep, MeasurementOwnersStep
   DEF MeasurementInv

LEMMA MeasurementInvariant == MSpec => []MeasurementInv
BY MeasurementInit, MeasurementStep, PTL DEF MSpec

THEOREM MTypeCorrect == MSpec => []MTypeOK
BY MeasurementInvariant, PTL DEF MeasurementInv

\* A stored measurement was taken by a sensor of its own user.
THEOREM MeasurementOwnersAlwaysAgree == MSpec => []MeasurementOwnersAgree
BY MeasurementInvariant, PTL DEF MeasurementInv

\* The sensor found for a poster never passes to another user.
THEOREM PostLookupsAlwaysHold == MSpec => []PostLookupsHold
BY MeasurementInvariant, PTL DEF MeasurementInv

\* Batch(), which checks no user, only ever finds batches of the measurement's
\* user.
THEOREM AttributionStaysHome == MSpec => []NoForeignAttribution
<1>1. MeasurementInv => NoForeignAttribution
  <2> SUFFICES ASSUME MeasurementInv, NEW m \in Stored, NEW i \in Covering(m)
               PROVE  batchOwner[assoc[i].batch] = measured[m].user
    BY DEF NoForeignAttribution, BatchOf
  <2>1. i \in Live /\ assoc[i].sensor = measured[m].sensor /\ assoc[i] \in AssocRow
    BY DEF MeasurementInv, OwnershipInv, TypeOK, Covering, Live
  <2>2. measured[m].sensor # NULL
    BY <2>1, MonitoringAssumption DEF AssocRow
  <2> QED
    BY <2>1, <2>2 DEF MeasurementInv, MeasurementOwnersAgree, OwnershipInv, OwnersAgree
<1> QED
  BY <1>1, MeasurementInvariant, PTL

\* Going from a measurement to its batch and from a batch to its measurements
\* gives the same answers in every state.
THEOREM QueriesAlwaysAgree == MSpec => []QueriesAgree
<1>1. QueriesAgree
  BY DEF QueriesAgree, Listed, BatchOf, Covering, Covers
<1> QED
  BY <1>1, PTL

-----------------------------------------------------------------------------
(* Attribution is history                                                  *)

\* Every change of a measurement's batch has one of the named causes.
LEMMA AttributionStep ==
    ASSUME MeasurementInv, [MNext]_mvars, NEW m \in Stored
    PROVE  Explained(m)
<1>0. /\ TypeOK /\ MTypeOK /\ m \in MeasIds /\ measured[m] \in MeasRow
      /\ measured[m] # Unborn
      /\ \A i \in Live : i \in AssocIds /\ assoc[i] \in AssocRow
  BY DEF MeasurementInv, MTypeOK, TypeOK, Stored, Live, Absent
<1>1. ASSUME measured'[m].sensor = measured[m].sensor,
             measured'[m].recorded = measured[m].recorded, assoc' = assoc
      PROVE  Explained(m)
  <2>1. BatchOf(m)' = BatchOf(m)
    BY <1>1 DEF BatchOf, Covering, Live
  <2> QED
    BY <2>1 DEF Explained
<1>2. ASSUME NEW w \in Workers, InsertAssociation(w), assoc' # assoc, measured' = measured
      PROVE  Explained(m)
  <2>1. PICK n \in AssocIds, t \in req[w].since .. now :
          /\ assoc[n] = Unborn
          /\ assoc' = [assoc EXCEPT ![n] =
               [batch |-> req[w].batch, sensor |-> req[w].sensor, at |-> t,
                dis |-> NULL, by |-> w]]
    BY <1>2 DEF InsertAssociation
  <2>2. req[w] \in AssociateRequest /\ Serve(w, "insert")
    BY <1>0, <1>2, RequestTypes DEF InsertAssociation, TypeOK
  <2>3. n \notin Live /\ \A i \in Live : i \in Live' /\ assoc'[i] = assoc[i]
    BY <1>0, <2>1 DEF Live, Absent, TypeOK
  <2>4. \A i \in Live' \ {n} : i \in Live /\ assoc'[i] = assoc[i]
    BY <1>0, <2>1 DEF Live, TypeOK
  <2>5. BatchOf(m) \subseteq BatchOf(m)'
    BY <1>2, <2>3 DEF BatchOf, Covering, Covers
  <2>6. ASSUME NEW b \in BatchOf(m)' \ BatchOf(m)
        PROVE  MayGain(m, b)
    <3>1. PICK i \in Covering(m)' : b = assoc'[i].batch
      BY DEF BatchOf
    <3>2. i = n
      BY <1>2, <2>4, <3>1, <2>6 DEF BatchOf, Covering, Covers
    <3>3. /\ b = req[w].batch /\ measured[m].sensor = req[w].sensor
          /\ t <= measured[m].recorded
      BY <1>0, <1>2, <2>1, <3>1, <3>2 DEF Covering, Covers, TypeOK
    <3>4. req[w].since <= t /\ t \in Nat /\ req[w].since \in Nat
            /\ measured[m].recorded \in Nat
      BY <1>0, <2>2 DEF AssociateRequest, TypeOK, MeasRow
    <3> QED
      BY <2>2, <3>3, <3>4 DEF MayGain
  <2> QED
    BY <2>5, <2>6 DEF Explained
<1>3. ASSUME NEW w \in Workers, UpdateAssociation(w), assoc' # assoc, measured' = measured
      PROVE  Explained(m)
  <2>1. req[w].id \in Live /\ req[w] \in UpdateRequest
    BY <1>0, <1>3, RequestTypes DEF UpdateAssociation, TypeOK
  <2>2. CASE assoc[req[w].id].sensor = measured[m].sensor
    BY <1>3, <2>1, <2>2 DEF Explained, MayGain, MayLose, Revised
  <2>3. CASE assoc[req[w].id].sensor # measured[m].sensor
    <3>1. /\ Live' = Live /\ \A i \in Live : assoc'[i].sensor = assoc[i].sensor
          /\ \A i \in Live \ {req[w].id} : assoc'[i] = assoc[i]
      BY <1>0, <1>3, UpdateKeepsPair DEF UpdateAssociation, TypeOK, Live
    <3>2. Covering(m)' = Covering(m)
      BY <1>3, <2>1, <2>3, <3>1 DEF Covering, Covers
    <3>3. BatchOf(m)' = BatchOf(m)
      BY <2>1, <2>3, <3>1, <3>2 DEF BatchOf, Covering
    <3> QED
      BY <3>3 DEF Explained
  <2> QED
    BY <2>2, <2>3
<1>4. ASSUME NEW D, assoc' = Cascade(D), measured'[m].recorded = measured[m].recorded,
             measured'[m].sensor \in {measured[m].sensor, NULL}
      PROVE  BatchOf(m)' \subseteq BatchOf(m)
  <2>1. \A i \in Live' : i \in Live /\ assoc'[i] = assoc[i]
    BY <1>4 DEF Live, Cascade, Absent
  <2>2. Covering(m)' \subseteq Covering(m)
    BY <1>0, <1>4, <2>1, MonitoringAssumption DEF Covering, Covers, AssocRow
  <2> QED
    BY <2>1, <2>2 DEF BatchOf, Covering
<1>5. ASSUME NEW c \in BatchIds, DeleteBatch(c), measured' = measured
      PROVE  Explained(m)
  <2>1. BatchOf(m)' \subseteq BatchOf(m)
    BY <1>4, <1>5 DEF DeleteBatch
  <2>2. \A i \in Live : assoc[i].batch # c => i \in Live' /\ assoc'[i] = assoc[i]
    BY <1>5 DEF DeleteBatch, Cascade, Live, Absent
  <2>3. BatchOf(m) \ BatchOf(m)' \subseteq {c}
    BY <1>5, <2>2 DEF BatchOf, Covering, Covers
  <2>4. batchOwner'[c] = Dead
    BY <1>0, <1>5 DEF DeleteBatch, TypeOK
  <2> QED
    BY <2>1, <2>3, <2>4 DEF Explained, MayLose
<1>6. ASSUME NEW s \in SensorIds, MDeleteSensor(s)
      PROVE  Explained(m)
  <2>1. /\ measured'[m].recorded = measured[m].recorded
        /\ measured'[m].sensor = IF measured[m].sensor = s THEN NULL ELSE measured[m].sensor
    BY <1>0, <1>6 DEF MDeleteSensor, Blank, MeasRow
  <2>2. BatchOf(m)' \subseteq BatchOf(m)
    BY <1>4, <1>6, <2>1 DEF MDeleteSensor, DeleteSensor
  <2>3. CASE measured[m].sensor = s
    <3>1. sensorOwner'[measured[m].sensor] = Dead
      BY <1>0, <1>6, <2>3 DEF MDeleteSensor, DeleteSensor, TypeOK
    <3> QED
      BY <2>2, <3>1 DEF Explained, MayLose
  <2>4. CASE measured[m].sensor # s
    <3>1. \A i \in Live : assoc[i].sensor # s => i \in Live' /\ assoc'[i] = assoc[i]
      BY <1>6 DEF MDeleteSensor, DeleteSensor, Cascade, Live, Absent
    <3>2. BatchOf(m) \subseteq BatchOf(m)'
      BY <2>1, <2>4, <3>1 DEF BatchOf, Covering, Covers
    <3> QED
      BY <2>2, <3>2 DEF Explained
  <2> QED
    BY <2>3, <2>4
<1>7. ASSUME NEW u \in Users, MDeleteUser(u)
      PROVE  Explained(m)
  <2>1. /\ measured'[m].recorded = measured[m].recorded
        /\ measured'[m].sensor = measured[m].sensor /\ assoc' = assoc
    BY <1>0, <1>7 DEF MDeleteUser, DeleteUser, Blank, MeasRow
  <2> QED
    BY <1>1, <2>1
<1>8. ASSUME NEW p \in Posters, InsertMeasurement(p)
      PROVE  Explained(m)
  <2>1. measured'[m] = measured[m] /\ assoc' = assoc
    BY <1>0, <1>8 DEF InsertMeasurement, MTypeOK, vars
  <2> QED
    BY <1>1, <2>1
<1>9. CASE UNCHANGED <<assoc, measured>>
  BY <1>1, <1>9
<1>10. CASE RequestStep /\ UNCHANGED <<measured, post>>
  <2>1. \/ UNCHANGED assoc
        \/ \E w \in Workers : InsertAssociation(w) \/ UpdateAssociation(w)
    BY <1>10 DEF RequestStep, AssociateStep, UpdateStep, BeginAssociate, FindBatch,
         FindSensor, CheckActive, BeginUpdate, FindAssociation, Abort, rows
  <2> QED
    BY <1>2, <1>3, <1>9, <1>10, <2>1
<1>11. CASE (CreateStep \/ Tick) /\ UNCHANGED <<measured, post>>
  BY <1>9, <1>11 DEF CreateStep, CreateBatch, CreateSensor, Tick, rows
<1>12. CASE DeleteBatchStep /\ UNCHANGED <<measured, post>>
  BY <1>5, <1>12 DEF DeleteBatchStep
<1>13. CASE PostStep
  BY <1>8, <1>9, <1>13
     DEF PostStep, BeginForm, BeginCreate, Arrive, ValidateForm, ResolveSensor,
         AbortPost, vars
<1> QED
  BY <1>6, <1>7, <1>9, <1>10, <1>11, <1>12, <1>13 DEF MNext, mvars

\* The batch of a stored measurement changes only for the causes named.
THEOREM AttributionIsStable == MSpec => AttributionStable
<1>1. MeasurementInv /\ [MNext]_mvars => \A m \in Stored : Explained(m)
  BY AttributionStep
<1> QED
  BY <1>1, MeasurementInvariant, PTL DEF MSpec, AttributionStable

-----------------------------------------------------------------------------
(* Measurements are kept                                                   *)

\* What may become of measurement m.
Kept(m) ==
    /\ m \in Stored'
    /\ measured'[m].recorded = measured[m].recorded
    /\ measured'[m].user \in {measured[m].user}
                                \cup (IF measured[m].user \in users' THEN {} ELSE {NULL})
    /\ \/ measured'[m].sensor = measured[m].sensor
       \/ measured'[m].sensor = NULL /\ sensorOwner'[measured[m].sensor] = Dead

LEMMA KeptStep ==
    ASSUME MTypeOK, [MNext]_mvars, NEW m \in Stored
    PROVE  Kept(m)
<1>0. /\ TypeOK /\ m \in MeasIds /\ measured[m] \in MeasRow
      /\ measured[m] \notin Absent
  BY DEF MTypeOK, Stored
<1>1. ASSUME measured'[m] = measured[m]
      PROVE  Kept(m)
  BY <1>0, <1>1 DEF Kept, Stored
<1>2. \A r \in MeasRow : r \notin Absent
  BY MeasRowAssumption DEF Absent
<1>3. ASSUME NEW u \in Users, MDeleteUser(u)
      PROVE  Kept(m)
  <2>1. CASE measured[m].user # u
    <3>1. measured'[m] = measured[m]
      BY <1>0, <1>3, <2>1 DEF MDeleteUser, Blank
    <3> QED
      BY <1>1, <3>1
  <2>2. CASE measured[m].user = u
    <3>1. measured'[m] = [measured[m] EXCEPT !["user"] = NULL]
      BY <1>0, <1>3, <2>2 DEF MDeleteUser, Blank
    <3>2. /\ measured'[m] \in MeasRow /\ measured'[m].user = NULL
          /\ measured'[m].recorded = measured[m].recorded
          /\ measured'[m].sensor = measured[m].sensor
      BY <1>0, <3>1 DEF MeasRow
    <3>3. u \notin users'
      BY <1>3 DEF MDeleteUser, DeleteUser
    <3> QED
      BY <1>0, <1>2, <2>2, <3>2, <3>3 DEF Kept, Stored
  <2> QED
    BY <2>1, <2>2
<1>4. ASSUME NEW s \in SensorIds, MDeleteSensor(s)
      PROVE  Kept(m)
  <2>1. CASE measured[m].sensor # s
    <3>1. measured'[m] = measured[m]
      BY <1>0, <1>4, <2>1 DEF MDeleteSensor, Blank
    <3> QED
      BY <1>1, <3>1
  <2>2. CASE measured[m].sensor = s
    <3>1. measured'[m] = [measured[m] EXCEPT !["sensor"] = NULL]
      BY <1>0, <1>4, <2>2 DEF MDeleteSensor, Blank
    <3>2. /\ measured'[m] \in MeasRow /\ measured'[m].sensor = NULL
          /\ measured'[m].recorded = measured[m].recorded
          /\ measured'[m].user = measured[m].user
      BY <1>0, <3>1 DEF MeasRow
    <3>3. sensorOwner'[s] = Dead
      BY <1>0, <1>4 DEF MDeleteSensor, DeleteSensor, TypeOK
    <3> QED
      BY <1>0, <1>2, <2>2, <3>2, <3>3 DEF Kept, Stored
  <2> QED
    BY <2>1, <2>2
<1>5. ASSUME NEW p \in Posters, InsertMeasurement(p)
      PROVE  Kept(m)
  <2>1. measured'[m] = measured[m]
    BY <1>0, <1>5 DEF InsertMeasurement, MTypeOK, Absent
  <2> QED
    BY <1>1, <2>1
<1>6. CASE UNCHANGED measured
  BY <1>1, <1>6
<1> QED
  BY <1>3, <1>4, <1>5, <1>6
     DEF MNext, PostStep, BeginForm, BeginCreate, Arrive, ValidateForm, ResolveSensor,
         AbortPost, mvars

\* A stored measurement stays as it is, but for the references that deletions
\* blank.
THEOREM MeasurementsAreKept == MSpec => MeasurementKept
<1>1. MeasurementInv /\ [MNext]_mvars => \A m \in Stored : Kept(m)
  BY KeptStep DEF MeasurementInv
<1> QED
  BY <1>1, MeasurementInvariant, PTL DEF MSpec, MeasurementKept, Kept
=============================================================================
