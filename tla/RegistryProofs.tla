--------------------------- MODULE RegistryProofs ---------------------------
(***************************************************************************)
(* The statements of Associations implement the steps of                   *)
(* AssociationRegistry, as long as clients only close associations.        *)
(***************************************************************************)
EXTENDS AssociationsProofs, FunctionTheorems, FiniteSetTheorems

\* What the book shows of a row.
LEMMA BookEntries ==
    ASSUME TypeOK
    PROVE  /\ \A i \in Live :
                /\ Book[i] \in Registry!Entry
                /\ Book[i].batch = assoc[i].batch /\ Book[i].sensor = assoc[i].sensor
                /\ Book[i].by = assoc[i].by /\ Book[i].open = (assoc[i].dis = NULL)
           /\ \A i \in AssocIds \ Live : Book[i] = assoc[i]
           /\ Registry!Entered = Live
<1>1. \A i \in Live : i \in AssocIds /\ assoc[i] \in AssocRow
  BY DEF TypeOK, Live
<1>2. /\ \A i \in Live :
           /\ Book[i] \in Registry!Entry
           /\ Book[i].batch = assoc[i].batch /\ Book[i].sensor = assoc[i].sensor
           /\ Book[i].by = assoc[i].by /\ Book[i].open = (assoc[i].dis = NULL)
      /\ \A i \in AssocIds \ Live : Book[i] = assoc[i]
  BY <1>1 DEF Book, AssocRow, Registry!Entry
<1>3. Registry!Entered = Live
  BY <1>2, EntryAssumption DEF Registry!Entered, Registry!Absent, Absent, Live
<1> QED
  BY <1>2, <1>3

\* A step of the server is a step of the registry or leaves it as it is.
LEMMA RegistryStep ==
    ASSUME CloseOnly, CheckInv, CheckInv', [Next]_vars
    PROVE  [Registry!Next]_(Registry!vars)
<1>0. /\ TypeOK /\ TypeOK' /\ OwnershipInv
      /\ UNCHANGED assoc => UNCHANGED Book
  BY DEF CheckInv, OwnershipInv, Book, Live
<1>1. ASSUME NEW u \in Users, NEW b \in BatchIds, CreateBatch(u, b)
      PROVE  Registry!AddBatch(b)
  BY <1>0, <1>1 DEF CreateBatch, Registry!AddBatch
<1>2. ASSUME NEW u \in Users, NEW s \in SensorIds, CreateSensor(u, s)
      PROVE  Registry!AddSensor(s)
  BY <1>0, <1>2 DEF CreateSensor, Registry!AddSensor
<1>3. ASSUME NEW w \in Workers, InsertAssociation(w), assoc' # assoc
      PROVE  \E b \in BatchIds, s \in SensorIds, i \in AssocIds : Registry!Open(w, b, s, i)
  <2>1. req[w] \in AssociateRequest /\ req[w].step = "insert"
    BY <1>0, <1>3, RequestTypes DEF InsertAssociation, TypeOK, Serve
  <2> DEFINE b == req[w].batch  s == req[w].sensor
  <2>2. b \in BatchIds /\ s \in SensorIds
    BY <2>1 DEF AssociateRequest
  <2>3. PICK i \in AssocIds, t \in req[w].since .. now :
          /\ assoc[i] = Unborn
          /\ assoc' = [assoc EXCEPT ![i] =
               [batch |-> b, sensor |-> s, at |-> t, dis |-> NULL, by |-> w]]
          /\ BatchExists(b) /\ SensorExists(s)
          /\ UNCHANGED <<batchOwner, sensorOwner>>
    BY <1>3 DEF InsertAssociation
  <2>4. batchOwner[b] = sensorOwner[s]
    BY <1>0, <2>1, <2>3
       DEF OwnershipInv, LookupsHold, Remembers, StillOwned, BatchExists, SensorExists, Absent
  <2>5. sensorOwner[s] \in Users =>
          \A j \in Live : Book[j].sensor = s /\ Book[j].by = w => ~Book[j].open
    <3>1. sensorOwner[s] \in Users =>
            \A j \in Live : assoc[j].sensor = s /\ assoc[j].by = w => ~(assoc[j].dis = NULL)
      BY <1>0, <2>1 DEF CheckInv, CheckHolds, Owned, Active, Serve, Live
    <3>2. \A j \in Live :
            /\ Book[j].sensor = assoc[j].sensor /\ Book[j].by = assoc[j].by
            /\ Book[j].open = (assoc[j].dis = NULL)
      BY <1>0, BookEntries
    <3> QED
      BY <3>1, <3>2, Zenon
  <2>6. Book' = [Book EXCEPT ![i] = [batch |-> b, sensor |-> s, open |-> TRUE, by |-> w]]
    <3>1. Live' = Live \cup {i} /\ i \notin Live
      <4>1. [batch |-> b, sensor |-> s, at |-> t, dis |-> NULL, by |-> w] \notin Absent
        <5>1. [batch |-> b, sensor |-> s, at |-> t, dis |-> NULL, by |-> w] \in AssocRow
          BY <1>0, <2>1, <2>2, <2>3 DEF AssocRow, AssociateRequest, TypeOK
        <5> QED
          BY <5>1, RowAssumption DEF Absent
      <4> QED
        BY <1>0, <2>3, <4>1 DEF Live, Absent, TypeOK
    <3> QED
      BY <1>0, <2>3, <3>1 DEF Book, TypeOK
  <2>7. Book[i] = Unborn /\ Registry!Entered = Live
    BY <1>0, <2>3, BookEntries DEF Live, Absent
  <2>8. Registry!Open(w, b, s, i)
    BY <2>3, <2>4, <2>5, <2>6, <2>7
       DEF Registry!Open, Registry!Absent, BatchExists, Absent
  <2> QED
    BY <2>2, <2>8
<1>4. ASSUME NEW w \in Workers, UpdateAssociation(w), assoc' # assoc
      PROVE  \E i \in AssocIds : Registry!Close(i)
  <2>1. req[w] \in UpdateRequest /\ req[w].id \in Live
    BY <1>0, <1>4, RequestTypes DEF UpdateAssociation, TypeOK
  <2> DEFINE i == req[w].id
             new == [assoc[i] EXCEPT !.at = req[w].at, !.dis = req[w].dis]
  <2>2. i \in AssocIds /\ assoc[i] \in AssocRow /\ req[w].dis # NULL
    BY <1>0, <2>1 DEF Live, TypeOK, UpdateRequest, CloseOnly
  <2>3. /\ assoc' = [assoc EXCEPT ![i] = new]
        /\ new.batch = assoc[i].batch /\ new.sensor = assoc[i].sensor
        /\ new.by = assoc[i].by /\ new.dis # NULL
        /\ UNCHANGED <<batchOwner, sensorOwner>>
    BY <1>4, <2>1, <2>2 DEF UpdateAssociation, AssocRow
  <2>4. Live' = Live
    BY <1>0, <1>4, UpdateKeepsPair
  <2> HIDE DEF new
  <2>5. Book' = [Book EXCEPT ![i].open = FALSE]
    BY <1>0, <2>1, <2>2, <2>3, <2>4 DEF Book, TypeOK
  <2>6. Registry!Close(i)
    BY <1>0, <2>1, <2>3, <2>5, BookEntries DEF Registry!Close
  <2> QED
    BY <2>2, <2>6
<1>5. ASSUME NEW u \in Users, DeleteUser(u)
      PROVE  Registry!Disown(u)
  BY <1>0, <1>5 DEF DeleteUser, Orphan, Registry!Disown, TypeOK
<1>6. ASSUME NEW D \in SUBSET Live, assoc' = Cascade(D)
      PROVE  Book' = Registry!Strike(D)
  <2>1. Live' = Live \ D
    BY <1>6 DEF Cascade, Live, Absent
  <2> QED
    BY <1>0, <1>6, <2>1 DEF Cascade, Book, Registry!Strike, Live
<1>7. ASSUME NEW b \in BatchIds, DeleteBatch(b)
      PROVE  Registry!RemoveBatch(b)
  <2>1. {i \in Live : assoc[i].batch = b} = {i \in Registry!Entered : Book[i].batch = b}
    BY <1>0, BookEntries
  <2> QED
    BY <1>6, <1>7, <2>1
       DEF DeleteBatch, BatchExists, Absent, Registry!RemoveBatch, Registry!Absent
<1>8. ASSUME NEW s \in SensorIds, DeleteSensor(s)
      PROVE  Registry!RemoveSensor(s)
  <2>1. {i \in Live : assoc[i].sensor = s} = {i \in Registry!Entered : Book[i].sensor = s}
    BY <1>0, BookEntries
  <2> QED
    BY <1>6, <1>8, <2>1
       DEF DeleteSensor, SensorExists, Absent, Registry!RemoveSensor, Registry!Absent
<1>9. CASE UNCHANGED <<batchOwner, sensorOwner, assoc>>
  BY <1>0, <1>9 DEF Registry!vars
<1> QED
  BY <1>1, <1>2, <1>3, <1>4, <1>5, <1>7, <1>8, <1>9
     DEF Next, RequestStep, AssociateStep, UpdateStep, CreateStep, DeleteBatchStep,
         DeleteSensorStep, DeleteUserStep, BeginAssociate, FindBatch, FindSensor,
         CheckActive, InsertAssociation, BeginUpdate, FindAssociation, UpdateAssociation,
         Abort, Tick, vars, rows, Registry!Next

\* The interleaved statements of the requests implement the one-step registry.
THEOREM RegistryImplemented == ASSUME CloseOnly PROVE Spec => ImplementsRegistry
<1>1. Init => Registry!Init
  BY DEF Init, Registry!Init, Book, Live, Absent
<1>2. CheckInv /\ CheckInv' /\ [Next]_vars => [Registry!Next]_(Registry!vars)
  BY RegistryStep
<1> QED
  BY <1>1, <1>2, CheckInvariant, PTL DEF Spec, ImplementsRegistry, Registry!Spec

-----------------------------------------------------------------------------
(* What the registry promises over time, and the statements therefore keep *)

\* A closed association is never opened again.
StaysClosed(i) ==
    i \in Live /\ assoc[i].dis # NULL /\ i \in Live' => assoc'[i].dis # NULL

LEMMA ClosedStep ==
    ASSUME TypeOK, TypeOK', [Registry!Next]_(Registry!vars), NEW i \in AssocIds
    PROVE  StaysClosed(i)
<1> SUFFICES ASSUME i \in Live, assoc[i].dis # NULL, i \in Live'
             PROVE  ~Book'[i].open
  BY DEF StaysClosed, Book
<1>1. /\ Book[i] \in Registry!Entry /\ ~Book[i].open /\ i \in Registry!Entered
      /\ Book[i] # Unborn
  BY BookEntries, EntryAssumption
<1>2. Book'[i] \in Registry!Entry
  BY DEF Book, Live, TypeOK, AssocRow, Registry!Entry
<1>3. DOMAIN Book = AssocIds
  BY DEF Book
<1>4. ASSUME NEW c \in Workers, NEW b \in BatchIds, NEW s \in SensorIds, NEW j \in AssocIds,
             Registry!Open(c, b, s, j)
      PROVE  Book'[i] = Book[i]
  BY <1>1, <1>3, <1>4 DEF Registry!Open
<1>5. ASSUME NEW j \in AssocIds, Registry!Close(j)
      PROVE  ~Book'[i].open
  BY <1>1, <1>3, <1>5 DEF Registry!Close, Registry!Entry
<1>6. ASSUME NEW D, Book' = Registry!Strike(D)
      PROVE  Book'[i] = Book[i]
  BY <1>2, <1>6, EntryAssumption DEF Registry!Strike
<1>7. CASE UNCHANGED Book
  BY <1>1, <1>7
<1> QED
  BY <1>1, <1>4, <1>5, <1>6, <1>7
     DEF Registry!Next, Registry!vars, Registry!AddBatch, Registry!AddSensor,
         Registry!RemoveBatch, Registry!RemoveSensor, Registry!Disown

\* However the statements of the requests interleave, an association that was
\* closed stays closed as long as its row exists.
THEOREM ClosedForGood ==
    ASSUME CloseOnly PROVE Spec => [][\A i \in AssocIds : StaysClosed(i)]_vars
<1>1. CheckInv => TypeOK
  BY DEF CheckInv, OwnershipInv
<1>2. CheckInv /\ CheckInv' /\ [Next]_vars => \A i \in AssocIds : StaysClosed(i)
  BY <1>1, ClosedStep, RegistryStep DEF CheckInv, OwnershipInv
<1> QED
  BY <1>2, CheckInvariant, PTL DEF Spec

-----------------------------------------------------------------------------
(* How far the check before the INSERT can fail                            *)

OpenOn(s) == {i \in AssocIds : Active(i) /\ assoc[i].sensor = s}

\* No more associations are open on a user's sensor than there are workers.
OpenBounded ==
    \A s \in SensorIds :
        Owned(s) => IsFiniteSet(OpenOn(s)) /\ Cardinality(OpenOn(s)) <= Cardinality(Workers)

LEMMA WorkersBoundOpen ==
    ASSUME TypeOK, OneActivePerWorker, IsFiniteSet(Workers)
    PROVE  OpenBounded
<1> SUFFICES ASSUME NEW s \in SensorIds, Owned(s)
             PROVE  IsFiniteSet(OpenOn(s)) /\ Cardinality(OpenOn(s)) <= Cardinality(Workers)
  BY DEF OpenBounded
<1> DEFINE opener == [i \in OpenOn(s) |-> assoc[i].by]
<1>1. opener \in [OpenOn(s) -> Workers]
  BY DEF OpenOn, Active, Live, TypeOK, AssocRow
<1>2. \A i, j \in OpenOn(s) : opener[i] = opener[j] => i = j
  BY DEF OneActivePerWorker, OpenOn
<1> HIDE DEF opener
<1>3. opener \in Injection(OpenOn(s), Workers)
  BY <1>1, <1>2, Fun_IsInj
<1> QED
  BY <1>3, FS_Injection

\* The race between check and INSERT is bounded: a sensor never has more open
\* associations than requests are served at one time.
THEOREM OpenAlwaysBounded ==
    ASSUME CloseOnly, IsFiniteSet(Workers)
    PROVE  Spec => []OpenBounded
<1>1. CheckInv => OpenBounded
  BY WorkersBoundOpen DEF CheckInv, OwnershipInv
<1> QED
  BY <1>1, CheckInvariant, PTL
=============================================================================
