------------------------------- MODULE Server -------------------------------
(***************************************************************************)
(* The server as worrywortd puts it together: every request goes through   *)
(* the token middleware, and the mutations of its document then run, one   *)
(* after the other, as the user found there.  The user is looked up once;  *)
(* tokens and users may go while the mutations run.                        *)
(*                                                                         *)
(* TokenAuth gives the request (req) and Associations, under the name A,   *)
(* the mutation that is being executed for it (job).                       *)
(***************************************************************************)
EXTENDS TokenAuth, Naturals, FiniteSets

CONSTANTS
    BatchIds, SensorIds, AssocIds, UpdateStarts, UpdateEnds, MaxTime,
                    \* as in Associations
    MaxFields       \* bound on the mutations of one document

ASSUME MaxFieldsAssumption == MaxFields \in Nat

VARIABLES
    now, batchOwner, sensorOwner, assoc,
                    \* as in Associations
    job,            \* the association mutation each worker is executing
    fields          \* how many mutations of the document are still to come

A == INSTANCE Associations WITH req <- job

\* What Associations asks of its constants.
ASSUME TablesAssumption ==
    /\ NULL \notin Absent \cup Nat
    /\ MaxTime \in Nat
    /\ UpdateStarts \subseteq Nat /\ UpdateEnds \subseteq Nat \cup {NULL}
    /\ \A x \in Absent : x \notin A!AssocRow /\ x \notin A!Registry!Entry

tables == <<now, batchOwner, sensorOwner, assoc>>
svars == <<vars, tables, job, fields>>

SvInit ==
    /\ Init
    /\ A!Init
    /\ fields = [w \in Workers |-> 0]

Busy(w) == job[w].step # "idle"

\* The bounds: keys are not used up by requests on the way.
TokenLeft ==
    Cardinality({t \in TokenIds : tokens[t] = Unborn})
        > Cardinality({w \in Workers : Serve(w, "find") \/ Serve(w, "save")})
AssocLeft ==
    Cardinality({i \in AssocIds : assoc[i] = Unborn})
        > Cardinality({w \in Workers : Busy(w)})

-----------------------------------------------------------------------------
(* Logins and the middleware touch no table of Associations.               *)

SignIn(w) ==
    /\ \/ TokenLeft /\ (BeginLogin(w) \/ BeginMakeToken(w))
       \/ FindUser(w) \/ SaveToken(w)
    /\ UNCHANGED <<tables, job, fields>>

Receive(w) ==
    /\ BeginRequest(w)
    /\ \E n \in 0 .. MaxFields : fields' = [fields EXCEPT ![w] = n]
    /\ UNCHANGED <<tables, job>>

LookUp(w) == Authenticate(w) /\ UNCHANGED <<tables, job, fields>>

Drop(w) ==
    /\ Abort(w)
    /\ fields' = [fields EXCEPT ![w] = 0]
    /\ UNCHANGED <<tables, job>>

-----------------------------------------------------------------------------
(* The document's mutations, for a request that has a user                  *)

NextField(w) ==
    /\ Serve(w, "serve") /\ req[w].user # NULL
    /\ fields[w] > 0 /\ ~Busy(w)
    /\ fields' = [fields EXCEPT ![w] = @ - 1]

\* Faulty: the user is taken from the document.
StartJobForAny(w) ==
    /\ NextField(w)
    /\ (AssocLeft /\ A!BeginAssociate(w)) \/ A!BeginUpdate(w)
    /\ UNCHANGED <<tokens, issued, req>>

StartJob(w) ==
    /\ NextField(w)
    /\ (AssocLeft /\ A!BeginAssociate(w)) \/ A!BeginUpdate(w)
    /\ job'[w].user = req[w].user
    /\ UNCHANGED <<tokens, issued, req>>

\* createBatch and createSensor, which the foreign key on user_id refuses when
\* the user has gone, or which fail otherwise.
CreateRow(w) ==
    /\ NextField(w)
    /\ \/ \E b \in BatchIds : A!CreateBatch(req[w].user, b)
       \/ \E s \in SensorIds : A!CreateSensor(req[w].user, s)
       \/ UNCHANGED <<users, tables, job>>
    /\ UNCHANGED <<tokens, issued, req>>

RunJob(w) ==
    /\ \/ A!FindBatch(w) \/ A!FindSensor(w) \/ A!CheckActive(w)
       \/ A!InsertAssociation(w)
       \/ A!FindAssociation(w) \/ A!UpdateAssociation(w)
    /\ UNCHANGED <<tokens, issued, req, fields>>

\* A statement fails, and the mutation with it; when it is the connection or
\* the process that has gone, so are the mutations behind it.
FailJob(w) ==
    /\ A!Abort(w)
    /\ fields' \in {fields, [fields EXCEPT ![w] = 0]}
    /\ UNCHANGED <<tokens, issued, req>>

\* Faulty: the answer does not wait for the last mutation.
AnswerEarly(w) ==
    /\ Respond(w)
    /\ fields[w] = 0 \/ req[w].user = NULL
    /\ fields' = [fields EXCEPT ![w] = 0]
    /\ UNCHANGED <<tables, job>>

\* Without a user every mutation is refused at once.
Answer(w) ==
    /\ ~Busy(w)
    /\ Respond(w)
    /\ fields[w] = 0 \/ req[w].user = NULL
    /\ fields' = [fields EXCEPT ![w] = 0]
    /\ UNCHANGED <<tables, job>>

-----------------------------------------------------------------------------
(* Deletions by an operator reach the tables of both.                       *)

\* Faulty: the ON DELETE clauses of one table are missing.
RemoveUserHalf(u) ==
    /\ DeleteUser(u)
    /\ UNCHANGED <<tables, job, fields>>

RemoveUser(u) == DeleteUser(u) /\ A!DeleteUser(u) /\ UNCHANGED fields

Revoke(t) == (DeleteToken(t) \/ Expire(t)) /\ UNCHANGED <<tables, job, fields>>

RemoveRow ==
    /\ A!DeleteBatchStep \/ A!DeleteSensorStep
    /\ UNCHANGED <<tokens, issued, req, fields>>

Pass == A!Tick /\ UNCHANGED <<tokens, issued, req, fields>>

\* What a goroutine does once it has a request.
Serving(w) ==
    \/ FindUser(w) /\ UNCHANGED <<tables, job, fields>>
    \/ SaveToken(w) /\ UNCHANGED <<tables, job, fields>>
    \/ LookUp(w) \/ StartJob(w) \/ CreateRow(w) \/ RunJob(w) \/ Answer(w)

SvNext ==
    \/ \E w \in Workers :
         \/ SignIn(w) \/ Receive(w) \/ LookUp(w) \/ Drop(w)
         \/ StartJob(w) \/ CreateRow(w) \/ RunJob(w) \/ FailJob(w) \/ Answer(w)
    \/ \E u \in Users : RemoveUser(u)
    \/ \E t \in TokenIds : Revoke(t)
    \/ RemoveRow
    \/ Pass

SvSpec == SvInit /\ [][SvNext]_svars

\* The Go scheduler runs every goroutine that can run, and the database answers
\* every statement; clients and operators owe nothing.
FairSpec == SvSpec /\ \A w \in Workers : WF_svars(Serving(w))

-----------------------------------------------------------------------------
(* Properties *)

\* The types of what Server adds to TokenAuth; and a worker executes a mutation
\* only while it serves a request, as the request's user.
SvTypeOK ==
    /\ A!TypeOK
    /\ fields \in [Workers -> 0 .. MaxFields]
    /\ \A w \in Workers :
         Busy(w) => Serve(w, "serve") /\ job[w].user = req[w].user

\* Worker w serves a request that came with u's own token, issued to u and not
\* yet revoked at that moment.
ActsFor(w, u) ==
    /\ Serve(w, "serve") /\ req[w].user = u /\ ~req[w].revoked
    /\ \E t \in TokenIds : req[w].header = <<t, t>> /\ issued[t] = u

\* Whoever's rows are written, it is at the request of somebody who presented
\* that user's token: rows are created for the user of the request, and an
\* association is opened or revised for the user who owns its batch and sensor,
\* or owned them until the user was deleted.
WritesAuthorized ==
    [][/\ \A b \in BatchIds :
            batchOwner[b] = Unborn /\ batchOwner'[b] # Unborn =>
                \E w \in Workers : ActsFor(w, batchOwner'[b])
       /\ \A s \in SensorIds :
            sensorOwner[s] = Unborn /\ sensorOwner'[s] # Unborn =>
                \E w \in Workers : ActsFor(w, sensorOwner'[s])
       /\ \A i \in AssocIds :
            assoc'[i] # assoc[i] /\ assoc'[i] \notin Absent =>
                \E w \in Workers :
                    /\ Busy(w) /\ ActsFor(w, job[w].user)
                    /\ batchOwner[assoc'[i].batch] \in {job[w].user, NULL}
                    /\ sensorOwner[assoc'[i].sensor] \in {job[w].user, NULL}]_svars

\* Put together, the components behave as each does by itself: what the other
\* runs and the proofs show of them holds of the server.
ImplementsComponents == Spec /\ A!Spec

\* Every request is answered, whatever is deleted under it.
EveryRequestAnswered ==
    \A w \in Workers : (req[w].step # "idle") ~> (req[w].step = "idle")
=============================================================================
