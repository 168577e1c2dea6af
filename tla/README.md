# A verification project for worrywort-server

TLA+ models of worrywort-server, a Go server that records which temperature
sensor monitors which batch of beer, model-checked with TLC and, where it
matters most, proved with TLAPS for any number of users, rows and requests.

## The system

`cmd/worrywortd` serves GraphQL (`/graphql`) and one REST call
(`POST /api/v1/measurement`) over PostgreSQL. net/http runs every request in a
goroutine of its own. The server holds no state between requests: everything
shared is in the database. **No code opens a transaction**, so each SQL
statement commits alone and any other request can run between two statements of
a resolver. That is the grain of every model here: an action is one SQL
statement with the Go code up to the next one, and the local variables of a
goroutine are a record `req[w]` (or `post[p]`).

| component | state | operations | hard behaviour |
|---|---|---|---|
| associations (`graphql_api/batch_sensor_association.go`, `worrywort/batch.go`) | table `batch_sensor_association`: batch, sensor, associated_at, disassociated_at | associateSensorToBatch, updateBatchSensorAssociation | four statements with a check before an insert; deletions in between |
| measurements (`rest_api/measurements.go`, `CreateTemperatureMeasurement`) | table `temperature_measurements`: user, sensor, recorded_at | POST form, GraphQL mutation | lookup, then insert; deletions in between; retries |
| attribution (`worrywort/temperature_measurement.go`) | none: computed from the two tables | `Batch()` of a measurement, measurements of a batch | depends on every later change of the associations; boundaries |
| lists (`graphql_api/root_resolvers.go`, `pagination.go`) | none: the client's cursor | four list queries with first and after | OFFSET without ORDER BY under concurrent writes; numeric edges |
| tokens and login (`worrywort/auth_token.go`, `user.go`) | table `user_authtokens` | login, `wortuser maketoken`, lookup by token | user deleted during a login; expiry; failures |
| middleware (`middleware/`) | the user in the request context | token lookup, refusal without user | the user is read once and used throughout |
| sensors (`worrywort/sensor.go`, `UpdateSensor`) | table `sensors`: owner, name | createSensor, updateSensor | the whole row is read and written back; an optional name |
| batches, users | tables with an owner | create, delete | `ON DELETE` clauses of the schema |
| field resolvers (`graphql_api/temperature_measurement.go`, `batch.go`) | a response in the making; the batch a measurement remembers | `batch`, `createdBy`, `sensor` below a measurement | several statements for one response, in concurrent goroutines, without a filter by user |
| server wiring (`cmd/worrywortd`, `graphql_api/handler.go`) | the document of each request | middleware, then the mutations one after the other | the user is read once, tokens and rows go meanwhile |
| fermentors | a table without a use | none reachable | - |

Components interact through the database only, plus the request context, which
carries the user from the middleware to the resolver. Rows are deleted by an
operator; the code deletes nothing, so the schema's `ON DELETE` clauses are the
whole of what a deletion does.

What makes each correct: an association ties a batch and a sensor of one user,
a sensor has one open association at most, history is kept; a measurement is
stored for a sensor of its user and its batch does not change behind the user's
back; a walk over pages sees what is there; a request acts as the user its token
was made for, or as nobody, and rows are written only for users whose token came
with the request; a response shows its user's rows and nobody else's.

## Modules

| module | what it is |
|---|---|
| `Associations` | the two association mutations over users, batches, sensors and associations |
| `AssociationRegistry` | abstract: what associations promise when each request is one step |
| `Sensors` | extends `Associations` with sensor names and updateSensor |
| `Monitoring` | extends `Associations` with measurements and their attribution |
| `Responses` | extends `Monitoring` with the fields below a measurement in a response |
| `Pagination` | one page of a list, and a client walking over pages while others write |
| `TokenAuth` | token rows, login, maketoken, and the middleware |
| `Access` | abstract: the rights that tokens stand for |
| `Server` | composes `TokenAuth` and `Associations`: requests whose documents hold several mutations |
| `MCAssociations`, `MCSensors`, `MCMonitoring`, `MCResponses`, `MCPagination`, `MCTokenAuth`, `MCServer` | instances for TLC: symmetry sets, sets a .cfg cannot write |
| `AssociationsProofs`, `RegistryProofs`, `SensorsProofs`, `MonitoringProofs`, `ResponsesProofs`, `PaginationProofs`, `TokenAuthProofs`, `ServerProofs` | theorems and their proofs |

Each module also holds definitions marked *Faulty*: slips the code could have
had. Nothing refers to them; `PROJECT.json` ("mutants") pairs each with a
property that fails when the slip replaces the definition, which shows that the
property looks at the code.

### Associations

`batchOwner` and `sensorOwner` are the `user_id` columns; `Unborn` and `Dead`
are the states of a key before INSERT and after DELETE (keys are serials or
UUIDs and never come back). `assoc` is the association table. The history field
`by` of a row is the goroutine that inserted it.

| code | action |
|---|---|
| `AssociateSensorToBatch`: user from the context | `BeginAssociate` |
| `FindBatch`, `FindSensor`, each filtered by user | `FindBatch`, `FindSensor` |
| `FindBatchSensorAssociation(disassociated_at IS NULL)` | `CheckActive`, which notes the clock as `since` |
| `AssociateBatchToSensor`: INSERT | `InsertAssociation`; associated_at is a time since the check; the foreign keys refuse deleted batches and sensors |
| `UpdatebatchSensorAssociation`: input | `BeginUpdate` |
| `FindBatchSensorAssociation(id, user)` | `FindAssociation` |
| `UpdateBatchSensorAssociation`: UPDATE by id alone | `UpdateAssociation` |
| `CreateBatch`, `CreateSensor`: one INSERT | `CreateBatch`, `CreateSensor` |
| any error, a lost connection, the end of the process | `Abort` |
| DELETE by an operator | `DeleteUser` (SET NULL), `DeleteBatch`, `DeleteSensor` (CASCADE) |

A user deleted in the middle of a request is a case worth knowing: batch and
sensor become ownerless, `buildBatchSensorAssociationsQuery` no longer finds
their associations, the check passes, and the INSERT succeeds. The properties
that speak of open associations therefore speak of sensors that have an owner.

`CloseOnly` (no client sends an empty disassociatedAt) is the assumption under
which closed associations stay closed. The API does not enforce it; see the
finding below.

### AssociationRegistry

The same promises with every request done at once: `Open` needs one owner for
the pair and no other association this client opened on the sensor; a closed one
stays closed. `Associations` implements it under the mapping `Book` (rows to
entries, `disassociated_at IS NULL` to open, workers to clients). With one
client the registry is the promise of the API. That the registry must be indexed
by client is the exact price of the missing transaction.

### Monitoring

`measured` is the measurement table and `post[p]` a request storing one, by REST
(`BeginForm`, `ValidateForm`) or GraphQL (`BeginCreate`, `ResolveSensor`), both
ending in `InsertMeasurement`. The two differ in the order of their checks:
the form collects the errors of all fields, the mutation stops at the first.
`Covering` is the join of `TemperatureMeasurement.Batch()`, whose `LIMIT 1`
without order makes any of `BatchOf(m)` a possible answer; `Listed` is the join
of `temperatureMeasurements(batchId:)`. Deletions blank a measurement's user
or sensor.

### Sensors

`name` is the column and `edit[e]` a rename under way. updateSensor reads the row
and writes user_id and name back by an UPDATE that names only the key, so the
question is whether an owner lost in between can come back. It cannot: the
foreign key refuses the user who has gone. `RenamesChangeNoOwner` says so in one
line, as a refinement: `SSpec` behaves as `Associations` does, and so everything
shown of `Associations` holds beside renames.

| code | action |
|---|---|
| `CreateSensor`, one INSERT of any name | `SCreateSensor` |
| `UpdateSensor` (resolver): user, length of the name | `BeginRename`; a name of the wrong length is answered at once |
| `FindSensor(uuid, user_id)`, then `*input.Name` | `FindEdited`; without a name the step is "panic" |
| `UpdateSensor` (worrywort): UPDATE by id | `SaveSensor` |
| any error, a recovered panic, a lost connection | `AbortEdit` |

### Responses

`look[r]` is a response to `temperatureMeasurement(id)` in the making. The
measurement is loaded once (`node`); graphql-go then resolves every field that
takes a context in a goroutine of its own, each with its own statement. A
document may ask for `batch` under several aliases, all of which call `Batch()`
of the same measurement and share the private field in which it remembers the
batch, without a lock. A data race on that field is modelled by what a build can
produce: a goroutine sees what is stored or what it has stored itself.

| code | action |
|---|---|
| `TemperatureMeasurement`: user, id, one SELECT by both | `Ask`, `Load` |
| `if tm.batch == nil` | `CheckRemembered` |
| the SELECT without a user, LIMIT 1 without ORDER BY | `QueryBatch`: any covering association; none, or a SELECT that fails, ends the field with null |
| `tm.batch = &b`, `return tm.batch` | `Remember`, `Return` |
| `batchResolver.CreatedBy`: `*r.b.UserId`, `FindUser` | `FindCreator`: a panic before the statement, the user, `sql.ErrNoRows`, or another error of the database |
| `temperatureMeasurementResolver.Sensor`: `FindSensor(id)` | `FindNodeSensor`: the sensor, null without one, or null because the SELECT failed |
| the response goes out, or its connection is lost | `Send`, `Lose` |

Each of these SELECTs may fail while the others succeed; the field is then null or
an error and the rest of the response goes out. The code answers a failure of the
database as it answers a missing row. `"failed"` tells the two apart in the model,
as only the log and the text of an error do in the code; it is history, as is `own`, that the field found
nothing remembered and asked the database. So `FailuresExplained` says of every
field whose own SELECT did not fail that it comes out wrong only after a deletion:
the failure of one field never becomes another's, and a batch that could not be
read is not remembered as an empty one, whose missing owner `createdBy` would
dereference. `AliasesAgreeUnlessRaced` counts only queries that were given a batch:
a failed one is no excuse for aliases that differ.

### Pagination

`heap` is the list in storage order, and the model takes a SELECT without ORDER BY
to return it so: an UPDATE writes a new row version at the end or in reclaimed
space. PostgreSQL promises no order at all. A scan of one table usually yields
storage order; all but the plainest of these lists are joins, whose order the plan
decides and which may change as tables grow. `WalkIsPrefix`, `NoRepeats` and
`MissesOnlyForDeletions`, and the theorems about them, are therefore conditional on
that assumption: they say what offset cursors are worth at best. The violation of
`WalkSeesAll` shows that they are worth less even so, and `NextPageTruthful` and
`WalkEnds` need only the number of rows. The
four list resolvers share their code to the letter, so one model stands for all;
filters only choose the list. `Selected` is the SELECT with `LIMIT first+1`
and `OFFSET`, `EdgeCount` the loop, `HasNextPage` the surplus row, `LastCursor`
the cursor `offset + i + 1`. `SqlFails` is the conversion to uint64. `first: -1` is no
error but `LIMIT 0`: an empty page that claims to be the last; the walks include
it, and `NextPageTruthful` is stated for the other page sizes.

`others` is the set of kinds of writes that happen while a client walks, one of
`Regimes`; before the walk anything may be written. What offset cursors are worth
depends on it, and each property says on what: rows appended only give a walk
that is the front of the list (`WalkIsPrefix`); rows appended and deleted give
one that repeats nothing (`NoRepeats`) and misses at most as many rows as were
deleted (`MissesOnlyForDeletions`); under all writes it still ends (`WalkEnds`).

### TokenAuth

`tokens` is `user_authtokens`; a secret is named by the key of its row.
`TokenError` follows the order of `AuthenticateUserByToken`: the comparison comes
last and its error replaces an earlier one. `issued` and `revoked` are history.
`BeginMakeToken` is `wortuser maketoken`, which finds the user by e-mail as the
login does and saves a token without asking for a password.

### Access

The same promises in five actions: a right is given while its user exists
(`Give`), withdrawn for good (`Withdraw`, `Leave`), and a request takes up a
right that stands at that moment (`Act`) until it ends (`Finish`). `TokenAuth`
implements it: `Grants` reads rights off rows (an expired row is a dead right),
and `Acting` names the right a request acts by *by the secret it presented*, so
that a client who pairs another token's id with its secret would show.

### Server

One goroutine per request: `req[w]` is the request as `TokenAuth` sees it and
`job[w]` the association mutation it is executing, which is `req` of an instance
`A` of `Associations`. `fields[w]` counts the mutations of the document still to
come; graphql-go runs them one after the other. `Receive` and `LookUp` are the
middleware, `StartJob`, `RunJob` and `FailJob` a mutation, `CreateRow` createBatch
and createSensor, `Answer` the reply (the refusal, without a user). `RemoveUser`
is one DELETE that reaches the tables of both components. A failed mutation does
not stop those behind it; a lost connection does.

`WritesAuthorized` is the property that neither part can state alone: whoever's
rows are written, it is while a request is served that came with that user's own
token, and the batch and the sensor of an association written are that user's.

## Runs

| run | question | states | result |
|---|---|---|---|
| `assoc_concurrent` | two requests interleaved, with deletions; implements the registry | 326 323 | holds |
| `assoc_race` | is one association open per sensor, with two requests? | - | **violated** |
| `assoc_reopen` | the same with one request at a time and updates that leave disassociatedAt out | - | **violated** |
| `sensors` | two renames beside association requests served one at a time | 462 803 | holds |
| `sensor_unnamed` | may a rename leave the name out? | - | **violated** |
| `monitor_history` | measurements, associations, updates and deletions together | 2 095 720 | holds |
| `monitor_overlap` | does a measurement have one batch? | - | **violated** |
| `response_fields` | what a response shows while rows are written and deleted under it | 1 211 506 | holds |
| `paging_walk` | what a walk sees under each regime of writes, and whether it ends | 881 382 | holds |
| `paging_update` | does a walk see every row while rows are updated? | - | **violated** |
| `server` | logins, middleware and documents of two mutations, put together | 665 478 | holds |
| `auth_outage` | are failed lookups logged? | - | **violated** |

What the violations mean:

- **assoc_race**: both requests run `CheckActive` before either inserts. The
  comment `TODO!: Make sure the sensor is not already associated with a batch`
  names the wish; a partial unique index, or a transaction with a lock, grants it.
- **assoc_reopen**: associate, close, associate with another batch, then update
  the first with no disassociatedAt.
- **monitor_overlap**: `<=` and `>=` at both ends. A sensor moved from one batch
  to the next at the instant of a measurement gives it to both.
- **paging_update**: renaming a sensor between two pages moves it behind the
  cursor and everything after it forward, so one row is skipped.
- **sensor_unnamed**: a request without a name passes the check of its length,
  finds the sensor, and `*input.Name` dereferences nil. graphql-go recovers the
  panic; the schema calls the name optional.
- **auth_outage**: `Compare` of the empty token overwrites the database's error.

### Bounds, and why they are enough

All sets are small and named in the .cfg. Two users suffice for rows of "another
user"; two sensors or two batches for a move; two or three association keys for
an open one beside a closed one and a racing one; two workers, or two editors,
because the properties relate two requests. `server` has one worker: its
properties relate one request to the tables, which operators change at any
moment, and what two workers do to each other's associations is the question of
`assoc_concurrent`. `response_fields` has two aliases because the race is
between two fields, and one reader because readers write nothing. `MaxTime` = 1
gives before, at and after a boundary; where times decide nothing it is 0.
`MaxFields` = 2 lets a mutation follow one that was refused.

Keys are used up, never recycled, which bounds every run. `KeyLeft` (a poster
arrives only while a measurement key is left), `TokenLeft` and `AssocLeft` (a
login or association starts only when more keys are left than requests on the
way) keep a request from waiting for a key, which no request of the server does.

Lists of up to 4 rows and page sizes from -2 to 4 include empty, exact, short
and overlong pages and each side of the arithmetic edges.
`CHECK_DEADLOCK FALSE` everywhere: when all users are deleted and keys used up,
or a walk is over, the system rightly has nothing to do. Symmetry is used in
safety runs only; no definition orders or CHOOSEs keys.

### Fairness

`paging_walk` assumes weak fairness of the client's two steps, asking for a first
page and for the next one: a client that walks does not stop halfway. A page is
one statement, so no more is needed of the server. Nothing is assumed of the
writers. The walk ends because each page moves the cursor and the list has a
largest size; on a list that grows without end faster than it is read, it need
not.

`server` assumes weak fairness of `Serving(w)` for each worker: the Go scheduler
runs a goroutine that can run and the database answers every statement. Clients
and operators owe nothing, and failures (`Drop`, `FailJob`) are not assumed to
happen. `EveryRequestAnswered` then says that no deletion leaves a request at a
statement it cannot get past.

## What is proved

For any values of the constants that satisfy the ASSUMEs (sentinels differ from
rows; times are numbers):

| theorem | says | assumes |
|---|---|---|
| `TypeCorrect` (three), `STypeCorrect`, `MTypeCorrect`, `RTypeCorrect`, `SvTypeCorrect` | the type invariants | - |
| `OwnersAlwaysAgree`, `OwnersAlwaysExist`, `LookupsAlwaysHold` | `OwnersAgree`, `OwnersExist`, `LookupsHold` | - |
| `OwnerRevises`, `HistoryIsPermanent` | the two action properties | - |
| `OneActivePerWorkerAlways`, `CheckAlwaysHolds` | `OneActivePerWorker`, `CheckHolds` | `CloseOnly` |
| `OneActivePerSensorWhenSerial` | `OneActivePerSensor` | `CloseOnly`, one worker |
| `RegistryImplemented` | `Spec => Registry!Spec` | `CloseOnly` |
| `ClosedForGood` | a closed association is never open again | `CloseOnly` |
| `OpenAlwaysBounded` | at most as many open associations on a sensor as workers | `CloseOnly`, finite `Workers` |
| `RenamesAreNoSteps`, `OwnerRenames` | `SSpec => Spec`; only the owner renames | - |
| `MonitoringRefinesAssociations`, `ResponsesRefineMonitoring` | `MSpec => Spec`, `RSpec => MSpec` | - |
| `MeasurementOwnersAlwaysAgree`, `PostLookupsAlwaysHold`, `AttributionStaysHome`, `QueriesAlwaysAgree`, `AttributionIsStable`, `MeasurementsAreKept` | the measurement properties | - |
| `ResponsesAreOwn`, `FailuresAreExplained`, `AliasesAgree` | the response properties | - |
| `WalkIsAlwaysPrefix`, `NothingRepeats`, `NextPageAlwaysTruthful` | `WalkIsPrefix`, `NoRepeats`, `NextPageTruthful` | - |
| `MissesAreDeletions` | `MissesOnlyForDeletions` | - |
| `GrowingWalkSeesAll` | `WalkSeesAll` of a list that only grows | - |
| `WalksShrink` | every page but the last brings a walk nearer its end | finite `Rows` |
| `ActsAsIssuedAlways`, `RevokedAlwaysNobody`, `TokensAlwaysHaveUsers` | the three properties of `TokenAuth` | - |
| `AccessImplemented` | `Spec => Promise!Spec` | - |
| `RightsAreFinal`, `IdentitiesAreFixed` | rights end for good and are not handed on; a request acts as one user | - |
| `ComponentsImplemented`, `WritesAreAuthorized` | `SvSpec` behaves as both components; who may write | `TablesAssumption` |
| `RequestsRunDown`, `WorkAlwaysBounded` | every statement brings a request nearer its answer, from at most 5 * (`MaxFields` + 1) | `TablesAssumption` |
| `ServerKeepsRights`, `ServerKeepsOwners`, `ServerKeepsChecks` | the components' properties, of the server | `TablesAssumption`; the last: `CloseOnly` |

**Ownership.** `OwnersAgree` alone is not inductive: a request may be about to
insert. `OwnershipInv` adds what each request remembers (`LookupsHold`: a row
it found is still its user's, or dead, or ownerless *because the user is gone*)
and the foreign key (`OwnersExist`). The point of `StillOwned` is that batch and
sensor can only lose their owner together, so that the INSERT sees equal owners.

**The check.** `CheckInv` adds `OneActivePerWorker` and `CheckHolds`: between its
check and its INSERT a worker is busy, so no association of its own can appear on
the sensor, and under `CloseOnly` none is reopened. `OwnershipInv` is needed
because the check sees only rows whose batch and sensor the user owns: it misses
none because both have the same owner.

**Refinement.** Each statement maps to one step of the registry or to none;
`CheckInv` supplies the guard of `Open` at the INSERT. `ClosedForGood` is read off
the registry, which has no step that opens an entered association.
`OpenAlwaysBounded` says how far the race of `assoc_race` can go: the open
associations of a user's sensor have different workers (`OneActivePerWorker`),
so `by` is an injection into `Workers`.

**Renames.** `ReadHolds`, the `LookupsHold` of editors, makes the UPDATE write the
owner that the row has: it is the user who asked, or the user has gone and the
foreign key refuses. `RenameInv` is `OwnershipInv` with it.

**Measurements.** `Monitoring` only adds variables, so `MSpec => Spec` carries
every theorem over; `MeasurementInv` repeats the ownership argument for posters.
`AttributionStable` follows from the fact that a new row's associated_at is not
before the check.

**Pages.** `WalkInv` says, place by place, how what was received lies in the list:
the cursor is the number of rows received (`CursorCounts`), a row has one live
version, and while rows are only appended and deleted, no row behind the cursor
has been received (`AheadIsNew`). The lemmas `WithoutElements`, `PlacedElements`
and `PageElements` say what a write and a page do to each place.
`NextPageAlwaysTruthful` is arithmetic on the length of a page and needs the
types only.

`MissesOnlyForDeletions` compares two cardinalities that change at different
moments: a deletion adds to what is gone, and moves at most one row across the
cursor, but a row is missed only when the walk ends. `MissInv` therefore counts
all along (`PassedCounted`: the rows passed over are no more than those gone) and
keeps the rows of the beginning in front of those appended (`BaseFirst`), so that
the deletion of an appended row moves none of them across the cursor.
At the last page the two counts meet. With nothing deleted both are zero, which
is `GrowingWalkSeesAll`: the run `paging_update` shows that renames break it.
`WalksShrink` is the part of `WalkEnds` that needs no fairness: the cursor never
leaves the list and moves forward with every page but the last, so `Ahead` is a
number that a walk can only lower.

**Responses.** `RSpec => MSpec` gives `MeasurementInv`. `ResponseInv` adds, for each
response, that the sensor of the loaded measurement is still its user's or
deleted or ownerless with its user, that every batch found or remembered is the
user's in the same sense, and, for the aliases, that while at most one field was
given a batch by the database (`Gave`) every field holds what is remembered. A
SELECT that fails gives nothing and leaves nothing behind, so it disturbs none of
this. That deletions are for good carries it across the steps of others.

**Tokens.** `AuthInv` adds that a revoked token is never usable again and that a
token's user is on record from the moment the row exists.

`AccessImplemented` needs the types only: each statement is one step on `Grants`
and `Acting` or none. What `Access` promises over time then holds of the
statements: `RightsAreFinal` and `IdentitiesAreFixed` are shown of the steps of
`Promise` and carried back by the refinement.

**Server.** Every step is a step of `TokenAuth`, of `A`, of both (`RemoveUser`), or of
neither, which gives `ComponentsImplemented`; `TypeCorrect` and `OwnershipInv` of
the components then hold of the server. `ServingInv` ties them: a mutation runs
only inside a request, as its user. `WritesAreAuthorized` is their sum.
`TablesAssumption` is what `Associations` assumes of its constants, which
instantiation does not bring along. `ServerKeepsRights`, `ServerKeepsOwners` and
`ServerKeepsChecks` state what the components bring; the proofs are theirs.

`RequestsRunDown` is the part of `EveryRequestAnswered` that needs no fairness.
`Work` counts what a request can still take: two statements until it is
authenticated and answered, five for each mutation not yet begun, and the rest
of the one that runs. Each statement of its goroutine lowers it, a failure too,
and no step of another worker or an operator touches what it counts.

Proofs of `OneActivePerSensor` for concurrent requests or without `CloseOnly` do
not exist, as the runs show.

Only model-checked: liveness (`WalkEnds`, `EveryRequestAnswered`). That a walk or
a request moves at all rests on fairness, and so on ENABLED, which the prover does
not handle; that each move brings it nearer the end is proved. Every invariant
and action property of the passing runs is stated by a theorem.

## Not modelled

- Fermentors: no mutation reaches them and the query returns an error.
- Field resolvers that format a column, scalars, start-up: no decision reads them.
- `UpdateBatch`, `StrictEqual`, `InsertUser`, `UpdateUser`,
  `UpdateTemperatureMeasurement`, `LookupUserByToken`: no caller in the server.
  `UpdateUser` could not run: its SQL has a stray parenthesis
  (`worrywort/user.go`).
- A measurement posted again by a client that got no answer is stored twice.
  Nothing promises otherwise, so no property is about it.
- Isolation inside one statement: PostgreSQL executes each as if alone. A query
  of a deleted or locked row waits and then sees the outcome.
- Passwords, hashes, units, temperatures: one bit where a decision reads them,
  nothing otherwise.

## Plan

Done, in this order: `Associations` with its proofs, the registry, `Monitoring`,
`Pagination`, `TokenAuth`; then `Sensors`, `Access`, `Server`, `Responses`, each
with its proofs.

Next:

1. `Server` over `Monitoring`: REST posts behind `NewLoginRequiredHandler`, as one
   more kind of job.
