# A verification project for the Distributed Gasoline System

TLA+ models of the services under `src/services`, the TLC instances that check
them, and TLAPS proofs of what matters most. Paths below are relative to
`src/services/` unless they start with `src/`.

## 1. The system

Twelve NestJS services talk gRPC. Each keeps its own tables, none opens a
transaction that spans a call to another, and every handler is an `async`
function: between two `await`s it runs alone, at each `await` the other requests
of the same process run, and several replicas of a service share its database.
So the hard behaviour is nearly always of one kind: *a handler checks something,
awaits, and acts on what it read*.

| Component | State | Operations | Talks to | What makes it correct |
|---|---|---|---|---|
| **routes-srv**, trips (`trip.service.ts`) | table `trips`: status, route, driver, vehicle, supervisor, readings, distances, comment | createTrip, updateTrip, startTrip, finishTrip, reviewTrip, updateTripLocation, queries | driver-ms (availability), vehicles-svc (odometer, consumption, status), users-srv (names) | phases in order; limits per driver, vehicle, supervisor; a consistent review; fleet occupied exactly while needed |
| **routes-srv**, routes (`route.service.ts`) | table `routes`: names, coordinates, distance | createRoute, updateRoute, deleteRoute | own `trips` table (`ON DELETE CASCADE`) | a route with trips keeps its length and is not deleted |
| **vehicles-svc**, units | `vehicle_unit` rows: status, odometer, plate; consumption spec | createUnit, updateUnit, updateStatus, upsertConsumption, deleteUnit | routes-srv (has trips?) | no lost update; factor K in step with the odometer; no deletion under a trip |
| **vehicles-svc**, models | model rows with a version, engine, licences | createModel, updateModel (compare and swap), deleteModel, setModelLicenses | own units | no lost update; no unit without its model |
| **driver-ms**, drivers | driver rows: user, availability, `deleted_at` | create, update, remove, undelete, canDrive | users-srv (account), routes-srv (has trips?) | driver and account live or deleted together |
| **driver-ms**, licences | licence types, inclusion pairs, licences of drivers | create, update, remove, add/removeLicenseInclusion, suspend, reactivate | – | canDrive decides what the inclusion graph says; one licence per type |
| **users-srv** | user rows, roles, password hash | create, update, delete, undelete, updatePassword | routes-srv (has trips?) | unique e-mail, phone, user name; passwords change only for active users |
| **auth-svc** | recovery tokens (`used`, `expiresAt`) | login, recoverPassword, resetPassword, me | users-srv, email-svc | a token changes a password at most once, before it expires |
| **log pipeline** (users-srv client, publisher-rabbit-srv, logger-svc) | the channel and its start-up promise; a durable queue; an index | log, publishLog, handleMessage | RabbitMQ, Elasticsearch | what is confirmed is indexed, or said to be lost |
| **discovery** (in every service) | a copy of the registry, counters | pick, waitForInstances, clientFor | Eureka or DNS | instances in turn; nothing done twice; failures end when the instances settle |
| **fuel-svc** | none of its own | eleven reports | routes-srv, driver-ms, vehicles-svc | a report is true of one instant; reports agree |
| **api-gateway** | copy of the registry, counters | HTTP to gRPC, deadline, error answers | all | a client told of a failure has not had its request done twice |
| **email-svc**, **hello-svc** | none | mails, a greeting | – | – |

The hazards, each at the line where it bites, are in `PROJECT.json`.

## 2. Modules and plan

| Module | Extends or uses | Components | Section |
|---|---|---|---|
| `TripLifecycle` (abstract), `Trips` | `Trips` implements `TripLifecycle` | trips and routes of routes-srv | 3 |
| `VehicleUnits` | – | units of vehicles-svc | 4 |
| `LicenseTypes` | – | licence types and canDrive of driver-ms | 5 |
| `DriverAccounts` | – | drivers of driver-ms **with** accounts of users-srv | 6 |
| `UserAccounts` | – | users-srv **with** the recovery tokens of auth-svc | 7 |
| `VehicleModels` | – | models of vehicles-svc **with** createUnit | 8 |
| `LogPipeline` | – | users-srv, publisher-rabbit-srv, RabbitMQ, logger-svc | 9 |
| `FuelReports` | – | fuel-svc **over** routes-srv | 10 |
| `Assignments` | – | routes-srv **over** driver-ms, users-srv, vehicles-svc | 11 |
| `Discovery` | – | registry, copies, round robin, deadlines | 12 |

Each has a module `MC...` that gives it to TLC. `...Proofs` modules hold the
theorems; `CallsProofs` has those of `LogPipeline`, `Discovery` and `FuelReports`, which are
the three about calls between services and have no name in common. A module that spans services models both sides of the calls between
them; `Assignments` and `FuelReports` look at several services at once and cut
the handlers that have a module of their own down to one step.

What is left, in order:

1. `DriverLicenses`: one licence of each type per driver under races, stale saves
   of suspend, reactivate and update.
2. `RouteNames`: the query for a free name against the unique index.
3. `Trips` with `VehicleUnits` and `DriverAccounts` in one state, in place of the
   single steps they are for each other now.

A question gets a run of its own only when no run of the module can answer it.
What a proof covers for every value of the constants is not run again where the
instance would add nothing (`SupervisorBound`, `PlateBound`, `PlatesUnique`, `FactorNotAhead`,
`References`).

In most modules a definition or two is marked as a *variant*: what a plausible bug
would make of the definition after it. They are used by no action; they are
there to show that a property fails when the code is changed that way.

## 3. Trips

### The model

`Trips.tla` models `TripService` and `RouteService` of routes-srv.

| In the model | In the code |
|---|---|
| `trips`, `routes` | the tables (`trip.entity.ts`, `route.entity.ts`, `db/init.sql`); identifiers are never reused |
| `availability`, `unitStatus`, `odometer` | what driver-ms and vehicles-svc keep and routes-srv reads or writes |
| `job[r]` | a request being served: `pc` names its next database or gRPC call, the other fields are its arguments and local variables |
| `CreateTrip` .. `InsertTrip` | createTrip: the route is read (or created at once), four availability queries, the odometer, the INSERT |
| `UpdateTrip`, `WriteUpdate` | updateTrip |
| `StartTrip`, `CheckNoOtherEnRuta`, `WriteStart`, `Notify...` | startTrip; the two notifications of `Promise.all` land in either order |
| `FinishTrip`, `WriteFinish` | finishTrip |
| `ReviewTrip`, `WriteReview`, `FreeDriver`, `FreeVehicle` | reviewTrip; the two calls are made one after the other |
| `LoseStartNotification`, `LoseRelease` | the `catch` blocks that only log |
| `CreateRoute`, `UpdateRoute`/`WriteRoute`, `DeleteRoute`/`EraseRoute` | RouteService and the cascade of the foreign key |
| `Reject` | a call before the write fails and the handler throws |
| `Crash` | the process ends; what was in flight is forgotten, the tables stay |
| `AdvanceOdometer` | the hand edit of a unit's odometer in vehicles-svc |

Numbers are metres. `ReadingColumn` and `DistanceColumn` are what the decimal
columns keep: a tenth of a kilometre for readings, a hundredth for distances.
The arithmetic before the write is exact in the model and double precision in
the code.

Choices worth knowing:

- A step is the code between two awaits that touch shared state. `update()`
  followed by the `findOne` that builds its answer is one step. A query of
  another service that only decides whether the request is rejected
  (does the driver exist, is the position near the route, is this the
  supervisor of the trip) is `Reject`, or a request the model does not send.
- The caller's driver is `None` when the request is not a driver's, or when the
  controller failed to find the driver and goes on without.
- `findOne` without an order returns any matching row: `CheckNoOtherEnRuta`
  chooses one.
- vehicles-svc and driver-ms are modelled as serving each call at once. Their own
  races belong to sections 4 and 6; a driver's
  availability edited directly through driver-ms is not in this model.
- Left out because no property looks at it: names, coordinates, times, fuel
  figures, updateTripLocation (it writes positions only), queries.

`TripLifecycle.tla` is the abstract specification: trips are created in CREADO and
advance along `canTransitionTo`.

### Instances

`MCTrips` gives `Trips` to TLC. The limit of three trips (`MaxActive`) is 1 or 2 so
that few trips reach it; one route of 100 km is enough for each race since a
trip never changes route; readings are chosen on both sides of the 3 % and
below the rounding of the column. A bounded instance runs out of trip
identifiers and then may have nothing left to do, so deadlock is not checked.
Symmetry is used for invariants and action properties only, never with
liveness.

| Run | Requests at once | Checks | Shows |
|---|---|---|---|
| `trips_serial_life` | 1, no faults, fair (225 434 states) | `NoStrandedFleet`, `EnRutaExclusive`, `PlannedMatchesRoute`, `SerialLifecycle`, `ReviewReleases` | the handlers implement `TripLifecycle`; a driver is on one trip and a route with trips stays as planned; what a trip occupied its review frees |
| `trips_concurrent` | 2, faults | `TypeOK`, `ReviewConsistent`, `NoPhaseSkipped` | what stale writes still cannot break |

With lost calls and crashes at every await, `EnRutaExclusive`,
`PlannedMatchesRoute` and `SerialLifecycle` are proved (below); how far
check-then-insert passes the limit of a supervisor is `SupervisorBound`, proved for any
number of requests and checked by no run.

Seen in the model and left as it is: `updateTrip` gives a driver
trips beyond the limit of createTrip (`WriteUpdate` has no check); the review of
one trip frees a driver whose next trip is in EN_REVISION (`FreeDriver`); two
startTrip of one driver both pass `CheckNoOtherEnRuta` before either writes, which
is why `EnRutaExclusive` is checked and proved for one request at a time; a final
reading 40 m above the first is kept as equal to it, which is why
`ReviewConsistent` compares with "not below".

Fairness is weak fairness of `Serve(r)`: every call a handler awaits is answered,
with a result or with an error (`Reject` is one of its answers). Node's event
loop and the gRPC client give that; nothing is assumed of clients, of the
odometer, of faults. It is used by `ReviewReleases` only.

### Proofs

| Theorem | Module | For |
|---|---|---|
| `TypeCorrect` | `TripsProofs` | any constants |
| `ReviewCorrect`, `PhasesCorrect` | `TripsProofs` | any number of requests, trips, routes |
| `SupervisorBounded` | `TripsProofs` | any finite number of requests, any limit |
| `SerialExclusive`, `SerialPlanned`, `SerialRefinement` | `TripsProofs` | one request slot, any number of rows, lost calls and crashes included |
| `SerialFleet` | `TripsProofs` | one request slot, any number of rows, no call lost |

All rest on `ConstantsAssumption` only (sets of naturals, finite sets of requests
and trips, `None` outside the sets it stands in for); TLC evaluates it in every
run.

- **Types.** `TypeOK` is not inductive: a handler writes its arguments into a row,
  so `CreateArgs` and `TripArgs` say which arguments are there at which call.
- **Review and phases under any interleaving.** A write uses values read before.
  `Knows(r)` says what of them is still true when the write comes: the row had
  been inserted, had left CREADO, and the numbers the review was computed from
  are the columns no handler rewrites. `RowStep` lists the ways a row can
  change; with it `ReviewConsistent` and `NoPhaseSkipped` follow. The step from
  what is checked to what the columns keep is `ReviewedIsKept`: the initial
  reading is a multiple of the column's unit, so rounding does not take the
  final one below it.
- **The limit.** `SupervisorBounded` counts unfinished trips of a supervisor plus
  requests that have passed the check and not yet inserted. The count grows
  only at the check, where the first summand is below the limit and the second
  is at most the number of other requests.
- **One request at a time.** `Snapshot` says that what the only handler read is
  what the tables still hold; then every write is guarded by a current status,
  which gives the exclusion, the route's length and each step of the
  refinement.
- **The fleet.** `NoStrandedFleet` speaks of the moments between requests only.
  `FleetInv` says what holds during them: whatever is ON_ROUTE has a trip that is not
  reviewed, or the request that has just reviewed it is about to free it (`DriverDue`,
  `VehicleDue`); and a request about to occupy or free a driver and a vehicle has
  those of its trip (`Occupies`). The hypothesis `~Faults` is the one the property states:
  a lost call does strand a vehicle, as the `catch` blocks only log it.

Only model-checked: `ReviewReleases` (liveness).

## 4. Vehicle units

### The model

`VehicleUnits.tla` models `VehicleUnitService` of vehicles-svc. A unit is a row of
`vehicle_units` and a row of `unit_consumption_specs`. updateStatus and updateUnit
read a whole row, edit it in memory and write every column back; the
calibration factor that goes with the odometer is a second statement. Only
createUnit runs in a transaction.

| In the model | In the code |
|---|---|
| `units`, `specs` | the two tables, as `toDomain` and `upsert` read and write them |
| `trip[u]` | what routes-srv is doing with the unit: nothing, a createTrip that has looked at it, a trip inserted; `MoveTrip` is updateTrip, which puts a trip on a unit or takes it away without a look at the unit |
| `job[r].row` | the row as read and edited by the handler |
| `CreateUnit`, `CommitUnit` | createUnit: the plate is asked for, then both rows in one transaction |
| `UpdateStatus`, `WriteUnit` | updateStatus |
| `UpdateUnit`, `CheckPlate`, `WriteUnit`, `WriteSpec` | updateUnit |
| `UpsertConsumption`, `WriteSpec` | upsertConsumption |
| `DeleteUnit`, `AskTrips` or `AskUnanswered`, `EraseUnit` | deleteUnit; when routes-srv does not answer the deletion goes on |
| `Interrupt` | a failed call or the end of the process |
| `CalibrationK` | the factor of the odometer: linear between 10 000 and 300 000 km, cut at both ends |

Readings are tenths of a kilometre. Tank capacity, serial numbers, the model of
the unit and the age term of the factor are left out.

### Instances

Readings are chosen on the flat part of the factor, on its slope and beyond its
cut. Two units and two plates are enough for a plate to be taken. The instance
runs out of identifiers, so deadlock is not checked.

| Run | Requests at once | Checks | Shows |
|---|---|---|---|
| `units_serial` | 1, not interrupted | `FactorFollowsOdometer` | between requests the factor is that of the odometer |
| `units_concurrent` | 2, interrupted anywhere | `TypeOK`, `UnitsHaveSpecs`, `DeletedStaysDeleted` | the transaction of createUnit holds; a stale whole-row write does not undo a deletion, because `deletedAt` is not among its columns |

That plates stay unique although no index covers live units (`PlatesUnique`), and
that a factor is never ahead of its odometer (`FactorNotAhead`), both for requests
served one at a time, is proved.

### Proofs

`VehicleUnitsProofs` has four invariants, each on top of the first. `AnyInv`: types, `UnitsHaveSpecs`, and
`Holds(r)`, which says what a handler holds at each of its calls and that the
unit it works on has been created; it gives `UnitTypes`, `UnitsKeepSpecs` and
`DeletionIsFinal` for any number of requests. `SerialInv` adds `Reads(r)` (the plate
is still free, the row read is not ahead of the table) and gives `SerialPlates`
and `SerialFactor` for one slot, interruptions included. How far from unique a plate
gets when requests overlap is `PlatesBounded`: it is on no more units in service than requests
are served at a time. The count that is kept (`Bounded`) is of the units that have the
plate *or may be given it by a row some request holds*, and of units being created with
it. Rows in memory count because a request that read a unit before its plate was changed
writes the old plate back, after others have been told it is free. A query adds to the count
only while no unit in service has the plate, and then every claim is a different
request's own. `FactorInv` adds, for one slot
and no interruption, that an edit which will not calculate the factor leaves the
odometer alone (`Recalculates`) and that the only unit whose factor may lag is the one
whose consumption is written next (`Lagging`); it gives `SerialFactorFollows`. They
rest on `UnitConstants`.

## 5. Licence types

### The model

`LicenseTypes.tla` models `LicenseTypesService` of driver-ms and `canDrive`.
PostgreSQL evaluates the recursive query of getLicenseClosure in rounds, on the
table as it was when the query began, and each round is a step.

| In the model | In the code |
|---|---|
| `types`, `includes`, `licences`, `deleted` | `license_types`, `license_includes`, `driver_licenses` (status by driver and type), `drivers.deleted_at` |
| `CreateType`, `RemoveType` | create; remove with the cascade to the inclusions and the restriction from the licences |
| `AddLicenseInclusion`, `RemoveLicenseInclusion` | the operations of that name; a cycle of two or more types is accepted, as in the code |
| `GetLicenseClosure`, `StartClosure`, `IterateClosure` | the query: `working` and `closure` are the working table and the result of the recursion |
| `CanDrive`, `EndClosure` | canDrive before and after its await |
| `IssueLicence`, `SetLicenceStatus`, `RemoveDriver`, `UndeleteDriver` | what other handlers do to the rows canDrive reads |
| `Respond` | the answer, or a failed query |

- `Included` is the reference definition of the closure: what is in every set
  closed under inclusion. It does not look like the loop and needs no recursion.
- Ids are `bigint` in `init.sql` and integers in some entities, and node-postgres
  returns text for the first and numbers for the second. canDrive compares ids
  with `===` and `includes`, so whether equal ids compare equal is decided outside
  this code: `sameKind` is chosen at each comparison.
- One licence for each driver and type: duplicates (section 2, what is left) do not
  change what canDrive answers. Codes, descriptions and dates are left out;
  canDrive only formats dates, and the formatting calls a method of `Date` on
  what a `date` column may return as text, an error the model has as `Respond`.

### Instances

Three types allow a cycle of two with a tail, a cycle of three and two paths to
one type; `MaxPairs` caps the inclusions at three, enough for a cycle of
three. One request is enough: requests only read, and other requests' writes
are steps of their own that interleave with the rounds.

| Run | Checks | Shows |
|---|---|---|
| `licence_types` | `TypeOK`, `ClosureExact`, `ClosureAdvances` | the query ends on cycles, with what was included when it began, while inclusions and types change |

That no type is removed while an inclusion or a licence refers to it (`References`)
is proved.

### Proofs

`Rounds(j)`: the closure so far holds the types included directly and all that
its members outside the working table include, and nothing that is not
included. `RoundsBegin` and `RoundsGoOn` keep it, `RoundsAtEnd` turns it into
equality with `Included` when the working table is empty. With it
`LicenseTypesProofs` proves `TypesTyped`, `ReferencesKept`, `ClosureCorrect` and
`ClosureEnds` for any number of requests, drivers and types. `ClosureEnds` says that
each round adds a type or is the last. `ClosureRunsOut` draws the conclusion: `RoundsLeft`
(one round for each type outside the closure, and one that finds nothing) is a
natural number, never more than the number of types plus one, and falls with
every round, whatever graph the query began with and whoever changes the table
meanwhile. What remains out of reach is only that the database goes on with the
rounds, which is fairness. They rest on `LicenceConstants`; that the types are finitely
many is used by `ClosureRunsOut` alone.

## 6. Drivers and their accounts

### The model

A driver is a row of driver-ms, its account a row of users-srv, and no transaction
spans the two. `DriverAccounts.tla` has both, and the calls between them.

| In the model | In the code |
|---|---|
| `drivers`, `accounts` | `drivers` (`deleted_at`, `user_id`), `users` (`deleted_at`) |
| `CreateDriver`, `SaveNewDriver` | create: getUser answers, then `save`; `user_id` is unique, removed drivers included |
| `UpdateDriver`, `AskNewUser`, `LoadForSave`, `WriteDriver` | update: the entity read first is saved last. TypeORM reads the row again and writes the columns in which it differs from the entity, `deleted_at` among them |
| `RemoveDriver`, `EraseDriver`, `UndeleteDriver`, `RestoreDriver` | remove and undelete: the driver, |
| `ChangeAccount`, `AccountCallFails`, `AccountCallTimesOut` | and then the account; a failure is logged and nothing else |
| `LateCall` | a call given up after three seconds that users-srv carries out later |
| `Refuse` | a call before the first write fails, or routes-srv knows trips of the driver |
| `SetAccount` | an administrator deletes or restores the account in users-srv |

`disturbed[u]` is a history. It records what has happened to an account that the
code does not handle: two requests on it overlapped, a call about it failed or
timed out, an administrator changed it, a driver already removed was given it.
`"left"` is the one case that only leaves an account behind. The properties say
that these are *all* the ways to a disagreement, and what each can lead to.

### Instance

| Run | Checks | Shows |
|---|---|---|
| `driver_accounts` (2 requests, 2 drivers, 2 accounts; 330 560 states) | `TypeOK`, `PairAgrees`, `LiveDriverCanLogIn`, `RemovalStands` | where a driver and its account disagree one of those things has happened; a refused second call of remove leaves an account without a driver, never a driver who cannot log in; `save` of update brings a removed driver back only when it overlapped with the removal |

Two requests are what an overlap takes; two drivers and two accounts let an
account change hands and be refused as taken. The instance runs out of
identifiers, so deadlock is not checked.

### Proofs

`DriverAccountsProofs` proves all four properties for any number of requests, drivers
and accounts (`AccountTypes`, `DriversAgree`, `LiveDriversLogIn`, `RemovalsStand`),
from `AccountConstants` alone. None is inductive: between requests a driver and its account agree
because of what holds while a request is being served. `AccountInv` is `TypeOK` with

- `Holds(r)`: what a handler has at each of its calls;
- `Intact(r)`: its driver is as it read or left it, unless it has met another request;
- `Asks(r)`: the account create and update found ACTIVE still is, and goes to a driver
  in service;
- `Known`: requests that meet are remembered in `disturbed`, on all their accounts;
- `Pair(d)`: a driver agrees with its account, or a request that works on the
  account has yet to make it so.

Two requests meet on a *driver* too, not only on an account: an update can give
the driver of a removal that is under way a second account, and another update a
third one. The removal then has no account in common with the last update, and still ends with the
driver removed and its account open. With two accounts this cannot happen, so
no instance of that size shows it; the attempt to prove `Known` did, and `Meet` says
which requests the properties regard as overlapping.

## 7. Accounts and recovery tokens

### The model

`UserAccounts.tla` has `UsersApplicationService` of users-srv and `AuthService` of
auth-svc.

| In the model | In the code |
|---|---|
| `users`, `tokens` | `users` of users-srv, `verification_tokens` of auth-svc |
| `CreateUser`, `InsertUser`; `UpdateUser`, `WriteUser` | the query for the address among live accounts, then the write that the unique index may refuse |
| `DeleteUser`, `EraseUser`, `UndeleteUser` | delete and restore, which ask nothing about addresses |
| `UpdatePassword`, `WritePassword` | updatePassword: the row is written whatever it has become while the hash was computed |
| `RecoverPassword`, `SaveToken`, `Expire` | recoverPassword; the mail may or may not arrive |
| `ResetPassword`, `GetUser`, `ComparePassword`, `ChangePassword`, `MarkToken` | resetPassword, await by await, users-srv's part included |
| `ChangePasswordUnheard`, `MarkFails` | the password is changed and the token is not marked |

`uses` and `lost` are histories: how often a token changed a password, and how
often its handler ended before it could mark it. One field stands for e-mail, phone
and user name: each is asked for and indexed in the same way.

### Instance

| Run | Checks | Shows |
|---|---|---|
| `user_accounts` (2 requests, 2 accounts, 2 addresses, 1 token, one failure; 17 726 states) | `EmailsUnique`, `TokenUses` | the index decides, not the query before it, and because it counts deleted accounts a restored one cannot meet its address again; a token changes at most one password per request that can hold it at once, and one more per failure |

### Proofs

`UserAccountsProofs`: `AccountInv` is `TypeOK` with `Holds(r)` (what a request has at
each of its calls, and that the account it works on exists) and `Blank(k)` (a token
of nobody has not been handed out). `RowsDistinct`, addresses of *all* rows are
distinct, is the strengthening that makes `EmailsUnique` inductive: restoring an
account needs it. For `TokenUses`, `Counted(k)`: while the token is not marked, its uses are at
most the failures and the requests that still have to mark it; once it is marked, its uses
and the requests that can still change a password with it are within the bound, and
no request joins them. Theorems `AccountTypes`, `EmailsDistinct`,
`TokenUsesBounded`, for any finite number of requests; they rest on `UserConstants`.

## 8. Vehicle models

### The model

`VehicleModels.tla` has `VehicleModelService` of vehicles-svc, and createUnit as far
as it depends on a model. Versions are compared when a model is written; the
transactions run at READ COMMITTED and keep nothing they have read.

| In the model | In the code |
|---|---|
| `models[m]`, `units[m]` | `vehicle_models` with its required licences; how many units are not deleted |
| `CreateModel`, `SaveModel` | createModel: existsByIdentity, then the insert |
| `UpdateModel`, `CheckNoUnits`, `CheckIdentity`, `WriteModel` | updateModel; which questions are asked depends on the edit (`Onward`) |
| `Written`, `NotNull` | the columns modelRepo.update writes: version incremented, trim and last year only if not null |
| `EditLicences`, `WriteModel` | setModelLicenses and deleteModelLicense write the whole model too |
| `DeleteModel`, `CheckDeletable`, `EraseModel` | deleteModel; the version is in the WHERE if the client gave one, and 0 is one there although the check before passes it |
| `CreateUnit`, `InsertUnit`, `DeleteUnit` | VehicleUnitService |
| `Interrupt` | a failed call or the end of the process |

A trim or a last year has three forms in a request: a value, left out, and an empty
one (`''`, 0), which is sent and means *clear*. `UpdateModel` takes what
the handler has in memory after that, where a cleared column is `None`: the query
of `CheckIdentity` asks for NULL, but the write leaves the column as it was
(`?? undefined`). So the identity asked about and the one written can differ;
`ToldFree` compares them. On creation the gateway sends 0 for a last year
that is not given, which is stored; the model keeps 0 and NULL apart (`yearTo`),
and `ExistsByIdentity` and `FindByIdentity` each treat them as their query does.

Two histories, which no step reads, say who may be to blame:
`standing` has the requests told that the identity they will write is free, until
an identity is written; `crossing` has those that delete a model while another creates a
unit of it, and those others.

### Instance

| Run | Checks | Shows |
|---|---|---|
| `vehicle_models` (2 requests, 2 models, one name, one year, no trim; 1 000 379 states) | `NoLostUpdate`, `DeletedAsExpected`, `IdentityUnique`, `UnitsHaveModel` | overlapping requests do not lose an update; who deletes a version deletes that version, deprecated and with a last year; two live models get one identity only from a request not in `standing`, a unit loses its model only by one in `crossing` |

One name and a last year that is 2010, 0 or NULL let identities meet and part,
with and without a cleared year; two versions let a second writer come late. A
trim goes through the same expressions as the last year and licences are read by no
condition: the instance has none of either (with one of each it has many millions of states),
the theorems have any number.

Plain uniqueness does not hold: neither of overlapping requests (the unique index
contains `deleted_at`, which is null for live rows; section 13) nor of one request
that clears a year. `IdentityUnique` says that there is no *third* way. In the same
manner `UnitsHaveModel` says which requests can leave a unit without a live model.

### Proofs

`VehicleModelsProofs` proves all four for any number of requests, models, names, trims, years and
licences, from `ModelConstants`, with three invariants.

- `ModelInv`: `TypeOK` with `Knows(r)` (the version a request read is not ahead of the
  table, and if it is the table's so are the other columns) and `Holds(r)` (what a request
  about to delete has checked). It gives `ModelTypes`, `UpdatesKept` and `DeletionsAsExpected`.
- `ToldInv`, for `IdentitiesDistinct`: while a request stands, no live model but its own has
  the identity it will write. It starts when the query finds none, for what `Written`
  will leave, and ends when any identity is written.
- `ApartInv`, for `UnitsKeepModel`: a request that is about to delete a model either has met
  one that is about to insert a unit of it (both are in `crossing`), or there is no
  such request, and no unit.

## 9. Log pipeline

### The model

`LogPipeline.tla` follows an entry from `log()` in users-srv to the index of logger-svc.
The three processes and RabbitMQ fail on their own.

| In the model | In the code |
|---|---|
| `at[e]` | how far `log()` is with the entry; `"hung"`: it waits for a confirm that cannot come |
| `Log`, `ClientReady`, `ClientFails`, `Send` | `logs-publisher.service.ts`: one promise for all who ask while the client is made |
| `PublishLog`, `Confirmed` | `publisher.service.ts`; without a queue the exchange drops the message and confirms it |
| `StartPublisher`, `InitPublisher` | the gRPC server listens, then `onModuleInit`; what it throws ends the process |
| `ConnectConsumer`, `Receive`, `LogToElastic`, `Ack` | `logs-rabbit.consumer.ts` and `logger.service.ts`; a failed indexing is swallowed |
| `CrashPublisher`, `CrashConsumer`, `StopBroker`, `StartBroker` | a process ends, by itself or because an unheard `error` event of its connection ends it; the broker takes back what was not acknowledged; an orderly shutdown of the broker leaves both channels closed and nobody opens another |

### Instance

| Run | Checks | Shows |
|---|---|---|
| `log_pipeline` (2 entries, 3 failures; 92 422 states) | `NoConfirmedLogLost`, `CopiesBound`, `LogReturns`, `QueuedIsTried` | a confirmed entry is in the queue, with the consumer, or has been through logToElastic, unless it was published before any queue was bound; each extra copy is due to one redelivery; `log()` returns; a queued entry is tried |

Three failures are one of each kind in any order. An entry that went through
logToElastic may still not be in the index: that is what the code does.

Fairness: what was begun goes on (`Settle`, `Call`, `Receive`, `LogToElastic`,
`Ack`), and what died is started again (`StartPublisher`, `InitPublisher`,
`ConnectConsumer`, `StartBroker`): the containers have `restart: unless-stopped` in
`src/Docker-compose.yml` and onModuleInit throws. Nothing is assumed about anybody logging.
`LogReturns` and `QueuedIsTried` name the two ways in which fairness does not help:
the confirm that never comes, and a consumer whose channel was closed in good order.

### Proofs

`CallsProofs`: `PipelineInv` is `PipelineTypeOK` and, for each entry, `Unpublished`
(before it is published there is no message of it), `Counted` (messages and copies
are at most one more than redeliveries), `Kept` (published entries are where
`NoConfirmedLogLost` says, before the confirm already) and `HandledIsTried`. It gives
`PipelineTypes`, `ConfirmedLogKept` and `CopiesBounded` for any set of entries and any
number of failures, from `PipelineConstants`. The two liveness properties are only
model-checked.

## 10. Fuel reports

### The model

fuel-svc keeps nothing. `FuelReports.tla` has its eleven reports as sequences of
calls, and routes-srv, cut to what the reports read, changing between them.

| In the model | In the code |
|---|---|
| `FindAll`, `FindAllByTimeRange`, ... | the queries of routes-srv that list trips |
| `GenerateGeneralReport`, ... | the handlers of `fuel.service.ts` up to the answer of their first call; a count of no trips is sent as 0 and makes the report empty; an empty list is absent over the wire, and getDriverTrips, which has no count to look at, throws |
| `GetRoute` | one of the parallel calls, answered in any order |
| `ThenListRoutes`, `ThenListTrips` | the second call of the other reports |
| `PerType`, `PerRoute`, `Kpis`, ... | the computations; fuel is in hundredths of a litre |
| `Label` | `formatTimestampToDDMMHHMM`, whose strings the trips of a report are ordered by: day before month, so a later month may sort first |
| `CreateTrip` .. `DeleteRoute`, `NextDay` | routes-srv; `UpdateTrip` gives a trip in CREADO another driver or vehicle |

`moments` is a history: the answers the report would have given, read at once, at
each instant since its first answer.

### Instance

| Run | Checks | Shows |
|---|---|---|
| `fuel_reports` (2 trips, 2 routes, 2 drivers, 2 days, one update; 1 256 248 states; deadlock checked) | `ReportsTypeOK`, `AnswerIsOfOneInstant`, `ReportsAgree` | what a report says was true at one instant, because a route with trips keeps its type and a finished trip does not change; reports over the same trips agree although each groups them in its own way |

`AnswerIsOfOneInstant` leaves out the summary by route: it lists routes first and trips next, so
it does mix two instants. Two trips and two routes are the fewest at which a
total can mix; the days cross the end of a month. Updates of trips are bounded
(`MaxUpdates`) and counted in `updates`: one is enough to change the driver or vehicle a report
counts a trip under between its calls.

### Proofs

In `CallsProofs`, from `FuelConstants`, for any number of trips, routes, drivers and days:

- `ReportsTypes`: rows have a start and an end where the status says so, and the
  finished trips a report holds are those of the table.
- `ReportsAreOfOneInstant`: `AnswerIsOfOneInstant`. It speaks of the answer only; `Building` is what it
  says of a report that is still being put together. What the report would
  answer from the trips it has and the routes *as they are now* is in `moments`. This
  goes from one instant to the next because of `Tables` (a trip's route is there: it
  has a trip, so it keeps its type) and `TypesHold` (types looked up are those of
  the trips still). A report that lists all routes needs more care: routes come and
  go while it waits. `PerRouteSame` and `PerVehicleRouteSame` show that its rows do not change, because
  they are those of routes with trips.
- `NoTripIsLeftOut`: read at one instant, every trip has its row in the reports by type,
  by route and by status, and no trip is listed as two. This is the part of
  `ReportsAgree` that depends on what routes-srv lets happen to routes; the rest of it, that sums over
  the groups of a set add up to the sum over the set, needs an induction over
  data and is model-checked.

## 11. Assignments

### The model

A client asks routes-srv for the assignable drivers, vehicles and supervisors,
takes one of each, and asks for the trip. The lists come from four services and the
trips table; createTrip checks again, with code of its own. `Assignments.tla`
follows one such session await by await, from every state the services can be
in, while another client changes one of them.

| In the model | In the code |
|---|---|
| `GetAssignableDrivers`, `GetUserInfo`, `CountTripsOfDriver`, `CountEnRutaOfDriver` | getAssignableDrivers; each entry's queries go on independently |
| `GetAssignableVehicles`, `FindEnRutaOfVehicle`, `CountTripsOfVehicle`, `Suits` | getAssignableVehicles and the filter of vehicles-svc |
| `GetAssignableSupervisors`, `CountTripsOfSupervisor` | getAssignableSupervisors |
| `ListFails`, `GetUserInfoFails` | a call fails: the list is empty, the entry is missing |
| `CreateTrip`, `ValidateVehicle` .. `InsertTrip` | createTrip |
| `Meanwhile` | the requests of other clients, one step each; updateTrip moves a trip from one driver and vehicle to others, and disturbs all four |

### Instance

| Run | Checks | Shows |
|---|---|---|
| `assignments` (1 driver, 1 vehicle, 1 supervisor, 3 trips, limit 2, one change; 2 211 313 states) | `TypeOK`, `OfferHolds`, `BusyIsRefused`, `LicencesShared` | what was offered is refused only if it has changed since; a driver or supervisor listed as busy is refused; the driver has one of the licences the vehicle requires, with the exceptions of section 13 |

The initial tables are arbitrary, with drivers on two trips at once and limits
exceeded, since updateTrip and overlapping requests lead there; so one of each thing is enough: other drivers
and vehicles would only be further entries of a list, independent of each other.
Three trips pass the limit of two. One change is enough to make every answer
stale; a longer history is another initial state. The session ends, so deadlock
is not checked.

### Proofs

`AssignmentsProofs` proves the four properties for any number of trips, drivers, vehicles and
supervisors, any limit and any number of changes (`AssignmentTypes`, `OffersHold`,
`BusyAreRefused`, `TripsShareLicences`). `SessionInv` says that whatever the session has been
told of something that has not moved since is still so: `Told` for each stage
an entry of a list has reached, `Passed` for each check of createTrip, `Taken` for
what the client has chosen. A property is then a contradiction between a list and a check of the same thing;
where they ask different questions (unfinished trips of a vehicle) there is none to derive,
and the property does not say so either. They rest on
`AssignmentConstants`: drivers, vehicles and supervisors are rows of different tables, so
the model's names for them are disjoint. With names in common `moved` and the lists
would speak of two things at once.

## 12. Discovery

### The model

Every service has its own copy of the code that finds another service, and they
differ. `Discovery.tla` has one caller, of one of four kinds, and the instances it
calls.

| `kind` | Code | Copy of the registry | Empty copy |
|---|---|---|---|
| `gateway` | `api-gateway/src/discovery`, and the services with an `EurekaLocator` | fetched again and again | waited for; a request has a deadline |
| `routes` | `routes-srv/src/infra` | the client is never started: fetched only while empty | waited for |
| `vehicles` | `vehicles-svc/src/infra` | fetched again and again | an error |
| `driver` | `driver-ms/src/drivers/users-grpc.client.ts` | as gateway until the first pick, kept ever after | waited for |

`StartInstance`, `Register`, `Listen`, `Terminate`, `Crash` and `Expire` are the life of an
instance; `Pick` is the round robin; `Timeout` answers the client while the request
goes on, and `Cancel` is a handler its deadline does stop. The Kubernetes locators
resolve a fixed name and are left out.

### Instance

| Run | Checks | Shows |
|---|---|---|
| `discovery` (2 addresses, 2 requests; 938 834 states; deadlock checked) | `DiscoveryTypeOK`, `AtMostOnce`, `Balanced`, `SettledServes` | no instance is picked again before the others of the copy, wherever the cursor is when the list changes; a request is never done twice, and was done if the answer is good; a caller with a started client fails for ever only if the instances change for ever |

Two addresses are the least for a list to change length; `Cycle` is a multiple of
both lengths, so the remainder routes-srv uses is exact.

Fairness: `Refresh`, since the started Eureka client has a timer, and for each request
`Pick`, `NoInstances`, `Execute`, `Respond` and `Refused`, since node's timers run out
and a call is answered or its connection breaks. Nothing is assumed of instances,
deadlines or clients. `SettledServes` does not speak of `routes` and `driver`: the
first never looks again, the second keeps its first instance.

### Proofs

In `CallsProofs`, from `DiscoveryConstants`, for any number of addresses and requests and each of the
four callers: `DiscoveryTypes`, `ServedAtMostOnce` (`AtMostOnce`) and `PicksAreBalanced` (`Balanced`).
`DiscoveryInv` is `DiscoveryTypeOK` and `AtMostOnce` with

- `Once(copy)`: the list has each address once, which the walk over it needs;
- `Request(q)`: a request that is still to be sent has not been done, and one whose
  answer is on its way has been done once: no caller sends a
  request again;
- `Window`: the addresses of the current turn are the last `k` places of the list
  before the cursor, going round. `Balanced` is not inductive: that the next address is
  new follows from *where* the previous ones are, and a fetch that changes the
  list begins a new turn wherever the cursor is.

`Age(i)` is how many picks ago place `i` was last under the cursor. `Ages` and `PickCursor` say that a pick
makes each place one older and the one picked the youngest; they are about
`%`, of which the provers know little, so `Remainder` gives them the two cases of
`(c + 1) % n`. The counter of routes-srv counts on for
ever; the model keeps its remainder by `Cycle`, and the assumption `Cycle % n = 0` is what makes
that the same.

## 13. What the code does not promise

Met while modelling. The properties are stated so as to hold beside these.

- A startTrip that read CREADO writes EN_RUTA whatever has happened since, and
  reopens a trip (`trip.service.ts:517`); `routes-srv/EXCEPTIONS.md:85` speaks of
  valid transitions only. `NoPhaseSkipped` is what remains.
- A vehicle is reserved by trips EN_RUTA only (`typeorm-trip.repository.ts:95`),
  while its exception speaks of trips in CREADO and EN_REVISION too (`vehicle-busy.exception.ts:8`).
  The list of vehicles does count unfinished trips, so a vehicle listed as busy may be
  accepted.
- deleteRoute asks for trips and then deletes; a trip inserted in between goes by
  the cascade (`route.service.ts:202`).
- A whole-row write takes the odometer of a unit back to what it was when read
  (`prisma-vehicle-unit.repository.ts:102`), although `vehicle-unit.service.ts:213`
  refuses a lower one.
- canDrive accepts a licence *included* in the requested type
  (`drivers.service.ts:361`); `driver-ms/README.md:139` says one that includes it.
- The licences of a driver are checked by the filter of the list of vehicles only:
  suspended ones count, and a driver without licences is shown every vehicle.
- createTrip finds removed drivers, and does not look at roles.
- An update that gives yearFrom alone can put it after yearTo
  (`vehicle-model.service.ts:216`).
- An update that clears the last year or the trim of a model (`vehicles.proto:127`, `:130`:
  0 and the empty word mean null) leaves the column as it was
  (`prisma-vehicle-model.repository.ts:133`, `:135`), after asking whether the identity
  *with* NULL is free (`vehicle-model.service.ts:228`). One request that takes the brand of
  another model and clears the year gives two models one identity.
- A model created through the gateway without a last year has 0 in `year_to`
  (`vehicles-models.mapper.ts:97`), not null as `vehicles.proto:78` says: deleteModel
  takes its years for closed (`vehicle-model.service.ts:153`), and GetModelByIdentity, which asks for
  NULL, does not find it.
- A partial unique index of live models is in `vehicles-svc/init.sql:55` only, which
  the deployment does not run; the migrations' index contains `deleted_at` and refuses no live row.
- deleteModel passes an expected version of 0 as none, and asks for it in the write
  (`prisma-vehicle-model.repository.ts:173`).
- The gateway's deadline is thrown outside the interceptor that maps errors, so it
  is answered with 500.
- resetPassword may change a password once for each request that overlaps.

## 14. Not modelled

- `updateTripLocation`, searches and listings that write nothing, and the location
  check of a new trip: positions are written and read back by nobody else.
- The engine figures of a model, the age term of the calibration factor, tank capacity,
  serial numbers, names, phones, images: data no condition depends on, or that behaves as
  a field that is modelled.
- The idempotency key of createModel, which is stored and never read.
- `DriverLicensesService` and the unique names of routes: planned (section 2).
- email-svc and hello-svc keep no state and decide nothing. Helm charts, compose
  files and scripts are configuration.
- Rounding of fuel in fuel-svc and double precision arithmetic in general: TLC
  computes with integers; where a column rounds, the model does too.

## 15. Model-checked and not proved

- Liveness: `ReviewReleases`, `LogReturns`, `QueuedIsTried`, `SettledServes`. The prover
  handles neither fairness nor `ENABLED`.
- `ReportsAgree`: sums over the groups of a set need an induction over data. What of it
  does not is `NoTripIsLeftOut` (section 10).

Everything else the runs check is stated by a theorem for every value of the
constants.
