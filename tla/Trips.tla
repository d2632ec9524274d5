------------------------------- MODULE Trips -------------------------------
(***************************************************************************)
(* TripService and RouteService of routes-srv.                             *)
(*                                                                         *)
(* Every gRPC request is an asynchronous handler: between two awaits it    *)
(* runs alone, at each await the other requests run.  It holds no database *)
(* transaction and no lock, so what it read is only as good as the next    *)
(* await.  A request in flight is job[r]: job[r].pc names the next         *)
(* database or RPC call of the handler, the other fields are the arguments *)
(* and the values already read.  Each action below is the code between two *)
(* awaits that touch shared state.                                         *)
(*                                                                         *)
(* With one request slot the handlers run one after the other; with more   *)
(* they interleave.                                                        *)
(*                                                                         *)
(* A definition called a variant is the one that follows it with a bug; it *)
(* shows that the properties tell the two apart, and is used nowhere.      *)
(***************************************************************************)
EXTENDS Integers, FiniteSets

CONSTANTS
  Requests,      \* slots for requests being served at the same time
  TripIds,       \* identifiers the trips table can hand out
  RouteIds,      \* identifiers the routes table can hand out
  Drivers, Vehicles, Supervisors,
  None,          \* an argument that was not given
  MaxActive,     \* unfinished trips one driver or one supervisor may have (3)
  Distances,     \* route lengths clients ask for, in metres
  Odometers,     \* odometer readings vehicles-svc keeps, in metres
  Readings,      \* final odometer readings reviewers give, in metres
  Ops,           \* operations the clients of this instance call
  Faults         \* whether the calls that follow the write of a trip can fail

Operations == {"create", "update", "start", "finish", "review",
               "createRoute", "updateRoute", "deleteRoute", "odometer"}

ASSUME ConstantsAssumption ==
  /\ IsFiniteSet(Requests)
  /\ IsFiniteSet(TripIds)
  /\ MaxActive \in Nat \ {0}
  /\ Distances \subseteq Nat \ {0}
  /\ Odometers \subseteq Nat
  /\ Readings \subseteq Nat
  /\ Ops \subseteq Operations
  /\ Faults \in BOOLEAN
  /\ None \notin Drivers \cup Vehicles \cup TripIds

VARIABLES
  trips,         \* trips[t]: a row of the trips table
  routes,        \* routes[rt]: a row of the routes table
  availability,  \* availability[d]: the driver's availability kept by driver-ms
  unitStatus,    \* unitStatus[v]: the unit's operational status kept by vehicles-svc
  odometer,      \* odometer[v]: the unit's odometer kept by vehicles-svc
  job            \* job[r]: the request being served in slot r

vars == <<trips, routes, availability, unitStatus, odometer, job>>
fleet == <<availability, unitStatus, odometer>>
tables == <<trips, routes>>

-----------------------------------------------------------------------------
(* Data. *)

TripStatus == {"CREADO", "EN_RUTA", "EN_REVISION", "TERMINADO"}
ActiveStatus == {"CREADO", "EN_RUTA", "EN_REVISION"}

CanTransitionTo(from, to) ==
  <<from, to>> \in { <<"CREADO", "EN_RUTA">>,
                     <<"EN_RUTA", "EN_REVISION">>,
                     <<"EN_REVISION", "TERMINADO">> }

(* "unused": no row has had this identifier; "deleted": its row is gone.   *)
(* odometerEnd and distanceReal are 0 until the review writes them.        *)
Trip == [ status : TripStatus \cup {"unused", "deleted"},
          route : RouteIds \cup {None}, driver : Drivers \cup {None},
          vehicle : Vehicles \cup {None}, supervisor : Supervisors \cup {None},
          odometerStart : Nat, distancePlanned : Nat,
          odometerEnd : Nat, distanceReal : Nat, reviewComment : BOOLEAN ]

NoTrip(state) ==
  [ status |-> state, route |-> None, driver |-> None, vehicle |-> None,
    supervisor |-> None, odometerStart |-> 0, distancePlanned |-> 0,
    odometerEnd |-> 0, distanceReal |-> 0, reviewComment |-> FALSE ]

Route == [ state : {"unused", "live", "deleted"}, distance : Nat ]

CreatePCs == {"create.driverLimit", "create.driverFree", "create.vehicleFree",
              "create.supervisorLimit", "create.odometer", "create.insert"}
TripWritePCs == {"update.write", "start.driverFree", "start.write",
                 "finish.write", "review.write"}
RoutePCs == {"route.update", "route.delete"}
NotifyPCs == {"start.notify", "start.notifyDriver", "start.notifyVehicle",
              "review.freeDriver", "review.freeVehicle"}

Job == [ pc : CreatePCs \cup TripWritePCs \cup RoutePCs \cup NotifyPCs \cup {"idle"},
         trip : TripIds \cup {None}, route : RouteIds \cup {None},
         driver : Drivers \cup {None}, vehicle : Vehicles \cup {None},
         supervisor : Supervisors \cup {None},
         odometer : Nat, distance : Nat, comment : BOOLEAN ]

Idle == [ pc |-> "idle", trip |-> None, route |-> None, driver |-> None,
          vehicle |-> None, supervisor |-> None,
          odometer |-> 0, distance |-> 0, comment |-> FALSE ]

-----------------------------------------------------------------------------
(* The decimal columns: the database keeps a reading to the tenth of a km  *)
(* and a distance to the hundredth, whatever the precision it is given.    *)

ReadingColumn(m) == ((m + 50) \div 100) * 100

DistanceColumn(m) == ((m + 5) \div 10) * 10

-----------------------------------------------------------------------------
(* FuelCalculatorService. *)

(* Variant: the readings the wrong way round. *)
CalculateRealDistanceSwapped(start, end) == start - end

CalculateRealDistance(start, end) == end - start

(* Variant: the threshold is 30 %. *)
RequiresReviewCommentLoose(planned, real) ==
  LET gap == IF real >= planned THEN real - planned ELSE planned - real
  IN  100 * gap > 30 * planned

(* A deviation of more than 3 %: |real - planned| / planned * 100 > 3.  A  *)
(* planned distance of 0 makes the quotient infinite, hence above 3.       *)
RequiresReviewComment(planned, real) ==
  LET gap == IF real >= planned THEN real - planned ELSE planned - real
  IN  100 * gap > 3 * planned

-----------------------------------------------------------------------------
(* Queries of the trip and route repositories. *)

Exists(t) == trips[t].status \in TripStatus

ActiveTripsBySupervisor(s) ==
  {t \in TripIds : trips[t].status \in ActiveStatus /\ trips[t].supervisor = s}

ActiveTripsByDriver(d) ==
  {t \in TripIds : trips[t].status \in ActiveStatus /\ trips[t].driver = d}

EnRutaTripsByDriver(d) ==
  {t \in TripIds : trips[t].status = "EN_RUTA" /\ trips[t].driver = d}

EnRutaTripsByVehicle(v) ==
  {t \in TripIds : trips[t].status = "EN_RUTA" /\ trips[t].vehicle = v}

HasTrips(rt) == \E t \in TripIds : Exists(t) /\ trips[t].route = rt

-----------------------------------------------------------------------------
(* Steps of a request. *)

Accepts(r, op) == op \in Ops /\ job[r].pc = "idle"

Begin(r, pc, t, d, v) ==
  job' = [job EXCEPT ![r] =
            [Idle EXCEPT !.pc = pc, !.trip = t, !.driver = d, !.vehicle = v]]

Goto(r, pc) == job' = [job EXCEPT ![r].pc = pc]

Done(r) == job' = [job EXCEPT ![r] = Idle]

(* A query whose answer lets the handler go on or makes it throw. *)
Check(r, at, answer, next) ==
  /\ job[r].pc = at
  /\ IF answer THEN Goto(r, next) ELSE Done(r)
  /\ UNCHANGED <<tables, fleet>>

(* Variant: the row is saved whether or not it is still there. *)
UpdateRowAsSave(r, row, next) ==
  /\ trips' = [trips EXCEPT ![job[r].trip] = row]
  /\ next
  /\ UNCHANGED <<routes, fleet>>

(* UPDATE trips ... WHERE id = t: it has no condition on the columns that  *)
(* were read before.  On a row that is gone it changes nothing and the     *)
(* handler throws; otherwise the handler goes on at next.                  *)
UpdateRow(r, row, next) ==
  LET t == job[r].trip
  IN  /\ IF Exists(t)
         THEN trips' = [trips EXCEPT ![t] = row] /\ next
         ELSE UNCHANGED trips /\ Done(r)
      /\ UNCHANGED <<routes, fleet>>

-----------------------------------------------------------------------------
(* createTrip *)

BeginCreate(r, rt, km, d, v, s) ==
  job' = [job EXCEPT ![r] =
            [Idle EXCEPT !.pc = "create.driverLimit", !.route = rt,
                         !.driver = d, !.vehicle = v, !.supervisor = s,
                         !.distance = km]]

(* The caller names a route: it is read here and its length is kept until  *)
(* the trip is inserted, six awaits later.                                 *)
CreateTrip(r, rt, d, v, s) ==
  /\ Accepts(r, "create")
  /\ \E t \in TripIds : trips[t].status = "unused"   \* bound: identifiers left
  /\ routes[rt].state = "live"
  /\ BeginCreate(r, rt, routes[rt].distance, d, v, s)
  /\ UNCHANGED <<tables, fleet>>

(* The caller describes a new route: createRoute commits it at once, it is *)
(* not undone when a later check rejects the trip.                         *)
CreateTripAndRoute(r, rt, km, d, v, s) ==
  /\ Accepts(r, "create")
  /\ \E t \in TripIds : trips[t].status = "unused"   \* bound: identifiers left
  /\ routes[rt].state = "unused"
  /\ routes' = [routes EXCEPT ![rt] = [state |-> "live", distance |-> DistanceColumn(km)]]
  /\ BeginCreate(r, rt, DistanceColumn(km), d, v, s)
  /\ UNCHANGED <<trips, fleet>>

(* validateDriverAvailability, validateVehicleAvailability and             *)
(* validateSupervisorAvailability: four queries, four awaits.              *)
CheckDriverLimit(r) ==
  Check(r, "create.driverLimit",
        Cardinality(ActiveTripsByDriver(job[r].driver)) < MaxActive,
        "create.driverFree")

CheckDriverFree(r) ==
  Check(r, "create.driverFree",
        EnRutaTripsByDriver(job[r].driver) = {},
        "create.vehicleFree")

CheckVehicleFree(r) ==
  Check(r, "create.vehicleFree",
        EnRutaTripsByVehicle(job[r].vehicle) = {},
        "create.supervisorLimit")

CheckSupervisorLimit(r) ==
  Check(r, "create.supervisorLimit",
        Cardinality(ActiveTripsBySupervisor(job[r].supervisor)) < MaxActive,
        "create.odometer")

ReadOdometer(r) ==
  /\ job[r].pc = "create.odometer"
  /\ job' = [job EXCEPT ![r].pc = "create.insert",
                        ![r].odometer = odometer[job[r].vehicle]]
  /\ UNCHANGED <<tables, fleet>>

(* The planned distance was read from a column of the same precision. *)
NewTrip(j) ==
  [ NoTrip("CREADO") EXCEPT
      !.route = j.route, !.driver = j.driver, !.vehicle = j.vehicle,
      !.supervisor = j.supervisor, !.odometerStart = ReadingColumn(j.odometer),
      !.distancePlanned = j.distance ]

(* The foreign key refuses the row when the route is gone. *)
InsertTrip(r) ==
  /\ job[r].pc = "create.insert"
  /\ IF routes[job[r].route].state = "live"
     THEN \E t \in TripIds :
            /\ trips[t].status = "unused"
            /\ trips' = [trips EXCEPT ![t] = NewTrip(job[r])]
     ELSE UNCHANGED trips
  /\ Done(r)
  /\ UNCHANGED <<routes, fleet>>

-----------------------------------------------------------------------------
(* updateTrip: another driver, another vehicle or both, while CREADO.  None *)
(* of the availability checks of createTrip is made again.                 *)

UpdateTrip(r, t, d, v) ==
  /\ Accepts(r, "update")
  /\ trips[t].status = "CREADO"
  /\ {d, v} # {None}
  /\ Begin(r, "update.write", t, d, v)
  /\ UNCHANGED <<tables, fleet>>

Given(new, old) == IF new = None THEN old ELSE new

WriteUpdate(r) ==
  LET j   == job[r]
      row == trips[j.trip]
  IN  /\ j.pc = "update.write"
      /\ UpdateRow(r, [row EXCEPT !.driver  = Given(j.driver, row.driver),
                                  !.vehicle = Given(j.vehicle, row.vehicle)],
                   Done(r))

-----------------------------------------------------------------------------
(* startTrip: the driver and the vehicle it will occupy are those of the   *)
(* row as first read.  caller is the driver the request names, if any.     *)

StartTrip(r, t, caller) ==
  /\ Accepts(r, "start")
  /\ CanTransitionTo(trips[t].status, "EN_RUTA")
  /\ caller \in {None, trips[t].driver}
  /\ Begin(r, "start.driverFree", t, trips[t].driver, trips[t].vehicle)
  /\ UNCHANGED <<tables, fleet>>

(* Variant: the driver's other trips are not looked at. *)
CheckNoOtherEnRutaSkipped(r) == Check(r, "start.driverFree", TRUE, "start.write")

(* findActiveTripByDriver returns one of the driver's EN_RUTA trips, with  *)
(* no order: it may return this very trip although there is another.       *)
CheckNoOtherEnRuta(r) ==
  LET found == EnRutaTripsByDriver(job[r].driver)
  IN  \E answer \in IF found = {} THEN {None} ELSE found :
        Check(r, "start.driverFree", answer \in {None, job[r].trip}, "start.write")

WriteStart(r) ==
  /\ job[r].pc = "start.write"
  /\ UpdateRow(r, [trips[job[r].trip] EXCEPT !.status = "EN_RUTA"],
               Goto(r, "start.notify"))

(* The two notifications are sent together and land in either order.  One  *)
(* that fails is only logged.                                              *)
NotifyDriverOnRoute(r) ==
  /\ \/ job[r].pc = "start.notify" /\ Goto(r, "start.notifyVehicle")
     \/ job[r].pc = "start.notifyDriver" /\ Done(r)
  /\ availability' = [availability EXCEPT ![job[r].driver] = "ON_ROUTE"]
  /\ UNCHANGED <<tables, unitStatus, odometer>>

NotifyVehicleOnRoute(r) ==
  /\ \/ job[r].pc = "start.notify" /\ Goto(r, "start.notifyDriver")
     \/ job[r].pc = "start.notifyVehicle" /\ Done(r)
  /\ unitStatus' = [unitStatus EXCEPT ![job[r].vehicle] = "ON_ROUTE"]
  /\ UNCHANGED <<tables, availability, odometer>>

LoseStartNotification(r) ==
  /\ Faults
  /\ \/ job[r].pc = "start.notify" /\ Goto(r, "start.notifyVehicle")
     \/ job[r].pc = "start.notify" /\ Goto(r, "start.notifyDriver")
     \/ job[r].pc \in {"start.notifyDriver", "start.notifyVehicle"} /\ Done(r)
  /\ UNCHANGED <<tables, fleet>>

-----------------------------------------------------------------------------
(* finishTrip: the driver and the vehicle stay occupied until the review.  *)

(* Variant: any trip can be finished. *)
FinishTripAnyStatus(r, t, caller) ==
  /\ Accepts(r, "finish")
  /\ Exists(t)
  /\ caller \in {None, trips[t].driver}
  /\ Begin(r, "finish.write", t, None, None)
  /\ UNCHANGED <<tables, fleet>>

FinishTrip(r, t, caller) ==
  /\ Accepts(r, "finish")
  /\ trips[t].status = "EN_RUTA"
  /\ caller \in {None, trips[t].driver}
  /\ Begin(r, "finish.write", t, None, None)
  /\ UNCHANGED <<tables, fleet>>

WriteFinish(r) ==
  /\ job[r].pc = "finish.write"
  /\ UpdateRow(r, [trips[job[r].trip] EXCEPT !.status = "EN_REVISION"], Done(r))

-----------------------------------------------------------------------------
(* reviewTrip: km is the final odometer reading, comment whether the       *)
(* review comes with one.  Everything that is written is computed from the *)
(* row as first read.                                                      *)

ReviewTrip(r, t, km, comment) ==
  LET row  == trips[t]
      real == CalculateRealDistance(row.odometerStart, km)
  IN  /\ Accepts(r, "review")
      /\ row.status = "EN_REVISION"
      /\ km > row.odometerStart
      /\ RequiresReviewComment(row.distancePlanned, real) => comment
      /\ job' = [job EXCEPT ![r] =
                   [Idle EXCEPT !.pc = "review.write", !.trip = t,
                                !.driver = row.driver, !.vehicle = row.vehicle,
                                !.odometer = km, !.distance = real,
                                !.comment = comment]]
      /\ UNCHANGED <<tables, fleet>>

(* Variant: the driver is not freed. *)
WriteReviewKeepsDriver(r) ==
  LET j == job[r]
  IN  /\ j.pc = "review.write"
      /\ UpdateRow(r, [trips[j.trip] EXCEPT !.status = "TERMINADO",
                                            !.odometerEnd = ReadingColumn(j.odometer),
                                            !.distanceReal = DistanceColumn(j.distance),
                                            !.reviewComment = j.comment],
                   Goto(r, "review.freeVehicle"))

WriteReview(r) ==
  LET j == job[r]
  IN  /\ j.pc = "review.write"
      /\ UpdateRow(r, [trips[j.trip] EXCEPT !.status = "TERMINADO",
                                            !.odometerEnd = ReadingColumn(j.odometer),
                                            !.distanceReal = DistanceColumn(j.distance),
                                            !.reviewComment = j.comment],
                   Goto(r, "review.freeDriver"))

(* Variant: the handler returns before it frees the vehicle. *)
FreeDriverOnly(r) ==
  /\ job[r].pc = "review.freeDriver"
  /\ availability' = [availability EXCEPT ![job[r].driver] = "AVAILABLE"]
  /\ Done(r)
  /\ UNCHANGED <<tables, unitStatus, odometer>>

(* Freed one after the other, whatever other trip they may be on.          *)
FreeDriver(r) ==
  /\ job[r].pc = "review.freeDriver"
  /\ availability' = [availability EXCEPT ![job[r].driver] = "AVAILABLE"]
  /\ Goto(r, "review.freeVehicle")
  /\ UNCHANGED <<tables, unitStatus, odometer>>

FreeVehicle(r) ==
  /\ job[r].pc = "review.freeVehicle"
  /\ unitStatus' = [unitStatus EXCEPT ![job[r].vehicle] = "ACTIVE"]
  /\ Done(r)
  /\ UNCHANGED <<tables, availability, odometer>>

(* The first call that fails ends the try block: the other is not made.  A *)
(* call that fails for its caller may have been applied.                   *)
LoseRelease(r) ==
  /\ Faults
  /\ \/ job[r].pc = "review.freeDriver"
        /\ availability' \in {availability,
                              [availability EXCEPT ![job[r].driver] = "AVAILABLE"]}
     \/ job[r].pc = "review.freeVehicle" /\ UNCHANGED availability
  /\ Done(r)
  /\ UNCHANGED <<tables, unitStatus, odometer>>

-----------------------------------------------------------------------------
(* RouteService.  Names and coordinates are left out, and with them the    *)
(* updates that change nothing else.                                       *)

CreateRoute(r, rt, km) ==
  /\ Accepts(r, "createRoute")
  /\ routes[rt].state = "unused"
  /\ routes' = [routes EXCEPT ![rt] = [state |-> "live", distance |-> DistanceColumn(km)]]
  /\ UNCHANGED <<trips, fleet, job>>

BeginRoute(r, pc, rt, km) ==
  job' = [job EXCEPT ![r] = [Idle EXCEPT !.pc = pc, !.route = rt, !.distance = km]]

(* Variant: routes with trips are updated like the others. *)
UpdateRouteAnyTime(r, rt, km) ==
  /\ Accepts(r, "updateRoute")
  /\ routes[rt].state = "live"
  /\ BeginRoute(r, "route.update", rt, km)
  /\ UNCHANGED <<tables, fleet>>

(* The distance may change only while the route has no trips: asked here,  *)
(* acted on after the await.  Unlike createRoute it takes a distance of 0. *)
UpdateRoute(r, rt, km) ==
  /\ Accepts(r, "updateRoute")
  /\ routes[rt].state = "live"
  /\ ~HasTrips(rt)
  /\ BeginRoute(r, "route.update", rt, km)
  /\ UNCHANGED <<tables, fleet>>

WriteRoute(r) ==
  LET rt == job[r].route
  IN  /\ job[r].pc = "route.update"
      /\ IF routes[rt].state = "live"
         THEN routes' = [routes EXCEPT ![rt].distance = DistanceColumn(job[r].distance)]
         ELSE UNCHANGED routes
      /\ Done(r)
      /\ UNCHANGED <<trips, fleet>>

DeleteRoute(r, rt) ==
  /\ Accepts(r, "deleteRoute")
  /\ routes[rt].state = "live"
  /\ ~HasTrips(rt)
  /\ BeginRoute(r, "route.delete", rt, 0)
  /\ UNCHANGED <<tables, fleet>>

(* The foreign key of trips is ON DELETE CASCADE: trips inserted since the *)
(* check go with the route.                                                *)
EraseRoute(r) ==
  LET rt == job[r].route
  IN  /\ job[r].pc = "route.delete"
      /\ routes' = [routes EXCEPT ![rt].state =
                      IF @ = "live" THEN "deleted" ELSE @]
      /\ trips' = [t \in TripIds |->
                     IF Exists(t) /\ trips[t].route = rt
                     THEN NoTrip("deleted") ELSE trips[t]]
      /\ Done(r)
      /\ UNCHANGED fleet

-----------------------------------------------------------------------------
(* The world around routes-srv. *)

(* updateUnit of vehicles-svc: the reading is edited by hand. *)
AdvanceOdometer(v, km) ==
  /\ "odometer" \in Ops
  /\ km > odometer[v]
  /\ odometer' = [odometer EXCEPT ![v] = km]
  /\ UNCHANGED <<tables, availability, unitStatus, job>>

(* Before the write, a call that fails (an unknown driver, vehicle or      *)
(* supervisor, a service that does not answer, a location off the route)   *)
(* makes the handler throw.                                                *)
Reject(r) ==
  /\ job[r].pc \in CreatePCs \cup TripWritePCs \cup RoutePCs
  /\ Done(r)
  /\ UNCHANGED <<tables, fleet>>

(* The process dies: what was in flight is forgotten. *)
Crash ==
  /\ Faults
  /\ \E r \in Requests : job[r].pc # "idle"
  /\ job' = [r \in Requests |-> Idle]
  /\ UNCHANGED <<tables, fleet>>

-----------------------------------------------------------------------------

Init ==
  /\ trips = [t \in TripIds |-> NoTrip("unused")]
  /\ routes = [rt \in RouteIds |-> [state |-> "unused", distance |-> 0]]
  /\ availability = [d \in Drivers |-> "AVAILABLE"]
  /\ unitStatus = [v \in Vehicles |-> "ACTIVE"]
  /\ odometer \in [Vehicles -> Odometers]
  /\ job = [r \in Requests |-> Idle]

(* A request arrives. *)
Accept(r) ==
  \/ \E rt \in RouteIds, d \in Drivers, v \in Vehicles, s \in Supervisors :
       \/ CreateTrip(r, rt, d, v, s)
       \/ \E km \in Distances : CreateTripAndRoute(r, rt, km, d, v, s)
  \/ \E t \in TripIds :
       \/ \E d \in Drivers \cup {None}, v \in Vehicles \cup {None} : UpdateTrip(r, t, d, v)
       \/ \E caller \in Drivers \cup {None} : StartTrip(r, t, caller) \/ FinishTrip(r, t, caller)
       \/ \E km \in Readings, comment \in BOOLEAN : ReviewTrip(r, t, km, comment)
  \/ \E rt \in RouteIds :
       \/ \E km \in Distances : CreateRoute(r, rt, km)
       \/ \E km \in Distances \cup {0} : UpdateRoute(r, rt, km)
       \/ DeleteRoute(r, rt)

(* A call of a request in flight is answered. *)
Serve(r) ==
  \/ CheckDriverLimit(r) \/ CheckDriverFree(r) \/ CheckVehicleFree(r)
  \/ CheckSupervisorLimit(r) \/ ReadOdometer(r) \/ InsertTrip(r)
  \/ WriteUpdate(r)
  \/ CheckNoOtherEnRuta(r) \/ WriteStart(r)
  \/ NotifyDriverOnRoute(r) \/ NotifyVehicleOnRoute(r) \/ LoseStartNotification(r)
  \/ WriteFinish(r)
  \/ WriteReview(r) \/ FreeDriver(r) \/ FreeVehicle(r) \/ LoseRelease(r)
  \/ WriteRoute(r) \/ EraseRoute(r)
  \/ Reject(r)

Next ==
  \/ \E r \in Requests : Accept(r) \/ Serve(r)
  \/ \E v \in Vehicles, km \in Odometers : AdvanceOdometer(v, km)
  \/ Crash

Spec == Init /\ [][Next]_vars

(* Every call is answered, with a result or with an error.  Nothing is     *)
(* promised of the clients, of vehicles-svc or of the faults.              *)
FairSpec == Spec /\ \A r \in Requests : WF_vars(Serve(r))

-----------------------------------------------------------------------------
(* Properties of every instance. *)

(* Rows and requests have the columns and the fields the code gives them.  *)
TypeOK ==
  /\ trips \in [TripIds -> Trip]
  /\ routes \in [RouteIds -> Route]
  /\ availability \in [Drivers -> {"AVAILABLE", "ON_ROUTE"}]
  /\ unitStatus \in [Vehicles -> {"ACTIVE", "ON_ROUTE"}]
  /\ odometer \in [Vehicles -> Nat]
  /\ job \in [Requests -> Job]

(* However reviewTrip interleaves with other requests on the same row, a   *)
(* trip in TERMINADO has a final reading, a distance and a comment that    *)
(* agree, up to what the columns round off: the distance is that between   *)
(* the readings (half a tenth of a km off at most), and a comment is there *)
(* when it is more than 3 % off the plan (5 metres are rounded off).       *)
ReviewConsistent ==
  \A t \in TripIds : trips[t].status = "TERMINADO" =>
    LET row == trips[t]
    IN  /\ row.odometerEnd >= row.odometerStart
        /\ row.distanceReal - (row.odometerEnd - row.odometerStart) \in -50..50
        /\ row.reviewComment
            \/ /\ 100 * row.distanceReal =< 103 * row.distancePlanned + 500
               /\ 100 * row.distanceReal >= 97 * row.distancePlanned - 500

(* Stale writes can take a trip back, but none makes one skip startTrip,   *)
(* and a row that is gone does not come back: a trip appears in CREADO,    *)
(* leaves CREADO for EN_RUTA only, and stays deleted.                      *)
NoPhaseSkipped ==
  [][ \A t \in TripIds :
        LET from == trips[t].status
            to   == trips'[t].status
        IN  from # to =>
              /\ from # "deleted" /\ to # "unused"
              /\ from = "unused" <=> to = "CREADO"
              /\ from = "CREADO" => to \in {"EN_RUTA", "deleted"} ]_vars

(* createTrip counts the supervisor's trips two awaits before it inserts   *)
(* one, so the limit can be passed; by no more than one trip for each      *)
(* other request that is being served.                                     *)
SupervisorBound ==
  \A s \in Supervisors :
    Cardinality(ActiveTripsBySupervisor(s)) =< MaxActive - 1 + Cardinality(Requests)

-----------------------------------------------------------------------------
(* Properties of requests served one at a time (Requests has one slot).    *)

(* startTrip lets a driver be EN_RUTA on one trip only, although the       *)
(* driver of a trip can be changed until it starts.                        *)
EnRutaExclusive ==
  \A d \in Drivers : \A t, u \in EnRutaTripsByDriver(d) : t = u

(* updateRoute and deleteRoute leave a route with trips as it was planned. *)
PlannedMatchesRoute ==
  \A t \in TripIds : Exists(t) =>
    LET route == routes[trips[t].route]
    IN  route.state = "live" /\ route.distance = trips[t].distancePlanned

Lifecycle == INSTANCE TripLifecycle WITH status <- [t \in TripIds |-> trips[t].status]

(* The handlers implement the life of a trip that trip-status.vo.ts draws. *)
SerialLifecycle == Lifecycle!Spec

(* When no call is lost and nothing is in flight, a driver or a vehicle    *)
(* that is ON_ROUTE has a trip that is not reviewed yet: reviewTrip frees  *)
(* all that startTrip occupied.                                            *)
Unreviewed(t) == trips[t].status \in {"EN_RUTA", "EN_REVISION"}

NoStrandedFleet ==
  (\A r \in Requests : job[r].pc = "idle") =>
    /\ \A d \in Drivers : availability[d] = "ON_ROUTE" =>
         \E t \in TripIds : Unreviewed(t) /\ trips[t].driver = d
    /\ \A v \in Vehicles : unitStatus[v] = "ON_ROUTE" =>
         \E t \in TripIds : Unreviewed(t) /\ trips[t].vehicle = v

(* A trip accepted for review is rejected or ends up TERMINADO with its    *)
(* driver and its vehicle free.                                            *)
ReviewReleases ==
  \A r \in Requests, t \in TripIds :
    (job[r].pc = "review.write" /\ job[r].trip = t)
      ~> \/ trips[t].status = "EN_REVISION" /\ job[r].pc = "idle"
         \/ /\ trips[t].status = "TERMINADO"
            /\ availability[trips[t].driver] = "AVAILABLE"
            /\ unitStatus[trips[t].vehicle] = "ACTIVE"

=============================================================================
