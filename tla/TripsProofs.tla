---------------------------- MODULE TripsProofs ----------------------------
(* Theorems of Trips.  First what holds for any number of requests in      *)
(* flight and of rows: types, phases, the review and the limit of a        *)
(* supervisor.  Then what holds when requests are served one at a time.    *)
EXTENDS Trips, FiniteSetTheorems, TLAPS

(* The fields a handler has filled in by the time it is at a given call.   *)
CreateArgs ==
  \A r \in Requests : job[r].pc \in CreatePCs =>
    /\ job[r].route \in RouteIds
    /\ job[r].driver \in Drivers
    /\ job[r].vehicle \in Vehicles
    /\ job[r].supervisor \in Supervisors

TripArgs ==
  \A r \in Requests : job[r].pc \in TripWritePCs => job[r].trip \in TripIds

TypeInv == TypeOK /\ CreateArgs /\ TripArgs

-----------------------------------------------------------------------------
(* What the columns keep of a number. *)

LEMMA ColumnsKeepNaturals ==
  ASSUME NEW m \in Nat
  PROVE  /\ ReadingColumn(m) \in Nat
         /\ ReadingColumn(m) % 100 = 0
         /\ DistanceColumn(m) \in Nat
BY DEF ReadingColumn, DistanceColumn

-----------------------------------------------------------------------------
(* What the steps of a request do to its slot. *)

LEMMA IdleIsJob == Idle \in Job
BY DEF Idle, Job

LEMMA DoneArgs ==
  ASSUME TypeInv, NEW r \in Requests, Done(r)
  PROVE  job' \in [Requests -> Job] /\ CreateArgs' /\ TripArgs'
BY IdleIsJob DEF TypeInv, TypeOK, CreateArgs, TripArgs, Done, Idle, CreatePCs, TripWritePCs

LEMMA GotoArgs ==
  ASSUME TypeInv, NEW r \in Requests,
         NEW pc \in CreatePCs \cup TripWritePCs \cup RoutePCs \cup NotifyPCs,
         Goto(r, pc),
         pc \in CreatePCs => job[r].pc \in CreatePCs,
         pc \in TripWritePCs => job[r].pc \in TripWritePCs
  PROVE  job' \in [Requests -> Job] /\ CreateArgs' /\ TripArgs'
<1>1. job' \in [Requests -> Job]
  BY DEF TypeInv, TypeOK, Goto, Job
<1>2. CreateArgs' /\ TripArgs'
  BY DEF TypeInv, TypeOK, CreateArgs, TripArgs, Goto, Job
<1>3. QED
  BY <1>1, <1>2

LEMMA BeginArgs ==
  ASSUME TypeInv, NEW r \in Requests, NEW t \in TripIds,
         NEW pc \in TripWritePCs,
         NEW d \in Drivers \cup {None}, NEW v \in Vehicles \cup {None},
         Begin(r, pc, t, d, v)
  PROVE  job' \in [Requests -> Job] /\ CreateArgs' /\ TripArgs'
<1>1. job' \in [Requests -> Job]
  BY DEF TypeInv, TypeOK, Begin, Job, Idle, TripWritePCs
<1>2. CreateArgs' /\ TripArgs'
  BY DEF TypeInv, TypeOK, CreateArgs, TripArgs, Begin, Idle, CreatePCs, TripWritePCs
<1>3. QED
  BY <1>1, <1>2

LEMMA CheckArgs ==
  ASSUME TypeInv, NEW r \in Requests,
         NEW at, NEW answer,
         NEW next \in CreatePCs \cup TripWritePCs,
         Check(r, at, answer, next),
         next \in CreatePCs => at \in CreatePCs,
         next \in TripWritePCs => at \in TripWritePCs
  PROVE  TypeInv'
<1>1. job' \in [Requests -> Job] /\ CreateArgs' /\ TripArgs'
  <2>1. CASE Goto(r, next)
    <3>1. next \in CreatePCs \cup TripWritePCs \cup RoutePCs \cup NotifyPCs
      OBVIOUS
    <3>2. QED
      BY <2>1, <3>1, GotoArgs DEF Check
  <2>2. CASE Done(r)
    BY <2>2, DoneArgs
  <2>3. QED
    BY <2>1, <2>2 DEF Check
<1>2. QED
  BY <1>1 DEF TypeInv, TypeOK, Check, tables, fleet

LEMMA UpdateRowType ==
  ASSUME TypeInv, NEW r \in Requests, NEW row, NEW next,
         job[r].pc \in TripWritePCs,
         UpdateRow(r, row, next),
         row \in Trip
  PROVE  /\ trips' \in [TripIds -> Trip]
         /\ next \/ Done(r)
         /\ UNCHANGED <<routes, fleet>>
BY DEF TypeInv, TypeOK, UpdateRow

-----------------------------------------------------------------------------
(* Type correctness. *)

LEMMA CreateArgsAtStart ==
  ASSUME TypeInv, NEW r \in Requests, NEW rt \in RouteIds, NEW km \in Nat,
         NEW d \in Drivers, NEW v \in Vehicles, NEW s \in Supervisors,
         BeginCreate(r, rt, km, d, v, s)
  PROVE  job' \in [Requests -> Job] /\ CreateArgs' /\ TripArgs'
<1>1. job' \in [Requests -> Job]
  BY DEF TypeInv, TypeOK, BeginCreate, Job, Idle, CreatePCs
<1>2. CreateArgs' /\ TripArgs'
  BY DEF TypeInv, TypeOK, CreateArgs, TripArgs, BeginCreate, Idle, CreatePCs, TripWritePCs
<1>3. QED
  BY <1>1, <1>2

LEMMA TypeCreate ==
  ASSUME TypeInv, NEW r \in Requests
  PROVE  /\ \A rt \in RouteIds, d \in Drivers, v \in Vehicles, s \in Supervisors :
              CreateTrip(r, rt, d, v, s) => TypeInv'
         /\ \A rt \in RouteIds, km \in Distances, d \in Drivers, v \in Vehicles, s \in Supervisors :
              CreateTripAndRoute(r, rt, km, d, v, s) => TypeInv'
         /\ CheckDriverLimit(r) => TypeInv'
         /\ CheckDriverFree(r) => TypeInv'
         /\ CheckVehicleFree(r) => TypeInv'
         /\ CheckSupervisorLimit(r) => TypeInv'
         /\ ReadOdometer(r) => TypeInv'
         /\ InsertTrip(r) => TypeInv'
<1>1. ASSUME NEW rt \in RouteIds, NEW d \in Drivers, NEW v \in Vehicles, NEW s \in Supervisors,
             CreateTrip(r, rt, d, v, s)
      PROVE  TypeInv'
  <2>1. routes[rt].distance \in Nat
    BY DEF TypeInv, TypeOK, Route
  <2>2. job' \in [Requests -> Job] /\ CreateArgs' /\ TripArgs'
    BY <1>1, <2>1, CreateArgsAtStart DEF CreateTrip
  <2>3. QED
    BY <1>1, <2>2 DEF TypeInv, TypeOK, CreateTrip, tables, fleet
<1>2. ASSUME NEW rt \in RouteIds, NEW km \in Distances, NEW d \in Drivers, NEW v \in Vehicles,
             NEW s \in Supervisors, CreateTripAndRoute(r, rt, km, d, v, s)
      PROVE  TypeInv'
  <2>1. DistanceColumn(km) \in Nat
    BY ConstantsAssumption, ColumnsKeepNaturals
  <2>2. job' \in [Requests -> Job] /\ CreateArgs' /\ TripArgs'
    BY <1>2, <2>1, CreateArgsAtStart DEF CreateTripAndRoute
  <2>3. routes' \in [RouteIds -> Route]
    BY <1>2, <2>1 DEF TypeInv, TypeOK, CreateTripAndRoute, Route
  <2>4. QED
    BY <1>2, <2>2, <2>3 DEF TypeInv, TypeOK, CreateTripAndRoute, fleet
<1>3. ASSUME CheckDriverLimit(r) PROVE TypeInv'
  BY <1>3, CheckArgs DEF CheckDriverLimit, CreatePCs, TripWritePCs
<1>4. ASSUME CheckDriverFree(r) PROVE TypeInv'
  BY <1>4, CheckArgs DEF CheckDriverFree, CreatePCs, TripWritePCs
<1>5. ASSUME CheckVehicleFree(r) PROVE TypeInv'
  BY <1>5, CheckArgs DEF CheckVehicleFree, CreatePCs, TripWritePCs
<1>6. ASSUME CheckSupervisorLimit(r) PROVE TypeInv'
  BY <1>6, CheckArgs DEF CheckSupervisorLimit, CreatePCs, TripWritePCs
<1>7. ASSUME ReadOdometer(r) PROVE TypeInv'
  <2>1. odometer[job[r].vehicle] \in Nat
    BY <1>7 DEF TypeInv, TypeOK, CreateArgs, ReadOdometer, CreatePCs
  <2>2. job' = [job EXCEPT ![r] = [job[r] EXCEPT !.pc = "create.insert",
                                                 !.odometer = odometer[job[r].vehicle]]]
    BY <1>7 DEF TypeInv, TypeOK, ReadOdometer
  <2>3. job' \in [Requests -> Job]
    <3>1. \A j \in Job, k \in Nat :
            [j EXCEPT !.pc = "create.insert", !.odometer = k] \in Job
      BY DEF Job, CreatePCs
    <3>2. QED
      BY <2>1, <2>2, <3>1 DEF TypeInv, TypeOK
  <2>4. CreateArgs' /\ TripArgs'
    BY <1>7, <2>2 DEF TypeInv, TypeOK, CreateArgs, TripArgs, ReadOdometer, Job, CreatePCs, TripWritePCs
  <2>5. QED
    BY <1>7, <2>3, <2>4 DEF TypeInv, TypeOK, ReadOdometer, tables, fleet
<1>8. ASSUME InsertTrip(r) PROVE TypeInv'
  <2>1. job' \in [Requests -> Job] /\ CreateArgs' /\ TripArgs'
    BY <1>8, DoneArgs DEF InsertTrip
  <2>2. NewTrip(job[r]) \in Trip
    BY <1>8, ColumnsKeepNaturals DEF TypeInv, TypeOK, CreateArgs, InsertTrip, NewTrip, NoTrip, Trip, TripStatus,
                Job, CreatePCs
  <2>3. trips' \in [TripIds -> Trip]
    BY <1>8, <2>2 DEF TypeInv, TypeOK, InsertTrip
  <2>4. QED
    BY <1>8, <2>1, <2>3 DEF TypeInv, TypeOK, InsertTrip, fleet
<1>9. QED
  BY <1>1, <1>2, <1>3, <1>4, <1>5, <1>6, <1>7, <1>8

LEMMA TypeTrip ==
  ASSUME TypeInv, NEW r \in Requests
  PROVE  /\ \A t \in TripIds, d \in Drivers \cup {None}, v \in Vehicles \cup {None} :
              UpdateTrip(r, t, d, v) => TypeInv'
         /\ \A t \in TripIds, caller \in Drivers \cup {None} :
              StartTrip(r, t, caller) \/ FinishTrip(r, t, caller) => TypeInv'
         /\ \A t \in TripIds, km \in Readings, comment \in BOOLEAN :
              ReviewTrip(r, t, km, comment) => TypeInv'
         /\ WriteUpdate(r) => TypeInv'
         /\ CheckNoOtherEnRuta(r) => TypeInv'
         /\ WriteStart(r) => TypeInv'
         /\ WriteFinish(r) => TypeInv'
         /\ WriteReview(r) => TypeInv'
<1>a. ASSUME job' \in [Requests -> Job] /\ CreateArgs' /\ TripArgs', UNCHANGED <<tables, fleet>>
      PROVE  TypeInv'
  BY <1>a DEF TypeInv, TypeOK, tables, fleet
<1>b. ASSUME job' \in [Requests -> Job] /\ CreateArgs' /\ TripArgs', UNCHANGED <<routes, fleet>>,
             trips' \in [TripIds -> Trip]
      PROVE  TypeInv'
  BY <1>b DEF TypeInv, TypeOK, fleet
<1>1. ASSUME NEW t \in TripIds, NEW d \in Drivers \cup {None}, NEW v \in Vehicles \cup {None},
             UpdateTrip(r, t, d, v)
      PROVE  TypeInv'
  <2>1. job' \in [Requests -> Job] /\ CreateArgs' /\ TripArgs'
    BY <1>1, BeginArgs DEF UpdateTrip, TripWritePCs
  <2>2. QED
    BY <1>1, <2>1, <1>a DEF UpdateTrip
<1>2. ASSUME NEW t \in TripIds, NEW caller \in Drivers \cup {None}, StartTrip(r, t, caller)
      PROVE  TypeInv'
  <2>1. trips[t].driver \in Drivers \cup {None} /\ trips[t].vehicle \in Vehicles \cup {None}
    BY DEF TypeInv, TypeOK, Trip
  <2>2. job' \in [Requests -> Job] /\ CreateArgs' /\ TripArgs'
    BY <1>2, <2>1, BeginArgs DEF StartTrip, TripWritePCs
  <2>3. QED
    BY <1>2, <2>2, <1>a DEF StartTrip
<1>3. ASSUME NEW t \in TripIds, NEW caller \in Drivers \cup {None}, FinishTrip(r, t, caller)
      PROVE  TypeInv'
  <2>1. job' \in [Requests -> Job] /\ CreateArgs' /\ TripArgs'
    BY <1>3, BeginArgs DEF FinishTrip, TripWritePCs
  <2>2. QED
    BY <1>3, <2>1, <1>a DEF FinishTrip
<1>4. ASSUME NEW t \in TripIds, NEW km \in Readings, NEW comment \in BOOLEAN,
             ReviewTrip(r, t, km, comment)
      PROVE  TypeInv'
  <2>1. km \in Nat /\ km - trips[t].odometerStart \in Nat
    BY <1>4, ConstantsAssumption DEF TypeInv, TypeOK, Trip, ReviewTrip
  <2>2. job' \in [Requests -> Job]
    BY <1>4, <2>1 DEF TypeInv, TypeOK, Trip, ReviewTrip, CalculateRealDistance, Idle, Job, TripWritePCs
  <2>3. CreateArgs' /\ TripArgs'
    BY <1>4 DEF TypeInv, TypeOK, CreateArgs, TripArgs, ReviewTrip, Idle, CreatePCs, TripWritePCs
  <2>4. QED
    BY <1>4, <2>2, <2>3, <1>a DEF ReviewTrip
<1>5. ASSUME WriteUpdate(r) PROVE TypeInv'
  <2> DEFINE row == trips[job[r].trip]
             new == [row EXCEPT !.driver  = Given(job[r].driver, row.driver),
                                !.vehicle = Given(job[r].vehicle, row.vehicle)]
  <2>1. job[r].pc \in TripWritePCs /\ UpdateRow(r, new, Done(r))
    BY <1>5 DEF WriteUpdate, TripWritePCs
  <2>2. new \in Trip
    <3>1. \A any \in Trip, d \in Drivers \cup {None}, v \in Vehicles \cup {None} :
            [any EXCEPT !.driver = d, !.vehicle = v] \in Trip
      BY DEF Trip
    <3>2. row \in Trip
      BY <2>1 DEF TypeInv, TypeOK, TripArgs
    <3>3. /\ Given(job[r].driver, row.driver) \in Drivers \cup {None}
          /\ Given(job[r].vehicle, row.vehicle) \in Vehicles \cup {None}
      BY <3>2 DEF TypeInv, TypeOK, Trip, Job, Given
    <3>4. QED
      BY <3>1, <3>2, <3>3
  <2>3. QED
    BY <2>1, <2>2, <1>b, UpdateRowType, DoneArgs
<1>6. ASSUME CheckNoOtherEnRuta(r) PROVE TypeInv'
  <2>1. PICK answer : Check(r, "start.driverFree", answer \in {None, job[r].trip}, "start.write")
    BY <1>6 DEF CheckNoOtherEnRuta
  <2>2. QED
    BY <2>1, CheckArgs DEF CreatePCs, TripWritePCs
<1>7. ASSUME WriteStart(r) PROVE TypeInv'
  <2> DEFINE new == [trips[job[r].trip] EXCEPT !.status = "EN_RUTA"]
  <2>1. job[r].pc \in TripWritePCs /\ UpdateRow(r, new, Goto(r, "start.notify"))
    BY <1>7 DEF WriteStart, TripWritePCs
  <2>2. new \in Trip
    BY <2>1 DEF TypeInv, TypeOK, TripArgs, Trip, TripStatus
  <2>3. Goto(r, "start.notify") => job' \in [Requests -> Job] /\ CreateArgs' /\ TripArgs'
    BY GotoArgs DEF NotifyPCs, CreatePCs, TripWritePCs
  <2>4. QED
    BY <2>1, <2>2, <2>3, <1>b, UpdateRowType, DoneArgs
<1>8. ASSUME WriteFinish(r) PROVE TypeInv'
  <2> DEFINE new == [trips[job[r].trip] EXCEPT !.status = "EN_REVISION"]
  <2>1. job[r].pc \in TripWritePCs /\ UpdateRow(r, new, Done(r))
    BY <1>8 DEF WriteFinish, TripWritePCs
  <2>2. new \in Trip
    BY <2>1 DEF TypeInv, TypeOK, TripArgs, Trip, TripStatus
  <2>3. QED
    BY <2>1, <2>2, <1>b, UpdateRowType, DoneArgs
<1>9. ASSUME WriteReview(r) PROVE TypeInv'
  <2> DEFINE new == [trips[job[r].trip] EXCEPT !.status = "TERMINADO",
                                               !.odometerEnd = ReadingColumn(job[r].odometer),
                                               !.distanceReal = DistanceColumn(job[r].distance),
                                               !.reviewComment = job[r].comment]
  <2>1. job[r].pc \in TripWritePCs /\ UpdateRow(r, new, Goto(r, "review.freeDriver"))
    BY <1>9 DEF WriteReview, TripWritePCs
  <2>2. new \in Trip
    <3>1. \A any \in Trip, s \in TripStatus, km, real \in Nat, c \in BOOLEAN :
            [any EXCEPT !.status = s, !.odometerEnd = km,
                        !.distanceReal = real, !.reviewComment = c] \in Trip
      BY DEF Trip
    <3>2. trips[job[r].trip] \in Trip
      BY <2>1 DEF TypeInv, TypeOK, TripArgs
    <3>3. /\ ReadingColumn(job[r].odometer) \in Nat
          /\ DistanceColumn(job[r].distance) \in Nat
          /\ job[r].comment \in BOOLEAN
      BY ColumnsKeepNaturals DEF TypeInv, TypeOK, Job
    <3>4. QED
      BY <3>1, <3>2, <3>3 DEF TripStatus
  <2>3. Goto(r, "review.freeDriver") => job' \in [Requests -> Job] /\ CreateArgs' /\ TripArgs'
    BY GotoArgs DEF NotifyPCs, CreatePCs, TripWritePCs
  <2>4. QED
    BY <2>1, <2>2, <2>3, <1>b, UpdateRowType, DoneArgs
<1>10. QED
  BY <1>1, <1>2, <1>3, <1>4, <1>5, <1>6, <1>7, <1>8, <1>9

LEMMA TypeNotify ==
  ASSUME TypeInv, NEW r \in Requests
  PROVE  /\ NotifyDriverOnRoute(r) => TypeInv'
         /\ NotifyVehicleOnRoute(r) => TypeInv'
         /\ LoseStartNotification(r) => TypeInv'
         /\ FreeDriver(r) => TypeInv'
         /\ FreeVehicle(r) => TypeInv'
         /\ LoseRelease(r) => TypeInv'
         /\ Reject(r) => TypeInv'
<1>1. ASSUME NEW pc \in NotifyPCs, Goto(r, pc) \/ Done(r)
      PROVE  job' \in [Requests -> Job] /\ CreateArgs' /\ TripArgs'
  BY <1>1, GotoArgs, DoneArgs DEF NotifyPCs, CreatePCs, TripWritePCs
<1>2. ASSUME job' \in [Requests -> Job] /\ CreateArgs' /\ TripArgs', UNCHANGED <<tables, odometer>>,
             availability' \in [Drivers -> {"AVAILABLE", "ON_ROUTE"}],
             unitStatus' \in [Vehicles -> {"ACTIVE", "ON_ROUTE"}]
      PROVE  TypeInv'
  BY <1>2 DEF TypeInv, TypeOK, tables
<1>3. ASSUME NotifyDriverOnRoute(r) PROVE TypeInv'
  BY <1>3, <1>1, <1>2 DEF NotifyDriverOnRoute, NotifyPCs, TypeInv, TypeOK
<1>4. ASSUME NotifyVehicleOnRoute(r) PROVE TypeInv'
  BY <1>4, <1>1, <1>2 DEF NotifyVehicleOnRoute, NotifyPCs, TypeInv, TypeOK
<1>5. ASSUME LoseStartNotification(r) PROVE TypeInv'
  BY <1>5, <1>1, <1>2 DEF LoseStartNotification, NotifyPCs, TypeInv, TypeOK, fleet
<1>6. ASSUME FreeDriver(r) PROVE TypeInv'
  BY <1>6, <1>1, <1>2 DEF FreeDriver, NotifyPCs, TypeInv, TypeOK
<1>7. ASSUME FreeVehicle(r) PROVE TypeInv'
  BY <1>7, <1>1, <1>2 DEF FreeVehicle, NotifyPCs, TypeInv, TypeOK
<1>8. ASSUME LoseRelease(r) PROVE TypeInv'
  BY <1>8, DoneArgs, <1>2 DEF LoseRelease, TypeInv, TypeOK
<1>9. ASSUME Reject(r) PROVE TypeInv'
  BY <1>9, DoneArgs, <1>2 DEF Reject, TypeInv, TypeOK, fleet
<1>10. QED
  BY <1>3, <1>4, <1>5, <1>6, <1>7, <1>8, <1>9

LEMMA TypeRoutes ==
  ASSUME TypeInv, NEW r \in Requests
  PROVE  /\ \A rt \in RouteIds, km \in Distances : CreateRoute(r, rt, km) => TypeInv'
         /\ \A rt \in RouteIds, km \in Distances \cup {0} : UpdateRoute(r, rt, km) => TypeInv'
         /\ \A rt \in RouteIds : DeleteRoute(r, rt) => TypeInv'
         /\ WriteRoute(r) => TypeInv'
         /\ EraseRoute(r) => TypeInv'
<1>1. ASSUME NEW rt \in RouteIds, NEW km \in Nat, NEW pc \in RoutePCs,
             BeginRoute(r, pc, rt, km)
      PROVE  job' \in [Requests -> Job] /\ CreateArgs' /\ TripArgs'
  <2>1. job' \in [Requests -> Job]
    BY <1>1 DEF BeginRoute, TypeInv, TypeOK, Idle, Job
  <2>2. CreateArgs' /\ TripArgs'
    BY <1>1 DEF BeginRoute, TypeInv, TypeOK, CreateArgs, TripArgs, Idle, RoutePCs, CreatePCs, TripWritePCs
  <2>3. QED
    BY <2>1, <2>2
<1>2. ASSUME NEW rt \in RouteIds, NEW km \in Distances, CreateRoute(r, rt, km) PROVE TypeInv'
  <2>1. DistanceColumn(km) \in Nat
    BY ConstantsAssumption, ColumnsKeepNaturals
  <2>2. QED
    BY <1>2, <2>1 DEF CreateRoute, TypeInv, TypeOK, CreateArgs, TripArgs, Route, fleet
<1>3. ASSUME NEW rt \in RouteIds, NEW km \in Distances \cup {0}, UpdateRoute(r, rt, km) PROVE TypeInv'
  <2>1. km \in Nat
    BY ConstantsAssumption
  <2>2. job' \in [Requests -> Job] /\ CreateArgs' /\ TripArgs'
    BY <1>3, <2>1, <1>1 DEF UpdateRoute, RoutePCs
  <2>3. QED
    BY <1>3, <2>2 DEF UpdateRoute, TypeInv, TypeOK, tables, fleet
<1>4. ASSUME NEW rt \in RouteIds, DeleteRoute(r, rt) PROVE TypeInv'
  <2>1. job' \in [Requests -> Job] /\ CreateArgs' /\ TripArgs'
    BY <1>4, <1>1 DEF DeleteRoute, RoutePCs
  <2>2. QED
    BY <1>4, <2>1 DEF DeleteRoute, TypeInv, TypeOK, tables, fleet
<1>5. ASSUME WriteRoute(r) PROVE TypeInv'
  <2>1. job' \in [Requests -> Job] /\ CreateArgs' /\ TripArgs'
    BY <1>5, DoneArgs DEF WriteRoute
  <2>2. DistanceColumn(job[r].distance) \in Nat
    BY ColumnsKeepNaturals DEF TypeInv, TypeOK, Job
  <2>3. routes' \in [RouteIds -> Route]
    <3>1. \A rt \in RouteIds : [routes[rt] EXCEPT !.distance = DistanceColumn(job[r].distance)] \in Route
      BY <2>2 DEF TypeInv, TypeOK, Route
    <3>2. routes' \in {routes, [routes EXCEPT ![job[r].route] =
                                [routes[job[r].route] EXCEPT !.distance = DistanceColumn(job[r].distance)]]}
      BY <1>5 DEF WriteRoute
    <3>3. QED
      BY <3>1, <3>2 DEF TypeInv, TypeOK
  <2>4. QED
    BY <1>5, <2>1, <2>3 DEF WriteRoute, TypeInv, TypeOK, fleet
<1>6. ASSUME EraseRoute(r) PROVE TypeInv'
  <2>1. job' \in [Requests -> Job] /\ CreateArgs' /\ TripArgs'
    BY <1>6, DoneArgs DEF EraseRoute
  <2>2. routes' \in [RouteIds -> Route]
    BY <1>6 DEF EraseRoute, TypeInv, TypeOK, Route
  <2>3. NoTrip("deleted") \in Trip
    BY DEF NoTrip, Trip
  <2>4. trips' \in [TripIds -> Trip]
    BY <1>6, <2>3 DEF EraseRoute, TypeInv, TypeOK
  <2>5. QED
    BY <1>6, <2>1, <2>2, <2>4 DEF EraseRoute, TypeInv, TypeOK, fleet
<1>7. QED
  BY <1>2, <1>3, <1>4, <1>5, <1>6

LEMMA TypeInit == Init => TypeInv
<1> SUFFICES ASSUME Init PROVE TypeInv
  OBVIOUS
<1>1. NoTrip("unused") \in Trip
  BY DEF NoTrip, Trip
<1>2. TypeOK
  BY <1>1, IdleIsJob, ConstantsAssumption DEF Init, TypeOK, Route
<1>3. CreateArgs /\ TripArgs
  BY DEF Init, CreateArgs, TripArgs, Idle, CreatePCs, TripWritePCs
<1>4. QED
  BY <1>2, <1>3 DEF TypeInv

LEMMA TypeStep == TypeInv /\ [Next]_vars => TypeInv'
<1> SUFFICES ASSUME TypeInv, [Next]_vars PROVE TypeInv'
  OBVIOUS
<1>1. ASSUME NEW r \in Requests, Accept(r) PROVE TypeInv'
  BY <1>1, TypeCreate, TypeTrip, TypeRoutes DEF Accept
<1>2. ASSUME NEW r \in Requests, Serve(r) PROVE TypeInv'
  BY <1>2, TypeCreate, TypeTrip, TypeNotify, TypeRoutes DEF Serve
<1>3. ASSUME NEW v \in Vehicles, NEW km \in Odometers, AdvanceOdometer(v, km) PROVE TypeInv'
  BY <1>3, ConstantsAssumption
     DEF AdvanceOdometer, TypeInv, TypeOK, CreateArgs, TripArgs, tables
<1>4. CASE Crash
  BY <1>4, IdleIsJob DEF Crash, TypeInv, TypeOK, CreateArgs, TripArgs, Idle,
                         CreatePCs, TripWritePCs, tables, fleet
<1>5. CASE UNCHANGED vars
  BY <1>5 DEF vars, TypeInv, TypeOK, CreateArgs, TripArgs
<1>6. QED
  BY <1>1, <1>2, <1>3, <1>4, <1>5 DEF Next

(* Every reachable state is well-typed, and a handler reaches a call with  *)
(* the arguments that call needs.                                          *)
THEOREM TypeCorrect == Spec => []TypeOK
<1>1. TypeInv => TypeOK
  BY DEF TypeInv
<1>2. QED
  BY TypeInit, TypeStep, <1>1, PTL DEF Spec

-----------------------------------------------------------------------------
(* The phases of a trip and the review, whatever the interleaving.         *)

(* What reviewTrip checks of the numbers it is given... *)
Reviewed(start, planned, end, real, comment) ==
  /\ end \in Nat /\ end > start
  /\ real = end - start
  /\ comment \/ (100 * real =< 103 * planned /\ 100 * real >= 97 * planned)

(* ... and what holds of the numbers the columns keep. *)
Kept(start, planned, end, real, comment) ==
  /\ end >= start
  /\ real - (end - start) \in -50..50
  /\ comment \/ (100 * real =< 103 * planned + 500 /\ 100 * real >= 97 * planned - 500)

LEMMA ReviewedIsKept ==
  ASSUME NEW start \in Nat, NEW planned \in Nat, NEW end, NEW real, NEW comment,
         start % 100 = 0, Reviewed(start, planned, end, real, comment)
  PROVE  Kept(start, planned, ReadingColumn(end), DistanceColumn(real), comment)
<1> DEFINE kept == ReadingColumn(end)
           gap  == DistanceColumn(real)
<1>1. end \in Nat /\ end > start /\ real \in Nat /\ real = end - start
  BY DEF Reviewed
<1>2. kept >= start
  BY <1>1 DEF ReadingColumn
<1>3. gap - real \in -4..5
  BY <1>1 DEF DistanceColumn
<1>4. gap - (kept - start) \in -50..50
  BY <1>1 DEF ReadingColumn, DistanceColumn
<1>5. gap \in Nat
  BY <1>1, ColumnsKeepNaturals
<1>6. QED
  BY <1>1, <1>2, <1>3, <1>4, <1>5 DEF Reviewed, Kept

(* What a request that was accepted for a trip still knows of it when its  *)
(* write comes: the row was there, and the columns nobody rewrites.        *)
Knows(r) ==
  LET t == job[r].trip
  IN  /\ job[r].pc \in TripWritePCs => trips[t].status # "unused"
      /\ job[r].pc \in {"finish.write", "review.write"}
            => trips[t].status \notin {"unused", "CREADO"}
      /\ job[r].pc = "review.write" /\ Exists(t)
            => Reviewed(trips[t].odometerStart, trips[t].distancePlanned,
                        job[r].odometer, job[r].distance, job[r].comment)

HistoryInv ==
  /\ TypeInv
  /\ \A r \in Requests : Knows(r)
  /\ \A t \in TripIds : trips[t].odometerStart % 100 = 0
  /\ ReviewConsistent

(* How a step may change a row. *)
Inserted(t) ==
  /\ trips[t].status = "unused"
  /\ trips'[t].status = "CREADO"
  /\ trips'[t].odometerStart % 100 = 0

Rewritten(t) ==
  /\ Exists(t)
  /\ trips'[t].odometerStart = trips[t].odometerStart
  /\ trips'[t].distancePlanned = trips[t].distancePlanned
  /\ \/ /\ trips'[t].status = trips[t].status
        /\ trips'[t].odometerEnd = trips[t].odometerEnd
        /\ trips'[t].distanceReal = trips[t].distanceReal
        /\ trips'[t].reviewComment = trips[t].reviewComment
     \/ trips'[t].status = "EN_RUTA"
     \/ trips[t].status # "CREADO" /\ trips'[t].status = "EN_REVISION"
     \/ /\ trips[t].status # "CREADO" /\ trips'[t].status = "TERMINADO"
        /\ Kept(trips[t].odometerStart, trips[t].distancePlanned,
                trips'[t].odometerEnd, trips'[t].distanceReal, trips'[t].reviewComment)

Erased(t) ==
  /\ Exists(t)
  /\ trips'[t].status = "deleted"
  /\ trips'[t].odometerStart % 100 = 0

RowStep(t) == trips'[t] = trips[t] \/ Inserted(t) \/ Rewritten(t) \/ Erased(t)

LEMMA WriteRows ==
  ASSUME HistoryInv, NEW r \in Requests
  PROVE  /\ WriteUpdate(r) => \A t \in TripIds : RowStep(t)
         /\ WriteStart(r) => \A t \in TripIds : RowStep(t)
         /\ WriteFinish(r) => \A t \in TripIds : RowStep(t)
         /\ WriteReview(r) => \A t \in TripIds : RowStep(t)
<1>1. ASSUME NEW row, NEW next, UpdateRow(r, row, next), Exists(job[r].trip),
             NEW t \in TripIds
      PROVE  trips'[t] = IF t = job[r].trip THEN row ELSE trips[t]
  BY <1>1 DEF UpdateRow, HistoryInv, TypeInv, TypeOK
<1>2. ASSUME NEW row, NEW next, UpdateRow(r, row, next), ~Exists(job[r].trip)
      PROVE  trips' = trips
  BY <1>2 DEF UpdateRow
<1>3. ASSUME WriteUpdate(r), NEW t \in TripIds PROVE RowStep(t)
  <2> DEFINE row == trips[job[r].trip]
             new == [row EXCEPT !.driver  = Given(job[r].driver, row.driver),
                                !.vehicle = Given(job[r].vehicle, row.vehicle)]
  <2>1. UpdateRow(r, new, Done(r)) /\ job[r].pc \in TripWritePCs
    BY <1>3 DEF WriteUpdate, TripWritePCs
  <2>2. CASE Exists(job[r].trip) /\ t = job[r].trip
    <3>1. trips'[t] = new
      BY <2>1, <2>2, <1>1
    <3>2. row \in Trip
      BY <2>2 DEF HistoryInv, TypeInv, TypeOK
    <3>3. Rewritten(t)
      BY <2>2, <3>1, <3>2 DEF Rewritten, Trip
    <3>4. QED
      BY <3>3 DEF RowStep
  <2>3. QED
    BY <2>1, <2>2, <1>1, <1>2 DEF RowStep
<1>4. ASSUME WriteStart(r), NEW t \in TripIds PROVE RowStep(t)
  <2> DEFINE new == [trips[job[r].trip] EXCEPT !.status = "EN_RUTA"]
  <2>1. UpdateRow(r, new, Goto(r, "start.notify"))
    BY <1>4 DEF WriteStart
  <2>2. CASE Exists(job[r].trip) /\ t = job[r].trip
    <3>1. trips'[t] = new
      BY <2>1, <2>2, <1>1
    <3>2. trips[t] \in Trip
      BY DEF HistoryInv, TypeInv, TypeOK
    <3>3. Rewritten(t)
      BY <2>2, <3>1, <3>2 DEF Rewritten, Trip
    <3>4. QED
      BY <3>3 DEF RowStep
  <2>3. QED
    BY <2>1, <2>2, <1>1, <1>2 DEF RowStep
<1>5. ASSUME WriteFinish(r), NEW t \in TripIds PROVE RowStep(t)
  <2> DEFINE new == [trips[job[r].trip] EXCEPT !.status = "EN_REVISION"]
  <2>1. UpdateRow(r, new, Done(r))
    BY <1>5 DEF WriteFinish
  <2>2. CASE Exists(job[r].trip) /\ t = job[r].trip
    <3>1. trips'[t] = new
      BY <2>1, <2>2, <1>1
    <3>2. trips[t] \in Trip
      BY DEF HistoryInv, TypeInv, TypeOK
    <3>3. trips[t].status # "CREADO"
      BY <1>5, <2>2 DEF HistoryInv, Knows, WriteFinish
    <3>4. Rewritten(t)
      BY <2>2, <3>1, <3>2, <3>3 DEF Rewritten, Trip
    <3>5. QED
      BY <3>4 DEF RowStep
  <2>3. QED
    BY <2>1, <2>2, <1>1, <1>2 DEF RowStep
<1>6. ASSUME WriteReview(r), NEW t \in TripIds PROVE RowStep(t)
  <2> DEFINE new == [trips[job[r].trip] EXCEPT !.status = "TERMINADO",
                                               !.odometerEnd = ReadingColumn(job[r].odometer),
                                               !.distanceReal = DistanceColumn(job[r].distance),
                                               !.reviewComment = job[r].comment]
  <2>1. UpdateRow(r, new, Goto(r, "review.freeDriver"))
    BY <1>6 DEF WriteReview
  <2>2. CASE Exists(job[r].trip) /\ t = job[r].trip
    <3>1. trips'[t] = new
      BY <2>1, <2>2, <1>1
    <3>2. trips[t] \in Trip
      BY DEF HistoryInv, TypeInv, TypeOK
    <3>3. /\ trips[t].status # "CREADO"
          /\ Reviewed(trips[t].odometerStart, trips[t].distancePlanned,
                      job[r].odometer, job[r].distance, job[r].comment)
      BY <1>6, <2>2 DEF HistoryInv, Knows, WriteReview
    <3>4. Kept(trips[t].odometerStart, trips[t].distancePlanned,
               ReadingColumn(job[r].odometer), DistanceColumn(job[r].distance), job[r].comment)
      <4>1. /\ trips[t].odometerStart \in Nat /\ trips[t].distancePlanned \in Nat
            /\ trips[t].odometerStart % 100 = 0
        BY <3>2 DEF Trip, HistoryInv
      <4>2. QED
        BY <3>3, <4>1, ReviewedIsKept
    <3>5. Rewritten(t)
      BY <2>2, <3>1, <3>2, <3>3, <3>4 DEF Rewritten, Trip
    <3>6. QED
      BY <3>5 DEF RowStep
  <2>3. QED
    BY <2>1, <2>2, <1>1, <1>2 DEF RowStep
<1>7. QED
  BY <1>3, <1>4, <1>5, <1>6

LEMMA EveryRowStep ==
  ASSUME HistoryInv, [Next]_vars
  PROVE  \A t \in TripIds : RowStep(t)
<1>1. ASSUME UNCHANGED trips PROVE \A t \in TripIds : RowStep(t)
  BY <1>1 DEF RowStep
<1>2. ASSUME NEW r \in Requests, Accept(r) PROVE UNCHANGED trips
  BY <1>2 DEF Accept, CreateTrip, CreateTripAndRoute, UpdateTrip, StartTrip, FinishTrip,
              ReviewTrip, CreateRoute, UpdateRoute, DeleteRoute, tables
<1>3. ASSUME NEW r \in Requests, InsertTrip(r), NEW t \in TripIds PROVE RowStep(t)
  <2>1. NewTrip(job[r]).status = "CREADO" /\ NewTrip(job[r]).odometerStart % 100 = 0
    BY <1>3, ColumnsKeepNaturals DEF NewTrip, NoTrip, HistoryInv, TypeInv, TypeOK, Job
  <2>2. QED
    BY <1>3, <2>1 DEF InsertTrip, RowStep, Inserted, HistoryInv, TypeInv, TypeOK
<1>4. ASSUME NEW r \in Requests, EraseRoute(r), NEW t \in TripIds PROVE RowStep(t)
  BY <1>4 DEF EraseRoute, RowStep, Erased, NoTrip
<1>5. ASSUME NEW r \in Requests, Serve(r) PROVE \A t \in TripIds : RowStep(t)
  <2>1. CASE CheckDriverLimit(r) \/ CheckDriverFree(r) \/ CheckVehicleFree(r)
               \/ CheckSupervisorLimit(r) \/ ReadOdometer(r) \/ CheckNoOtherEnRuta(r)
    BY <2>1, <1>1 DEF CheckDriverLimit, CheckDriverFree, CheckVehicleFree,
                      CheckSupervisorLimit, ReadOdometer, CheckNoOtherEnRuta, Check, tables
  <2>2. CASE NotifyDriverOnRoute(r) \/ NotifyVehicleOnRoute(r) \/ LoseStartNotification(r)
               \/ FreeDriver(r) \/ FreeVehicle(r) \/ LoseRelease(r)
               \/ WriteRoute(r) \/ Reject(r)
    BY <2>2, <1>1 DEF NotifyDriverOnRoute, NotifyVehicleOnRoute, LoseStartNotification,
                      FreeDriver, FreeVehicle, LoseRelease, WriteRoute, Reject, tables
  <2>3. QED
    BY <1>3, <1>4, <1>5, <2>1, <2>2, WriteRows DEF Serve
<1>6. CASE UNCHANGED trips
  BY <1>6, <1>1
<1>7. QED
  BY <1>2, <1>5, <1>6 DEF Next, AdvanceOdometer, Crash, vars, tables

(* A slot that a step leaves alone still knows what it knew. *)
LEMMA OtherSlotsKnow ==
  ASSUME HistoryInv, \A t \in TripIds : RowStep(t),
         NEW r \in Requests, job'[r] = job[r]
  PROVE  Knows(r)'
<1>1. CASE job[r].pc \notin TripWritePCs
  BY <1>1 DEF Knows, TripWritePCs
<1>2. CASE job[r].pc \in TripWritePCs
  <2> DEFINE t == job[r].trip
  <2>1. t \in TripIds
    BY <1>2 DEF HistoryInv, TypeInv, TripArgs
  <2>2. Knows(r) /\ RowStep(t)
    BY <2>1 DEF HistoryInv
  <2>3. trips[t].status # "unused" => trips'[t].status # "unused"
    BY <2>2 DEF RowStep, Inserted, Rewritten, Erased, Exists, TripStatus
  <2>4. trips[t].status \notin {"unused", "CREADO"} => trips'[t].status \notin {"unused", "CREADO"}
    BY <2>2 DEF RowStep, Inserted, Rewritten, Erased, Exists, TripStatus
  <2>5. trips[t].status # "unused" /\ Exists(t)' =>
          /\ Exists(t)
          /\ trips'[t].odometerStart = trips[t].odometerStart
          /\ trips'[t].distancePlanned = trips[t].distancePlanned
    BY <2>2 DEF RowStep, Inserted, Rewritten, Erased, Exists, TripStatus
  <2>6. QED
    BY <1>2, <2>2, <2>3, <2>4, <2>5 DEF Knows, TripWritePCs
<1>3. QED
  BY <1>1, <1>2

(* What a request knows of the trip it has just been accepted for. *)
LEMMA NewSlotKnows ==
  ASSUME HistoryInv, NEW r \in Requests, Accept(r)
  PROVE  \A q \in Requests : job'[q] = job[q] \/ Knows(q)'
<1>1. ASSUME NEW j, job' = [job EXCEPT ![r] = j], j.pc \notin TripWritePCs
      PROVE  \A q \in Requests : job'[q] = job[q] \/ Knows(q)'
  BY <1>1 DEF HistoryInv, TypeInv, TypeOK, Knows, TripWritePCs
<1>2. ASSUME NEW t \in TripIds, NEW d \in Drivers \cup {None}, NEW v \in Vehicles \cup {None},
             UpdateTrip(r, t, d, v)
      PROVE  \A q \in Requests : job'[q] = job[q] \/ Knows(q)'
  BY <1>2 DEF UpdateTrip, Begin, Idle, tables, HistoryInv, TypeInv, TypeOK, Knows, TripWritePCs
<1>3. ASSUME NEW t \in TripIds, NEW caller, StartTrip(r, t, caller)
      PROVE  \A q \in Requests : job'[q] = job[q] \/ Knows(q)'
  BY <1>3 DEF StartTrip, CanTransitionTo, Begin, Idle, tables, HistoryInv, TypeInv, TypeOK,
              Knows, TripWritePCs
<1>4. ASSUME NEW t \in TripIds, NEW caller, FinishTrip(r, t, caller)
      PROVE  \A q \in Requests : job'[q] = job[q] \/ Knows(q)'
  BY <1>4 DEF FinishTrip, Begin, Idle, tables, HistoryInv, TypeInv, TypeOK, Knows, TripWritePCs
<1>5. ASSUME NEW t \in TripIds, NEW km \in Readings, NEW comment \in BOOLEAN,
             ReviewTrip(r, t, km, comment)
      PROVE  \A q \in Requests : job'[q] = job[q] \/ Knows(q)'
  <2> DEFINE start == trips[t].odometerStart
             planned == trips[t].distancePlanned
  <2>1. start \in Nat /\ planned \in Nat /\ km \in Nat
    BY ConstantsAssumption DEF HistoryInv, TypeInv, TypeOK, Trip
  <2>2. Reviewed(start, planned, km, km - start, comment)
    BY <1>5, <2>1 DEF ReviewTrip, Reviewed, CalculateRealDistance, RequiresReviewComment
  <2>3. /\ job'[r].trip = t /\ job'[r].pc = "review.write"
        /\ job'[r].odometer = km /\ job'[r].distance = km - start
        /\ job'[r].comment = comment
        /\ trips' = trips /\ trips[t].status = "EN_REVISION"
    BY <1>5 DEF ReviewTrip, CalculateRealDistance, Idle, tables, HistoryInv, TypeInv, TypeOK
  <2>4. Knows(r)'
    BY <2>2, <2>3 DEF Knows, TripWritePCs
  <2>5. \A q \in Requests \ {r} : job'[q] = job[q]
    BY <1>5 DEF ReviewTrip, HistoryInv, TypeInv, TypeOK
  <2>6. QED
    BY <2>4, <2>5
<1>6. ASSUME NEW rt, NEW km, NEW d, NEW v, NEW s, BeginCreate(r, rt, km, d, v, s)
      PROVE  \A q \in Requests : job'[q] = job[q] \/ Knows(q)'
  BY <1>6, <1>1 DEF BeginCreate, Idle, TripWritePCs
<1>7. ASSUME NEW rt, NEW km, BeginRoute(r, "route.update", rt, km) \/ BeginRoute(r, "route.delete", rt, km)
      PROVE  \A q \in Requests : job'[q] = job[q] \/ Knows(q)'
  BY <1>7, <1>1 DEF BeginRoute, Idle, TripWritePCs
<1>8. ASSUME NEW rt, NEW km, CreateRoute(r, rt, km)
      PROVE  \A q \in Requests : job'[q] = job[q]
  BY <1>8 DEF CreateRoute
<1>9. QED
  BY <1>2, <1>3, <1>4, <1>5, <1>6, <1>7, <1>8
     DEF Accept, CreateTrip, CreateTripAndRoute, UpdateRoute, DeleteRoute

LEMMA ServedSlotKnows ==
  ASSUME HistoryInv, NEW r \in Requests, Serve(r)
  PROVE  \A q \in Requests : job'[q] = job[q] \/ Knows(q)'
<1>1. ASSUME Done(r) PROVE \A q \in Requests : job'[q] = job[q] \/ Knows(q)'
  BY <1>1 DEF Done, Idle, HistoryInv, TypeInv, TypeOK, Knows, TripWritePCs
<1>2. ASSUME NEW pc, Goto(r, pc), pc \notin TripWritePCs
      PROVE  \A q \in Requests : job'[q] = job[q] \/ Knows(q)'
  <2>1. job'[r].pc = pc
    BY <1>2 DEF Goto, HistoryInv, TypeInv, TypeOK, Job
  <2>2. \A q \in Requests \ {r} : job'[q] = job[q]
    BY <1>2 DEF Goto, HistoryInv, TypeInv, TypeOK
  <2>3. QED
    BY <1>2, <2>1, <2>2 DEF Knows, TripWritePCs
<1>3. ASSUME ReadOdometer(r) PROVE \A q \in Requests : job'[q] = job[q] \/ Knows(q)'
  <2>1. job'[r].pc = "create.insert"
    BY <1>3 DEF ReadOdometer, HistoryInv, TypeInv, TypeOK, Job
  <2>2. \A q \in Requests \ {r} : job'[q] = job[q]
    BY <1>3 DEF ReadOdometer, HistoryInv, TypeInv, TypeOK
  <2>3. QED
    BY <2>1, <2>2 DEF Knows, TripWritePCs
<1>4. ASSUME CheckNoOtherEnRuta(r) PROVE \A q \in Requests : job'[q] = job[q] \/ Knows(q)'
  <2>1. CASE Done(r)
    BY <2>1, <1>1
  <2>2. CASE Goto(r, "start.write")
    <3>1. job[r].pc = "start.driverFree" /\ trips' = trips /\ Knows(r)
      BY <1>4 DEF CheckNoOtherEnRuta, Check, tables, HistoryInv
    <3>2. job'[r].pc = "start.write" /\ job'[r].trip = job[r].trip
      BY <2>2 DEF Goto, HistoryInv, TypeInv, TypeOK, Job
    <3>3. \A q \in Requests \ {r} : job'[q] = job[q]
      BY <2>2 DEF Goto, HistoryInv, TypeInv, TypeOK
    <3>4. QED
      BY <3>1, <3>2, <3>3 DEF Knows, TripWritePCs
  <2>3. QED
    BY <1>4, <2>1, <2>2 DEF CheckNoOtherEnRuta, Check
<1>5. CASE CheckDriverLimit(r) \/ CheckDriverFree(r) \/ CheckVehicleFree(r) \/ CheckSupervisorLimit(r)
  BY <1>5, <1>1, <1>2 DEF CheckDriverLimit, CheckDriverFree, CheckVehicleFree,
                          CheckSupervisorLimit, Check, TripWritePCs
<1>6. CASE WriteUpdate(r) \/ WriteStart(r) \/ WriteFinish(r) \/ WriteReview(r)
  BY <1>6, <1>1, <1>2 DEF WriteUpdate, WriteStart, WriteFinish, WriteReview, UpdateRow, TripWritePCs
<1>7. CASE NotifyDriverOnRoute(r) \/ NotifyVehicleOnRoute(r) \/ LoseStartNotification(r)
             \/ FreeDriver(r) \/ FreeVehicle(r) \/ LoseRelease(r)
  BY <1>7, <1>1, <1>2 DEF NotifyDriverOnRoute, NotifyVehicleOnRoute, LoseStartNotification,
                          FreeDriver, FreeVehicle, LoseRelease, TripWritePCs
<1>8. CASE InsertTrip(r) \/ WriteRoute(r) \/ EraseRoute(r) \/ Reject(r)
  BY <1>8, <1>1 DEF InsertTrip, WriteRoute, EraseRoute, Reject
<1>9. QED
  BY <1>3, <1>4, <1>5, <1>6, <1>7, <1>8 DEF Serve

LEMMA EverySlotKnows ==
  ASSUME HistoryInv, [Next]_vars
  PROVE  \A q \in Requests : Knows(q)'
<1>1. \A q \in Requests : job'[q] = job[q] => Knows(q)'
  BY EveryRowStep, OtherSlotsKnow
<1>2. CASE Crash
  BY <1>2 DEF Crash, Idle, Knows, TripWritePCs
<1>3. CASE UNCHANGED job
  BY <1>3, <1>1
<1>4. QED
  BY <1>1, <1>2, <1>3, NewSlotKnows, ServedSlotKnows DEF Next, AdvanceOdometer, vars

LEMMA ReviewStep ==
  ASSUME HistoryInv, \A t \in TripIds : RowStep(t)
  PROVE  ReviewConsistent' /\ \A t \in TripIds : trips'[t].odometerStart % 100 = 0
<1>1. ASSUME NEW t \in TripIds PROVE trips'[t].odometerStart % 100 = 0
  BY <1>1 DEF HistoryInv, RowStep, Inserted, Rewritten, Erased
<1>2. ASSUME NEW t \in TripIds, trips'[t].status = "TERMINADO"
      PROVE  Kept(trips'[t].odometerStart, trips'[t].distancePlanned,
                  trips'[t].odometerEnd, trips'[t].distanceReal, trips'[t].reviewComment)
  <2>1. trips[t].status = "TERMINADO" =>
          Kept(trips[t].odometerStart, trips[t].distancePlanned,
               trips[t].odometerEnd, trips[t].distanceReal, trips[t].reviewComment)
    BY DEF HistoryInv, ReviewConsistent, Kept
  <2>2. RowStep(t)
    OBVIOUS
  <2>3. QED
    BY <1>2, <2>1, <2>2 DEF RowStep, Inserted, Rewritten, Erased
<1>3. QED
  BY <1>1, <1>2 DEF ReviewConsistent, Kept

LEMMA HistoryInit == Init => HistoryInv
BY TypeInit DEF Init, HistoryInv, Knows, ReviewConsistent, NoTrip, Idle, TripWritePCs

LEMMA HistoryStep == HistoryInv /\ [Next]_vars => HistoryInv'
BY TypeStep, EveryRowStep, EverySlotKnows, ReviewStep DEF HistoryInv

(* Whatever requests race on a trip, one that is TERMINADO was reviewed    *)
(* with a consistent reading and with the comment a deviation calls for.   *)
THEOREM ReviewCorrect == Spec => []ReviewConsistent
<1>1. HistoryInv => ReviewConsistent
  BY DEF HistoryInv
<1>2. QED
  BY HistoryInit, HistoryStep, <1>1, PTL DEF Spec

(* Whatever requests race on a trip, it does not skip startTrip and its    *)
(* row does not come back.                                                 *)
THEOREM PhasesCorrect == Spec => NoPhaseSkipped
<1> DEFINE Phase ==
      \A t \in TripIds :
        LET from == trips[t].status
            to   == trips'[t].status
        IN  from # to =>
              /\ from # "deleted" /\ to # "unused"
              /\ from = "unused" <=> to = "CREADO"
              /\ from = "CREADO" => to \in {"EN_RUTA", "deleted"}
<1>1. HistoryInv /\ [Next]_vars => [Phase]_vars
  <2> SUFFICES ASSUME HistoryInv, [Next]_vars, NEW t \in TripIds,
                      trips[t].status # trips'[t].status
               PROVE  /\ trips[t].status # "deleted" /\ trips'[t].status # "unused"
                      /\ trips[t].status = "unused" <=> trips'[t].status = "CREADO"
                      /\ trips[t].status = "CREADO" => trips'[t].status \in {"EN_RUTA", "deleted"}
    OBVIOUS
  <2>1. RowStep(t)
    BY EveryRowStep
  <2>2. QED
    BY <2>1 DEF RowStep, Inserted, Rewritten, Erased, Exists, TripStatus
<1>2. QED
  BY HistoryInit, HistoryStep, <1>1, PTL DEF Spec, NoPhaseSkipped

-----------------------------------------------------------------------------
(* How far the limit of trips per supervisor can be passed.                *)
(*                                                                         *)
(* Counting the active trips is not inductive.  A request past the check   *)
(* will add a trip, and a request that was accepted to start or to finish  *)
(* a trip will make it active again if it was reviewed meanwhile.  Both    *)
(* are counted in advance, a trip once however many requests hold it.      *)
Reopens(r, t) ==
  job[r].trip = t /\ job[r].pc \in {"start.driverFree", "start.write", "finish.write"}

(* The trips of s that are active or may become active again. *)
Open(s) ==
  {t \in TripIds : /\ Exists(t)
                   /\ trips[t].supervisor = s
                   /\ trips[t].status \in ActiveStatus \/ \E r \in Requests : Reopens(r, t)}

(* The requests that will insert a trip of s. *)
Entering(s) ==
  {r \in Requests : job[r].pc \in {"create.odometer", "create.insert"} /\ job[r].supervisor = s}

Bounded(s) ==
  Cardinality(Open(s)) + Cardinality(Entering(s)) =< MaxActive - 1 + Cardinality(Requests)

LimitInv == TypeInv /\ \A s \in Supervisors : Bounded(s)

-----------------------------------------------------------------------------
(* Counting. *)

LEMMA Finite ==
  ASSUME NEW S, S \subseteq TripIds \/ S \subseteq Requests
  PROVE  IsFiniteSet(S) /\ Cardinality(S) \in Nat
BY ConstantsAssumption, FS_Subset, FS_CardinalityType

LEMMA ConstantsInNat == MaxActive \in Nat \ {0} /\ Cardinality(Requests) \in Nat
BY ConstantsAssumption, FS_CardinalityType

LEMMA ActiveIsOpen ==
  ASSUME NEW s \in Supervisors
  PROVE  ActiveTripsBySupervisor(s) \subseteq Open(s)
BY DEF ActiveTripsBySupervisor, Open, Exists, ActiveStatus, TripStatus

(* A step that adds nothing to either count keeps the bound. *)
LEMMA ShrinkStep ==
  ASSUME NEW s \in Supervisors, Bounded(s),
         Open(s)' \subseteq Open(s), Entering(s)' \subseteq Entering(s)
  PROVE  Bounded(s)'
<1>1. /\ IsFiniteSet(Open(s)) /\ Cardinality(Open(s)) \in Nat
      /\ IsFiniteSet(Entering(s)) /\ Cardinality(Entering(s)) \in Nat
  BY Finite DEF Open, Entering
<1>2. /\ Cardinality(Open(s)') =< Cardinality(Open(s)) /\ Cardinality(Open(s)') \in Nat
      /\ Cardinality(Entering(s)') =< Cardinality(Entering(s)) /\ Cardinality(Entering(s)') \in Nat
  BY <1>1, FS_Subset, FS_CardinalityType
<1>3. Cardinality(Open(s))' = Cardinality(Open(s)') /\ Cardinality(Entering(s))' = Cardinality(Entering(s)')
  OBVIOUS
<1>4. QED
  BY <1>1, <1>2, <1>3, ConstantsInNat DEF Bounded

(* A request past the check inserts its trip: one count gives to the other. *)
LEMMA TradeStep ==
  ASSUME NEW s \in Supervisors, Bounded(s), NEW t, NEW r \in Entering(s),
         Open(s)' \subseteq Open(s) \cup {t}, Entering(s)' \subseteq Entering(s) \ {r}
  PROVE  Bounded(s)'
<1>1. /\ IsFiniteSet(Open(s)) /\ Cardinality(Open(s)) \in Nat
      /\ IsFiniteSet(Entering(s)) /\ Cardinality(Entering(s)) \in Nat
  BY Finite DEF Open, Entering
<1>2. /\ IsFiniteSet(Open(s) \cup {t})
      /\ Cardinality(Open(s) \cup {t}) =< Cardinality(Open(s)) + 1
      /\ Cardinality(Open(s) \cup {t}) \in Nat
  <2> DEFINE S == Open(s)
  <2>1. IsFiniteSet(S) /\ Cardinality(S) \in Nat
    BY <1>1
  <2> HIDE DEF S
  <2>2. IsFiniteSet(S \cup {t})
        /\ Cardinality(S \cup {t}) = IF t \in S THEN Cardinality(S) ELSE Cardinality(S) + 1
    BY <2>1, FS_AddElement
  <2>3. IsFiniteSet(S \cup {t}) /\ Cardinality(S \cup {t}) =< Cardinality(S) + 1
        /\ Cardinality(S \cup {t}) \in Nat
    BY <2>1, <2>2
  <2>4. QED
    BY <2>3 DEF S
<1>3. /\ IsFiniteSet(Entering(s) \ {r})
      /\ Cardinality(Entering(s) \ {r}) = Cardinality(Entering(s)) - 1
      /\ Cardinality(Entering(s) \ {r}) \in Nat
  BY <1>1, FS_RemoveElement, FS_CardinalityType
<1>4. /\ Cardinality(Open(s)') =< Cardinality(Open(s) \cup {t}) /\ Cardinality(Open(s)') \in Nat
      /\ Cardinality(Entering(s)') =< Cardinality(Entering(s) \ {r}) /\ Cardinality(Entering(s)') \in Nat
  BY <1>2, <1>3, FS_Subset, FS_CardinalityType
<1>5. QED
  BY <1>1, <1>2, <1>3, <1>4, ConstantsInNat DEF Bounded

(* When the check passes, every request adds at most one trip. *)
LEMMA CountAtCheck ==
  ASSUME NEW s \in Supervisors, NEW r \in Requests,
         job[r].pc = "create.supervisorLimit",
         Cardinality(ActiveTripsBySupervisor(s)) < MaxActive
  PROVE  Cardinality(Open(s)) + Cardinality(Entering(s) \cup {r}) =< MaxActive - 1 + Cardinality(Requests)
<1> DEFINE Active == ActiveTripsBySupervisor(s)
           Dormant == Open(s) \ Active
           Holders == {q \in Requests : \E t \in Dormant : Reopens(q, t)}
           held == [q \in Holders |-> job[q].trip]
           Adders == Entering(s) \cup {r}
<1>1. /\ IsFiniteSet(Active) /\ IsFiniteSet(Dormant) /\ IsFiniteSet(Holders) /\ IsFiniteSet(Adders)
      /\ Cardinality(Active) \in Nat /\ Cardinality(Dormant) \in Nat
      /\ Cardinality(Holders) \in Nat /\ Cardinality(Adders) \in Nat
  <2>1. Active \subseteq TripIds /\ Dormant \subseteq TripIds
        /\ Holders \subseteq Requests /\ Adders \subseteq Requests
    BY DEF ActiveTripsBySupervisor, Open, Entering
  <2>2. QED
    BY <2>1, Finite
<1>2. Cardinality(Dormant) =< Cardinality(Holders)
  <2>1. \A t \in Dormant : \E q \in Holders : held[q] = t
    BY DEF Open, ActiveTripsBySupervisor, Reopens
  <2>2. held \in [Holders -> Dormant]
    BY DEF Reopens
  <2>3. held \in Surjection(Holders, Dormant)
    BY <2>1, <2>2 DEF Surjection
  <2>4. QED
    BY <1>1, <2>3, FS_Surjection
<1>3. Cardinality(Holders) + Cardinality(Adders) =< Cardinality(Requests)
  <2>1. Holders \cap Adders = {}
    BY DEF Reopens, Entering
  <2>2. Holders \cup Adders \subseteq Requests
    BY DEF Entering
  <2>3. Cardinality(Holders \cap Adders) = 0
    BY <2>1, FS_EmptySet
  <2>4. IsFiniteSet(Holders) /\ IsFiniteSet(Adders)
        /\ Cardinality(Holders) \in Nat /\ Cardinality(Adders) \in Nat
    BY <1>1
  <2> HIDE DEF Holders, Adders
  <2>5. Cardinality(Holders \cup Adders) = Cardinality(Holders) + Cardinality(Adders) - Cardinality(Holders \cap Adders)
    BY <2>4, FS_Union
  <2>6. Cardinality(Holders \cup Adders) =< Cardinality(Requests)
    BY <2>2, FS_Subset, ConstantsAssumption
  <2>7. QED
    BY <2>3, <2>4, <2>5, <2>6
<1>4. Cardinality(Open(s)) = Cardinality(Active) + Cardinality(Dormant)
  <2>1. Open(s) = Active \cup Dormant /\ Active \cap Dormant = {}
    BY ActiveIsOpen
  <2>2. IsFiniteSet(Active) /\ IsFiniteSet(Dormant)
        /\ Cardinality(Active) \in Nat /\ Cardinality(Dormant) \in Nat
    BY <1>1
  <2> HIDE DEF Active, Dormant
  <2>3. Cardinality(Active \cup Dormant) = Cardinality(Active) + Cardinality(Dormant) - Cardinality(Active \cap Dormant)
    BY <2>2, FS_Union
  <2>4. Cardinality(Active \cap Dormant) = 0
    BY <2>1, FS_EmptySet
  <2>5. QED
    BY <2>1, <2>2, <2>3, <2>4
<1>5. QED
  BY <1>1, <1>2, <1>3, <1>4, ConstantsInNat

(* The step that passes the check. *)
LEMMA PassStep ==
  ASSUME NEW s \in Supervisors, NEW r \in Requests,
         job[r].pc = "create.supervisorLimit",
         Cardinality(ActiveTripsBySupervisor(s)) < MaxActive,
         Open(s)' \subseteq Open(s), Entering(s)' \subseteq Entering(s) \cup {r}
  PROVE  Bounded(s)'
<1> DEFINE Adders == Entering(s) \cup {r}
<1>1. /\ IsFiniteSet(Open(s)) /\ Cardinality(Open(s)) \in Nat
      /\ IsFiniteSet(Adders) /\ Cardinality(Adders) \in Nat
  <2>1. Open(s) \subseteq TripIds /\ Adders \subseteq Requests
    BY DEF Open, Entering
  <2>2. QED
    BY <2>1, Finite
<1>2. Cardinality(Open(s)) + Cardinality(Adders) =< MaxActive - 1 + Cardinality(Requests)
  BY CountAtCheck
<1>3. Entering(s)' \subseteq Adders
  OBVIOUS
<1> HIDE DEF Adders
<1>4. /\ Cardinality(Open(s)') =< Cardinality(Open(s)) /\ Cardinality(Open(s)') \in Nat
      /\ Cardinality(Entering(s)') =< Cardinality(Adders) /\ Cardinality(Entering(s)') \in Nat
  BY <1>1, <1>3, FS_Subset, FS_CardinalityType
<1>5. QED
  BY <1>1, <1>2, <1>4, ConstantsInNat DEF Bounded

-----------------------------------------------------------------------------
(* What the steps do to the two counts. *)

(* Rows are left alone and a slot comes to hold nothing new. *)
LEMMA QuietLimit ==
  ASSUME LimitInv, UNCHANGED trips,
         \A q \in Requests : \/ job'[q] = job[q]
                              \/ /\ job'[q].pc \notin {"create.odometer", "create.insert"}
                                 /\ \A t \in TripIds : Reopens(q, t)' =>
                                      Reopens(q, t) \/ trips[t].status \in ActiveStatus
  PROVE  \A s \in Supervisors : Bounded(s)'
<1> SUFFICES ASSUME NEW s \in Supervisors PROVE Bounded(s)'
  OBVIOUS
<1>1. Open(s)' \subseteq Open(s)
  BY DEF Open, Reopens, Exists
<1>2. Entering(s)' \subseteq Entering(s)
  BY DEF Entering
<1>3. QED
  BY <1>1, <1>2, ShrinkStep DEF LimitInv

(* The row of a trip is written by a request that counted it as open, or   *)
(* without making it active.                                               *)
LEMMA WriteLimit ==
  ASSUME LimitInv, NEW r \in Requests, NEW row, NEW t \in TripIds,
         trips' = [trips EXCEPT ![t] = row],
         Exists(t), row.supervisor = trips[t].supervisor,
         row.status \in ActiveStatus => trips[t].status \in ActiveStatus \/ Reopens(r, t),
         \A q \in Requests : job'[q] = job[q] \/ job'[q].pc \in NotifyPCs \cup {"idle"}
  PROVE  \A s \in Supervisors : Bounded(s)'
<1> SUFFICES ASSUME NEW s \in Supervisors PROVE Bounded(s)'
  OBVIOUS
<1>1. \A u \in TripIds : trips'[u] = IF u = t THEN row ELSE trips[u]
  BY DEF LimitInv, TypeInv, TypeOK
<1>2. \A q \in Requests, u \in TripIds : Reopens(q, u)' => Reopens(q, u)
  BY DEF Reopens, NotifyPCs
<1>3. Open(s)' \subseteq Open(s)
  BY <1>1, <1>2 DEF Open, Exists
<1>4. Entering(s)' \subseteq Entering(s)
  BY DEF Entering, NotifyPCs
<1>5. QED
  BY <1>3, <1>4, ShrinkStep DEF LimitInv

LEMMA LimitAccept ==
  ASSUME LimitInv, NEW r \in Requests, Accept(r)
  PROVE  \A s \in Supervisors : Bounded(s)'
<1> USE DEF tables
<1>1. ASSUME UNCHANGED trips, NEW j, job' = [job EXCEPT ![r] = j],
             j.pc \notin {"create.odometer", "create.insert"},
             j.pc \in {"start.driverFree", "start.write", "finish.write"} =>
               \A t \in TripIds : j.trip = t => trips[t].status \in ActiveStatus
      PROVE  \A s \in Supervisors : Bounded(s)'
  <2>1. \A q \in Requests : job'[q] = IF q = r THEN j ELSE job[q]
    BY <1>1 DEF LimitInv, TypeInv, TypeOK
  <2>2. QED
    BY <1>1, <2>1, QuietLimit DEF Reopens
<1>2. ASSUME NEW rt, NEW km, NEW d, NEW v, NEW s, UNCHANGED trips, BeginCreate(r, rt, km, d, v, s)
      PROVE  \A other \in Supervisors : Bounded(other)'
  BY <1>1, <1>2 DEF BeginCreate, Idle
<1>3. ASSUME NEW t \in TripIds, NEW d, NEW v, UpdateTrip(r, t, d, v)
      PROVE  \A s \in Supervisors : Bounded(s)'
  BY <1>1, <1>3 DEF UpdateTrip, Begin, Idle
<1>4. ASSUME NEW t \in TripIds, NEW caller, StartTrip(r, t, caller)
      PROVE  \A s \in Supervisors : Bounded(s)'
  BY <1>1, <1>4 DEF StartTrip, CanTransitionTo, Begin, Idle, ActiveStatus
<1>5. ASSUME NEW t \in TripIds, NEW caller, FinishTrip(r, t, caller)
      PROVE  \A s \in Supervisors : Bounded(s)'
  BY <1>1, <1>5 DEF FinishTrip, Begin, Idle, ActiveStatus
<1>6. ASSUME NEW t \in TripIds, NEW km, NEW comment, ReviewTrip(r, t, km, comment)
      PROVE  \A s \in Supervisors : Bounded(s)'
  BY <1>1, <1>6 DEF ReviewTrip, Idle
<1>7. ASSUME NEW rt, NEW km, UNCHANGED trips,
             BeginRoute(r, "route.update", rt, km) \/ BeginRoute(r, "route.delete", rt, km)
      PROVE  \A s \in Supervisors : Bounded(s)'
  BY <1>1, <1>7 DEF BeginRoute, Idle
<1>8. ASSUME NEW rt, NEW km, CreateRoute(r, rt, km) PROVE \A s \in Supervisors : Bounded(s)'
  BY <1>8, QuietLimit DEF CreateRoute
<1>9. QED
  BY <1>2, <1>3, <1>4, <1>5, <1>6, <1>7, <1>8
     DEF Accept, CreateTrip, CreateTripAndRoute, UpdateRoute, DeleteRoute

LEMMA LimitQuietServe ==
  ASSUME LimitInv, NEW r \in Requests,
         \/ CheckDriverLimit(r) \/ CheckDriverFree(r) \/ CheckVehicleFree(r) \/ CheckNoOtherEnRuta(r)
         \/ NotifyDriverOnRoute(r) \/ NotifyVehicleOnRoute(r) \/ LoseStartNotification(r)
         \/ FreeDriver(r) \/ FreeVehicle(r) \/ LoseRelease(r) \/ WriteRoute(r) \/ Reject(r)
  PROVE  \A s \in Supervisors : Bounded(s)'
<1>1. UNCHANGED trips
  BY DEF CheckDriverLimit, CheckDriverFree, CheckVehicleFree, CheckNoOtherEnRuta, Check,
         NotifyDriverOnRoute, NotifyVehicleOnRoute, LoseStartNotification, FreeDriver, FreeVehicle,
         LoseRelease, WriteRoute, Reject, tables
<1>2. CASE Done(r)
  BY <1>1, <1>2, QuietLimit DEF Done, Idle, LimitInv, TypeInv, TypeOK, Reopens
<1>3. ASSUME NEW pc, Goto(r, pc), pc \notin {"create.odometer", "create.insert", "start.write"},
             pc \notin {"start.driverFree", "finish.write"}
      PROVE  \A s \in Supervisors : Bounded(s)'
  <2>1. \A q \in Requests : job'[q] = IF q = r THEN [job[r] EXCEPT !.pc = pc] ELSE job[q]
    BY <1>3 DEF Goto, LimitInv, TypeInv, TypeOK
  <2>2. job'[r].pc = pc
    BY <2>1 DEF LimitInv, TypeInv, TypeOK, Job
  <2>3. QED
    BY <1>1, <1>3, <2>1, <2>2, QuietLimit DEF Reopens
<1>4. CASE job[r].pc = "start.driverFree" /\ Goto(r, "start.write")
  <2>1. job'[r].pc = "start.write" /\ job'[r].trip = job[r].trip
    BY <1>4 DEF Goto, LimitInv, TypeInv, TypeOK, Job
  <2>2. \A q \in Requests \ {r} : job'[q] = job[q]
    BY <1>4 DEF Goto, LimitInv, TypeInv, TypeOK
  <2>3. QED
    BY <1>1, <1>4, <2>1, <2>2, QuietLimit DEF Reopens
<1>5. QED
  BY <1>2, <1>3, <1>4
     DEF CheckDriverLimit, CheckDriverFree, CheckVehicleFree, CheckNoOtherEnRuta, Check,
         NotifyDriverOnRoute, NotifyVehicleOnRoute, LoseStartNotification, FreeDriver, FreeVehicle,
         LoseRelease, WriteRoute, Reject

LEMMA LimitCreate ==
  ASSUME LimitInv, NEW r \in Requests,
         CheckSupervisorLimit(r) \/ ReadOdometer(r) \/ InsertTrip(r)
  PROVE  \A s \in Supervisors : Bounded(s)'
<1> SUFFICES ASSUME NEW s \in Supervisors PROVE Bounded(s)'
  OBVIOUS
<1>1. Bounded(s)
  BY DEF LimitInv
<1>2. ASSUME UNCHANGED trips,
             \A q \in Requests \ {r} : job'[q] = job[q],
             job'[r].pc \in {"create.odometer", "create.insert", "idle"},
             job'[r].supervisor = job[r].supervisor \/ job'[r].pc = "idle"
      PROVE  /\ Open(s)' \subseteq Open(s)
             /\ Entering(s)' \subseteq Entering(s) \cup (IF job[r].supervisor = s THEN {r} ELSE {})
  <2>1. \A q \in Requests, t \in TripIds : Reopens(q, t)' => Reopens(q, t)
    BY <1>2 DEF Reopens
  <2>2. Open(s)' \subseteq Open(s)
    BY <1>2, <2>1 DEF Open, Exists
  <2>3. QED
    BY <1>2, <2>2 DEF Entering
<1>3. CASE CheckSupervisorLimit(r)
  <2>1. job[r].pc = "create.supervisorLimit" /\ UNCHANGED trips
    BY <1>3 DEF CheckSupervisorLimit, Check, tables
  <2>2. \A q \in Requests \ {r} : job'[q] = job[q]
    BY <1>3 DEF CheckSupervisorLimit, Check, Goto, Done, LimitInv, TypeInv, TypeOK
  <2>3. CASE Cardinality(ActiveTripsBySupervisor(job[r].supervisor)) < MaxActive
    <3>1. Goto(r, "create.odometer")
      BY <1>3, <2>3 DEF CheckSupervisorLimit, Check
    <3>2. job'[r].pc = "create.odometer" /\ job'[r].supervisor = job[r].supervisor
      BY <3>1 DEF Goto, LimitInv, TypeInv, TypeOK, Job
    <3>3. CASE job[r].supervisor = s
      BY <1>2, <2>1, <2>2, <2>3, <3>2, <3>3, PassStep
    <3>4. CASE job[r].supervisor # s
      BY <1>1, <1>2, <2>1, <2>2, <3>2, <3>4, ShrinkStep
    <3>5. QED
      BY <3>3, <3>4
  <2>4. CASE ~(Cardinality(ActiveTripsBySupervisor(job[r].supervisor)) < MaxActive)
    <3>1. Done(r)
      BY <1>3, <2>4 DEF CheckSupervisorLimit, Check
    <3>2. job'[r].pc = "idle"
      BY <3>1 DEF Done, Idle, LimitInv, TypeInv, TypeOK
    <3>3. Entering(s)' \subseteq Entering(s)
      BY <2>2, <3>2 DEF Entering
    <3>4. QED
      BY <1>1, <1>2, <2>1, <2>2, <3>2, <3>3, ShrinkStep
  <2>5. QED
    BY <2>3, <2>4
<1>4. CASE ReadOdometer(r)
  <2>1. job[r].pc = "create.odometer" /\ UNCHANGED trips
    BY <1>4 DEF ReadOdometer, tables
  <2>2. \A q \in Requests \ {r} : job'[q] = job[q]
    BY <1>4 DEF ReadOdometer, LimitInv, TypeInv, TypeOK
  <2>3. job'[r].pc = "create.insert" /\ job'[r].supervisor = job[r].supervisor
    BY <1>4 DEF ReadOdometer, LimitInv, TypeInv, TypeOK, Job
  <2>4. Entering(s)' \subseteq Entering(s)
    BY <2>1, <2>2, <2>3 DEF Entering
  <2>5. QED
    BY <1>1, <1>2, <2>1, <2>2, <2>3, <2>4, ShrinkStep
<1>5. CASE InsertTrip(r)
  <2>1. job[r].pc = "create.insert" /\ job'[r].pc = "idle"
    BY <1>5 DEF InsertTrip, Done, Idle, LimitInv, TypeInv, TypeOK
  <2>2. \A q \in Requests \ {r} : job'[q] = job[q]
    BY <1>5 DEF InsertTrip, Done, LimitInv, TypeInv, TypeOK
  <2>3. Entering(s)' \subseteq Entering(s) \ {r}
    BY <2>1, <2>2 DEF Entering
  <2>4. \A q \in Requests, t \in TripIds : Reopens(q, t)' => Reopens(q, t)
    BY <2>1, <2>2 DEF Reopens
  <2>5. CASE UNCHANGED trips
    BY <1>1, <1>2, <2>1, <2>2, <2>3, <2>5, ShrinkStep
  <2>6. ASSUME NEW t \in TripIds, trips' = [trips EXCEPT ![t] = NewTrip(job[r])]
        PROVE  Bounded(s)'
    <3>1. \A u \in TripIds : trips'[u] = IF u = t THEN NewTrip(job[r]) ELSE trips[u]
      BY <2>6 DEF LimitInv, TypeInv, TypeOK
    <3>2. NewTrip(job[r]).supervisor = job[r].supervisor
      BY DEF NewTrip, NoTrip
    <3>3. CASE job[r].supervisor = s
      <4>1. Open(s)' \subseteq Open(s) \cup {t}
        BY <2>4, <3>1 DEF Open, Exists
      <4>2. r \in Entering(s)
        BY <2>1, <3>3 DEF Entering
      <4>3. QED
        BY <1>1, <2>3, <4>1, <4>2, TradeStep
    <3>4. CASE job[r].supervisor # s
      <4>1. Open(s)' \subseteq Open(s)
        BY <2>4, <3>1, <3>2, <3>4 DEF Open, Exists
      <4>2. QED
        BY <1>1, <2>3, <4>1, ShrinkStep
    <3>5. QED
      BY <3>3, <3>4
  <2>7. QED
    BY <1>5, <2>5, <2>6 DEF InsertTrip
<1>6. QED
  BY <1>3, <1>4, <1>5

LEMMA LimitWrite ==
  ASSUME LimitInv, NEW r \in Requests,
         WriteUpdate(r) \/ WriteStart(r) \/ WriteFinish(r) \/ WriteReview(r)
  PROVE  \A s \in Supervisors : Bounded(s)'
<1> DEFINE t == job[r].trip
<1>1. t \in TripIds /\ trips[t] \in Trip
  BY DEF WriteUpdate, WriteStart, WriteFinish, WriteReview, TripWritePCs,
         LimitInv, TypeInv, TypeOK, TripArgs
<1>2. \A q \in Requests : job'[q] = job[q] \/ job'[q].pc \in NotifyPCs \cup {"idle"}
  <2>1. CASE Done(r)
    BY <2>1 DEF Done, Idle, LimitInv, TypeInv, TypeOK
  <2>2. ASSUME NEW pc \in NotifyPCs, Goto(r, pc)
        PROVE  \A q \in Requests : job'[q] = job[q] \/ job'[q].pc \in NotifyPCs
    <3>1. job'[r].pc = pc
      BY <2>2 DEF Goto, LimitInv, TypeInv, TypeOK, Job
    <3>2. \A q \in Requests \ {r} : job'[q] = job[q]
      BY <2>2 DEF Goto, LimitInv, TypeInv, TypeOK
    <3>3. QED
      BY <3>1, <3>2
  <2>3. QED
    BY <2>1, <2>2 DEF WriteUpdate, WriteStart, WriteFinish, WriteReview, UpdateRow, NotifyPCs
<1>3. CASE ~Exists(t)
  <2>1. UNCHANGED trips
    BY <1>3 DEF WriteUpdate, WriteStart, WriteFinish, WriteReview, UpdateRow
  <2>2. \A q \in Requests : job'[q] = job[q]
             \/ /\ job'[q].pc \notin {"create.odometer", "create.insert"}
                /\ \A u \in TripIds : ~Reopens(q, u)'
    BY <1>2 DEF NotifyPCs, Reopens
  <2>3. QED
    BY <2>1, <2>2, QuietLimit
<1>4. ASSUME Exists(t), NEW row, trips' = [trips EXCEPT ![t] = row],
             row.supervisor = trips[t].supervisor,
             row.status \in ActiveStatus => trips[t].status \in ActiveStatus \/ Reopens(r, t)
      PROVE  \A s \in Supervisors : Bounded(s)'
  BY <1>1, <1>2, <1>4, WriteLimit
<1>5. CASE Exists(t) /\ WriteUpdate(r)
  <2> DEFINE new == [trips[t] EXCEPT !.driver  = Given(job[r].driver, trips[t].driver),
                                     !.vehicle = Given(job[r].vehicle, trips[t].vehicle)]
  <2>1. new.supervisor = trips[t].supervisor /\ new.status = trips[t].status
    BY <1>1 DEF Trip
  <2>2. trips' = [trips EXCEPT ![t] = new]
    BY <1>5 DEF WriteUpdate, UpdateRow
  <2> HIDE DEF new
  <2>3. QED
    BY <1>4, <1>5, <2>1, <2>2
<1>6. CASE Exists(t) /\ WriteStart(r)
  <2> DEFINE new == [trips[t] EXCEPT !.status = "EN_RUTA"]
  <2>1. new.supervisor = trips[t].supervisor
    BY <1>1 DEF Trip
  <2>2. trips' = [trips EXCEPT ![t] = new] /\ Reopens(r, t)
    BY <1>6 DEF WriteStart, UpdateRow, Reopens
  <2> HIDE DEF new
  <2>3. QED
    BY <1>4, <1>6, <2>1, <2>2
<1>7. CASE Exists(t) /\ WriteFinish(r)
  <2> DEFINE new == [trips[t] EXCEPT !.status = "EN_REVISION"]
  <2>1. new.supervisor = trips[t].supervisor
    BY <1>1 DEF Trip
  <2>2. trips' = [trips EXCEPT ![t] = new] /\ Reopens(r, t)
    BY <1>7 DEF WriteFinish, UpdateRow, Reopens
  <2> HIDE DEF new
  <2>3. QED
    BY <1>4, <1>7, <2>1, <2>2
<1>8. CASE Exists(t) /\ WriteReview(r)
  <2> DEFINE new == [trips[t] EXCEPT !.status = "TERMINADO",
                                     !.odometerEnd = ReadingColumn(job[r].odometer),
                                     !.distanceReal = DistanceColumn(job[r].distance),
                                     !.reviewComment = job[r].comment]
  <2>1. new.supervisor = trips[t].supervisor /\ new.status \notin ActiveStatus
    BY <1>1 DEF Trip, ActiveStatus
  <2>2. trips' = [trips EXCEPT ![t] = new]
    BY <1>8 DEF WriteReview, UpdateRow
  <2> HIDE DEF new
  <2>3. QED
    BY <1>4, <1>8, <2>1, <2>2
<1>9. QED
  BY <1>3, <1>5, <1>6, <1>7, <1>8

LEMMA LimitErase ==
  ASSUME LimitInv, NEW r \in Requests, EraseRoute(r)
  PROVE  \A s \in Supervisors : Bounded(s)'
<1> SUFFICES ASSUME NEW s \in Supervisors PROVE Bounded(s)'
  OBVIOUS
<1>1. \A q \in Requests : job'[q] = job[q] \/ job'[q].pc = "idle"
  BY DEF EraseRoute, Done, Idle, LimitInv, TypeInv, TypeOK
<1>2. \A t \in TripIds : trips'[t] = trips[t] \/ trips'[t].status = "deleted"
  BY DEF EraseRoute, NoTrip
<1>3. \A q \in Requests, t \in TripIds : Reopens(q, t)' => Reopens(q, t)
  BY <1>1 DEF Reopens
<1>4. Open(s)' \subseteq Open(s)
  BY <1>2, <1>3 DEF Open, Exists, TripStatus
<1>5. Entering(s)' \subseteq Entering(s)
  BY <1>1 DEF Entering
<1>6. QED
  BY <1>4, <1>5, ShrinkStep DEF LimitInv

-----------------------------------------------------------------------------

LEMMA LimitInit == Init => LimitInv
<1> SUFFICES ASSUME Init, NEW s \in Supervisors PROVE Bounded(s)
  BY TypeInit DEF LimitInv
<1>1. Open(s) = {} /\ Entering(s) = {}
  BY DEF Init, Open, Entering, Exists, TripStatus, NoTrip, Idle
<1>2. Cardinality(Open(s)) = 0 /\ Cardinality(Entering(s)) = 0
  BY <1>1, FS_EmptySet
<1>3. QED
  BY <1>2, ConstantsInNat DEF Bounded

LEMMA LimitStep == LimitInv /\ [Next]_vars => LimitInv'
<1> SUFFICES ASSUME LimitInv, [Next]_vars PROVE \A s \in Supervisors : Bounded(s)'
  BY TypeStep DEF LimitInv
<1>1. ASSUME NEW r \in Requests, Serve(r) PROVE \A s \in Supervisors : Bounded(s)'
  BY <1>1, LimitQuietServe, LimitCreate, LimitWrite, LimitErase DEF Serve
<1>2. CASE UNCHANGED <<trips, job>>
  BY <1>2, QuietLimit
<1>3. CASE Crash
  <2>1. \A q \in Requests : job'[q].pc = "idle"
    BY <1>3 DEF Crash, Idle
  <2>2. QED
    BY <1>3, <2>1, QuietLimit DEF Crash, tables, Reopens
<1>4. QED
  BY <1>1, <1>2, <1>3, LimitAccept DEF Next, AdvanceOdometer, vars, tables

(* However many requests createTrip, startTrip, finishTrip and reviewTrip  *)
(* are serving at once, a supervisor's active trips pass the limit by no   *)
(* more than one for each other request.                                   *)
THEOREM SupervisorBounded == Spec => []SupervisorBound
<1>1. LimitInv => SupervisorBound
  <2> SUFFICES ASSUME LimitInv, NEW s \in Supervisors
               PROVE  Cardinality(ActiveTripsBySupervisor(s)) =< MaxActive - 1 + Cardinality(Requests)
    BY DEF SupervisorBound
  <2>1. /\ IsFiniteSet(Open(s)) /\ Cardinality(Open(s)) \in Nat
        /\ Cardinality(Entering(s)) \in Nat
    BY Finite DEF Open, Entering
  <2>2. Cardinality(ActiveTripsBySupervisor(s)) =< Cardinality(Open(s))
        /\ Cardinality(ActiveTripsBySupervisor(s)) \in Nat
    BY <2>1, ActiveIsOpen, FS_Subset, FS_CardinalityType
  <2>3. Bounded(s)
    BY DEF LimitInv
  <2>4. QED
    BY <2>1, <2>2, <2>3, ConstantsInNat DEF Bounded
<1>2. QED
  BY LimitInit, LimitStep, <1>1, PTL DEF Spec

-----------------------------------------------------------------------------
(* Requests served one at a time: what a handler read is still true when   *)
(* it writes.                                                              *)
(* What the handler in slot r has read and relies on. *)
Snapshot(r) ==
  LET j == job[r]
  IN  /\ j.pc \in CreatePCs =>
           routes[j.route].state = "live" /\ routes[j.route].distance = j.distance
      /\ j.pc \in {"update.write", "start.driverFree", "start.write"} =>
           trips[j.trip].status = "CREADO"
      /\ j.pc \in {"start.driverFree", "start.write"} => trips[j.trip].driver = j.driver
      /\ j.pc = "start.write" => EnRutaTripsByDriver(j.driver) = {}
      /\ j.pc = "finish.write" => trips[j.trip].status = "EN_RUTA"
      /\ j.pc = "review.write" => trips[j.trip].status = "EN_REVISION"
      /\ j.pc \in RoutePCs => ~HasTrips(j.route)

(* The row of a trip names a route. *)
OnARoute == \A t \in TripIds : Exists(t) => trips[t].route \in RouteIds

SerialInv ==
  /\ TypeInv
  /\ OnARoute
  /\ \A r \in Requests : Snapshot(r)
  /\ EnRutaExclusive
  /\ PlannedMatchesRoute

Statuses == [t \in TripIds |-> trips[t].status]

-----------------------------------------------------------------------------
(* Steps that touch neither table. *)

LEMMA QuietStep ==
  ASSUME SerialInv, TypeInv', UNCHANGED tables, \A r \in Requests : Snapshot(r)'
  PROVE  SerialInv' /\ UNCHANGED Statuses
BY DEF SerialInv, OnARoute, EnRutaExclusive, EnRutaTripsByDriver, PlannedMatchesRoute, Exists, Statuses, tables

LEMMA IdleSnapshot ==
  ASSUME NEW r \in Requests, TypeInv,
         Done(r) \/ \E pc \in NotifyPCs : Goto(r, pc)
  PROVE  Snapshot(r)'
<1>1. CASE Done(r)
  <2>1. job'[r].pc = "idle"
    BY <1>1 DEF Done, Idle, TypeInv, TypeOK
  <2>2. QED
    BY <2>1 DEF Snapshot, CreatePCs, RoutePCs
<1>2. CASE \E pc \in NotifyPCs : Goto(r, pc)
  <2>1. job'[r].pc \in NotifyPCs
    BY <1>2 DEF Goto, TypeInv, TypeOK, Job
  <2>2. QED
    BY <2>1 DEF Snapshot, CreatePCs, RoutePCs, NotifyPCs
<1>3. QED
  BY <1>1, <1>2

LEMMA QuietServe ==
  ASSUME NEW slot, Requests = {slot}, SerialInv, TypeInv',
         \/ CheckDriverLimit(slot) \/ CheckDriverFree(slot) \/ CheckVehicleFree(slot)
         \/ CheckSupervisorLimit(slot) \/ ReadOdometer(slot) \/ CheckNoOtherEnRuta(slot)
         \/ NotifyDriverOnRoute(slot) \/ NotifyVehicleOnRoute(slot) \/ LoseStartNotification(slot)
         \/ FreeDriver(slot) \/ FreeVehicle(slot) \/ LoseRelease(slot) \/ Reject(slot)
  PROVE  SerialInv' /\ UNCHANGED Statuses
<1>1. slot \in Requests /\ TypeInv /\ Snapshot(slot)
  BY DEF SerialInv
<1>2. UNCHANGED tables
  BY DEF CheckDriverLimit, CheckDriverFree, CheckVehicleFree, CheckSupervisorLimit, ReadOdometer,
         CheckNoOtherEnRuta, Check, NotifyDriverOnRoute, NotifyVehicleOnRoute,
         LoseStartNotification, FreeDriver, FreeVehicle, LoseRelease, Reject, tables
<1>3. Snapshot(slot)'
  <2>1. ASSUME NEW pc \in CreatePCs, job[slot].pc \in CreatePCs, Goto(slot, pc) PROVE Snapshot(slot)'
    <3>1. job'[slot].pc = pc /\ job'[slot].route = job[slot].route
          /\ job'[slot].distance = job[slot].distance
      BY <1>1, <2>1 DEF Goto, TypeInv, TypeOK, Job
    <3>2. QED
      BY <1>1, <1>2, <2>1, <3>1 DEF Snapshot, CreatePCs, RoutePCs, tables
  <2>2. CASE CheckDriverLimit(slot) \/ CheckDriverFree(slot) \/ CheckVehicleFree(slot)
               \/ CheckSupervisorLimit(slot)
    BY <2>2, <2>1, <1>1, IdleSnapshot
       DEF CheckDriverLimit, CheckDriverFree, CheckVehicleFree, CheckSupervisorLimit, Check, CreatePCs
  <2>3. CASE ReadOdometer(slot)
    <3>1. job'[slot].pc = "create.insert" /\ job'[slot].route = job[slot].route
          /\ job'[slot].distance = job[slot].distance /\ job[slot].pc \in CreatePCs
      BY <1>1, <2>3 DEF ReadOdometer, TypeInv, TypeOK, Job, CreatePCs
    <3>2. QED
      BY <1>1, <1>2, <3>1 DEF Snapshot, CreatePCs, RoutePCs, tables
  <2>4. CASE CheckNoOtherEnRuta(slot)
    <3> DEFINE found == EnRutaTripsByDriver(job[slot].driver)
    <3>1. CASE Done(slot)
      BY <3>1, <1>1, IdleSnapshot
    <3>2. CASE Goto(slot, "start.write")
      <4>1. PICK answer \in IF found = {} THEN {None} ELSE found :
              Check(slot, "start.driverFree", answer \in {None, job[slot].trip}, "start.write")
        BY <2>4 DEF CheckNoOtherEnRuta
      <4>2. job[slot].pc = "start.driverFree"
        BY <4>1 DEF Check
      <4>3. job'[slot].pc = "start.write"
        BY <1>1, <3>2 DEF Goto, TypeInv, TypeOK, Job
      <4>4. answer \in {None, job[slot].trip}
        <5>1. SUFFICES ASSUME ~(answer \in {None, job[slot].trip}) PROVE FALSE
          OBVIOUS
        <5>2. job' = [job EXCEPT ![slot] = Idle]
          BY <4>1, <5>1 DEF Check, Done
        <5>3. QED
          BY <1>1, <4>3, <5>2 DEF Idle, TypeInv, TypeOK
      <4>5. found = {}
        BY <1>1, <4>1, <4>2, <4>4, ConstantsAssumption DEF Snapshot, EnRutaTripsByDriver
      <4>6. job'[slot].trip = job[slot].trip /\ job'[slot].driver = job[slot].driver
        BY <1>1, <3>2 DEF Goto, TypeInv, TypeOK, Job
      <4>7. QED
        BY <1>1, <1>2, <4>2, <4>3, <4>5, <4>6
           DEF Snapshot, CreatePCs, RoutePCs, EnRutaTripsByDriver, tables
    <3>3. QED
      BY <2>4, <3>1, <3>2 DEF CheckNoOtherEnRuta, Check
  <2>5. CASE NotifyDriverOnRoute(slot) \/ NotifyVehicleOnRoute(slot) \/ LoseStartNotification(slot)
               \/ FreeDriver(slot) \/ FreeVehicle(slot) \/ LoseRelease(slot) \/ Reject(slot)
    BY <2>5, <1>1, IdleSnapshot
       DEF NotifyDriverOnRoute, NotifyVehicleOnRoute, LoseStartNotification, FreeDriver, FreeVehicle,
           LoseRelease, Reject, NotifyPCs
  <2>6. QED
    BY <2>2, <2>3, <2>4, <2>5
<1>4. QED
  BY <1>2, <1>3, QuietStep

(* A request is accepted: what it has read is what the tables hold. *)
LEMMA SerialAccept ==
  ASSUME NEW slot, Requests = {slot}, SerialInv, TypeInv', Accept(slot)
  PROVE  SerialInv' /\ UNCHANGED Statuses
<1>1. slot \in Requests /\ TypeInv /\ Snapshot(slot)
  BY DEF SerialInv
<1>2. ASSUME NEW rt \in RouteIds, NEW km, routes[rt].state = "unused", UNCHANGED trips,
             routes' = [routes EXCEPT ![rt] = [state |-> "live", distance |-> km]],
             Snapshot(slot)'
      PROVE  SerialInv' /\ UNCHANGED Statuses
  BY <1>2 DEF SerialInv, OnARoute, TypeInv, TypeOK, EnRutaExclusive, EnRutaTripsByDriver,
              PlannedMatchesRoute, Exists, Statuses
<1>3. ASSUME NEW rt \in RouteIds, NEW d \in Drivers, NEW v \in Vehicles, NEW s \in Supervisors,
             CreateTrip(slot, rt, d, v, s)
      PROVE  SerialInv' /\ UNCHANGED Statuses
  <2>1. Snapshot(slot)'
    BY <1>1, <1>3 DEF CreateTrip, BeginCreate, Idle, Snapshot, TypeInv, TypeOK, CreatePCs, RoutePCs, tables
  <2>2. QED
    BY <1>3, <2>1, QuietStep DEF CreateTrip
<1>4. ASSUME NEW rt \in RouteIds, NEW km \in Distances, NEW d \in Drivers, NEW v \in Vehicles,
             NEW s \in Supervisors, CreateTripAndRoute(slot, rt, km, d, v, s)
      PROVE  SerialInv' /\ UNCHANGED Statuses
  <2>1. Snapshot(slot)'
    BY <1>1, <1>4 DEF CreateTripAndRoute, BeginCreate, Idle, Snapshot, TypeInv, TypeOK, CreatePCs, RoutePCs
  <2>2. QED
    BY <1>4, <2>1, <1>2 DEF CreateTripAndRoute
<1>5. ASSUME NEW t \in TripIds, NEW d \in Drivers \cup {None}, NEW v \in Vehicles \cup {None},
             UpdateTrip(slot, t, d, v)
      PROVE  SerialInv' /\ UNCHANGED Statuses
  <2>1. Snapshot(slot)'
    BY <1>1, <1>5 DEF UpdateTrip, Begin, Idle, Snapshot, TypeInv, TypeOK, CreatePCs, RoutePCs, tables
  <2>2. QED
    BY <1>5, <2>1, QuietStep DEF UpdateTrip
<1>6. ASSUME NEW t \in TripIds, NEW caller \in Drivers \cup {None}, StartTrip(slot, t, caller)
      PROVE  SerialInv' /\ UNCHANGED Statuses
  <2>1. Snapshot(slot)'
    BY <1>1, <1>6 DEF StartTrip, CanTransitionTo, Begin, Idle, Snapshot, TypeInv, TypeOK,
                      CreatePCs, RoutePCs, tables
  <2>2. QED
    BY <1>6, <2>1, QuietStep DEF StartTrip
<1>7. ASSUME NEW t \in TripIds, NEW caller \in Drivers \cup {None}, FinishTrip(slot, t, caller)
      PROVE  SerialInv' /\ UNCHANGED Statuses
  <2>1. Snapshot(slot)'
    BY <1>1, <1>7 DEF FinishTrip, Begin, Idle, Snapshot, TypeInv, TypeOK, CreatePCs, RoutePCs, tables
  <2>2. QED
    BY <1>7, <2>1, QuietStep DEF FinishTrip
<1>8. ASSUME NEW t \in TripIds, NEW km \in Readings, NEW comment \in BOOLEAN,
             ReviewTrip(slot, t, km, comment)
      PROVE  SerialInv' /\ UNCHANGED Statuses
  <2>1. Snapshot(slot)'
    BY <1>1, <1>8 DEF ReviewTrip, Idle, Snapshot, TypeInv, TypeOK, CreatePCs, RoutePCs, tables
  <2>2. QED
    BY <1>8, <2>1, QuietStep DEF ReviewTrip
<1>9. ASSUME NEW rt \in RouteIds, NEW km \in Distances, CreateRoute(slot, rt, km)
      PROVE  SerialInv' /\ UNCHANGED Statuses
  <2>1. Snapshot(slot)'
    BY <1>1, <1>9 DEF CreateRoute, Accepts, Snapshot, CreatePCs, RoutePCs
  <2>2. QED
    BY <1>9, <2>1, <1>2 DEF CreateRoute
<1>10. ASSUME NEW rt \in RouteIds, NEW km, UNCHANGED tables, ~HasTrips(rt),
              BeginRoute(slot, "route.update", rt, km) \/ BeginRoute(slot, "route.delete", rt, km)
       PROVE  SerialInv' /\ UNCHANGED Statuses
  <2>1. job'[slot].pc \in RoutePCs /\ job'[slot].route = rt
    BY <1>1, <1>10 DEF BeginRoute, Idle, TypeInv, TypeOK, RoutePCs
  <2>2. ~HasTrips(rt)'
    BY <1>10 DEF HasTrips, Exists, tables
  <2>3. Snapshot(slot)'
    BY <2>1, <2>2 DEF Snapshot, CreatePCs, RoutePCs
  <2>4. QED
    BY <1>10, <2>3, QuietStep
<1>11. QED
  BY <1>3, <1>4, <1>5, <1>6, <1>7, <1>8, <1>9, <1>10 DEF Accept, UpdateRoute, DeleteRoute

-----------------------------------------------------------------------------
(* Steps that write a table. *)

(* The four writes of an existing trip: one row changes, neither its route *)
(* nor its planned distance does.                                          *)
LEMMA SerialRewrite ==
  ASSUME NEW slot, Requests = {slot}, SerialInv, TypeInv', Snapshot(slot)',
         NEW t \in TripIds, Exists(t), NEW row \in Trip,
         trips' = [trips EXCEPT ![t] = row], UNCHANGED routes,
         row.status \in TripStatus, row.route = trips[t].route,
         row.distancePlanned = trips[t].distancePlanned,
         row.status = "EN_RUTA" => EnRutaTripsByDriver(row.driver) = {}
  PROVE  SerialInv' /\ Statuses' = [Statuses EXCEPT ![t] = row.status]
<1>1. \A u \in TripIds : trips'[u] = IF u = t THEN row ELSE trips[u]
  BY DEF SerialInv, TypeInv, TypeOK
<1>2. EnRutaExclusive'
  BY <1>1 DEF SerialInv, EnRutaExclusive, EnRutaTripsByDriver
<1>3. PlannedMatchesRoute' /\ OnARoute'
  BY <1>1 DEF SerialInv, OnARoute, PlannedMatchesRoute, Exists
<1>4. Statuses' = [Statuses EXCEPT ![t] = row.status]
  <2>1. Statuses' = [u \in TripIds |-> IF u = t THEN row.status ELSE trips[u].status]
    BY <1>1 DEF Statuses
  <2>2. [Statuses EXCEPT ![t] = row.status]
          = [u \in TripIds |-> IF u = t THEN row.status ELSE trips[u].status]
    BY DEF Statuses
  <2>3. QED
    BY <2>1, <2>2
<1>5. QED
  BY <1>2, <1>3, <1>4 DEF SerialInv

LifecycleStep == \E t \in TripIds :
  \/ Statuses[t] = "unused" /\ Statuses' = [Statuses EXCEPT ![t] = "CREADO"]
  \/ \E to \in TripStatus : CanTransitionTo(Statuses[t], to) /\ Statuses' = [Statuses EXCEPT ![t] = to]

LEMMA SerialWrite ==
  ASSUME NEW slot, Requests = {slot}, SerialInv, TypeInv',
         WriteUpdate(slot) \/ WriteStart(slot) \/ WriteFinish(slot) \/ WriteReview(slot)
  PROVE  SerialInv' /\ (LifecycleStep \/ UNCHANGED Statuses)
<1> DEFINE t == job[slot].trip
<1>1. slot \in Requests /\ TypeInv /\ Snapshot(slot)
  BY DEF SerialInv
<1>2. t \in TripIds /\ trips[t] \in Trip /\ Exists(t) /\ Statuses[t] = trips[t].status
  BY <1>1 DEF TypeInv, TypeOK, TripArgs, TripWritePCs, Snapshot, Exists, TripStatus, Statuses,
              WriteUpdate, WriteStart, WriteFinish, WriteReview
<1>3. Snapshot(slot)'
  BY <1>1, <1>2, IdleSnapshot DEF WriteUpdate, WriteStart, WriteFinish, WriteReview, UpdateRow, NotifyPCs
<1>4. CASE WriteUpdate(slot)
  <2> DEFINE new == [trips[t] EXCEPT !.driver  = Given(job[slot].driver, trips[t].driver),
                                     !.vehicle = Given(job[slot].vehicle, trips[t].vehicle)]
  <2>1. trips' = [trips EXCEPT ![t] = new] /\ UNCHANGED routes
    BY <1>2, <1>4 DEF WriteUpdate, UpdateRow
  <2>2. /\ new.status = "CREADO" /\ new.route = trips[t].route
        /\ new.distancePlanned = trips[t].distancePlanned
    BY <1>1, <1>2, <1>4 DEF Trip, WriteUpdate, Snapshot
  <2>3. new = trips'[t] /\ trips' \in [TripIds -> Trip]
    BY <1>1, <1>2, <2>1 DEF TypeInv, TypeOK
  <2> HIDE DEF new
  <2>4. SerialInv' /\ Statuses' = [Statuses EXCEPT ![t] = new.status]
    BY <1>2, <1>3, <2>1, <2>2, <2>3, SerialRewrite DEF TripStatus
  <2>5. UNCHANGED Statuses
    BY <1>1, <1>2, <1>4, <2>2, <2>4 DEF Statuses, WriteUpdate, Snapshot
  <2>6. QED
    BY <2>4, <2>5
<1>5. CASE WriteStart(slot)
  <2> DEFINE new == [trips[t] EXCEPT !.status = "EN_RUTA"]
  <2>1. trips' = [trips EXCEPT ![t] = new] /\ UNCHANGED routes
    BY <1>2, <1>5 DEF WriteStart, UpdateRow
  <2>2. /\ new.status = "EN_RUTA" /\ new.route = trips[t].route /\ new.driver = trips[t].driver
        /\ new.distancePlanned = trips[t].distancePlanned
    BY <1>2 DEF Trip
  <2>3. new = trips'[t] /\ trips' \in [TripIds -> Trip]
    BY <1>1, <1>2, <2>1 DEF TypeInv, TypeOK
  <2> HIDE DEF new
  <2>4. trips[t].status = "CREADO" /\ EnRutaTripsByDriver(trips[t].driver) = {}
    BY <1>1, <1>5 DEF WriteStart, Snapshot
  <2>5. SerialInv' /\ Statuses' = [Statuses EXCEPT ![t] = new.status]
    BY <1>2, <1>3, <2>1, <2>2, <2>3, <2>4, SerialRewrite DEF TripStatus
  <2>6. QED
    BY <1>2, <2>2, <2>4, <2>5 DEF LifecycleStep, CanTransitionTo, TripStatus
<1>6. CASE WriteFinish(slot)
  <2> DEFINE new == [trips[t] EXCEPT !.status = "EN_REVISION"]
  <2>1. trips' = [trips EXCEPT ![t] = new] /\ UNCHANGED routes
    BY <1>2, <1>6 DEF WriteFinish, UpdateRow
  <2>2. /\ new.status = "EN_REVISION" /\ new.route = trips[t].route
        /\ new.distancePlanned = trips[t].distancePlanned
    BY <1>2 DEF Trip
  <2>3. new = trips'[t] /\ trips' \in [TripIds -> Trip]
    BY <1>1, <1>2, <2>1 DEF TypeInv, TypeOK
  <2> HIDE DEF new
  <2>4. trips[t].status = "EN_RUTA"
    BY <1>1, <1>6 DEF WriteFinish, Snapshot
  <2>5. SerialInv' /\ Statuses' = [Statuses EXCEPT ![t] = new.status]
    BY <1>2, <1>3, <2>1, <2>2, <2>3, SerialRewrite DEF TripStatus
  <2>6. QED
    BY <1>2, <2>2, <2>4, <2>5 DEF LifecycleStep, CanTransitionTo, TripStatus
<1>7. CASE WriteReview(slot)
  <2> DEFINE new == [trips[t] EXCEPT !.status = "TERMINADO",
                                     !.odometerEnd = ReadingColumn(job[slot].odometer),
                                     !.distanceReal = DistanceColumn(job[slot].distance),
                                     !.reviewComment = job[slot].comment]
  <2>1. trips' = [trips EXCEPT ![t] = new] /\ UNCHANGED routes
    BY <1>2, <1>7 DEF WriteReview, UpdateRow
  <2>2. /\ new.status = "TERMINADO" /\ new.route = trips[t].route
        /\ new.distancePlanned = trips[t].distancePlanned
    BY <1>2 DEF Trip
  <2>3. new = trips'[t] /\ trips' \in [TripIds -> Trip]
    BY <1>1, <1>2, <2>1 DEF TypeInv, TypeOK
  <2> HIDE DEF new
  <2>4. trips[t].status = "EN_REVISION"
    BY <1>1, <1>7 DEF WriteReview, Snapshot
  <2>5. SerialInv' /\ Statuses' = [Statuses EXCEPT ![t] = new.status]
    BY <1>2, <1>3, <2>1, <2>2, <2>3, SerialRewrite DEF TripStatus
  <2>6. QED
    BY <1>2, <2>2, <2>4, <2>5 DEF LifecycleStep, CanTransitionTo, TripStatus
<1>8. QED
  BY <1>4, <1>5, <1>6, <1>7

LEMMA SerialInsert ==
  ASSUME NEW slot, Requests = {slot}, SerialInv, TypeInv', InsertTrip(slot)
  PROVE  SerialInv' /\ (LifecycleStep \/ UNCHANGED Statuses)
<1>1. slot \in Requests /\ TypeInv /\ Snapshot(slot)
  BY DEF SerialInv
<1>2. Snapshot(slot)'
  BY <1>1, IdleSnapshot DEF InsertTrip
<1>3. routes[job[slot].route].state = "live" /\ routes[job[slot].route].distance = job[slot].distance
  BY <1>1 DEF InsertTrip, Snapshot, CreatePCs
<1>4. PICK t \in TripIds : /\ trips[t].status = "unused"
                          /\ trips' = [trips EXCEPT ![t] = NewTrip(job[slot])]
  BY <1>3 DEF InsertTrip
<1> DEFINE new == NewTrip(job[slot])
<1>5. /\ new.status = "CREADO" /\ new.route = job[slot].route
      /\ new.distancePlanned = job[slot].distance
  BY DEF NewTrip, NoTrip
<1> HIDE DEF new
<1>6. \A u \in TripIds : trips'[u] = IF u = t THEN new ELSE trips[u]
  BY <1>1, <1>4 DEF TypeInv, TypeOK, new
<1>7. UNCHANGED routes
  BY DEF InsertTrip
<1>8. EnRutaExclusive'
  BY <1>5, <1>6 DEF SerialInv, EnRutaExclusive, EnRutaTripsByDriver
<1>9. PlannedMatchesRoute' /\ OnARoute'
  <2>1. job[slot].route \in RouteIds
    BY <1>1 DEF TypeInv, CreateArgs, CreatePCs, InsertTrip
  <2>2. QED
    BY <1>3, <1>5, <1>6, <1>7, <2>1 DEF SerialInv, OnARoute, PlannedMatchesRoute, Exists
<1>10. LifecycleStep
  <2>1. Statuses' = [u \in TripIds |-> IF u = t THEN "CREADO" ELSE trips[u].status]
    BY <1>5, <1>6 DEF Statuses
  <2>2. [Statuses EXCEPT ![t] = "CREADO"]
          = [u \in TripIds |-> IF u = t THEN "CREADO" ELSE trips[u].status]
    BY DEF Statuses
  <2>3. Statuses[t] = "unused"
    BY <1>4 DEF Statuses
  <2>4. QED
    BY <2>1, <2>2, <2>3 DEF LifecycleStep
<1>11. QED
  BY <1>2, <1>8, <1>9, <1>10 DEF SerialInv

(* No trip is on the route that is changed or deleted. *)
LEMMA SerialRoute ==
  ASSUME NEW slot, Requests = {slot}, SerialInv, TypeInv', WriteRoute(slot) \/ EraseRoute(slot)
  PROVE  SerialInv' /\ UNCHANGED Statuses
<1> DEFINE rt == job[slot].route
<1>1. slot \in Requests /\ TypeInv /\ Snapshot(slot)
  BY DEF SerialInv
<1>2. Snapshot(slot)'
  BY <1>1, IdleSnapshot DEF WriteRoute, EraseRoute
<1>3. \A t \in TripIds : Exists(t) => trips[t].route # rt
  BY <1>1 DEF WriteRoute, EraseRoute, Snapshot, RoutePCs, HasTrips
<1>4. UNCHANGED trips
  <2>1. CASE WriteRoute(slot)
    BY <2>1 DEF WriteRoute
  <2>2. CASE EraseRoute(slot)
    <3>1. trips' = [t \in TripIds |-> trips[t]]
      BY <1>3, <2>2 DEF EraseRoute
    <3>2. QED
      BY <1>1, <3>1 DEF TypeInv, TypeOK
  <2>3. QED
    BY <2>1, <2>2
<1>5. \A other \in RouteIds : other # rt => routes'[other] = routes[other]
  BY <1>1 DEF WriteRoute, EraseRoute, TypeInv, TypeOK
<1>6. PlannedMatchesRoute'
  <2> SUFFICES ASSUME NEW t \in TripIds, Exists(t)'
               PROVE  routes'[trips'[t].route].state = "live"
                      /\ routes'[trips'[t].route].distance = trips'[t].distancePlanned
    BY DEF PlannedMatchesRoute
  <2>1. Exists(t) /\ trips[t].route # rt
    BY <1>3, <1>4 DEF Exists
  <2>2. routes[trips[t].route].state = "live"
        /\ routes[trips[t].route].distance = trips[t].distancePlanned
    BY <2>1 DEF SerialInv, PlannedMatchesRoute
  <2>3. routes'[trips[t].route] = routes[trips[t].route]
    BY <1>5, <2>1 DEF SerialInv, OnARoute
  <2>4. QED
    BY <1>4, <2>2, <2>3
<1>7. EnRutaExclusive' /\ OnARoute' /\ UNCHANGED Statuses
  BY <1>4 DEF SerialInv, OnARoute, Exists, EnRutaExclusive, EnRutaTripsByDriver, Statuses
<1>8. QED
  BY <1>2, <1>6, <1>7 DEF SerialInv

-----------------------------------------------------------------------------

LEMMA SerialInit == Init => SerialInv
BY TypeInit DEF Init, SerialInv, OnARoute, Snapshot, Idle, CreatePCs, RoutePCs, EnRutaExclusive,
                EnRutaTripsByDriver, PlannedMatchesRoute, Exists, TripStatus, NoTrip

LEMMA SerialStep ==
  ASSUME NEW slot, Requests = {slot}, SerialInv, [Next]_vars
  PROVE  SerialInv' /\ (LifecycleStep \/ UNCHANGED Statuses)
<1>1. TypeInv'
  BY TypeStep DEF SerialInv
<1>2. CASE Accept(slot)
  BY <1>1, <1>2, SerialAccept
<1>3. CASE Serve(slot)
  BY <1>1, <1>3, QuietServe, SerialWrite, SerialInsert, SerialRoute DEF Serve
<1>4. ASSUME NEW v, NEW km, AdvanceOdometer(v, km) PROVE SerialInv' /\ UNCHANGED Statuses
  <2>1. \A r \in Requests : Snapshot(r)'
    BY <1>4 DEF AdvanceOdometer, SerialInv, Snapshot, EnRutaTripsByDriver, HasTrips, Exists, tables
  <2>2. QED
    BY <1>1, <1>4, <2>1, QuietStep DEF AdvanceOdometer
<1>5. CASE Crash
  <2>1. \A r \in Requests : Snapshot(r)'
    BY <1>5 DEF Crash, Idle, Snapshot, CreatePCs, RoutePCs
  <2>2. QED
    BY <1>1, <1>5, <2>1, QuietStep DEF Crash
<1>6. CASE UNCHANGED vars
  <2>1. \A r \in Requests : Snapshot(r)'
    BY <1>6 DEF vars, SerialInv, Snapshot, EnRutaTripsByDriver, HasTrips, Exists
  <2>2. QED
    BY <1>1, <1>6, <2>1, QuietStep DEF vars, tables
<1>7. QED
  BY <1>2, <1>3, <1>4, <1>5, <1>6 DEF Next

(* Served one at a time, requests never put a driver on two trips at once. *)
THEOREM SerialExclusive ==
  ASSUME NEW slot, Requests = {slot}
  PROVE  Spec => []EnRutaExclusive
<1>1. SerialInv /\ [Next]_vars => SerialInv'
  BY SerialStep
<1>2. SerialInv => EnRutaExclusive
  BY DEF SerialInv
<1>3. QED
  BY SerialInit, <1>1, <1>2, PTL DEF Spec

(* Served one at a time, no request changes or deletes the route of a trip *)
(* behind its back.                                                        *)
THEOREM SerialPlanned ==
  ASSUME NEW slot, Requests = {slot}
  PROVE  Spec => []PlannedMatchesRoute
<1>1. SerialInv /\ [Next]_vars => SerialInv'
  BY SerialStep
<1>2. SerialInv => PlannedMatchesRoute
  BY DEF SerialInv
<1>3. QED
  BY SerialInit, <1>1, <1>2, PTL DEF Spec

(* Served one at a time, the handlers implement the life of a trip of      *)
(* trip-status.vo.ts: every step is one arrow of it, or none.              *)
THEOREM SerialRefinement ==
  ASSUME NEW slot, Requests = {slot}
  PROVE  Spec => SerialLifecycle
<1>1. SerialInv /\ [Next]_vars => SerialInv'
  BY SerialStep
<1>2. Init => Lifecycle!Init
  <2> SUFFICES ASSUME Init PROVE Lifecycle!Init
    OBVIOUS
  <2>1. \A t \in TripIds : trips[t].status = "unused"
    BY DEF Init, NoTrip
  <2>2. QED
    BY <2>1 DEF Lifecycle!Init
<1>3. SerialInv /\ [Next]_vars => [Lifecycle!Next]_Statuses
  <2> SUFFICES ASSUME SerialInv, [Next]_vars PROVE [Lifecycle!Next]_Statuses
    OBVIOUS
  <2>1. LifecycleStep => Lifecycle!Next
    BY DEF LifecycleStep, Statuses, CanTransitionTo, TripStatus, Lifecycle!Next, Lifecycle!Create,
           Lifecycle!Advance, Lifecycle!CanTransitionTo, Lifecycle!TripStatus
  <2>2. QED
    BY <2>1, SerialStep
<1>4. QED
  BY SerialInit, <1>1, <1>2, <1>3, PTL DEF Spec, SerialLifecycle, Lifecycle!Spec, Statuses

-----------------------------------------------------------------------------
(* One request at a time and no call lost: what startTrip occupies is      *)
(* freed by the review of that trip.                                       *)

StartNotifyPCs == {"start.notify", "start.notifyDriver", "start.notifyVehicle"}

(* t has the driver and the vehicle the request read from it. *)
Names(r, t) == trips[t].driver = job[r].driver /\ trips[t].vehicle = job[r].vehicle

(* What a request knows of the driver and the vehicle it will occupy or    *)
(* free: they are still those of its trip, which startTrip has made        *)
(* unreviewed before it occupies them.                                     *)
Occupies(r) ==
  LET j == job[r]
  IN  /\ j.pc \in {"start.driverFree", "start.write", "review.write"} => Names(r, j.trip)
      /\ j.pc \in StartNotifyPCs =>
           \E t \in TripIds : Unreviewed(t) /\ Names(r, t)

DriverOut(d) == \E t \in TripIds : Unreviewed(t) /\ trips[t].driver = d
VehicleOut(v) == \E t \in TripIds : Unreviewed(t) /\ trips[t].vehicle = v

(* The request has reviewed the trip and is about to free d, or v. *)
DriverDue(d) == \E r \in Requests : job[r].pc = "review.freeDriver" /\ job[r].driver = d
VehicleDue(v) ==
  \E r \in Requests : job[r].pc \in {"review.freeDriver", "review.freeVehicle"} /\ job[r].vehicle = v

FleetInv ==
  /\ SerialInv
  /\ \A r \in Requests : Occupies(r)
  /\ \A d \in Drivers : availability[d] = "ON_ROUTE" => DriverOut(d) \/ DriverDue(d)
  /\ \A v \in Vehicles : unitStatus[v] = "ON_ROUTE" => VehicleOut(v) \/ VehicleDue(v)

LEMMA FleetInit == Init => FleetInv
<1>1. ASSUME Init PROVE FleetInv
  <2>1. \A r \in Requests : Occupies(r)
    BY <1>1 DEF Init, Occupies, Idle, StartNotifyPCs
  <2>2. QED
    BY <1>1, <2>1, SerialInit DEF FleetInv, Init
<1>2. QED
  BY <1>1

(* A step that frees and occupies nothing keeps the fleet accounted for if *)
(* the trips that are not reviewed stay so, with driver and vehicle.       *)
LEMMA FleetKept ==
  ASSUME NEW slot, Requests = {slot}, FleetInv, SerialInv', Occupies(slot)',
         UNCHANGED <<availability, unitStatus>>,
         job[slot].pc \notin {"review.freeDriver", "review.freeVehicle"},
         \A t \in TripIds : Unreviewed(t) =>
           /\ trips'[t].status \in {"EN_RUTA", "EN_REVISION"}
           /\ trips'[t].driver = trips[t].driver
           /\ trips'[t].vehicle = trips[t].vehicle
  PROVE  FleetInv'
<1>1. ASSUME NEW d \in Drivers, availability'[d] = "ON_ROUTE" PROVE DriverOut(d)'
  <2>1. DriverOut(d)
    BY <1>1 DEF FleetInv, DriverDue
  <2>2. QED
    BY <2>1 DEF DriverOut, Unreviewed
<1>2. ASSUME NEW v \in Vehicles, unitStatus'[v] = "ON_ROUTE" PROVE VehicleOut(v)'
  <2>1. VehicleOut(v)
    BY <1>2 DEF FleetInv, VehicleDue
  <2>2. QED
    BY <2>1 DEF VehicleOut, Unreviewed
<1>3. QED
  BY <1>1, <1>2 DEF FleetInv

LEMMA IdleOccupies ==
  ASSUME NEW r \in Requests, TypeInv, Done(r)
  PROVE  Occupies(r)' /\ job'[r].pc = "idle"
<1>1. job'[r].pc = "idle"
  BY DEF Done, Idle, TypeInv, TypeOK
<1>2. QED
  BY <1>1 DEF Occupies, StartNotifyPCs

LEMMA FleetAccept ==
  ASSUME NEW slot, Requests = {slot}, FleetInv, SerialInv', Accept(slot)
  PROVE  FleetInv'
<1>1. slot \in Requests /\ TypeInv
  BY DEF FleetInv, SerialInv
<1>2. /\ job[slot].pc = "idle"
      /\ UNCHANGED <<trips, fleet>>
  BY DEF Accept, Accepts, tables, CreateTrip, CreateTripAndRoute, UpdateTrip, StartTrip, FinishTrip,
         ReviewTrip, CreateRoute, UpdateRoute, DeleteRoute
<1>3. ASSUME job'[slot].pc \notin {"start.driverFree", "start.write", "review.write"} \cup StartNotifyPCs
      PROVE  Occupies(slot)'
  BY <1>3 DEF Occupies
<1>4. ASSUME NEW t \in TripIds, NEW caller \in Drivers \cup {None}, StartTrip(slot, t, caller)
      PROVE  Occupies(slot)'
  <2>1. /\ job'[slot].pc = "start.driverFree" /\ job'[slot].trip = t
        /\ job'[slot].driver = trips[t].driver /\ job'[slot].vehicle = trips[t].vehicle
    BY <1>1, <1>4 DEF StartTrip, Begin, Idle, TypeInv, TypeOK
  <2>2. QED
    BY <1>2, <2>1 DEF Occupies, Names, StartNotifyPCs
<1>5. ASSUME NEW t \in TripIds, NEW km \in Readings, NEW comment \in BOOLEAN,
             ReviewTrip(slot, t, km, comment)
      PROVE  Occupies(slot)'
  <2>1. /\ job'[slot].pc = "review.write" /\ job'[slot].trip = t
        /\ job'[slot].driver = trips[t].driver /\ job'[slot].vehicle = trips[t].vehicle
    BY <1>1, <1>5 DEF ReviewTrip, Idle, TypeInv, TypeOK
  <2>2. QED
    BY <1>2, <2>1 DEF Occupies, Names, StartNotifyPCs
<1>6. ASSUME NEW rt \in RouteIds, NEW d \in Drivers, NEW v \in Vehicles, NEW s \in Supervisors,
             \/ CreateTrip(slot, rt, d, v, s)
             \/ \E km \in Distances : CreateTripAndRoute(slot, rt, km, d, v, s)
      PROVE  Occupies(slot)'
  <2>1. job'[slot].pc = "create.driverLimit"
    BY <1>1, <1>6 DEF CreateTrip, CreateTripAndRoute, BeginCreate, Idle, TypeInv, TypeOK
  <2>2. QED
    BY <2>1, <1>3 DEF StartNotifyPCs
<1>7. ASSUME NEW t \in TripIds,
             \/ \E d \in Drivers \cup {None}, v \in Vehicles \cup {None} : UpdateTrip(slot, t, d, v)
             \/ \E caller \in Drivers \cup {None} : FinishTrip(slot, t, caller)
      PROVE  Occupies(slot)'
  <2>1. job'[slot].pc \in {"update.write", "finish.write"}
    BY <1>1, <1>7 DEF UpdateTrip, FinishTrip, Begin, Idle, TypeInv, TypeOK
  <2>2. QED
    BY <2>1, <1>3 DEF StartNotifyPCs
<1>8. ASSUME NEW rt \in RouteIds,
             \/ \E km \in Distances : CreateRoute(slot, rt, km)
             \/ \E km \in Distances \cup {0} : UpdateRoute(slot, rt, km)
             \/ DeleteRoute(slot, rt)
      PROVE  Occupies(slot)'
  <2>1. job'[slot].pc \in {"idle", "route.update", "route.delete"}
    BY <1>1, <1>2, <1>8 DEF CreateRoute, UpdateRoute, DeleteRoute, BeginRoute, Idle, TypeInv, TypeOK
  <2>2. QED
    BY <2>1, <1>3 DEF StartNotifyPCs
<1>9. Occupies(slot)'
  BY <1>4, <1>5, <1>6, <1>7, <1>8 DEF Accept
<1>10. QED
  BY <1>2, <1>9, FleetKept DEF fleet, Unreviewed

(* Steps that write neither a trip nor the fleet. *)
LEMMA FleetQuietServe ==
  ASSUME NEW slot, Requests = {slot}, FleetInv, SerialInv',
         \/ CheckDriverLimit(slot) \/ CheckDriverFree(slot) \/ CheckVehicleFree(slot)
         \/ CheckSupervisorLimit(slot) \/ ReadOdometer(slot) \/ CheckNoOtherEnRuta(slot)
         \/ WriteRoute(slot) \/ Reject(slot)
  PROVE  FleetInv'
<1>1. slot \in Requests /\ TypeInv /\ Occupies(slot)
  BY DEF FleetInv, SerialInv
<1>2. /\ UNCHANGED <<trips, fleet>>
      /\ job[slot].pc \notin {"review.freeDriver", "review.freeVehicle"}
  BY DEF CheckDriverLimit, CheckDriverFree, CheckVehicleFree, CheckSupervisorLimit, ReadOdometer,
         CheckNoOtherEnRuta, Check, WriteRoute, Reject, tables, CreatePCs, TripWritePCs, RoutePCs
<1>3. ASSUME NEW pc \in CreatePCs, Goto(slot, pc) PROVE Occupies(slot)'
  <2>1. job'[slot].pc = pc
    BY <1>1, <1>3 DEF Goto, TypeInv, TypeOK, Job
  <2>2. QED
    BY <2>1 DEF Occupies, CreatePCs, StartNotifyPCs
<1>4. ASSUME CheckNoOtherEnRuta(slot) PROVE Occupies(slot)'
  <2>1. CASE Goto(slot, "start.write")
    <3>1. job[slot].pc = "start.driverFree"
      BY <1>4 DEF CheckNoOtherEnRuta, Check
    <3>2. /\ job'[slot].pc = "start.write" /\ job'[slot].trip = job[slot].trip
          /\ job'[slot].driver = job[slot].driver /\ job'[slot].vehicle = job[slot].vehicle
      BY <1>1, <2>1 DEF Goto, TypeInv, TypeOK, Job
    <3>3. QED
      BY <1>1, <1>2, <3>1, <3>2 DEF Occupies, Names, StartNotifyPCs
  <2>2. CASE Done(slot)
    BY <1>1, <2>2, IdleOccupies
  <2>3. QED
    BY <1>4, <2>1, <2>2 DEF CheckNoOtherEnRuta, Check
<1>5. ASSUME ReadOdometer(slot) PROVE Occupies(slot)'
  <2>1. job'[slot].pc = "create.insert"
    BY <1>1, <1>5 DEF ReadOdometer, TypeInv, TypeOK, Job
  <2>2. QED
    BY <2>1 DEF Occupies, StartNotifyPCs
<1>6. Occupies(slot)'
  BY <1>1, <1>3, <1>4, <1>5, IdleOccupies
     DEF CheckDriverLimit, CheckDriverFree, CheckVehicleFree, CheckSupervisorLimit, Check,
         WriteRoute, Reject, CreatePCs
<1>7. QED
  BY <1>2, <1>6, FleetKept DEF fleet, Unreviewed

(* A trip that is not reviewed is neither written by an insertion, by      *)
(* updateTrip or by startTrip nor deleted; finishTrip leaves it so.        *)
LEMMA FleetTripWrites ==
  ASSUME NEW slot, Requests = {slot}, FleetInv, SerialInv',
         InsertTrip(slot) \/ WriteUpdate(slot) \/ WriteStart(slot) \/ WriteFinish(slot)
           \/ EraseRoute(slot)
  PROVE  FleetInv'
<1> DEFINE t == job[slot].trip
<1>1. slot \in Requests /\ TypeInv /\ Snapshot(slot) /\ Occupies(slot)
      /\ trips \in [TripIds -> Trip]
  BY DEF FleetInv, SerialInv, TypeInv, TypeOK
<1>2. /\ UNCHANGED <<availability, unitStatus>>
      /\ job[slot].pc \notin {"review.freeDriver", "review.freeVehicle"}
  BY DEF InsertTrip, WriteUpdate, WriteStart, WriteFinish, EraseRoute, UpdateRow, fleet
<1>3. CASE InsertTrip(slot)
  <2>1. Occupies(slot)'
    BY <1>1, <1>3, IdleOccupies DEF InsertTrip
  <2>2. \A u \in TripIds : Unreviewed(u) => trips'[u] = trips[u]
    BY <1>1, <1>3 DEF InsertTrip, Unreviewed
  <2>3. QED
    BY <1>2, <2>1, <2>2, FleetKept DEF Unreviewed
<1>4. CASE WriteUpdate(slot)
  <2>1. trips[t].status = "CREADO"
    BY <1>1, <1>4 DEF WriteUpdate, Snapshot
  <2>2. Occupies(slot)'
    BY <1>1, <1>4, IdleOccupies DEF WriteUpdate, UpdateRow
  <2>3. \A u \in TripIds : Unreviewed(u) => trips'[u] = trips[u]
    BY <1>1, <1>4, <2>1 DEF WriteUpdate, UpdateRow, Unreviewed
  <2>4. QED
    BY <1>2, <2>2, <2>3, FleetKept DEF Unreviewed
<1>5. CASE WriteStart(slot)
  <2>1. /\ trips[t].status = "CREADO" /\ t \in TripIds /\ Names(slot, t)
    BY <1>1, <1>5 DEF WriteStart, Snapshot, TypeInv, TripArgs, TripWritePCs, Occupies
  <2>2. trips' = [trips EXCEPT ![t] = [trips[t] EXCEPT !.status = "EN_RUTA"]]
        /\ Goto(slot, "start.notify")
    BY <1>5, <2>1 DEF WriteStart, UpdateRow, Exists, TripStatus
  <2>3. \A u \in TripIds : Unreviewed(u) => trips'[u] = trips[u]
    BY <1>1, <2>1, <2>2 DEF Unreviewed
  <2>4. Occupies(slot)'
    <3>1. PICK u \in TripIds : u = t
      BY <2>1
    <3>2. trips'[u].status = "EN_RUTA" /\ trips'[u].driver = trips[u].driver
          /\ trips'[u].vehicle = trips[u].vehicle
      BY <1>1, <2>2, <3>1 DEF Trip
    <3>3. /\ job'[slot].pc = "start.notify"
          /\ job'[slot].driver = job[slot].driver /\ job'[slot].vehicle = job[slot].vehicle
      BY <1>1, <2>2 DEF Goto, TypeInv, TypeOK, Job
    <3>4. Unreviewed(u)' /\ Names(slot, u)'
      BY <2>1, <3>1, <3>2, <3>3 DEF Unreviewed, Names
    <3>5. QED
      BY <3>3, <3>4 DEF Occupies
  <2>5. QED
    BY <1>2, <2>3, <2>4, FleetKept DEF Unreviewed
<1>6. CASE WriteFinish(slot)
  <2>1. trips[t].status = "EN_RUTA" /\ t \in TripIds
    BY <1>1, <1>6 DEF WriteFinish, Snapshot, TypeInv, TripArgs, TripWritePCs
  <2>2. trips' = [trips EXCEPT ![t] = [trips[t] EXCEPT !.status = "EN_REVISION"]] /\ Done(slot)
    BY <1>6, <2>1 DEF WriteFinish, UpdateRow, Exists, TripStatus
  <2>3. \A u \in TripIds : Unreviewed(u) =>
          /\ trips'[u].status \in {"EN_RUTA", "EN_REVISION"}
          /\ trips'[u].driver = trips[u].driver
          /\ trips'[u].vehicle = trips[u].vehicle
    BY <1>1, <2>1, <2>2 DEF Unreviewed, Trip
  <2>4. QED
    BY <1>1, <1>2, <2>2, <2>3, IdleOccupies, FleetKept
<1>7. CASE EraseRoute(slot)
  <2>1. \A u \in TripIds : Exists(u) => trips[u].route # job[slot].route
    BY <1>1, <1>7 DEF EraseRoute, Snapshot, RoutePCs, HasTrips
  <2>2. \A u \in TripIds : trips'[u] = trips[u]
    BY <1>7, <2>1 DEF EraseRoute
  <2>3. QED
    BY <1>1, <1>2, <1>7, <2>2, IdleOccupies, FleetKept DEF EraseRoute, Unreviewed
<1>8. QED
  BY <1>3, <1>4, <1>5, <1>6, <1>7

(* The notifications of startTrip occupy what an unreviewed trip names.    *)
LEMMA FleetNotify ==
  ASSUME NEW slot, Requests = {slot}, FleetInv, SerialInv',
         NotifyDriverOnRoute(slot) \/ NotifyVehicleOnRoute(slot)
  PROVE  FleetInv'
<1>1. slot \in Requests /\ TypeInv /\ Occupies(slot)
      /\ availability \in [Drivers -> {"AVAILABLE", "ON_ROUTE"}]
      /\ unitStatus \in [Vehicles -> {"ACTIVE", "ON_ROUTE"}]
  BY DEF FleetInv, SerialInv, TypeInv, TypeOK
<1>2. job[slot].pc \in StartNotifyPCs /\ UNCHANGED trips
  BY DEF NotifyDriverOnRoute, NotifyVehicleOnRoute, StartNotifyPCs, tables
<1>3. PICK t \in TripIds : Unreviewed(t) /\ Names(slot, t)
  BY <1>1, <1>2 DEF Occupies
<1>4. Occupies(slot)'
  <2>1. ASSUME NEW pc \in StartNotifyPCs, Goto(slot, pc) PROVE Occupies(slot)'
    <3>1. /\ job'[slot].pc = pc
          /\ job'[slot].driver = job[slot].driver /\ job'[slot].vehicle = job[slot].vehicle
      BY <1>1, <2>1 DEF Goto, TypeInv, TypeOK, Job
    <3>2. Unreviewed(t)' /\ Names(slot, t)'
      BY <1>2, <1>3, <3>1 DEF Unreviewed, Names
    <3>3. QED
      BY <3>1, <3>2 DEF Occupies, StartNotifyPCs
  <2>2. QED
    BY <1>1, <2>1, IdleOccupies DEF NotifyDriverOnRoute, NotifyVehicleOnRoute, StartNotifyPCs
<1>5. ASSUME NEW d \in Drivers, availability'[d] = "ON_ROUTE" PROVE DriverOut(d)'
  <2>1. availability[d] = "ON_ROUTE" \/ d = job[slot].driver
    BY <1>1, <1>5 DEF NotifyDriverOnRoute, NotifyVehicleOnRoute
  <2>2. DriverOut(d)
    BY <1>2, <1>3, <2>1 DEF FleetInv, DriverOut, DriverDue, Names, StartNotifyPCs
  <2>3. QED
    BY <1>2, <2>2 DEF DriverOut, Unreviewed
<1>6. ASSUME NEW v \in Vehicles, unitStatus'[v] = "ON_ROUTE" PROVE VehicleOut(v)'
  <2>1. unitStatus[v] = "ON_ROUTE" \/ v = job[slot].vehicle
    BY <1>1, <1>6 DEF NotifyDriverOnRoute, NotifyVehicleOnRoute
  <2>2. VehicleOut(v)
    BY <1>2, <1>3, <2>1 DEF FleetInv, VehicleOut, VehicleDue, Names, StartNotifyPCs
  <2>3. QED
    BY <1>2, <2>2 DEF VehicleOut, Unreviewed
<1>7. QED
  BY <1>4, <1>5, <1>6 DEF FleetInv

(* The review: from its write on, the driver and the vehicle are due.      *)
LEMMA FleetReview ==
  ASSUME NEW slot, Requests = {slot}, FleetInv, SerialInv', WriteReview(slot)
  PROVE  FleetInv'
<1> DEFINE t == job[slot].trip
<1>1. slot \in Requests /\ TypeInv /\ Snapshot(slot) /\ Occupies(slot)
      /\ trips \in [TripIds -> Trip]
  BY DEF FleetInv, SerialInv, TypeInv, TypeOK
<1>2. /\ job[slot].pc = "review.write" /\ trips[t].status = "EN_REVISION" /\ t \in TripIds
      /\ Names(slot, t)
  BY <1>1 DEF WriteReview, Snapshot, TypeInv, TripArgs, TripWritePCs, Occupies
<1>3. /\ Goto(slot, "review.freeDriver") /\ UNCHANGED <<availability, unitStatus>>
      /\ \A u \in TripIds : u # t => trips'[u] = trips[u]
  BY <1>1, <1>2 DEF WriteReview, UpdateRow, Exists, TripStatus, fleet
<1>4. /\ job'[slot].pc = "review.freeDriver"
      /\ job'[slot].driver = job[slot].driver /\ job'[slot].vehicle = job[slot].vehicle
  BY <1>1, <1>3 DEF Goto, TypeInv, TypeOK, Job
<1>5. ASSUME NEW d \in Drivers, availability'[d] = "ON_ROUTE" PROVE DriverOut(d)' \/ DriverDue(d)'
  <2>1. PICK u \in TripIds : Unreviewed(u) /\ trips[u].driver = d
    BY <1>2, <1>3, <1>5 DEF FleetInv, DriverOut, DriverDue
  <2>2. CASE u = t
    BY <1>1, <1>2, <1>4, <2>1, <2>2 DEF DriverDue, Names
  <2>3. CASE u # t
    BY <1>3, <2>1, <2>3 DEF DriverOut, Unreviewed
  <2>4. QED
    BY <2>2, <2>3
<1>6. ASSUME NEW v \in Vehicles, unitStatus'[v] = "ON_ROUTE" PROVE VehicleOut(v)' \/ VehicleDue(v)'
  <2>1. PICK u \in TripIds : Unreviewed(u) /\ trips[u].vehicle = v
    BY <1>2, <1>3, <1>6 DEF FleetInv, VehicleOut, VehicleDue
  <2>2. CASE u = t
    BY <1>1, <1>2, <1>4, <2>1, <2>2 DEF VehicleDue, Names
  <2>3. CASE u # t
    BY <1>3, <2>1, <2>3 DEF VehicleOut, Unreviewed
  <2>4. QED
    BY <2>2, <2>3
<1>7. Occupies(slot)'
  BY <1>4 DEF Occupies, StartNotifyPCs
<1>8. QED
  BY <1>5, <1>6, <1>7 DEF FleetInv

(* The releases free what is due. *)
LEMMA FleetRelease ==
  ASSUME NEW slot, Requests = {slot}, FleetInv, SerialInv', FreeDriver(slot) \/ FreeVehicle(slot)
  PROVE  FleetInv'
<1>1. slot \in Requests /\ TypeInv
      /\ availability \in [Drivers -> {"AVAILABLE", "ON_ROUTE"}]
      /\ unitStatus \in [Vehicles -> {"ACTIVE", "ON_ROUTE"}]
  BY DEF FleetInv, SerialInv, TypeInv, TypeOK
<1>2. UNCHANGED trips
  BY DEF FreeDriver, FreeVehicle, tables
<1>3. \A d \in Drivers : DriverOut(d) => DriverOut(d)'
  BY <1>2 DEF DriverOut, Unreviewed
<1>4. \A v \in Vehicles : VehicleOut(v) => VehicleOut(v)'
  BY <1>2 DEF VehicleOut, Unreviewed
<1>5. CASE FreeDriver(slot)
  <2>1. /\ job[slot].pc = "review.freeDriver" /\ job'[slot].pc = "review.freeVehicle"
        /\ job'[slot].vehicle = job[slot].vehicle /\ UNCHANGED unitStatus
    BY <1>1, <1>5 DEF FreeDriver, Goto, TypeInv, TypeOK, Job
  <2>2. ASSUME NEW d \in Drivers, availability'[d] = "ON_ROUTE" PROVE DriverOut(d)'
    <3>1. availability[d] = "ON_ROUTE" /\ d # job[slot].driver
      BY <1>1, <1>5, <2>2 DEF FreeDriver
    <3>2. QED
      BY <1>3, <3>1 DEF FleetInv, DriverDue
  <2>3. ASSUME NEW v \in Vehicles, unitStatus'[v] = "ON_ROUTE" PROVE VehicleOut(v)' \/ VehicleDue(v)'
    <3>1. VehicleOut(v) \/ VehicleDue(v)
      BY <2>1, <2>3 DEF FleetInv
    <3>2. VehicleDue(v) => VehicleDue(v)'
      BY <2>1 DEF VehicleDue
    <3>3. QED
      BY <1>4, <3>1, <3>2
  <2>4. Occupies(slot)'
    BY <2>1 DEF Occupies, StartNotifyPCs
  <2>5. QED
    BY <2>2, <2>3, <2>4 DEF FleetInv
<1>6. CASE FreeVehicle(slot)
  <2>1. job[slot].pc = "review.freeVehicle" /\ Done(slot) /\ UNCHANGED availability
    BY <1>6 DEF FreeVehicle
  <2>2. ASSUME NEW d \in Drivers, availability'[d] = "ON_ROUTE" PROVE DriverOut(d)'
    BY <1>3, <2>1, <2>2 DEF FleetInv, DriverDue
  <2>3. ASSUME NEW v \in Vehicles, unitStatus'[v] = "ON_ROUTE" PROVE VehicleOut(v)'
    <3>1. unitStatus[v] = "ON_ROUTE" /\ v # job[slot].vehicle
      BY <1>1, <1>6, <2>3 DEF FreeVehicle
    <3>2. QED
      BY <1>4, <3>1 DEF FleetInv, VehicleDue
  <2>4. Occupies(slot)'
    BY <1>1, <2>1, IdleOccupies
  <2>5. QED
    BY <2>2, <2>3, <2>4 DEF FleetInv
<1>7. QED
  BY <1>5, <1>6

LEMMA FleetStep ==
  ASSUME NEW slot, Requests = {slot}, ~Faults, FleetInv, [Next]_vars
  PROVE  FleetInv'
<1>1. SerialInv'
  BY SerialStep DEF FleetInv
<1>2. CASE Accept(slot)
  BY <1>1, <1>2, FleetAccept
<1>3. CASE Serve(slot)
  <2>1. ~LoseStartNotification(slot) /\ ~LoseRelease(slot)
    BY DEF LoseStartNotification, LoseRelease
  <2>2. QED
    BY <1>1, <1>3, <2>1, FleetQuietServe, FleetTripWrites, FleetNotify, FleetReview, FleetRelease
       DEF Serve
<1>4. ASSUME UNCHANGED <<trips, availability, unitStatus, job>> PROVE FleetInv'
  BY <1>1, <1>4 DEF FleetInv, Occupies, Names, Unreviewed, DriverOut, VehicleOut, DriverDue, VehicleDue
<1>5. ~Crash
  BY DEF Crash
<1>6. QED
  BY <1>2, <1>3, <1>4, <1>5 DEF Next, AdvanceOdometer, vars, tables

(* NoStrandedFleet is an invariant when requests are served one at a time  *)
(* and no call is lost: between requests, a driver or a vehicle that is on *)
(* the road has a trip that is not reviewed, and reviewTrip frees the      *)
(* driver and the vehicle that startTrip occupied.                         *)
THEOREM SerialFleet ==
  ASSUME NEW slot, Requests = {slot}, ~Faults
  PROVE  Spec => []NoStrandedFleet
<1>1. FleetInv => NoStrandedFleet
  BY DEF FleetInv, NoStrandedFleet, DriverOut, VehicleOut, DriverDue, VehicleDue
<1>2. FleetInv /\ [Next]_vars => FleetInv'
  BY FleetStep
<1>3. QED
  BY <1>1, <1>2, FleetInit, PTL DEF Spec

=============================================================================
