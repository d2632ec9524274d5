---------------------------- MODULE FuelReports ----------------------------
(***************************************************************************)
(* The reports of fuel-svc.                                                *)
(*                                                                         *)
(* fuel-svc keeps nothing: a report is built from what routes-srv answers  *)
(* to several calls, and between two of them trips are created, driven and *)
(* reviewed and routes are edited.  Nothing but the rule of routes-srv     *)
(* that a route with trips is neither retyped nor deleted keeps the        *)
(* answers of one report in step.                                          *)
(*                                                                         *)
(* report is the report being built, from the answer to its first call on. *)
(* moments is history: what it would say, had it read everything at once,  *)
(* at each instant since that first answer.                                *)
(*                                                                         *)
(* routes-srv is here what Trips models in detail, cut to what the reports *)
(* read.  An update or a deletion of a route is one step: the race with    *)
(* the creation of a trip is in Trips, and such a trip would have to be    *)
(* driven and reviewed within that race to reach a report of finished      *)
(* trips; an update of a trip is one step for the same reason.  Left out:  *)
(* names, plates, coordinates, and the role of the caller, who is an       *)
(* administrator.                                                          *)
(*                                                                         *)
(* A definition called a variant is the one that follows it with a bug; it *)
(* shows that the properties tell the two apart, and is used nowhere.      *)
(***************************************************************************)
EXTENDS Integers, FiniteSetsExt

CONSTANTS
  TripIds, RouteIds, Drivers, Vehicles,
  Types,      \* vehicle types the routes of this instance are given
  Estimates,  \* estimated fuel of a trip, in hundredths of a litre
  Actuals,    \* fuel a trip consumed, in hundredths of a litre
  MaxUpdates, \* bound: updates of trips
  MaxDay,     \* bound: the last day of the instance; day 0 is a 30th of January
  Kinds,      \* the reports the clients of this instance ask for
  None

MultiCall == {"general", "machinery", "routes", "summary", "routeTrips", "vehicleRoutes"}
SingleCall == {"drivers", "vehicles", "kpis", "ranking", "driverTrips"}

VehicleTypes == {"LIVIANO", "PESADO", "CUALQUIERA"}

ASSUME FuelConstants ==
  /\ IsFiniteSet(TripIds) /\ IsFiniteSet(RouteIds)
  /\ Types \subseteq VehicleTypes
  /\ Estimates \subseteq Nat /\ Actuals \subseteq Nat
  /\ MaxUpdates \in Nat /\ MaxDay \in Nat
  /\ Kinds \subseteq MultiCall \cup SingleCall
  /\ None \notin TripIds \cup RouteIds \cup Drivers \cup Vehicles \cup (0..MaxDay)

VARIABLES
  trips,    \* trips[t]: a row of the trips table
  routes,   \* routes[rt]: a row of the routes table
  today,
  updates,  \* history: updates of trips so far
  report,   \* the report being built
  moments   \* the answers it could have given so far, read at once

tables == <<trips, routes, today, updates>>

reportsVars == <<tables, report, moments>>

-----------------------------------------------------------------------------
(* Data. *)

TripStatus == {"CREADO", "EN_RUTA", "EN_REVISION", "TERMINADO"}
Days == 0..MaxDay

Trip == [ id : TripIds, status : TripStatus \cup {"unused"},
          route : RouteIds \cup {None}, driver : Drivers \cup {None},
          vehicle : Vehicles \cup {None},
          start : Days \cup {None}, end : Days \cup {None},
          estimated : Nat, actual : Nat ]

NoTrip(t) ==
  [ id |-> t, status |-> "unused", route |-> None, driver |-> None,
    vehicle |-> None, start |-> None, end |-> None, estimated |-> 0, actual |-> 0 ]

Route == [state : {"unused", "live", "deleted"}, type : VehicleTypes]

NoRoute == [state |-> "unused", type |-> "CUALQUIERA"]

(* rows maps the keys of the report to their figures, total is its head;   *)
(* failed: the call threw and there is neither.                            *)
NoFigures == [trips |-> 0, estimated |-> 0, actual |-> 0]

NoAnswer == [failed |-> FALSE, rows |-> <<>>, total |-> NoFigures]

Failure == [NoAnswer EXCEPT !.failed = TRUE]

(* about: the vehicle type, the driver, the vehicle or the route asked for *)
(* by the reports that are about one.  trips and types: what was read; the *)
(* types are those of the trips looked up, or those of the routes listed.  *)
NoReport == [ kind |-> None, pc |-> "idle", from |-> 0, to |-> 0, about |-> None,
              trips |-> {}, types |-> <<>>, answer |-> NoAnswer ]

-----------------------------------------------------------------------------
(* Queries of routes-srv. *)

Used == {t \in TripIds : trips[t].status # "unused"}

HasTrips(rt) == \E t \in Used : trips[t].route = rt

LiveRoutes == {rt \in RouteIds : routes[rt].state = "live"}

(* ListTrips: the status a report asks for is not looked at. *)
FindAll == {trips[t] : t \in Used}

(* ListTripsByTimeRange: the trips that were on the road at some time of   *)
(* the period, both days included.                                         *)
FindAllByTimeRange(from, to) ==
  {row \in FindAll : /\ row.start # None /\ row.start =< to
                     /\ row.end = None \/ row.end >= from}

(* ListTripsByVehicleType: finished trips, joined with their routes. *)
FindAllByVehicleType(type) ==
  {row \in FindAll : row.status = "TERMINADO" /\ routes[row.route].type = type}

(* ListTripsByDriver, with the two states fuel-svc asks for. *)
ListTripsByDriver(d) ==
  {row \in FindAll : row.driver = d /\ row.status \in {"EN_RUTA", "TERMINADO"}}

(* GetRoutesByVehicleAndStatus, for finished trips: its routes are read    *)
(* after its trips.                                                        *)
FindAllByVehicleIdAndStatus(v) ==
  {row \in FindAll : row.vehicle = v /\ row.status = "TERMINADO"}

(* The first call of a report, the one that lists its trips. *)
Listing(kind, from, to, about) ==
  CASE kind \in {"general", "machinery", "routes", "drivers"} -> FindAllByTimeRange(from, to)
    [] kind = "vehicles"      -> FindAllByVehicleType(about)
    [] kind = "driverTrips"   -> ListTripsByDriver(about)
    [] kind = "vehicleRoutes" -> FindAllByVehicleIdAndStatus(about)
    [] kind \in {"kpis", "ranking", "summary", "routeTrips"} -> FindAll

(* ListRoutes, as far as the reports go. *)
ListRoutes == [rt \in LiveRoutes |-> routes[rt].type]

(* The types of the routes of the trips, as GetRoute gives them. *)
TypesOfTrips(T) == [t \in {row.id : row \in T} |-> routes[trips[t].route].type]

-----------------------------------------------------------------------------
(* What the reports compute from what they read. *)

Finished(T) == {row \in T : row.status = "TERMINADO"}

Figures(T) ==
  [ trips |-> Cardinality(T),
    estimated |-> MapThenSumSet(LAMBDA row : row.estimated, T),
    actual |-> MapThenSumSet(LAMBDA row : row.actual, T) ]

(* Percent, in tenths: estimated over actual, toFixed(1). *)
Efficiency(f) ==
  IF f.actual > 0 THEN (2000 * f.estimated + f.actual) \div (2 * f.actual) ELSE 0

GroupBy(T, keys, key(_)) == [k \in keys |-> Figures({row \in T : key(row) = k})]

(* The head of a report whose totals are the sums of its rows; the number  *)
(* of trips is that of the finished trips listed.                          *)
Summed(count, rows) ==
  [ trips |-> count,
    estimated |-> MapThenSumSet(LAMBDA k : rows[k].estimated, DOMAIN rows),
    actual |-> MapThenSumSet(LAMBDA k : rows[k].actual, DOMAIN rows) ]

Report(rows, total) == [failed |-> FALSE, rows |-> rows, total |-> total]

(* generateGeneralReport and generateMachineryTypeReport: a row for each   *)
(* type, and for the second the totals of the three.                       *)
PerType(T, types) ==
  LET done == Finished(T)
      rows == GroupBy(done, VehicleTypes, LAMBDA row : types[row.id])
  IN  Report(rows, Summed(Cardinality(done), rows))

(* generateDriverConsumptionReport *)
PerDriver(T) ==
  LET done == Finished(T)
      rows == GroupBy(done, {row.driver : row \in done}, LAMBDA row : row.driver)
  IN  Report(rows, Summed(Cardinality(done), rows))

(* generateRoutesConsumptionReport: the rows are those of the routes       *)
(* listed, the trips of another one are in the count and in no row.        *)
PerRoute(T, types) ==
  LET done == Finished(T)
      rows == GroupBy(done, {row.route : row \in done} \cap DOMAIN types,
                      LAMBDA row : row.route)
  IN  Report(rows, Summed(Cardinality(done), rows))

(* Variant: the section of the trips under review is left out. *)
SummaryPerRouteNotReviewed(T, types) ==
  LET all == {row \in T : row.status # "EN_REVISION"}
  IN  Report(GroupBy(all, {row.route : row \in all} \cap DOMAIN types,
                     LAMBDA row : row.route), NoFigures)

(* generateRoutesSummaryReport: trips in every state. *)
SummaryPerRoute(T, types) ==
  Report(GroupBy(T, {row.route : row \in T} \cap DOMAIN types, LAMBDA row : row.route),
         NoFigures)

(* generateVehicleDetailReport *)
PerVehicle(T) ==
  LET done == Finished(T)
  IN  Report(GroupBy(done, {row.vehicle : row \in done}, LAMBDA row : row.vehicle), NoFigures)

(* generateVehicleRoutesReport *)
PerVehicleRoute(T, types) ==
  Report(GroupBy(T, {row.route : row \in T} \cap DOMAIN types, LAMBDA row : row.route),
         NoFigures)

(* generateKPIs: all trips are counted; the average is over those that     *)
(* have both figures.                                                      *)
Kpis(T) ==
  LET rated == {row \in T : row.actual > 0 /\ row.estimated > 0}
  IN  Report(<<>>, [NoFigures EXCEPT
        !.trips = Cardinality(T),
        !.estimated = IF rated = {} THEN 0
                      ELSE MapThenSumSet(LAMBDA row : Efficiency(row), rated)
                             \div Cardinality(rated)])

(* generateDriverRankingReport: how many trips of each driver are in each  *)
(* state, the drivers by the number of their trips.                        *)
Ranking(T) ==
  Report([k \in {row.driver : row \in T} \X TripStatus |->
            Cardinality({row \in T : <<row.driver, row.status>> = k})], NoFigures)

(* formatTimestampToDDMMHHMM, as the order of its strings: the day of the  *)
(* month comes first, and a trip that has not started has an empty one.    *)
Label(day) ==
  IF day = None THEN 0 ELSE 100 * (((29 + day) % 31) + 1) + ((29 + day) \div 31) + 1

(* getDriverTrips and getRouteTripsDetail: one line a trip, those with the *)
(* larger label first.                                                     *)
PerTrip(T) ==
  Report([l \in {Label(row.start) : row \in T} |-> {row \in T : Label(row.start) = l}],
         NoFigures)

Compute(kind, about, T, types) ==
  CASE kind \in {"general", "machinery"} -> PerType(T, types)
    [] kind = "drivers"       -> PerDriver(T)
    [] kind = "routes"        -> PerRoute(T, types)
    [] kind = "summary"       -> SummaryPerRoute(T, types)
    [] kind = "vehicles"      -> PerVehicle(T)
    [] kind = "vehicleRoutes" -> PerVehicleRoute(T, types)
    [] kind = "kpis"          -> Kpis(T)
    [] kind = "ranking"       -> Ranking(T)
    [] kind = "driverTrips"   -> PerTrip(T)
    [] kind = "routeTrips"    -> PerTrip({row \in T : row.route = about})

-----------------------------------------------------------------------------
(* Steps of a report. *)

(* The answer it would give if the tables stayed as they are. *)
AtOnce ==
  LET T == Listing(report.kind, report.from, report.to, report.about)
  IN  Compute(report.kind, report.about, T,
              IF report.kind \in {"general", "machinery"} THEN TypesOfTrips(T) ELSE ListRoutes)

Asked(kind, from, to, about) ==
  [NoReport EXCEPT !.kind = kind, !.from = from, !.to = to, !.about = about]

(* What was read is dropped with the answer. *)
Closed(asked, answer) ==
  [asked EXCEPT !.pc = "done", !.trips = {}, !.types = <<>>, !.answer = answer]

Ask(kind, next) ==
  /\ report.pc = "idle"
  /\ kind \in Kinds
  /\ report' = next
  /\ UNCHANGED tables

(* routes-srv counts the trips it lists, and sends a count of zero: then,  *)
(* or if none of them is finished, the report is empty and nothing more is *)
(* asked.                                                                  *)
AskTrips(kind, from, to, about, pc) ==
  LET T     == Listing(kind, from, to, about)
      asked == Asked(kind, from, to, about)
  IN  Ask(kind, IF Finished(T) = {}
                THEN Closed(asked, Compute(kind, about, T, <<>>))
                ELSE [asked EXCEPT !.pc = pc, !.trips = T])

(* The reports that make one call.  A list without elements is absent over *)
(* the wire: getDriverTrips, which has no count to look at, throws.        *)
AskOnce(kind, from, to, about) ==
  LET T == Listing(kind, from, to, about)
  IN  Ask(kind, Closed(Asked(kind, from, to, about),
                       IF T = {} /\ kind = "driverTrips"
                       THEN Failure ELSE Compute(kind, about, T, <<>>)))

GenerateGeneralReport(from, to) == AskTrips("general", from, to, None, "getRoutes")

GenerateMachineryTypeReport(from, to) == AskTrips("machinery", from, to, None, "getRoutes")

GenerateRoutesConsumptionReport(from, to) == AskTrips("routes", from, to, None, "listRoutes")

GenerateDriverConsumptionReport(from, to) == AskOnce("drivers", from, to, None)

GenerateVehicleDetailReport(type) == AskOnce("vehicles", 0, 0, type)

GenerateKPIs == AskOnce("kpis", 0, 0, None)

GenerateDriverRankingReport == AskOnce("ranking", 0, 0, None)

GetDriverTrips(d) == AskOnce("driverTrips", 0, 0, d)

GenerateVehicleRoutesReport(v) == AskTrips("vehicleRoutes", 0, 0, v, "listRoutes")

(* Routes first, trips next. *)
GenerateRoutesSummaryReport ==
  LET asked == Asked("summary", 0, 0, None)
  IN  Ask("summary", IF LiveRoutes = {} THEN Closed(asked, Failure)
                     ELSE [asked EXCEPT !.pc = "listTrips", !.types = ListRoutes])

GetRouteTripsDetail(rt) ==
  LET asked == Asked("routeTrips", 0, 0, rt)
  IN  Ask("routeTrips", IF rt \in LiveRoutes
                        THEN [asked EXCEPT !.pc = "listTrips", !.types = ListRoutes]
                        ELSE Closed(asked, Failure))

Close(T, types) ==
  /\ report' = Closed(report, Compute(report.kind, report.about, T, types))
  /\ UNCHANGED tables

(* The routes of the finished trips are asked for together and answered in *)
(* any order; one that is gone makes the report throw.                     *)
GetRoute(row) ==
  LET done  == Finished(report.trips)
      types == [t \in {row.id} \cup DOMAIN report.types |->
                  IF t = row.id THEN routes[row.route].type ELSE report.types[t]]
  IN  /\ report.pc = "getRoutes"
      /\ row \in done
      /\ row.id \notin DOMAIN report.types
      /\ IF row.route \notin LiveRoutes THEN report' = Closed(report, Failure)
         ELSE IF DOMAIN types = {other.id : other \in done}
         THEN report' = Closed(report, Compute(report.kind, None, report.trips, types))
         ELSE report' = [report EXCEPT !.types = types]
      /\ UNCHANGED tables

ThenListRoutes ==
  /\ report.pc = "listRoutes"
  /\ Close(report.trips, ListRoutes)

ThenListTrips ==
  /\ report.pc = "listTrips"
  /\ Close(FindAll, report.types)

Deliver ==
  /\ report.pc = "done"
  /\ report' = NoReport
  /\ UNCHANGED tables

-----------------------------------------------------------------------------
(* Meanwhile, in routes-srv.  An answered report waits for nothing: it is  *)
(* delivered before the next of these steps.                               *)

Write(t, row) ==
  /\ report.pc # "done"
  /\ trips' = [trips EXCEPT ![t] = row]
  /\ UNCHANGED <<routes, today, report>>

Edit(t, row) == Write(t, row) /\ UNCHANGED updates

EditRoute(rt, row) ==
  /\ report.pc # "done"
  /\ routes' = [routes EXCEPT ![rt] = row]
  /\ UNCHANGED <<trips, today, updates, report>>

CreateTrip(t, rt, d, v, estimate) ==
  /\ trips[t].status = "unused"
  /\ routes[rt].state = "live"
  /\ Edit(t, [NoTrip(t) EXCEPT !.status = "CREADO", !.route = rt, !.driver = d,
                               !.vehicle = v, !.estimated = estimate])

(* Another driver, another vehicle or both, until the trip starts. *)
UpdateTrip(t, d, v) ==
  /\ trips[t].status = "CREADO"
  /\ updates < MaxUpdates
  /\ updates' = updates + 1
  /\ Write(t, [trips[t] EXCEPT !.driver = d, !.vehicle = v])

StartTrip(t) ==
  /\ trips[t].status = "CREADO"
  /\ Edit(t, [trips[t] EXCEPT !.status = "EN_RUTA", !.start = today])

(* Variant: the end is not written. *)
FinishTripOpen(t) ==
  /\ trips[t].status = "EN_RUTA"
  /\ Edit(t, [trips[t] EXCEPT !.status = "EN_REVISION"])

FinishTrip(t) ==
  /\ trips[t].status = "EN_RUTA"
  /\ Edit(t, [trips[t] EXCEPT !.status = "EN_REVISION", !.end = today])

ReviewTrip(t, actual) ==
  /\ trips[t].status = "EN_REVISION"
  /\ Edit(t, [trips[t] EXCEPT !.status = "TERMINADO", !.actual = actual])

CreateRoute(rt, type) ==
  /\ routes[rt].state = "unused"
  /\ EditRoute(rt, [state |-> "live", type |-> type])

(* Variant: a route with trips changes type. *)
UpdateRouteAnyTime(rt, type) ==
  /\ routes[rt].state = "live"
  /\ EditRoute(rt, [routes[rt] EXCEPT !.type = type])

UpdateRoute(rt, type) ==
  /\ routes[rt].state = "live"
  /\ ~HasTrips(rt)
  /\ EditRoute(rt, [routes[rt] EXCEPT !.type = type])

DeleteRoute(rt) ==
  /\ routes[rt].state = "live"
  /\ ~HasTrips(rt)
  /\ EditRoute(rt, [routes[rt] EXCEPT !.state = "deleted"])

NextDay ==
  /\ report.pc # "done"
  /\ today < MaxDay
  /\ today' = today + 1
  /\ UNCHANGED <<trips, routes, updates, report>>

-----------------------------------------------------------------------------

ReportsInit ==
  /\ trips = [t \in TripIds |-> NoTrip(t)]
  /\ routes = [rt \in RouteIds |-> NoRoute]
  /\ today = 0 /\ updates = 0
  /\ report = NoReport
  /\ moments = {}

(* DateRange: a period starts no later than it ends. *)
Generate ==
  \/ \E from \in Days : \E to \in from..MaxDay :
       \/ GenerateGeneralReport(from, to)
       \/ GenerateMachineryTypeReport(from, to)
       \/ GenerateRoutesConsumptionReport(from, to)
       \/ GenerateDriverConsumptionReport(from, to)
  \/ \E type \in VehicleTypes : GenerateVehicleDetailReport(type)
  \/ \E d \in Drivers : GetDriverTrips(d)
  \/ \E v \in Vehicles : GenerateVehicleRoutesReport(v)
  \/ \E rt \in RouteIds : GetRouteTripsDetail(rt)
  \/ GenerateKPIs \/ GenerateDriverRankingReport \/ GenerateRoutesSummaryReport

Meanwhile ==
  \/ \E t \in TripIds :
       \/ \E rt \in RouteIds, d \in Drivers, v \in Vehicles, estimate \in Estimates :
            CreateTrip(t, rt, d, v, estimate)
       \/ \E d \in Drivers, v \in Vehicles : UpdateTrip(t, d, v)
       \/ StartTrip(t) \/ FinishTrip(t)
       \/ \E actual \in Actuals : ReviewTrip(t, actual)
  \/ \E rt \in RouteIds :
       \/ \E type \in Types : CreateRoute(rt, type) \/ UpdateRoute(rt, type)
       \/ DeleteRoute(rt)
  \/ NextDay

Step ==
  \/ Generate
  \/ \E row \in report.trips : GetRoute(row)
  \/ ThenListRoutes \/ ThenListTrips \/ Deliver
  \/ Meanwhile

(* The moments of a report run from its first answer to its last. *)
Observe ==
  moments' = IF report'.pc = "idle" THEN {} ELSE moments \cup {AtOnce'}

ReportsNext == Step /\ Observe

ReportsSpec == ReportsInit /\ [][ReportsNext]_reportsVars

-----------------------------------------------------------------------------
(* Properties. *)

(* The rows are those of the tables, with a start once the trip has left   *)
(* and an end once it has arrived, which is what the periods go by; the    *)
(* finished trips a report holds are still what they were when listed.     *)
ReportsTypeOK ==
  /\ trips \in [TripIds -> Trip]
  /\ \A t \in TripIds :
       /\ trips[t].start = None <=> trips[t].status \in {"unused", "CREADO"}
       /\ trips[t].end = None <=> trips[t].status \notin {"EN_REVISION", "TERMINADO"}
  /\ routes \in [RouteIds -> Route]
  /\ today \in Days
  /\ updates \in 0..MaxUpdates
  /\ report.kind \in Kinds \cup {None}
  /\ report.pc \in {"idle", "getRoutes", "listRoutes", "listTrips", "done"}
  /\ Finished(report.trips) \subseteq FindAll

Answered(kinds) ==
  report.pc = "done" /\ report.kind \in kinds /\ ~report.answer.failed

(* A report put together from several calls, while trips and routes change *)
(* between them, says what was true at one instant: no trip is counted     *)
(* under a type, or with figures, that it did not have together with the   *)
(* rest.                                                                   *)
AnswerIsOfOneInstant ==
  Answered(Kinds \ {"summary"}) => report.answer \in moments

(* Reports asked for at the same instant agree, though each groups the     *)
(* trips in its own way: over a period, the totals by type, by driver and  *)
(* by route are the same; over all trips, the summary by route, the KPIs   *)
(* and the ranking count the same trips.                                   *)
ReportsAgree ==
  report.pc = "idle" =>
    /\ \A from \in Days : \A to \in from..MaxDay :
         LET T == FindAllByTimeRange(from, to)
         IN  /\ PerType(T, TypesOfTrips(T)).total = PerDriver(T).total
             /\ PerRoute(T, ListRoutes).total = PerDriver(T).total
    /\ LET summary == SummaryPerRoute(FindAll, ListRoutes).rows
           ranking == Ranking(FindAll).rows
           count   == Kpis(FindAll).total.trips
       IN  /\ MapThenSumSet(LAMBDA rt : summary[rt].trips, DOMAIN summary) = count
           /\ MapThenSumSet(LAMBDA k : ranking[k], DOMAIN ranking) = count

=============================================================================
