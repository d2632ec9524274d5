---------------------------- MODULE Assignments ----------------------------
(***************************************************************************)
(* How a client builds a trip: it asks routes-srv who and what can be      *)
(* assigned and then asks for the trip.  The lists are joined from driver- *)
(* ms, users-srv, vehicles-svc and the trips table, one query after the    *)
(* other, and createTrip checks the same things again with code of its     *)
(* own, some of them and in another way.                                   *)
(*                                                                         *)
(* One session is followed await by await, from any state the services can *)
(* be in.  Meanwhile other clients change the four services; their         *)
(* requests are single steps here, what happens inside them is in Trips,   *)
(* DriverAccounts, VehicleUnits and UserAccounts.                          *)
(*                                                                         *)
(* moved is a history: the drivers, vehicles and supervisors whose trips,  *)
(* licences, requirements or accounts have changed since the session read  *)
(* the list they are in.                                                   *)
(*                                                                         *)
(* Left out: the route, which Trips has, and the names in the lists.       *)
(*                                                                         *)
(* A definition called a variant is the one that follows it with a bug; it *)
(* shows that the properties tell the two apart, and is used nowhere.      *)
(***************************************************************************)
EXTENDS Naturals, FiniteSets

CONSTANTS
  TripIds, Drivers, Vehicles, Supervisors,
  Codes,      \* codes of licence types
  Types,      \* vehicle types the routes of this instance ask for
  MaxActive,  \* unfinished trips a driver or a supervisor may have (3)
  MaxChanges, \* bound: requests of other clients during the session
  None        \* of a trip: a driver, vehicle or supervisor not looked at here

VehicleTypes == {"LIVIANO", "PESADO", "CUALQUIERA"}

ASSUME AssignmentConstants ==
  /\ Types \subseteq VehicleTypes
  /\ IsFiniteSet(TripIds)
  /\ MaxActive \in Nat \ {0} /\ MaxChanges \in Nat
  /\ None \notin Drivers \cup Vehicles \cup Supervisors
  /\ Drivers \cap Vehicles = {} /\ (Drivers \cup Vehicles) \cap Supervisors = {}

VARIABLES
  trips,     \* trips[t]: a row of the trips table
  people,    \* people[p]: a driver or supervisor, with the user account
  licences,  \* licences[d]: the status of the driver's licence of each code
  units,     \* units[v]: a unit of vehicles-svc
  session,   \* what the client has asked and been told
  moved,     \* history: who and what has changed since it was listed
  changes    \* history: requests of other clients so far

others == <<trips, people, licences, units>>

history == <<moved, changes>>

vars == <<others, session, history>>

-----------------------------------------------------------------------------
(* Data. *)

Things == Drivers \cup Vehicles \cup Supervisors

MachineTypes == {"LIGHT", "HEAVY"}

ActiveStatus == {"CREADO", "EN_RUTA", "EN_REVISION"}

Trip == [ status : ActiveStatus \cup {"unused", "TERMINADO"}, driver : Drivers \cup {None},
          vehicle : Vehicles \cup {None}, supervisor : Supervisors \cup {None} ]

NoTrip == [status |-> "unused", driver |-> None, vehicle |-> None, supervisor |-> None]

(* "blocked": the user account is inactive, or lacks the role. *)
PersonStatus == {"live", "blocked", "deleted"}

LicenceStatus == {"none", "VALID", "SUSPENDED"}

Unit == [live : BOOLEAN, machine : MachineTypes, required : SUBSET Codes]

(* How far a list has come with one of its entries, ending in what the     *)
(* client sees of it: nothing, busy or assignable.                         *)
Stages == {"absent", "user", "trips", "few", "many", "free", "taken", "busy", "assignable"}

Pending == {"user", "trips", "few", "many", "free", "taken"}

ListPCs == {"drivers", "vehicles", "supervisors"}
CreatePCs == {"dependencies", "driverLimit", "driverFree", "vehicleFree",
              "supervisorLimit", "vehicleData", "insert"}
Dependencies == {"vehicle", "supervisor"}
Outcomes == {"none", "nothing", "created", "missing", "driver", "vehicle", "supervisor", "noVehicle"}

Session ==
  [ pc : {"idle"} \cup ListPCs \cup CreatePCs \cup {"done"}, type : VehicleTypes,
    seen : [Things -> Stages], codes : [Drivers -> SUBSET Codes],
    driver : Drivers \cup {None}, vehicle : Vehicles \cup {None},
    supervisor : Supervisors \cup {None}, found : SUBSET Dependencies,
    failed : BOOLEAN, outcome : Outcomes ]

NoSession ==
  [ pc |-> "idle", type |-> "CUALQUIERA", seen |-> [x \in Things |-> "absent"],
    codes |-> [d \in Drivers |-> {}], driver |-> None, vehicle |-> None,
    supervisor |-> None, found |-> {},
    failed |-> FALSE, outcome |-> "none" ]

-----------------------------------------------------------------------------
(* Queries of the trips table.  Drivers, vehicles and supervisors have     *)
(* their own columns, and no identifier in common here.                    *)

Of(t, x) == x \in {trips[t].driver, trips[t].vehicle, trips[t].supervisor}

ActiveTrips(x) ==
  Cardinality({t \in TripIds : Of(t, x) /\ trips[t].status \in ActiveStatus})

EnRuta(x) == \E t \in TripIds : Of(t, x) /\ trips[t].status = "EN_RUTA"

-----------------------------------------------------------------------------
(* Steps of the session. *)

Goes(next) == session' = next /\ UNCHANGED <<others, history>>

Ends(outcome) == Goes([session EXCEPT !.pc = "done", !.outcome = outcome])

(* An entry of the list being built has its next answer. *)
Sees(list, x, from, to) ==
  /\ session.pc = list
  /\ session.seen[x] = from
  /\ Goes([session EXCEPT !.seen[x] = to])

(* A list has all its answers and the client takes one of its entries,     *)
(* assignable or not: the flag is the client's to look at.                 *)
Takes(list, things, x) ==
  /\ session.pc = list
  /\ \A y \in things : session.seen[y] \notin Pending
  /\ x \in things
  /\ session.seen[x] # "absent"

Lists(next, rows, stage) ==
  /\ session' = [next EXCEPT !.seen = [x \in Things |-> IF x \in rows THEN stage ELSE @[x]]]
  /\ UNCHANGED <<others, history>>

(* FindAll of driver-ms: its summary has the codes of the licences of a    *)
(* driver, whatever their status.                                          *)
LicenseTypes(d) == {c \in Codes : licences[d][c] # "none"}

GetAssignableDrivers(type) ==
  /\ session.pc = "idle"
  /\ LET rows == {d \in Drivers : people[d] # "deleted"}
     IN  Lists([NoSession EXCEPT !.pc = "drivers", !.type = type,
                                 !.codes = [d \in Drivers |-> IF d \in rows THEN LicenseTypes(d)
                                                              ELSE {}]],
               rows, "user")

(* GetUser of users-srv: no answer, or none with the role DRIVER, and the  *)
(* driver is not in the list.                                              *)
GetUserInfo(d) ==
  Sees("drivers", d, "user", IF people[d] = "live" THEN "trips" ELSE "absent")

CountTripsOfDriver(d) ==
  Sees("drivers", d, "trips", IF ActiveTrips(d) < MaxActive THEN "few" ELSE "many")

CountEnRutaOfDriver(d) ==
  \E from \in {"few", "many"} :
    Sees("drivers", d, from,
         IF from = "few" /\ ~EnRuta(d) THEN "assignable" ELSE "busy")

(* ListUnitsWithDetails: a unit is listed if its type fits and it needs no *)
(* licence or one of those given; without codes no unit is left out.       *)
Fits(v, type) ==
  \/ type = "CUALQUIERA"
  \/ units[v].machine = IF type = "LIVIANO" THEN "LIGHT" ELSE "HEAVY"

(* Variant: the licences are not asked about. *)
SuitsAnyone(v, codes) == TRUE

Suits(v, codes) ==
  codes = {} \/ units[v].required = {} \/ units[v].required \cap codes # {}

GetAssignableVehicles(d) ==
  /\ Takes("drivers", Drivers, d)
  /\ Lists([session EXCEPT !.pc = "vehicles", !.driver = d],
           {v \in Vehicles : /\ units[v].live
                             /\ Fits(v, session.type)
                             /\ Suits(v, session.codes[d])},
           "trips")

FindEnRutaOfVehicle(v) ==
  Sees("vehicles", v, "trips", IF EnRuta(v) THEN "taken" ELSE "free")

CountTripsOfVehicle(v) ==
  \E from \in {"free", "taken"} :
    Sees("vehicles", v, from,
         IF from = "free" /\ ActiveTrips(v) < MaxActive THEN "assignable" ELSE "busy")

(* Variant: the vehicle taken is not remembered. *)
GetAssignableSupervisorsOfAny(v) ==
  /\ Takes("vehicles", Vehicles, v)
  /\ Lists([session EXCEPT !.pc = "supervisors"],
           {s \in Supervisors : people[s] = "live"}, "trips")

GetAssignableSupervisors(v) ==
  /\ Takes("vehicles", Vehicles, v)
  /\ Lists([session EXCEPT !.pc = "supervisors", !.vehicle = v],
           {s \in Supervisors : people[s] = "live"}, "trips")

CountTripsOfSupervisor(s) ==
  Sees("supervisors", s, "trips",
       IF ActiveTrips(s) < MaxActive THEN "assignable" ELSE "busy")

(* A service or a query does not answer: the list comes out empty.         *)
ListFails ==
  /\ session.pc \in ListPCs
  /\ \E x \in Things : session.seen[x] \in Pending
  /\ Ends("nothing")

GetUserInfoFails(d) == Sees("drivers", d, "user", "absent")

(* Nothing to choose from. *)
GiveUp ==
  /\ \E list \in {<<"drivers", Drivers>>, <<"vehicles", Vehicles>>,
                  <<"supervisors", Supervisors>>} :
       session.pc = list[1] /\ \A x \in list[2] : session.seen[x] = "absent"
  /\ Ends("nothing")

-----------------------------------------------------------------------------
(* createTrip with what the client chose. *)

CreateTrip(s) ==
  /\ Takes("supervisors", Supervisors, s)
  /\ Goes([session EXCEPT !.pc = "dependencies", !.supervisor = s])

Checks(pc, ok, next, refusal) ==
  /\ session.pc = pc
  /\ IF ok THEN Goes([session EXCEPT !.pc = next]) ELSE Ends(refusal)

(* The unit and the supervisor's account are asked for together.  So is    *)
(* the driver, who is found whether removed or not; nobody looks at roles. *)
Finds(what, ok) ==
  /\ session.pc = "dependencies"
  /\ what \notin session.found
  /\ LET found == session.found \cup {what}
     IN  IF ~ok THEN Ends("missing")
         ELSE Goes([session EXCEPT !.found = found,
                      !.pc = IF found = Dependencies THEN "driverLimit" ELSE @])

ValidateVehicle == Finds("vehicle", units[session.vehicle].live)

ValidateSupervisor == Finds("supervisor", people[session.supervisor] = "live")

(* One of the three services does not answer. *)
DependenciesFail ==
  /\ session.pc = "dependencies"
  /\ Goes([session EXCEPT !.pc = "done", !.outcome = "missing", !.failed = TRUE])

(* Variant: off by one. *)
CheckDriverLimitOffByOne ==
  Checks("driverLimit", ActiveTrips(session.driver) =< MaxActive, "driverFree", "driver")

CheckDriverLimit ==
  Checks("driverLimit", ActiveTrips(session.driver) < MaxActive, "driverFree", "driver")

CheckDriverFree ==
  Checks("driverFree", ~EnRuta(session.driver), "vehicleFree", "driver")

(* Variant: a vehicle under review is not free. *)
CheckVehicleFreeOfAll ==
  Checks("vehicleFree", ActiveTrips(session.vehicle) = 0, "supervisorLimit", "vehicle")

CheckVehicleFree ==
  Checks("vehicleFree", ~EnRuta(session.vehicle), "supervisorLimit", "vehicle")

CheckSupervisorLimit ==
  Checks("supervisorLimit", ActiveTrips(session.supervisor) < MaxActive,
         "vehicleData", "supervisor")

(* Odometer and consumption of the unit. *)
ReadVehicleData ==
  Checks("vehicleData", units[session.vehicle].live, "insert", "noVehicle")

VehicleDataFails ==
  /\ session.pc = "vehicleData"
  /\ Goes([session EXCEPT !.pc = "done", !.outcome = "noVehicle", !.failed = TRUE])

InsertTrip(t) ==
  /\ session.pc = "insert"
  /\ trips[t].status = "unused"
  /\ trips' = [trips EXCEPT ![t] = [ status |-> "CREADO", driver |-> session.driver,
                                     vehicle |-> session.vehicle,
                                     supervisor |-> session.supervisor ]]
  /\ session' = [session EXCEPT !.pc = "done", !.outcome = "created"]
  /\ UNCHANGED <<people, licences, units, history>>

-----------------------------------------------------------------------------
(* Meanwhile, the requests of other clients. *)

Moves(things) ==
  /\ session.pc # "done"
  /\ changes < MaxChanges
  /\ changes' = changes + 1
  /\ moved' = moved \cup {x \in things \ {None} : session.seen[x] # "absent"}
  /\ UNCHANGED session

MoveTrip(t, row) ==
  /\ trips' = [trips EXCEPT ![t] = row]
  /\ Moves({row.driver, row.vehicle, row.supervisor,
            trips[t].driver, trips[t].vehicle, trips[t].supervisor})
  /\ UNCHANGED <<people, licences, units>>

Room(x) == x = None \/ ActiveTrips(x) < MaxActive
Free(x) == x = None \/ ~EnRuta(x)

OtherCreatesTrip(t, d, v, s) ==
  /\ trips[t].status = "unused"
  /\ v # None => units[v].live
  /\ s # None => people[s] = "live"
  /\ Room(d) /\ Free(d) /\ Free(v) /\ Room(s)
  /\ MoveTrip(t, [status |-> "CREADO", driver |-> d, vehicle |-> v, supervisor |-> s])

(* updateTrip looks at the status of the trip and at nothing else.         *)
UpdateTrip(t, d, v) ==
  /\ trips[t].status = "CREADO"
  /\ MoveTrip(t, [trips[t] EXCEPT !.driver = d, !.vehicle = v])

StartTrip(t) ==
  /\ trips[t].status = "CREADO"
  /\ Free(trips[t].driver)
  /\ MoveTrip(t, [trips[t] EXCEPT !.status = "EN_RUTA"])

FinishTrip(t) ==
  /\ trips[t].status = "EN_RUTA"
  /\ MoveTrip(t, [trips[t] EXCEPT !.status = "EN_REVISION"])

ReviewTrip(t) ==
  /\ trips[t].status = "EN_REVISION"
  /\ MoveTrip(t, [trips[t] EXCEPT !.status = "TERMINADO"])

MovePerson(p, status) ==
  /\ people' = [people EXCEPT ![p] = status]
  /\ Moves({p})
  /\ UNCHANGED <<trips, licences, units>>

(* driver-ms removes a driver and restores one, users-srv deactivates an   *)
(* account.  Both ask routes-srv for trips first (users-srv for those of a *)
(* supervisor) and go on if there is no answer.                            *)
RemoveDriver(d) == people[d] # "deleted" /\ MovePerson(d, "deleted")

UndeleteDriver(d) == people[d] = "deleted" /\ MovePerson(d, "live")

DeleteUser(p) == people[p] = "live" /\ MovePerson(p, "blocked")

UndeleteUser(p) == people[p] = "blocked" /\ MovePerson(p, "live")

SetLicence(d, c, status) ==
  /\ licences' = [licences EXCEPT ![d][c] = status]
  /\ Moves({d})
  /\ UNCHANGED <<trips, people, units>>

IssueLicence(d, c) == licences[d][c] = "none" /\ SetLicence(d, c, "VALID")

SuspendLicence(d, c) == licences[d][c] = "VALID" /\ SetLicence(d, c, "SUSPENDED")

SetUnit(v, unit) ==
  /\ units[v].live
  /\ units' = [units EXCEPT ![v] = unit]
  /\ Moves({v})
  /\ UNCHANGED <<trips, people, licences>>

(* The requirements of the unit's model are edited. *)
SetRequired(v, codes) ==
  /\ codes # units[v].required
  /\ SetUnit(v, [units[v] EXCEPT !.required = codes])

(* As for drivers, trips are asked about and the answer may be missing.    *)
DeleteUnit(v) == SetUnit(v, [units[v] EXCEPT !.live = FALSE])

-----------------------------------------------------------------------------

(* Limits may be exceeded: updateTrip does not check them, and createTrip  *)
(* and startTrip do in one query and write in another.                     *)
Init ==
  /\ trips \in [TripIds -> {NoTrip} \cup {row \in Trip : /\ row.status \in ActiveStatus
                                                         /\ row.driver # None}]
  /\ \E t \in TripIds : trips[t] = NoTrip
  /\ people \in [Drivers \cup Supervisors -> PersonStatus]
  /\ \A s \in Supervisors : people[s] # "deleted"
  /\ licences \in [Drivers -> [Codes -> {"none", "VALID"}]]
  /\ units \in [Vehicles -> {u \in Unit : u.live}]
  /\ session = NoSession
  /\ moved = {}
  /\ changes = 0

AskLists ==
  \/ \E type \in Types : GetAssignableDrivers(type)
  \/ \E d \in Drivers : \/ GetUserInfo(d) \/ GetUserInfoFails(d)
                         \/ CountTripsOfDriver(d) \/ CountEnRutaOfDriver(d)
                         \/ GetAssignableVehicles(d)
  \/ \E v \in Vehicles : \/ FindEnRutaOfVehicle(v) \/ CountTripsOfVehicle(v)
                          \/ GetAssignableSupervisors(v)
  \/ \E s \in Supervisors : CountTripsOfSupervisor(s)
  \/ ListFails \/ GiveUp

AskTrip ==
  \/ \E s \in Supervisors : CreateTrip(s)
  \/ ValidateVehicle \/ ValidateSupervisor \/ DependenciesFail
  \/ CheckDriverLimit \/ CheckDriverFree \/ CheckVehicleFree \/ CheckSupervisorLimit
  \/ ReadVehicleData \/ VehicleDataFails
  \/ \E t \in TripIds : InsertTrip(t)

Meanwhile ==
  \/ \E t \in TripIds :
       \/ \E d \in Drivers, v \in Vehicles \cup {None}, s \in Supervisors \cup {None} :
            OtherCreatesTrip(t, d, v, s)
       \/ \E d \in Drivers \cup {None}, v \in Vehicles \cup {None} : UpdateTrip(t, d, v)
       \/ StartTrip(t) \/ FinishTrip(t) \/ ReviewTrip(t)
  \/ \E d \in Drivers : \/ RemoveDriver(d) \/ UndeleteDriver(d)
                         \/ \E c \in Codes : IssueLicence(d, c) \/ SuspendLicence(d, c)
  \/ \E p \in Drivers \cup Supervisors : DeleteUser(p) \/ UndeleteUser(p)
  \/ \E v \in Vehicles : \/ DeleteUnit(v)
                          \/ \E codes \in SUBSET Codes : SetRequired(v, codes)

Next == AskLists \/ AskTrip \/ Meanwhile

Spec == Init /\ [][Next]_vars

-----------------------------------------------------------------------------
(* Properties. *)

(* Rows are complete, and a session that asks for a trip has a driver, a   *)
(* vehicle and a supervisor until createTrip is over.                      *)
TypeOK ==
  /\ trips \in [TripIds -> Trip]
  /\ people \in [Drivers \cup Supervisors -> PersonStatus]
  /\ licences \in [Drivers -> [Codes -> LicenceStatus]]
  /\ units \in [Vehicles -> Unit]
  /\ session \in Session
  /\ moved \subseteq Things
  /\ changes \in 0..MaxChanges
  /\ session.pc \in CreatePCs => None \notin {session.driver, session.vehicle, session.supervisor}

(* getAssignableDrivers, -Vehicles and -Supervisors against createTrip:    *)
(* what was offered as assignable is refused only if its trips have        *)
(* changed since it was listed, if it has been deleted, or if a service    *)
(* did not answer.  Nobody sees a trip refused that the lists allowed and  *)
(* nothing has disturbed.                                                  *)
OfferHolds ==
  LET offered(x) == session.seen[x] = "assignable" /\ x \notin moved
  IN  /\ session.outcome = "driver" => ~offered(session.driver)
      /\ session.outcome = "vehicle" => ~offered(session.vehicle)
      /\ session.outcome = "supervisor" => ~offered(session.supervisor)
      /\ session.outcome = "missing" /\ ~session.failed =>
           {session.vehicle, session.supervisor} \cap moved # {}
      /\ session.outcome = "noVehicle" /\ ~session.failed => session.vehicle \in moved

(* The other way round, for drivers and supervisors: whoever was listed as *)
(* busy is refused, unless something has changed since.  A client that     *)
(* does not look at the flag gets no further.  (Of a vehicle it is not     *)
(* true: its list counts unfinished trips, createTrip does not.)           *)
BusyIsRefused ==
  session.outcome = "created" =>
    \A x \in {session.driver, session.supervisor} :
      session.seen[x] = "busy" => x \in moved

(* The only check of licences there is, since createTrip makes none, is    *)
(* the filter of the list of vehicles.  It holds this much: a trip made    *)
(* from the lists has a vehicle of the type asked for, and a driver with   *)
(* one of the licences the vehicle requires, valid or not, unless he was   *)
(* listed with none or something has changed since.                        *)
LicencesShared ==
  LET d == session.driver
      v == session.vehicle
  IN  session.outcome = "created" /\ {d, v} \cap moved = {} =>
        /\ Fits(v, session.type)
        /\ units[v].required # {} /\ session.codes[d] # {} =>
             units[v].required \cap LicenseTypes(d) # {}

=============================================================================
