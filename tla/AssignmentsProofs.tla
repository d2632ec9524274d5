------------------------- MODULE AssignmentsProofs -------------------------
(* Theorems of Assignments, for any number of trips, drivers, vehicles and *)
(* supervisors, any limit and any number of changes meanwhile.             *)
(*                                                                         *)
(* What a session has been told stays true of whoever has not moved since: *)
(* each answer of a list, each check createTrip has passed and each entry  *)
(* the client has taken.  So createTrip can only disagree with a list      *)
(* about someone who has moved, or where the two ask different questions.  *)
EXTENDS Assignments, TLAPS

Listed(x) == session.seen[x] # "absent"

HasRoom(x) == ActiveTrips(x) < MaxActive

(* What the lists have said of those who have not moved is so. *)
DriverTold(d) ==
  LET stage == session.seen[d]
  IN  /\ stage = "few" => HasRoom(d)
      /\ stage = "many" => ~HasRoom(d)
      /\ stage = "assignable" => HasRoom(d) /\ ~EnRuta(d)
      /\ stage = "busy" => ~HasRoom(d) \/ EnRuta(d)
      /\ session.codes[d] = LicenseTypes(d)

VehicleTold(v) ==
  /\ units[v].live
  /\ Fits(v, session.type)
  /\ Suits(v, session.codes[session.driver])
  /\ session.seen[v] \in {"free", "assignable"} => ~EnRuta(v)

SupervisorTold(s) ==
  /\ people[s] = "live"
  /\ session.seen[s] = "assignable" => HasRoom(s)
  /\ session.seen[s] = "busy" => ~HasRoom(s)

Told ==
  /\ \A d \in Drivers : Listed(d) /\ d \notin moved => DriverTold(d)
  /\ \A v \in Vehicles : Listed(v) /\ v \notin moved => VehicleTold(v)
  /\ \A s \in Supervisors : Listed(s) /\ s \notin moved => SupervisorTold(s)

(* The lists are asked for one after the other, and the client takes an    *)
(* entry of each.                                                          *)
HasDriver == {"vehicles", "supervisors"} \cup CreatePCs
HasVehicle == {"supervisors"} \cup CreatePCs

Taken ==
  /\ session.pc \in {"idle", "drivers"} => \A v \in Vehicles : ~Listed(v)
  /\ session.pc \in {"idle", "drivers", "vehicles"} => \A s \in Supervisors : ~Listed(s)
  /\ session.pc \in HasDriver => session.driver \in Drivers /\ Listed(session.driver)
  /\ session.pc \in HasVehicle => session.vehicle \in Vehicles /\ Listed(session.vehicle)
  /\ session.pc \in CreatePCs => session.supervisor \in Supervisors /\ Listed(session.supervisor)

(* What createTrip has checked is so, of those who have not moved. *)
Passed ==
  /\ \A d \in Drivers : d = session.driver /\ d \notin moved =>
       /\ session.pc \in CreatePCs \ {"dependencies", "driverLimit"} => HasRoom(d)
       /\ session.pc \in {"vehicleFree", "supervisorLimit", "vehicleData", "insert"} => ~EnRuta(d)
  /\ \A s \in Supervisors : s = session.supervisor /\ s \notin moved =>
       (session.pc \in {"vehicleData", "insert"} => HasRoom(s))

SessionInv ==
  /\ TypeOK
  /\ Taken
  /\ session.pc # "done" => Told /\ Passed /\ session.outcome = "none"
  /\ OfferHolds /\ BusyIsRefused /\ LicencesShared

-----------------------------------------------------------------------------
(* Data. *)

LEMMA Apart ==
  /\ \A d \in Drivers : d # None /\ d \notin Vehicles /\ d \notin Supervisors /\ d \in Things
  /\ \A v \in Vehicles : v # None /\ v \notin Drivers /\ v \notin Supervisors /\ v \in Things
  /\ \A s \in Supervisors : s # None /\ s \notin Drivers /\ s \notin Vehicles /\ s \in Things
BY AssignmentConstants DEF Things

LEMMA SessionTyped ==
  ASSUME SessionInv
  PROVE  /\ session \in Session
         /\ session.seen \in [Things -> Stages] /\ session.codes \in [Drivers -> SUBSET Codes]
BY DEF SessionInv, TypeOK, Session

(* The queries answer the same while the tables are the same. *)
LEMMA SameAnswers ==
  ASSUME UNCHANGED others
  PROVE  \A x : /\ HasRoom(x)' <=> HasRoom(x)
                /\ EnRuta(x)' <=> EnRuta(x)
                /\ LicenseTypes(x)' = LicenseTypes(x)
BY DEF others, HasRoom, ActiveTrips, EnRuta, Of, LicenseTypes

-----------------------------------------------------------------------------
(* Steps of the session. *)

LEMMA SessionStep ==
  ASSUME SessionInv, UNCHANGED <<others, history>>, session' \in Session, Taken',
         session'.pc # "done" => Told' /\ Passed' /\ session'.outcome = "none",
         OfferHolds' /\ BusyIsRefused' /\ LicencesShared'
  PROVE  SessionInv'
<1>1. TypeOK'
  <2>1. session'.pc \in CreatePCs =>
          None \notin {session'.driver, session'.vehicle, session'.supervisor}
    BY Apart DEF Taken, HasDriver, HasVehicle
  <2>2. QED
    BY <2>1 DEF SessionInv, TypeOK, others, history
<1>2. QED
  BY <1>1 DEF SessionInv

(* The client's lists and what it has taken are as they were. *)
SameLists ==
  /\ session'.seen = session.seen /\ session'.codes = session.codes
  /\ session'.type = session.type /\ session'.driver = session.driver

LEMMA ToldStill ==
  ASSUME Told, UNCHANGED <<others, history>>, SameLists
  PROVE  Told'
<1>1. moved' = moved /\ units' = units /\ people' = people
  BY DEF others, history
<1>2. \A d \in Drivers : DriverTold(d) => DriverTold(d)'
  BY SameAnswers DEF SameLists, DriverTold
<1>3. \A v \in Vehicles : VehicleTold(v) => VehicleTold(v)'
  BY <1>1, SameAnswers DEF SameLists, VehicleTold, Fits, Suits
<1>4. \A s \in Supervisors : SupervisorTold(s) => SupervisorTold(s)'
  BY <1>1, SameAnswers DEF SameLists, SupervisorTold
<1>5. QED
  BY <1>1, <1>2, <1>3, <1>4 DEF Told, Listed, SameLists

(* The session ends. *)
LEMMA EndStep ==
  ASSUME SessionInv, UNCHANGED <<others, history>>, session' \in Session, session'.pc = "done",
         OfferHolds' /\ BusyIsRefused' /\ LicencesShared'
  PROVE  SessionInv'
<1>1. Taken'
  BY DEF Taken, HasDriver, HasVehicle, CreatePCs
<1>2. QED
  BY <1>1, SessionStep

(* An entry of a list has its next answer: what it says has to be so. *)
LEMMA SeesStep ==
  ASSUME SessionInv, NEW x, NEW list, NEW from, NEW to \in Stages,
         Sees(list, x, from, to), from # "absent",
         \/ list = "drivers" /\ x \in Drivers
         \/ list = "vehicles" /\ x \in Vehicles
         \/ list = "supervisors" /\ x \in Supervisors,
         to # "absent" /\ x \notin moved =>
           /\ x \in Drivers => DriverTold(x)'
           /\ x \in Vehicles => VehicleTold(x)'
           /\ x \in Supervisors => SupervisorTold(x)'
  PROVE  SessionInv'
<1>1. /\ session' = [session EXCEPT !.seen[x] = to] /\ UNCHANGED <<others, history>>
      /\ session.pc = list /\ session.seen[x] = from
  BY DEF Sees, Goes
<1>2. x \in Things
  BY Apart
<1>3. /\ session' \in Session
      /\ session'.pc = session.pc /\ session'.codes = session.codes /\ session'.type = session.type
      /\ session'.driver = session.driver /\ session'.vehicle = session.vehicle
      /\ session'.outcome = session.outcome
      /\ session'.seen[x] = to /\ \A y \in Things \ {x} : session'.seen[y] = session.seen[y]
  BY <1>1, <1>2, SessionTyped DEF Session
<1>4. moved' = moved /\ units' = units /\ people' = people
  BY <1>1 DEF others, history
<1>5. Taken'
  BY <1>1, <1>3, Apart DEF SessionInv, Taken, Listed, HasDriver, HasVehicle, CreatePCs
<1>6. Told
  BY <1>1 DEF SessionInv
<1>7. ASSUME NEW d \in Drivers \ {x}, DriverTold(d)
      PROVE  DriverTold(d)'
  BY <1>1, <1>3, <1>7, Apart, SameAnswers DEF DriverTold
<1>8. ASSUME NEW v \in Vehicles \ {x}, VehicleTold(v)
      PROVE  VehicleTold(v)'
  BY <1>1, <1>3, <1>4, <1>8, Apart, SameAnswers DEF VehicleTold, Fits, Suits
<1>9. ASSUME NEW s \in Supervisors \ {x}, SupervisorTold(s)
      PROVE  SupervisorTold(s)'
  BY <1>1, <1>3, <1>4, <1>9, Apart, SameAnswers DEF SupervisorTold
<1>10. Told'
  BY <1>3, <1>4, <1>6, <1>7, <1>8, <1>9, Apart DEF Told, Listed
<1>11. Passed' /\ session'.outcome = "none"
  BY <1>1, <1>3 DEF SessionInv, Passed, CreatePCs
<1>12. QED
  BY <1>1, <1>3, <1>5, <1>10, <1>11, SessionStep DEF OfferHolds, BusyIsRefused, LicencesShared


LEMMA StepGetAssignableDrivers ==
  ASSUME SessionInv, NEW type \in Types, GetAssignableDrivers(type)
  PROVE  SessionInv'
<1> DEFINE rows == {d \in Drivers : people[d] # "deleted"}
           codes == [d \in Drivers |-> IF d \in rows THEN LicenseTypes(d) ELSE {}]
           seen == [x \in Things |-> IF x \in rows THEN "user" ELSE "absent"]
<1>1. UNCHANGED <<others, history>>
  BY DEF GetAssignableDrivers, Lists
<1>2. session' = [NoSession EXCEPT !.pc = "drivers", !.type = type, !.codes = codes, !.seen = seen]
  BY DEF GetAssignableDrivers, Lists, NoSession
<1>3. codes \in [Drivers -> SUBSET Codes] /\ seen \in [Things -> Stages]
  BY DEF LicenseTypes, Stages
<1>4. session' \in Session
  BY <1>2, <1>3, AssignmentConstants DEF NoSession, Session, VehicleTypes, ListPCs, Outcomes
<1>5. /\ session'.pc = "drivers" /\ session'.codes = codes /\ session'.seen = seen
      /\ session'.outcome = "none"
  BY <1>2 DEF NoSession
<1> HIDE DEF rows, codes, seen
<1>6. Taken'
  <2>1. \A x \in Vehicles \cup Supervisors : seen[x] = "absent"
    BY Apart DEF seen, rows
  <2>2. QED
    BY <1>5, <2>1 DEF Taken, Listed, HasDriver, HasVehicle, CreatePCs
<1>7. Told'
  <2>1. ASSUME NEW d \in Drivers, seen[d] # "absent"
        PROVE  seen[d] = "user" /\ codes[d] = LicenseTypes(d)
    BY <2>1, Apart DEF seen, codes
  <2>2. \A d \in Drivers : Listed(d)' => DriverTold(d)'
    BY <1>1, <1>5, <2>1, SameAnswers DEF Listed, DriverTold
  <2>3. QED
    BY <1>5, <1>6, <2>2 DEF Told, Taken
<1>8. Passed'
  BY <1>5 DEF Passed, CreatePCs
<1>9. QED
  BY <1>1, <1>4, <1>5, <1>6, <1>7, <1>8, SessionStep DEF OfferHolds, BusyIsRefused, LicencesShared

LEMMA StepsOfDrivers ==
  ASSUME SessionInv, NEW d \in Drivers,
         \/ GetUserInfo(d) \/ GetUserInfoFails(d)
         \/ CountTripsOfDriver(d) \/ CountEnRutaOfDriver(d)
  PROVE  SessionInv'
<1>1. PICK from \in Stages, to \in Stages :
        /\ Sees("drivers", d, from, to) /\ from # "absent"
        /\ to # "absent" /\ from = "trips" => to = IF HasRoom(d) THEN "few" ELSE "many"
        /\ to # "absent" /\ from \in {"few", "many"} =>
             to = IF from = "few" /\ ~EnRuta(d) THEN "assignable" ELSE "busy"
        /\ to # "absent" /\ from \notin {"trips", "few", "many"} => to = "trips"
  BY DEF GetUserInfo, GetUserInfoFails, CountTripsOfDriver, CountEnRutaOfDriver, HasRoom, Stages
<1>2. /\ session' = [session EXCEPT !.seen[d] = to] /\ UNCHANGED <<others, history>>
      /\ session.pc = "drivers" /\ session.seen[d] = from
  BY <1>1 DEF Sees, Goes
<1>3. session'.codes = session.codes /\ session'.seen[d] = to
  BY <1>2, SessionTyped, Apart DEF Session
<1>4. ASSUME to # "absent", d \notin moved
      PROVE  DriverTold(d)'
  <2>1. DriverTold(d)
    BY <1>1, <1>2, <1>4 DEF SessionInv, Told, Listed
  <2>2. QED
    BY <1>1, <1>2, <1>3, <1>4, <2>1, SameAnswers DEF DriverTold
<1>5. QED
  BY <1>1, <1>4, Apart, SeesStep

LEMMA StepsOfVehicles ==
  ASSUME SessionInv, NEW v \in Vehicles, FindEnRutaOfVehicle(v) \/ CountTripsOfVehicle(v)
  PROVE  SessionInv'
<1>1. PICK from \in Stages, to \in Stages :
        /\ Sees("vehicles", v, from, to) /\ from # "absent"
        /\ to = "free" => ~EnRuta(v)
        /\ to = "assignable" => from = "free"
  BY DEF FindEnRutaOfVehicle, CountTripsOfVehicle, Stages
<1>2. /\ session' = [session EXCEPT !.seen[v] = to] /\ UNCHANGED <<others, history>>
      /\ session.pc = "vehicles" /\ session.seen[v] = from
  BY <1>1 DEF Sees, Goes
<1>3. /\ session'.codes = session.codes /\ session'.type = session.type
      /\ session'.driver = session.driver /\ session'.seen[v] = to /\ units' = units
  BY <1>2, SessionTyped, Apart DEF Session, others
<1>4. ASSUME v \notin moved
      PROVE  VehicleTold(v)'
  <2>1. VehicleTold(v)
    BY <1>1, <1>2, <1>4 DEF SessionInv, Told, Listed
  <2>2. QED
    BY <1>1, <1>2, <1>3, <2>1, SameAnswers DEF VehicleTold, Fits, Suits
<1>5. QED
  BY <1>1, <1>4, Apart, SeesStep

LEMMA StepCountTripsOfSupervisor ==
  ASSUME SessionInv, NEW s \in Supervisors, CountTripsOfSupervisor(s)
  PROVE  SessionInv'
<1>1. PICK to \in Stages :
        /\ Sees("supervisors", s, "trips", to)
        /\ to = IF HasRoom(s) THEN "assignable" ELSE "busy"
  BY DEF CountTripsOfSupervisor, HasRoom, Stages
<1>2. /\ session' = [session EXCEPT !.seen[s] = to] /\ UNCHANGED <<others, history>>
      /\ session.pc = "supervisors" /\ session.seen[s] = "trips"
  BY <1>1 DEF Sees, Goes
<1>3. session'.seen[s] = to /\ people' = people
  BY <1>2, SessionTyped, Apart DEF Session, others
<1>4. ASSUME s \notin moved
      PROVE  SupervisorTold(s)'
  <2>1. SupervisorTold(s)
    BY <1>2, <1>4 DEF SessionInv, Told, Listed
  <2>2. QED
    BY <1>1, <1>2, <1>3, <2>1, SameAnswers DEF SupervisorTold
<1>5. QED
  BY <1>1, <1>4, Apart, SeesStep DEF Stages


(* The client takes an entry of a list and has the next one. *)
LEMMA StepGetAssignableVehicles ==
  ASSUME SessionInv, NEW d \in Drivers, GetAssignableVehicles(d)
  PROVE  SessionInv'
<1> DEFINE rows == {v \in Vehicles : /\ units[v].live
                                     /\ Fits(v, session.type)
                                     /\ Suits(v, session.codes[d])}
           seen == [x \in Things |-> IF x \in rows THEN "trips" ELSE session.seen[x]]
<1>1. UNCHANGED <<others, history>> /\ session.pc = "drivers" /\ Listed(d)
  BY DEF GetAssignableVehicles, Lists, Takes, Listed
<1>2. session' = [session EXCEPT !.pc = "vehicles", !.driver = d, !.seen = seen]
  BY SessionTyped DEF GetAssignableVehicles, Lists, Session
<1>3. seen \in [Things -> Stages] /\ rows \subseteq Vehicles
  BY SessionTyped DEF Stages
<1>4. /\ session' \in Session /\ session'.pc = "vehicles" /\ session'.driver = d
      /\ session'.seen = seen /\ session'.type = session.type
      /\ session'.codes = session.codes /\ session'.outcome = session.outcome
  BY <1>2, <1>3, SessionTyped DEF Session, ListPCs
<1>5. units' = units /\ people' = people /\ moved' = moved
  BY <1>1 DEF others, history
<1>6. /\ \A x \in Drivers \cup Supervisors : seen[x] = session.seen[x]
      /\ \A v \in Vehicles : seen[v] = IF v \in rows THEN "trips" ELSE "absent"
  BY <1>1, <1>3, Apart DEF SessionInv, Taken, Listed
<1>7. Taken'
  BY <1>1, <1>4, <1>6 DEF SessionInv, Taken, Listed, HasDriver, HasVehicle, CreatePCs
<1>8. Told'
  <2>1. Told
    BY <1>1 DEF SessionInv
  <2>2. \A e \in Drivers : DriverTold(e) => DriverTold(e)'
    BY <1>1, <1>4, <1>6, SameAnswers DEF DriverTold
  <2>3. ASSUME NEW v \in Vehicles, seen[v] # "absent"
        PROVE  VehicleTold(v)'
    <3>1. seen[v] = "trips" /\ v \in rows
      BY <1>6, <2>3
    <3>2. QED
      BY <1>4, <1>5, <3>1 DEF VehicleTold, Fits, Suits
  <2>4. \A s \in Supervisors : ~Listed(s)'
    BY <1>4, <1>7 DEF Taken
  <2>5. QED
    BY <1>4, <1>5, <1>6, <2>1, <2>2, <2>3, <2>4 DEF Told, Listed
<1> HIDE DEF rows, seen
<1>9. Passed' /\ session'.outcome = "none"
  BY <1>1, <1>4 DEF SessionInv, Passed, CreatePCs
<1>10. QED
  BY <1>1, <1>4, <1>7, <1>8, <1>9, SessionStep DEF OfferHolds, BusyIsRefused, LicencesShared

LEMMA StepGetAssignableSupervisors ==
  ASSUME SessionInv, NEW v \in Vehicles, GetAssignableSupervisors(v)
  PROVE  SessionInv'
<1> DEFINE rows == {s \in Supervisors : people[s] = "live"}
           seen == [x \in Things |-> IF x \in rows THEN "trips" ELSE session.seen[x]]
<1>1. UNCHANGED <<others, history>> /\ session.pc = "vehicles" /\ Listed(v)
  BY DEF GetAssignableSupervisors, Lists, Takes, Listed
<1>2. session' = [session EXCEPT !.pc = "supervisors", !.vehicle = v, !.seen = seen]
  BY SessionTyped DEF GetAssignableSupervisors, Lists, Session
<1>3. seen \in [Things -> Stages] /\ rows \subseteq Supervisors
  BY SessionTyped DEF Stages
<1>4. /\ session' \in Session /\ session'.pc = "supervisors" /\ session'.vehicle = v
      /\ session'.seen = seen /\ session'.type = session.type
      /\ session'.driver = session.driver
      /\ session'.codes = session.codes /\ session'.outcome = session.outcome
  BY <1>2, <1>3, SessionTyped DEF Session, ListPCs
<1>5. units' = units /\ people' = people /\ moved' = moved
  BY <1>1 DEF others, history
<1>6. /\ \A x \in Drivers \cup Vehicles : seen[x] = session.seen[x]
      /\ \A s \in Supervisors : seen[s] = IF s \in rows THEN "trips" ELSE "absent"
  BY <1>1, <1>3, Apart DEF SessionInv, Taken, Listed
<1>7. Taken'
  BY <1>1, <1>4, <1>6 DEF SessionInv, Taken, Listed, HasDriver, HasVehicle, CreatePCs
<1>8. Told'
  <2>1. Told
    BY <1>1 DEF SessionInv
  <2>2. \A d \in Drivers : DriverTold(d) => DriverTold(d)'
    BY <1>1, <1>4, <1>6, SameAnswers DEF DriverTold
  <2>3. \A u \in Vehicles : VehicleTold(u) => VehicleTold(u)'
    BY <1>1, <1>4, <1>5, <1>6, SameAnswers DEF VehicleTold, Fits, Suits
  <2>4. ASSUME NEW s \in Supervisors, seen[s] # "absent"
        PROVE  SupervisorTold(s)'
    <3>1. seen[s] = "trips" /\ s \in rows
      BY <1>6, <2>4
    <3>2. QED
      BY <1>4, <1>5, <3>1 DEF SupervisorTold
  <2>5. QED
    BY <1>4, <1>5, <1>6, <2>1, <2>2, <2>3, <2>4 DEF Told, Listed
<1> HIDE DEF rows, seen
<1>9. Passed' /\ session'.outcome = "none"
  BY <1>1, <1>4 DEF SessionInv, Passed, CreatePCs
<1>10. QED
  BY <1>1, <1>4, <1>7, <1>8, <1>9, SessionStep DEF OfferHolds, BusyIsRefused, LicencesShared

LEMMA StepCreateTrip ==
  ASSUME SessionInv, NEW s \in Supervisors, CreateTrip(s)
  PROVE  SessionInv'
<1>1. /\ UNCHANGED <<others, history>> /\ session.pc = "supervisors" /\ Listed(s)
      /\ session' = [session EXCEPT !.pc = "dependencies", !.supervisor = s]
  BY DEF CreateTrip, Goes, Takes, Listed
<1>2. /\ session' \in Session /\ session'.pc = "dependencies" /\ session'.supervisor = s
      /\ session'.vehicle = session.vehicle /\ session'.outcome = session.outcome
      /\ SameLists
  BY <1>1, SessionTyped DEF Session, CreatePCs, SameLists
<1>3. Taken'
  BY <1>1, <1>2 DEF SessionInv, Taken, Listed, HasDriver, HasVehicle, CreatePCs, SameLists
<1>4. Told' /\ Passed' /\ session'.outcome = "none"
  BY <1>1, <1>2, ToldStill DEF SessionInv, Passed
<1>5. QED
  BY <1>1, <1>2, <1>3, <1>4, SessionStep DEF OfferHolds, BusyIsRefused, LicencesShared

-----------------------------------------------------------------------------
(* createTrip. *)

(* It goes on: what it knows by now has to be so. *)
LEMMA GoesOn ==
  ASSUME SessionInv, NEW next \in Session, Goes(next),
         session.pc \in CreatePCs, next.pc \in CreatePCs,
         next.seen = session.seen, next.codes = session.codes, next.type = session.type,
         next.driver = session.driver, next.vehicle = session.vehicle,
         next.supervisor = session.supervisor, next.outcome = session.outcome, Passed'
  PROVE  SessionInv'
<1>1. UNCHANGED <<others, history>> /\ session' = next
  BY DEF Goes
<1>2. session.pc # "done" /\ Told /\ session.outcome = "none" /\ Taken
  BY DEF SessionInv, CreatePCs
<1>3. Taken'
  BY <1>1, <1>2 DEF Taken, Listed, HasDriver, HasVehicle, CreatePCs
<1>4. Told'
  BY <1>1, <1>2, ToldStill DEF SameLists
<1>5. QED
  BY <1>1, <1>2, <1>3, <1>4, SessionStep DEF OfferHolds, BusyIsRefused, LicencesShared

(* It is over: a refusal has to be one that the lists do not contradict. *)
LEMMA Refused ==
  ASSUME SessionInv, NEW next \in Session, Goes(next),
         session.pc # "done", next.pc = "done", next.outcome # "created",
         next.seen = session.seen, next.driver = session.driver,
         next.vehicle = session.vehicle, next.supervisor = session.supervisor,
         next.outcome = "driver" =>
           ~(session.seen[session.driver] = "assignable" /\ session.driver \notin moved),
         next.outcome = "vehicle" =>
           ~(session.seen[session.vehicle] = "assignable" /\ session.vehicle \notin moved),
         next.outcome = "supervisor" =>
           ~(session.seen[session.supervisor] = "assignable" /\ session.supervisor \notin moved),
         next.outcome = "missing" /\ ~next.failed =>
           {session.vehicle, session.supervisor} \cap moved # {},
         next.outcome = "noVehicle" /\ ~next.failed => session.vehicle \in moved
  PROVE  SessionInv'
<1>1. UNCHANGED <<others, history>> /\ moved' = moved /\ session' = next
  BY DEF Goes, history
<1>2. OfferHolds'
  BY <1>1 DEF OfferHolds
<1>3. BusyIsRefused' /\ LicencesShared'
  BY <1>1 DEF BusyIsRefused, LicencesShared
<1>4. QED
  BY <1>1, <1>2, <1>3, EndStep

LEMMA EndsTyped ==
  ASSUME SessionInv, NEW outcome \in Outcomes,
         NEW next, next = [session EXCEPT !.pc = "done", !.outcome = outcome]
  PROVE  /\ next \in Session /\ next.pc = "done" /\ next.outcome = outcome
         /\ next.seen = session.seen /\ next.driver = session.driver
         /\ next.vehicle = session.vehicle /\ next.supervisor = session.supervisor
BY SessionTyped DEF Session

LEMMA FailedTyped ==
  ASSUME SessionInv, NEW outcome \in Outcomes,
         NEW next, next = [session EXCEPT !.pc = "done", !.outcome = outcome, !.failed = TRUE]
  PROVE  /\ next \in Session /\ next.pc = "done" /\ next.outcome = outcome /\ next.failed
         /\ next.seen = session.seen /\ next.driver = session.driver
         /\ next.vehicle = session.vehicle /\ next.supervisor = session.supervisor
BY SessionTyped DEF Session

LEMMA StepsToNothing ==
  ASSUME SessionInv, ListFails \/ GiveUp \/ DependenciesFail \/ VehicleDataFails
  PROVE  SessionInv'
<1>1. CASE ListFails \/ GiveUp
  <2>1. Goes([session EXCEPT !.pc = "done", !.outcome = "nothing"]) /\ session.pc # "done"
    BY <1>1 DEF ListFails, GiveUp, Ends, ListPCs
  <2>2. QED
    BY <2>1, EndsTyped, Refused DEF Outcomes
<1>2. CASE DependenciesFail
  <2>1. /\ Goes([session EXCEPT !.pc = "done", !.outcome = "missing", !.failed = TRUE])
        /\ session.pc # "done"
    BY <1>2 DEF DependenciesFail
  <2>2. QED
    BY <2>1, FailedTyped, Refused DEF Outcomes
<1>3. CASE VehicleDataFails
  <2>1. /\ Goes([session EXCEPT !.pc = "done", !.outcome = "noVehicle", !.failed = TRUE])
        /\ session.pc # "done"
    BY <1>3 DEF VehicleDataFails
  <2>2. QED
    BY <2>1, FailedTyped, Refused DEF Outcomes
<1>4. QED
  BY <1>1, <1>2, <1>3

(* Whoever the client has taken and has not moved is as the lists said.    *)
LEMMA Chosen ==
  ASSUME SessionInv, session.pc \in CreatePCs
  PROVE  /\ session.driver \in Drivers /\ session.vehicle \in Vehicles
         /\ session.supervisor \in Supervisors
         /\ session.driver \notin moved => DriverTold(session.driver)
         /\ session.vehicle \notin moved => VehicleTold(session.vehicle)
         /\ session.supervisor \notin moved => SupervisorTold(session.supervisor)
BY DEF SessionInv, Taken, Told, HasDriver, HasVehicle, CreatePCs

LEMMA StepValidateDependencies ==
  ASSUME SessionInv, ValidateVehicle \/ ValidateSupervisor
  PROVE  SessionInv'
<1>1. PICK what \in Dependencies, ok \in BOOLEAN :
        /\ Finds(what, ok)
        /\ ~ok => {session.vehicle, session.supervisor} \cap moved # {}
  <2>1. session.pc \in CreatePCs
    BY DEF ValidateVehicle, ValidateSupervisor, Finds, CreatePCs
  <2>2. session.vehicle \notin moved => units[session.vehicle].live
    BY <2>1, Chosen DEF VehicleTold
  <2>3. session.supervisor \notin moved => people[session.supervisor] = "live"
    BY <2>1, Chosen DEF SupervisorTold
  <2>4. CASE ValidateVehicle
    <3>1. CASE units[session.vehicle].live
      BY <2>4, <3>1 DEF ValidateVehicle, Dependencies, Finds
    <3>2. CASE ~units[session.vehicle].live
      BY <2>2, <2>4, <3>2 DEF ValidateVehicle, Dependencies, Finds
    <3>3. QED
      BY <3>1, <3>2
  <2>5. CASE ValidateSupervisor
    BY <2>3, <2>5 DEF ValidateSupervisor, Dependencies
  <2>6. QED
    BY <2>4, <2>5
<1>2. session.pc = "dependencies"
  BY <1>1 DEF Finds
<1>3. CASE ~ok
  <2>1. Goes([session EXCEPT !.pc = "done", !.outcome = "missing"])
    BY <1>1, <1>3 DEF Finds, Ends
  <2>2. QED
    BY <1>1, <1>2, <1>3, <2>1, EndsTyped, Refused DEF Outcomes
<1>4. CASE ok
  <2> DEFINE found == session.found \cup {what}
             next == [session EXCEPT !.found = found,
                        !.pc = IF found = Dependencies THEN "driverLimit" ELSE @]
  <2>1. Goes(next)
    BY <1>1, <1>4 DEF Finds
  <2>2. next.pc \in {"dependencies", "driverLimit"}
    BY <1>2, SessionTyped DEF Session
  <2>3. /\ next \in Session
        /\ next.seen = session.seen /\ next.codes = session.codes /\ next.type = session.type
        /\ next.driver = session.driver /\ next.vehicle = session.vehicle
        /\ next.supervisor = session.supervisor /\ next.outcome = session.outcome
    BY <1>1, <1>2, SessionTyped DEF Session, CreatePCs
  <2> HIDE DEF next
  <2>4. Passed'
    BY <2>1, <2>2 DEF Goes, Passed
  <2>5. QED
    BY <1>2, <2>1, <2>2, <2>3, <2>4, GoesOn DEF CreatePCs
<1>5. QED
  BY <1>3, <1>4


(* A check is passed: what was known and what it has found. *)
LEMMA CheckPassed ==
  ASSUME SessionInv, NEW pc \in CreatePCs, NEW next \in CreatePCs,
         session.pc = pc, Goes([session EXCEPT !.pc = next]),
         \/ pc = "driverLimit" /\ next = "driverFree" /\ HasRoom(session.driver)
         \/ pc = "driverFree" /\ next = "vehicleFree" /\ ~EnRuta(session.driver)
         \/ pc = "vehicleFree" /\ next = "supervisorLimit"
         \/ pc = "supervisorLimit" /\ next = "vehicleData" /\ HasRoom(session.supervisor)
         \/ pc = "vehicleData" /\ next = "insert"
  PROVE  SessionInv'
<1> DEFINE then == [session EXCEPT !.pc = next]
<1>1. /\ then \in Session /\ then.pc = next
      /\ then.seen = session.seen /\ then.codes = session.codes /\ then.type = session.type
      /\ then.driver = session.driver /\ then.vehicle = session.vehicle
      /\ then.supervisor = session.supervisor /\ then.outcome = session.outcome
  BY SessionTyped DEF Session
<1>2. Goes(then)
  OBVIOUS
<1> HIDE DEF then
<1>3. session' = then /\ UNCHANGED others /\ moved' = moved
  BY <1>2 DEF Goes, history
<1>4. Passed /\ session.pc # "done"
  BY DEF SessionInv, CreatePCs
<1>5. ASSUME NEW d \in Drivers, d = session.driver, d \notin moved
      PROVE  /\ next \in CreatePCs \ {"dependencies", "driverLimit"} => HasRoom(d)
             /\ next \in {"vehicleFree", "supervisorLimit", "vehicleData", "insert"} => ~EnRuta(d)
  BY <1>4, <1>5 DEF Passed, CreatePCs
<1>6. ASSUME NEW s \in Supervisors, s = session.supervisor, s \notin moved
      PROVE  next \in {"vehicleData", "insert"} => HasRoom(s)
  BY <1>4, <1>6 DEF Passed, CreatePCs
<1>7. Passed'
  BY <1>1, <1>3, <1>5, <1>6, SameAnswers DEF Passed
<1>8. QED
  BY <1>1, <1>2, <1>7, GoesOn

LEMMA StepsOfChecks ==
  ASSUME SessionInv,
         \/ CheckDriverLimit \/ CheckDriverFree \/ CheckVehicleFree \/ CheckSupervisorLimit
         \/ ReadVehicleData
  PROVE  SessionInv'
<1> USE DEF Checks, Ends, CreatePCs, Outcomes
<1>1. CASE CheckDriverLimit
  <2>1. CASE HasRoom(session.driver)
    BY <1>1, <2>1, CheckPassed DEF CheckDriverLimit, HasRoom
  <2>2. CASE ~HasRoom(session.driver)
    <3>1. /\ Goes([session EXCEPT !.pc = "done", !.outcome = "driver"])
          /\ session.pc = "driverLimit"
      BY <1>1, <2>2 DEF CheckDriverLimit, HasRoom
    <3>2. ~(session.seen[session.driver] = "assignable" /\ session.driver \notin moved)
      BY <2>2, <3>1, Chosen DEF DriverTold
    <3>3. QED
      BY <3>1, <3>2, EndsTyped, Refused
  <2>3. QED
    BY <2>1, <2>2
<1>2. CASE CheckDriverFree
  <2>1. CASE ~EnRuta(session.driver)
    BY <1>2, <2>1, CheckPassed DEF CheckDriverFree
  <2>2. CASE EnRuta(session.driver)
    <3>1. /\ Goes([session EXCEPT !.pc = "done", !.outcome = "driver"])
          /\ session.pc = "driverFree"
      BY <1>2, <2>2 DEF CheckDriverFree
    <3>2. ~(session.seen[session.driver] = "assignable" /\ session.driver \notin moved)
      BY <2>2, <3>1, Chosen DEF DriverTold
    <3>3. QED
      BY <3>1, <3>2, EndsTyped, Refused
  <2>3. QED
    BY <2>1, <2>2
<1>3. CASE CheckVehicleFree
  <2>1. CASE ~EnRuta(session.vehicle)
    BY <1>3, <2>1, CheckPassed DEF CheckVehicleFree
  <2>2. CASE EnRuta(session.vehicle)
    <3>1. /\ Goes([session EXCEPT !.pc = "done", !.outcome = "vehicle"])
          /\ session.pc = "vehicleFree"
      BY <1>3, <2>2 DEF CheckVehicleFree
    <3>2. ~(session.seen[session.vehicle] = "assignable" /\ session.vehicle \notin moved)
      BY <2>2, <3>1, Chosen DEF VehicleTold
    <3>3. QED
      BY <3>1, <3>2, EndsTyped, Refused
  <2>3. QED
    BY <2>1, <2>2
<1>4. CASE CheckSupervisorLimit
  <2>1. CASE HasRoom(session.supervisor)
    BY <1>4, <2>1, CheckPassed DEF CheckSupervisorLimit, HasRoom
  <2>2. CASE ~HasRoom(session.supervisor)
    <3>1. /\ Goes([session EXCEPT !.pc = "done", !.outcome = "supervisor"])
          /\ session.pc = "supervisorLimit"
      BY <1>4, <2>2 DEF CheckSupervisorLimit, HasRoom
    <3>2. ~(session.seen[session.supervisor] = "assignable" /\ session.supervisor \notin moved)
      BY <2>2, <3>1, Chosen DEF SupervisorTold
    <3>3. QED
      BY <3>1, <3>2, EndsTyped, Refused
  <2>3. QED
    BY <2>1, <2>2
<1>5. CASE ReadVehicleData
  <2>1. CASE units[session.vehicle].live
    BY <1>5, <2>1, CheckPassed DEF ReadVehicleData
  <2>2. CASE ~units[session.vehicle].live
    <3>1. /\ Goes([session EXCEPT !.pc = "done", !.outcome = "noVehicle"])
          /\ session.pc = "vehicleData"
      BY <1>5, <2>2 DEF ReadVehicleData
    <3>2. session.vehicle \in moved
      BY <2>2, <3>1, Chosen DEF VehicleTold
    <3>3. QED
      BY <3>1, <3>2, EndsTyped, Refused
  <2>3. QED
    BY <2>1, <2>2
<1>6. QED
  BY <1>1, <1>2, <1>3, <1>4, <1>5

(* The trip is made: whoever was busy, or shares no licence, has moved.    *)
LEMMA StepInsertTrip ==
  ASSUME SessionInv, NEW t \in TripIds, InsertTrip(t)
  PROVE  SessionInv'
<1> DEFINE d == session.driver
           v == session.vehicle
           row == [ status |-> "CREADO", driver |-> d, vehicle |-> v,
                    supervisor |-> session.supervisor ]
<1>1. /\ session.pc = "insert" /\ session.pc \in CreatePCs
      /\ trips' = [trips EXCEPT ![t] = row]
      /\ session' = [session EXCEPT !.pc = "done", !.outcome = "created"]
      /\ UNCHANGED <<people, licences, units, moved, changes>>
  BY DEF InsertTrip, history, CreatePCs
<1>2. /\ session' \in Session /\ session'.pc = "done" /\ session'.outcome = "created"
      /\ session'.seen = session.seen /\ session'.codes = session.codes
      /\ session'.type = session.type /\ session'.driver = d /\ session'.vehicle = v
      /\ session'.supervisor = session.supervisor
  BY <1>1, SessionTyped DEF Session, Outcomes
<1>3. Taken'
  BY <1>2 DEF Taken, HasDriver, HasVehicle, CreatePCs
<1>4. TypeOK'
  <2>1. row \in Trip
    BY <1>1, Chosen DEF Trip, ActiveStatus
  <2>2. QED
    BY <1>1, <1>2, <2>1 DEF SessionInv, TypeOK, CreatePCs
<1>5. OfferHolds'
  BY <1>2 DEF OfferHolds
<1>6. BusyIsRefused'
  <2>1. Passed
    BY <1>1 DEF SessionInv
  <2>2. session.seen[d] = "busy" => d \in moved
    BY <1>1, <2>1, Chosen DEF Passed, DriverTold, CreatePCs
  <2>3. session.seen[session.supervisor] = "busy" => session.supervisor \in moved
    BY <1>1, <2>1, Chosen DEF Passed, SupervisorTold
  <2>4. QED
    BY <1>1, <1>2, <2>2, <2>3 DEF BusyIsRefused
<1>7. LicencesShared'
  <2>1. ASSUME d \notin moved, v \notin moved
        PROVE  /\ Fits(v, session.type)
               /\ units[v].required # {} /\ session.codes[d] # {} =>
                    units[v].required \cap LicenseTypes(d) # {}
    BY <1>1, <2>1, Chosen DEF DriverTold, VehicleTold, Suits
  <2>2. QED
    BY <1>1, <1>2, <2>1 DEF LicencesShared, Fits, LicenseTypes
<1>8. QED
  BY <1>2, <1>3, <1>4, <1>5, <1>6, <1>7 DEF SessionInv


-----------------------------------------------------------------------------
(* Requests of other clients.                                              *)

(* What is asked about x has the answers it had. *)
Same(x) ==
  /\ HasRoom(x)' <=> HasRoom(x)
  /\ EnRuta(x)' <=> EnRuta(x)
  /\ x \in Drivers => LicenseTypes(x)' = LicenseTypes(x)
  /\ x \in Supervisors => people'[x] = people[x]
  /\ x \in Vehicles => units'[x] = units[x]

LEMMA Elsewhere ==
  ASSUME SessionInv, session.pc # "done", session' = session, TypeOK', moved \subseteq moved',
         \A x \in Things : Listed(x) /\ x \notin moved' => Same(x)
  PROVE  SessionInv'
<1>1. Told /\ Passed /\ session.outcome = "none" /\ Taken
  BY DEF SessionInv
<1>2. Taken'
  BY <1>1 DEF Taken, Listed
<1>3. ASSUME NEW d \in Drivers, Listed(d), d \notin moved'
      PROVE  DriverTold(d)'
  <2>1. DriverTold(d) /\ Same(d)
    BY <1>1, <1>3, Apart DEF Told
  <2>2. QED
    BY <2>1 DEF DriverTold, Same
<1>4. ASSUME NEW v \in Vehicles, Listed(v), v \notin moved'
      PROVE  VehicleTold(v)'
  <2>1. VehicleTold(v) /\ Same(v)
    BY <1>1, <1>4, Apart DEF Told
  <2>2. units'[v] = units[v] /\ (EnRuta(v)' <=> EnRuta(v))
    BY <1>4, <2>1 DEF Same
  <2>3. QED
    BY <2>1, <2>2 DEF VehicleTold, Fits, Suits
<1>5. ASSUME NEW s \in Supervisors, Listed(s), s \notin moved'
      PROVE  SupervisorTold(s)'
  <2>1. SupervisorTold(s) /\ Same(s)
    BY <1>1, <1>5, Apart DEF Told
  <2>2. QED
    BY <2>1 DEF SupervisorTold, Same
<1>6. Told'
  BY <1>3, <1>4, <1>5 DEF Told, Listed
<1>7. Passed'
  <2>1. ASSUME NEW d \in Drivers, d = session.driver, d \notin moved', session.pc \in CreatePCs
        PROVE  Same(d)
    BY <1>1, <2>1, Apart DEF Taken, HasDriver
  <2>2. ASSUME NEW s \in Supervisors, s = session.supervisor, s \notin moved',
               session.pc \in CreatePCs
        PROVE  Same(s)
    BY <1>1, <2>2, Apart DEF Taken
  <2>3. QED
    BY <1>1, <2>1, <2>2 DEF Passed, Same, CreatePCs
<1>8. QED
  BY <1>1, <1>2, <1>6, <1>7 DEF SessionInv, OfferHolds, BusyIsRefused, LicencesShared

(* A trip is made or changed: whoever is in neither row is not disturbed. *)
LEMMA TripMoves ==
  ASSUME SessionInv, NEW t \in TripIds, NEW row \in Trip, MoveTrip(t, row)
  PROVE  SessionInv'
<1> DEFINE those == {row.driver, row.vehicle, row.supervisor,
                     trips[t].driver, trips[t].vehicle, trips[t].supervisor}
<1>0. trips[t] \in Trip
  BY DEF SessionInv, TypeOK
<1>1. /\ trips' = [trips EXCEPT ![t] = row] /\ UNCHANGED <<people, licences, units, session>>
      /\ session.pc # "done" /\ changes < MaxChanges /\ changes' = changes + 1
      /\ moved' = moved \cup {x \in those \ {None} : session.seen[x] # "absent"}
  BY DEF MoveTrip, Moves
<1>2. those \ {None} \subseteq Things
  BY <1>0 DEF Trip, Things
<1>3. TypeOK'
  BY <1>1, <1>2, AssignmentConstants DEF SessionInv, TypeOK
<1>4. ASSUME NEW x \in Things, Listed(x), x \notin moved'
      PROVE  Same(x)
  <2>1. x \notin those
    BY <1>1, <1>4, AssignmentConstants DEF Listed, Things
  <2>2. trips \in [TripIds -> Trip]
    BY DEF SessionInv, TypeOK
  <2>3. \A u \in TripIds : Of(u, x)' /\ trips'[u].status \in ActiveStatus <=>
                           Of(u, x) /\ trips[u].status \in ActiveStatus
    BY <1>1, <2>1, <2>2 DEF Of, ActiveStatus
  <2>4. \A u \in TripIds : Of(u, x)' /\ trips'[u].status = "EN_RUTA" <=>
                           Of(u, x) /\ trips[u].status = "EN_RUTA"
    BY <1>1, <2>1, <2>2 DEF Of
  <2>5. ActiveTrips(x)' = ActiveTrips(x)
    BY <2>3 DEF ActiveTrips
  <2>6. EnRuta(x)' <=> EnRuta(x)
    BY <2>4 DEF EnRuta
  <2>7. QED
    BY <1>1, <2>5, <2>6 DEF Same, HasRoom, LicenseTypes
<1>5. QED
  BY <1>1, <1>3, <1>4, Elsewhere

LEMMA StepsOfTrips ==
  ASSUME SessionInv, NEW t \in TripIds,
         \/ \E d \in Drivers, v \in Vehicles \cup {None}, s \in Supervisors \cup {None} :
              OtherCreatesTrip(t, d, v, s)
         \/ \E d \in Drivers \cup {None}, v \in Vehicles \cup {None} : UpdateTrip(t, d, v)
         \/ StartTrip(t) \/ FinishTrip(t) \/ ReviewTrip(t)
  PROVE  SessionInv'
<1>1. trips[t] \in Trip
  BY DEF SessionInv, TypeOK
<1>2. ASSUME NEW d \in Drivers, NEW v \in Vehicles \cup {None}, NEW s \in Supervisors \cup {None},
             OtherCreatesTrip(t, d, v, s)
      PROVE  SessionInv'
  <2> DEFINE row == [status |-> "CREADO", driver |-> d, vehicle |-> v, supervisor |-> s]
  <2>1. row \in Trip
    BY DEF Trip, ActiveStatus
  <2>2. MoveTrip(t, row)
    BY <1>2 DEF OtherCreatesTrip
  <2> HIDE DEF row
  <2>3. QED
    BY <2>1, <2>2, TripMoves
<1>3. ASSUME NEW status \in {"EN_RUTA", "EN_REVISION", "TERMINADO"},
             MoveTrip(t, [trips[t] EXCEPT !.status = status])
      PROVE  SessionInv'
  <2> DEFINE row == [trips[t] EXCEPT !.status = status]
  <2>1. row \in Trip
    BY <1>1 DEF Trip, ActiveStatus
  <2>2. MoveTrip(t, row)
    BY <1>3
  <2> HIDE DEF row
  <2>3. QED
    BY <2>1, <2>2, TripMoves
<1>4. ASSUME NEW d \in Drivers \cup {None}, NEW v \in Vehicles \cup {None}, UpdateTrip(t, d, v)
      PROVE  SessionInv'
  <2> DEFINE row == [trips[t] EXCEPT !.driver = d, !.vehicle = v]
  <2>1. row \in Trip
    BY <1>1 DEF Trip
  <2>2. MoveTrip(t, row)
    BY <1>4 DEF UpdateTrip
  <2> HIDE DEF row
  <2>3. QED
    BY <2>1, <2>2, TripMoves
<1>5. QED
  BY <1>2, <1>3, <1>4 DEF StartTrip, FinishTrip, ReviewTrip

(* A change that is about one driver, vehicle or supervisor only. *)
LEMMA OneMoves ==
  ASSUME SessionInv, NEW y \in Things, Moves({y}), UNCHANGED trips,
         people' \in [Drivers \cup Supervisors -> PersonStatus],
         licences' \in [Drivers -> [Codes -> LicenceStatus]],
         units' \in [Vehicles -> Unit],
         \A p \in (Drivers \cup Supervisors) \ {y} : people'[p] = people[p],
         \A d \in Drivers \ {y} : licences'[d] = licences[d],
         \A v \in Vehicles \ {y} : units'[v] = units[v]
  PROVE  SessionInv'
<1>1. /\ UNCHANGED session /\ session.pc # "done" /\ changes < MaxChanges /\ changes' = changes + 1
      /\ moved' = moved \cup {x \in {y} \ {None} : session.seen[x] # "absent"}
  BY DEF Moves
<1>2. TypeOK'
  BY <1>1, AssignmentConstants DEF SessionInv, TypeOK
<1>3. ASSUME NEW x \in Things, Listed(x), x \notin moved'
      PROVE  Same(x)
  <2>1. x # y
    BY <1>1, <1>3, Apart DEF Listed, Things
  <2>2. HasRoom(x)' <=> HasRoom(x)
    BY DEF HasRoom, ActiveTrips, Of
  <2>3. EnRuta(x)' <=> EnRuta(x)
    BY DEF EnRuta, Of
  <2>4. QED
    BY <2>1, <2>2, <2>3 DEF Same, LicenseTypes
<1>4. QED
  BY <1>1, <1>2, <1>3, Elsewhere

LEMMA StepsOfPeople ==
  ASSUME SessionInv, NEW p \in Drivers \cup Supervisors, NEW status \in PersonStatus,
         MovePerson(p, status)
  PROVE  SessionInv'
<1>1. /\ people' = [people EXCEPT ![p] = status] /\ Moves({p})
      /\ UNCHANGED <<trips, licences, units>>
  BY DEF MovePerson
<1>2. p \in Things
  BY DEF Things
<1>3. QED
  BY <1>1, <1>2, OneMoves DEF SessionInv, TypeOK

LEMMA StepsOfLicences ==
  ASSUME SessionInv, NEW d \in Drivers, NEW c \in Codes, NEW status \in LicenceStatus,
         SetLicence(d, c, status)
  PROVE  SessionInv'
<1>1. /\ licences' = [licences EXCEPT ![d][c] = status] /\ Moves({d})
      /\ UNCHANGED <<trips, people, units>>
  BY DEF SetLicence
<1>2. /\ licences' \in [Drivers -> [Codes -> LicenceStatus]]
      /\ \A e \in Drivers \ {d} : licences'[e] = licences[e]
  BY <1>1 DEF SessionInv, TypeOK
<1>3. d \in Things
  BY DEF Things
<1>4. QED
  BY <1>1, <1>2, <1>3, OneMoves DEF SessionInv, TypeOK

LEMMA StepsOfUnits ==
  ASSUME SessionInv, NEW v \in Vehicles, NEW unit \in Unit, SetUnit(v, unit)
  PROVE  SessionInv'
<1>1. /\ units' = [units EXCEPT ![v] = unit] /\ Moves({v})
      /\ UNCHANGED <<trips, people, licences>>
  BY DEF SetUnit
<1>2. v \in Things
  BY DEF Things
<1>3. QED
  BY <1>1, <1>2, OneMoves DEF SessionInv, TypeOK

LEMMA StepMeanwhile ==
  ASSUME SessionInv, Meanwhile
  PROVE  SessionInv'
<1>1. ASSUME NEW d \in Drivers, RemoveDriver(d) \/ UndeleteDriver(d)
      PROVE  SessionInv'
  BY <1>1, StepsOfPeople DEF RemoveDriver, UndeleteDriver, PersonStatus
<1>2. ASSUME NEW p \in Drivers \cup Supervisors, DeleteUser(p) \/ UndeleteUser(p)
      PROVE  SessionInv'
  BY <1>2, StepsOfPeople DEF DeleteUser, UndeleteUser, PersonStatus
<1>3. ASSUME NEW d \in Drivers, NEW c \in Codes, IssueLicence(d, c) \/ SuspendLicence(d, c)
      PROVE  SessionInv'
  BY <1>3, StepsOfLicences DEF IssueLicence, SuspendLicence, LicenceStatus
<1>4. ASSUME NEW v \in Vehicles, NEW codes \in SUBSET Codes, DeleteUnit(v) \/ SetRequired(v, codes)
      PROVE  SessionInv'
  <2>1. units[v] \in Unit
    BY DEF SessionInv, TypeOK
  <2>2. PICK unit \in Unit : SetUnit(v, unit)
    BY <1>4, <2>1 DEF DeleteUnit, SetRequired, Unit
  <2>3. QED
    BY <2>2, StepsOfUnits
<1>5. ASSUME NEW v \in Vehicles, DeleteUnit(v)
      PROVE  SessionInv'
  BY <1>4, <1>5
<1>6. QED
  BY <1>1, <1>2, <1>3, <1>4, <1>5, StepsOfTrips DEF Meanwhile

-----------------------------------------------------------------------------
(* Theorems.                                                               *)

LEMMA SessionInit ==
  ASSUME Init
  PROVE  SessionInv
<1>1. /\ session = NoSession /\ session.pc = "idle" /\ session.outcome = "none"
      /\ \A x \in Things : session.seen[x] = "absent"
  BY DEF Init, NoSession
<1>2. TypeOK
  <2>1. NoTrip \in Trip
    BY DEF NoTrip, Trip
  <2>2. trips \in [TripIds -> Trip]
    BY <2>1 DEF Init
  <2>3. session \in Session
    BY <1>1, Apart DEF NoSession, Session, Things, Stages, VehicleTypes, Outcomes
  <2>4. licences \in [Drivers -> [Codes -> LicenceStatus]]
    <3>1. [Codes -> {"none", "VALID"}] \subseteq [Codes -> LicenceStatus]
      BY DEF LicenceStatus
    <3>2. QED
      BY <3>1 DEF Init
  <2>5. units \in [Vehicles -> Unit]
    BY DEF Init
  <2>6. changes \in 0..MaxChanges
    BY AssignmentConstants DEF Init
  <2>7. QED
    BY <1>1, <2>2, <2>3, <2>4, <2>5, <2>6 DEF Init, TypeOK, CreatePCs
<1>3. Taken /\ Told /\ Passed
  BY <1>1, Apart DEF Taken, Told, Passed, Listed, HasDriver, HasVehicle, CreatePCs
<1>4. QED
  BY <1>1, <1>2, <1>3 DEF SessionInv, OfferHolds, BusyIsRefused, LicencesShared

LEMMA SessionSteps ==
  ASSUME SessionInv, [Next]_vars
  PROVE  SessionInv'
<1>1. CASE AskLists
  BY <1>1, StepGetAssignableDrivers, StepsOfDrivers, StepGetAssignableVehicles, StepsOfVehicles,
     StepGetAssignableSupervisors, StepCountTripsOfSupervisor, StepsToNothing DEF AskLists
<1>2. CASE AskTrip
  BY <1>2, StepCreateTrip, StepValidateDependencies, StepsToNothing, StepsOfChecks,
     StepInsertTrip DEF AskTrip
<1>3. CASE Meanwhile
  BY <1>3, StepMeanwhile
<1>4. CASE UNCHANGED vars
  <2>1. UNCHANGED <<others, history, session>>
    BY <1>4 DEF vars
  <2>2. Taken' /\ TypeOK'
    BY <2>1 DEF SessionInv, Taken, Listed, TypeOK, others, history
  <2>3. session.pc # "done" => Told' /\ Passed'
    BY <2>1, ToldStill, SameAnswers DEF SessionInv, SameLists, Passed, history
  <2>4. OfferHolds' /\ BusyIsRefused' /\ LicencesShared'
    BY <2>1 DEF SessionInv, OfferHolds, BusyIsRefused, LicencesShared, Fits, LicenseTypes,
       others, history
  <2>5. QED
    BY <2>1, <2>2, <2>3, <2>4 DEF SessionInv
<1>5. QED
  BY <1>1, <1>2, <1>3, <1>4 DEF Next

(* Rows are complete, and a session that asks for a trip always has a      *)
(* driver, a vehicle and a supervisor to ask with.                         *)
THEOREM AssignmentTypes == Spec => []TypeOK
<1>1. SessionInv => TypeOK
  BY DEF SessionInv
<1>2. QED
  BY <1>1, SessionInit, SessionSteps, PTL DEF Spec

(* createTrip refuses nobody the lists have offered, unless he has moved   *)
(* since, or a service has not answered.                                   *)
THEOREM OffersHold == Spec => []OfferHolds
<1>1. SessionInv => OfferHolds
  BY DEF SessionInv
<1>2. QED
  BY <1>1, SessionInit, SessionSteps, PTL DEF Spec

(* No trip is made with a driver or a supervisor the lists have shown as   *)
(* busy, unless he has moved since.                                        *)
THEOREM BusyAreRefused == Spec => []BusyIsRefused
<1>1. SessionInv => BusyIsRefused
  BY DEF SessionInv
<1>2. QED
  BY <1>1, SessionInit, SessionSteps, PTL DEF Spec

(* The filter of the list of vehicles is enough for a trip made from the   *)
(* lists: its driver has one of the licences its vehicle requires.         *)
THEOREM TripsShareLicences == Spec => []LicencesShared
<1>1. SessionInv => LicencesShared
  BY DEF SessionInv
<1>2. QED
  BY <1>1, SessionInit, SessionSteps, PTL DEF Spec

=============================================================================
