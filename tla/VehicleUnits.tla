---------------------------- MODULE VehicleUnits ----------------------------
(***************************************************************************)
(* VehicleUnitService of vehicles-svc.                                     *)
(*                                                                         *)
(* A unit is a row of vehicle_units and a row of unit_consumption_specs.   *)
(* updateStatus and updateUnit read a whole row, edit it in memory and     *)
(* write every column of it back; the calibration factor that goes with    *)
(* the odometer is written by another statement.  Only createUnit runs in  *)
(* a transaction.  As in Trips, job[r] is a request being served: pc names *)
(* its next database or gRPC call, row is the row as read and edited.      *)
(*                                                                         *)
(* Left out: tank capacity, serial number, model (no property tells them   *)
(* apart; the model of a unit is taken to be there) and the age of the     *)
(* model, a term of the factor the odometer does not change.  Readings     *)
(* are in tenths of a km, the precision of the column, and clients send no *)
(* finer ones here.                                                        *)
(*                                                                         *)
(* A definition called a variant is the one that follows it with a bug; it *)
(* shows that the properties tell the two apart, and is used nowhere.      *)
(***************************************************************************)
EXTENDS Integers, FiniteSets

CONSTANTS
  Requests,      \* slots for requests being served at the same time
  UnitIds,       \* identifiers the table can hand out
  Plates,
  Baselines,     \* consumption baselines clients set
  Readings,      \* odometer readings clients send
  None,          \* an argument that was not given
  OdoNoImpact,   \* the factor does not vary up to this reading (10 000 km) ...
  OdoMaxImpact,  \* ... nor from this one on (300 000 km)
  Ops,           \* operations the clients of this instance call
  Faults         \* whether calls can fail and the process can die

Operations == {"create", "status", "update", "consumption", "delete", "trips"}

ASSUME UnitConstants ==
  /\ Readings \subseteq Nat
  /\ {OdoNoImpact, OdoMaxImpact} \subseteq Nat
  /\ OdoNoImpact < OdoMaxImpact
  /\ Ops \subseteq Operations
  /\ Faults \in BOOLEAN
  /\ None \notin Plates \cup Readings \cup UnitIds

VARIABLES
  units,   \* units[u]: a row of vehicle_units
  specs,   \* specs[u]: its row of unit_consumption_specs
  trip,    \* trip[u]: how far routes-srv is with a trip of the unit
  job      \* job[r]: the request being served in slot r

vars == <<units, specs, trip, job>>

-----------------------------------------------------------------------------
(* Data. *)

OperationalStatus == {"ACTIVE", "MAINTENANCE", "RETIRED", "ON_ROUTE"}

Unit == [ state : {"unused", "live", "deleted"}, plate : Plates \cup {None},
          status : OperationalStatus, odometer : Nat ]

NoUnit == [ state |-> "unused", plate |-> None, status |-> "ACTIVE", odometer |-> 0 ]

(* Variant: mileage below the band is not cut off. *)
CalibrationKUncut(km) ==
  (IF km >= OdoMaxImpact THEN OdoMaxImpact ELSE km) - OdoNoImpact

(* The factor grows with the mileage inside a band and is constant outside *)
(* of it: the model keeps the mileage in the band that it stands for.      *)
CalibrationK(km) ==
  IF km =< OdoNoImpact THEN 0
  ELSE IF km >= OdoMaxImpact THEN OdoMaxImpact - OdoNoImpact
  ELSE km - OdoNoImpact

SpecRow == [ exists : BOOLEAN, baseline : Baselines \cup {None},
             calibrationK : 0 .. (OdoMaxImpact - OdoNoImpact) ]

NoSpec == [ exists |-> FALSE, baseline |-> None, calibrationK |-> 0 ]

PCs == {"idle", "create.commit", "unit.plate", "unit.write", "spec.write",
        "delete.ask", "delete.write"}

Job == [ pc : PCs, unit : UnitIds \cup {None}, row : Unit,
         baseline : Baselines \cup {None}, recalculate : BOOLEAN ]

Idle == [ pc |-> "idle", unit |-> None, row |-> NoUnit, baseline |-> None,
          recalculate |-> FALSE ]

-----------------------------------------------------------------------------
(* Queries and steps. *)

Live(u) == units[u].state = "live"

(* The unique index on (plate, deleted_at) refuses nothing while           *)
(* deleted_at is null: this query is all that keeps plates apart.          *)
ExistsPlate(p) == \E u \in UnitIds : Live(u) /\ units[u].plate = p

Accepts(r, op) == op \in Ops /\ job[r].pc = "idle"

Goto(r, pc) == job' = [job EXCEPT ![r].pc = pc]

Done(r) == job' = [job EXCEPT ![r] = Idle]

-----------------------------------------------------------------------------
(* createUnit: one transaction, so the row and its consumption appear      *)
(* together; at READ COMMITTED it does not see what others commit after    *)
(* its query.                                                              *)

CreateUnit(r, p, km, b) ==
  /\ Accepts(r, "create")
  /\ \E u \in UnitIds : units[u] = NoUnit   \* bound: identifiers left
  /\ ~ExistsPlate(p)
  /\ job' = [job EXCEPT ![r] =
               [Idle EXCEPT !.pc = "create.commit", !.baseline = b,
                            !.row = [state |-> "live", plate |-> p,
                                     status |-> "ACTIVE", odometer |-> km]]]
  /\ UNCHANGED <<units, specs, trip>>

(* Variant: no transaction, the consumption is written after the commit. *)
CommitUnitAlone(r) ==
  /\ job[r].pc = "create.commit"
  /\ \E u \in UnitIds :
       /\ units[u].state = "unused"
       /\ units' = [units EXCEPT ![u] = job[r].row]
       /\ job' = [job EXCEPT ![r].pc = "spec.write", ![r].unit = u]
  /\ UNCHANGED <<specs, trip>>

CommitUnit(r) ==
  /\ job[r].pc = "create.commit"
  /\ \E u \in UnitIds :
       /\ units[u].state = "unused"
       /\ units' = [units EXCEPT ![u] = job[r].row]
       /\ specs' = [specs EXCEPT ![u] =
                      [exists |-> TRUE, baseline |-> job[r].baseline,
                       calibrationK |-> CalibrationK(job[r].row.odometer)]]
  /\ Done(r)
  /\ UNCHANGED trip

-----------------------------------------------------------------------------
(* updateStatus and updateUnit: read, edit, write the row. *)

Edit(r, pc, u, row, recalculate) ==
  /\ job' = [job EXCEPT ![r] =
               [pc |-> pc, unit |-> u, row |-> row,
                baseline |-> specs[u].baseline, recalculate |-> recalculate]]
  /\ UNCHANGED <<units, specs, trip>>

UpdateStatus(r, u, s) ==
  /\ Accepts(r, "status")
  /\ Live(u)
  /\ Edit(r, "unit.write", u, [units[u] EXCEPT !.status = s], FALSE)

Given(new, old) == IF new = None THEN old ELSE new

(* A plate, a reading or both.  With neither it is an edit of the tank     *)
(* capacity, which writes the other columns as they were read.             *)
UpdateUnit(r, u, p, km) ==
  LET row == units[u]
      new == [row EXCEPT !.plate = Given(p, @), !.odometer = Given(km, @)]
  IN  /\ Accepts(r, "update")
      /\ Live(u)
      /\ new.odometer >= row.odometer
      /\ Edit(r, IF new.plate = row.plate THEN "unit.write" ELSE "unit.plate",
              u, new, new.odometer # row.odometer /\ specs[u].exists)

CheckPlate(r) ==
  /\ job[r].pc = "unit.plate"
  /\ IF ExistsPlate(job[r].row.plate) THEN Done(r) ELSE Goto(r, "unit.write")
  /\ UNCHANGED <<units, specs, trip>>

(* Variant: the deletion mark is a column like the others. *)
WriteUnitAndMark(r) ==
  LET j == job[r]
  IN  /\ j.pc = "unit.write"
      /\ units' = [units EXCEPT ![j.unit] = j.row]
      /\ IF j.recalculate THEN Goto(r, "spec.write") ELSE Done(r)
      /\ UNCHANGED <<specs, trip>>

(* Variant: the factor is not calculated again. *)
WriteUnitOnly(r) ==
  LET j == job[r]
  IN  /\ j.pc = "unit.write"
      /\ units' = [units EXCEPT ![j.unit] = [j.row EXCEPT !.state = units[j.unit].state]]
      /\ Done(r)
      /\ UNCHANGED <<specs, trip>>

(* UPDATE ... WHERE vehicle_id: no condition on what was read, nor on      *)
(* deleted_at, which it does not write.                                    *)
WriteUnit(r) ==
  LET j == job[r]
  IN  /\ j.pc = "unit.write"
      /\ units' = [units EXCEPT ![j.unit] = [j.row EXCEPT !.state = units[j.unit].state]]
      /\ IF j.recalculate THEN Goto(r, "spec.write") ELSE Done(r)
      /\ UNCHANGED <<specs, trip>>

-----------------------------------------------------------------------------
(* upsertConsumption: a new baseline, and the factor of the odometer read. *)

UpsertConsumption(r, u, b) ==
  /\ Accepts(r, "consumption")
  /\ Live(u)
  /\ job' = [job EXCEPT ![r] = [Idle EXCEPT !.pc = "spec.write", !.unit = u,
                                            !.row = units[u], !.baseline = b]]
  /\ UNCHANGED <<units, specs, trip>>

WriteSpec(r) ==
  LET j == job[r]
  IN  /\ j.pc = "spec.write"
      /\ specs' = [specs EXCEPT ![j.unit] =
                     [exists |-> TRUE, baseline |-> j.baseline,
                      calibrationK |-> CalibrationK(j.row.odometer)]]
      /\ Done(r)
      /\ UNCHANGED <<units, trip>>

-----------------------------------------------------------------------------
(* deleteUnit *)

DeleteUnit(r, u) ==
  /\ Accepts(r, "delete")
  /\ Live(u)
  /\ job' = [job EXCEPT ![r] = [Idle EXCEPT !.pc = "delete.ask", !.unit = u]]
  /\ UNCHANGED <<units, specs, trip>>

AskTrips(r) ==
  /\ job[r].pc = "delete.ask"
  /\ IF trip[job[r].unit] = "inserted" THEN Done(r) ELSE Goto(r, "delete.write")
  /\ UNCHANGED <<units, specs, trip>>

(* routes-srv does not answer: the deletion goes on. *)
AskUnanswered(r) ==
  /\ Faults
  /\ job[r].pc = "delete.ask"
  /\ Goto(r, "delete.write")
  /\ UNCHANGED <<units, specs, trip>>

EraseUnit(r) ==
  /\ job[r].pc = "delete.write"
  /\ units' = [units EXCEPT ![job[r].unit].state = "deleted"]
  /\ Done(r)
  /\ UNCHANGED <<specs, trip>>

-----------------------------------------------------------------------------
(* routes-srv creates a trip: its last look at the unit, then the row. *)

LookAtUnit(u) ==
  /\ "trips" \in Ops
  /\ trip[u] = "none"
  /\ Live(u)
  /\ trip' = [trip EXCEPT ![u] = "looked"]
  /\ UNCHANGED <<units, specs, job>>

InsertTrip(u) ==
  /\ trip[u] = "looked"
  /\ trip' = [trip EXCEPT ![u] = "inserted"]
  /\ UNCHANGED <<units, specs, job>>

(* updateTrip, which looks at the trip and not the unit: a trip is moved   *)
(* onto u, whether u is live or not, or u loses the only one it has.       *)
MoveTrip(u) ==
  /\ "trips" \in Ops
  /\ \/ trip[u] # "inserted" /\ trip' = [trip EXCEPT ![u] = "inserted"]
     \/ trip[u] = "inserted" /\ trip' = [trip EXCEPT ![u] = "none"]
  /\ UNCHANGED <<units, specs, job>>

(* A call fails, or the process dies while it serves r.  The transaction   *)
(* of createUnit leaves nothing behind; the other handlers leave what they *)
(* have written.                                                           *)
Interrupt(r) ==
  /\ Faults
  /\ job[r].pc # "idle"
  /\ Done(r)
  /\ UNCHANGED <<units, specs, trip>>

-----------------------------------------------------------------------------

Init ==
  /\ units = [u \in UnitIds |-> NoUnit]
  /\ specs = [u \in UnitIds |-> NoSpec]
  /\ trip = [u \in UnitIds |-> "none"]
  /\ job = [r \in Requests |-> Idle]

(* A request arrives. *)
Accept(r) ==
  \/ \E p \in Plates, km \in Readings, b \in Baselines : CreateUnit(r, p, km, b)
  \/ \E u \in UnitIds :
       \/ \E s \in OperationalStatus : UpdateStatus(r, u, s)
       \/ \E p \in Plates \cup {None}, km \in Readings \cup {None} : UpdateUnit(r, u, p, km)
       \/ \E b \in Baselines : UpsertConsumption(r, u, b)
       \/ DeleteUnit(r, u)

(* A call of a request in flight is answered. *)
Serve(r) ==
  \/ CommitUnit(r) \/ CheckPlate(r) \/ WriteUnit(r) \/ WriteSpec(r)
  \/ AskTrips(r) \/ AskUnanswered(r) \/ EraseUnit(r)
  \/ Interrupt(r)

Next ==
  \/ \E r \in Requests : Accept(r) \/ Serve(r)
  \/ \E u \in UnitIds : LookAtUnit(u) \/ InsertTrip(u) \/ MoveTrip(u)

Spec == Init /\ [][Next]_vars

-----------------------------------------------------------------------------
(* Properties of every instance. *)

(* Rows and requests have the columns and the fields the code gives them,  *)
(* the factor stays within the bounds of the calculator.                   *)
TypeOK ==
  /\ units \in [UnitIds -> Unit]
  /\ specs \in [UnitIds -> SpecRow]
  /\ trip \in [UnitIds -> {"none", "looked", "inserted"}]
  /\ job \in [Requests -> Job]

(* A unit that is deleted stays so, whatever whole rows read before the    *)
(* deletion are written after it.                                          *)
DeletedStaysDeleted ==
  [][ \A u \in UnitIds :
        units[u].state = "deleted" => units'[u].state = "deleted" ]_vars

(* createUnit never leaves a unit without its consumption, wherever it is  *)
(* interrupted: the profile fuel estimates are made from is always there.  *)
UnitsHaveSpecs ==
  \A u \in UnitIds : units[u].state # "unused" => specs[u].exists

-----------------------------------------------------------------------------
(* Properties of requests served one at a time (Requests has one slot).    *)

(* No two units in service have the same plate. *)
PlatesUnique ==
  \A u, v \in UnitIds :
    Live(u) /\ Live(v) /\ units[u].plate = units[v].plate => u = v

(* The factor can lag behind the odometer when updateUnit is interrupted   *)
(* between its two writes; it never says more wear than the odometer.      *)
FactorNotAhead ==
  \A u \in UnitIds : specs[u].calibrationK =< CalibrationK(units[u].odometer)

(* The factor is that of the current mileage when no request is in flight  *)
(* (the comments of the consumption dto).                                  *)
FactorFollowsOdometer ==
  (\A r \in Requests : job[r].pc = "idle") =>
    \A u \in UnitIds : Live(u) =>
      specs[u].calibrationK = CalibrationK(units[u].odometer)

=============================================================================
