------------------------ MODULE VehicleUnitsProofs ------------------------
(* Theorems of VehicleUnits: what holds under any interleaving, and what   *)
(* holds when requests are served one at a time.                           *)
EXTENDS VehicleUnits, FiniteSetTheorems, TLAPS

(* What a handler holds at each of its calls. *)
Holds(r) ==
  LET j == job[r]
  IN  /\ j.pc = "create.commit" => j.row.state = "live"
      /\ j.pc \in {"unit.plate", "unit.write", "spec.write", "delete.ask", "delete.write"} =>
           j.unit \in UnitIds /\ units[j.unit].state # "unused"

AnyInv == TypeOK /\ UnitsHaveSpecs /\ \A r \in Requests : Holds(r)

-----------------------------------------------------------------------------
(* The calculator. *)

LEMMA FactorInBand ==
  ASSUME NEW km \in Nat
  PROVE  CalibrationK(km) \in 0 .. (OdoMaxImpact - OdoNoImpact)
BY UnitConstants DEF CalibrationK

LEMMA FactorGrows ==
  ASSUME NEW low \in Nat, NEW high \in Nat, low =< high
  PROVE  CalibrationK(low) =< CalibrationK(high)
BY UnitConstants DEF CalibrationK

-----------------------------------------------------------------------------
(* Requests. *)

LEMMA IdleTyped == Idle \in Job /\ NoUnit \in Unit /\ NoSpec \in SpecRow
BY UnitConstants DEF Idle, Job, NoUnit, Unit, NoSpec, SpecRow, PCs, OperationalStatus

(* A slot that becomes idle, or goes on with what it holds, holds what it  *)
(* should as long as no unit becomes unused.                               *)
LEMMA SlotSteps ==
  ASSUME AnyInv, NEW r \in Requests, NEW next \in Job, job' = [job EXCEPT ![r] = next],
         \A u \in UnitIds : units[u].state # "unused" => units'[u].state # "unused",
         next.pc = "create.commit" => next.row.state = "live",
         next.pc \in {"unit.plate", "unit.write", "spec.write", "delete.ask", "delete.write"} =>
           next.unit \in UnitIds /\ units'[next.unit].state # "unused"
  PROVE  job' \in [Requests -> Job] /\ \A s \in Requests : Holds(s)'
<1>1. job \in [Requests -> Job]
  BY DEF AnyInv, TypeOK
<1>2. job' \in [Requests -> Job]
  BY <1>1
<1>3. ASSUME NEW s \in Requests PROVE Holds(s)'
  <2>1. CASE s = r
    BY <1>1, <2>1 DEF Holds
  <2>2. CASE s # r
    <3>1. job'[s] = job[s] /\ Holds(s)
      BY <1>1, <2>2 DEF AnyInv
    <3>2. QED
      BY <3>1 DEF Holds
  <2>3. QED
    BY <2>1, <2>2
<1>4. QED
  BY <1>2, <1>3

(* Steps of a request that write no table. *)
LEMMA QuietRequest ==
  ASSUME AnyInv, NEW r \in Requests, NEW next \in Job, job' = [job EXCEPT ![r] = next],
         UNCHANGED <<units, specs, trip>>,
         next.pc = "create.commit" => next.row.state = "live",
         next.pc \in {"unit.plate", "unit.write", "spec.write", "delete.ask", "delete.write"} =>
           next.unit \in UnitIds /\ units[next.unit].state # "unused"
  PROVE  AnyInv'
<1>1. job' \in [Requests -> Job] /\ \A s \in Requests : Holds(s)'
  BY SlotSteps
<1>2. QED
  BY <1>1 DEF AnyInv, TypeOK, UnitsHaveSpecs

LEMMA AnyInit == Init => AnyInv
<1>1. ASSUME Init PROVE AnyInv
  <2>1. TypeOK
    BY <1>1, IdleTyped DEF Init, TypeOK
  <2>2. UnitsHaveSpecs
    BY <1>1 DEF Init, UnitsHaveSpecs, NoUnit
  <2>3. ASSUME NEW r \in Requests PROVE Holds(r)
    BY <1>1 DEF Init, Holds, Idle
  <2>4. QED
    BY <2>1, <2>2, <2>3 DEF AnyInv
<1>2. QED
  BY <1>1

(* A request arrives. *)
LEMMA AnyAccept ==
  ASSUME AnyInv, NEW r \in Requests, Accept(r)
  PROVE  AnyInv' /\ UNCHANGED units
<1>1. units \in [UnitIds -> Unit] /\ specs \in [UnitIds -> SpecRow] /\ job \in [Requests -> Job]
  BY DEF AnyInv, TypeOK
<1>2. ASSUME NEW p \in Plates, NEW km \in Readings, NEW b \in Baselines, CreateUnit(r, p, km, b)
      PROVE  AnyInv' /\ UNCHANGED units
  <2> DEFINE row == [state |-> "live", plate |-> p, status |-> "ACTIVE", odometer |-> km]
             next == [Idle EXCEPT !.pc = "create.commit", !.baseline = b, !.row = row]
  <2>1. row \in Unit
    BY UnitConstants DEF Unit, OperationalStatus
  <2>2. next \in Job /\ next.pc = "create.commit" /\ next.row.state = "live"
    BY <2>1, IdleTyped DEF Job, Idle, PCs
  <2>3. job' = [job EXCEPT ![r] = next] /\ UNCHANGED <<units, specs, trip>>
    BY <1>2 DEF CreateUnit
  <2>4. QED
    BY <2>2, <2>3, QuietRequest
<1>3. ASSUME NEW u \in UnitIds, Live(u), NEW row \in Unit, NEW rec \in BOOLEAN,
             NEW pc \in {"unit.plate", "unit.write"}, Edit(r, pc, u, row, rec)
      PROVE  AnyInv' /\ UNCHANGED units
  <2> DEFINE next == [pc |-> pc, unit |-> u, row |-> row,
                      baseline |-> specs[u].baseline, recalculate |-> rec]
  <2>1. next \in Job /\ next.pc = pc /\ next.unit = u
    BY <1>1 DEF Job, PCs, SpecRow
  <2>2. job' = [job EXCEPT ![r] = next] /\ UNCHANGED <<units, specs, trip>>
    BY <1>3 DEF Edit
  <2>3. units[u].state # "unused"
    BY <1>3 DEF Live
  <2>4. QED
    BY <2>1, <2>2, <2>3, QuietRequest
<1>4. ASSUME NEW u \in UnitIds, NEW s \in OperationalStatus, UpdateStatus(r, u, s)
      PROVE  AnyInv' /\ UNCHANGED units
  <2>1. [units[u] EXCEPT !.status = s] \in Unit
    BY <1>1 DEF Unit
  <2>2. QED
    BY <1>3, <1>4, <2>1 DEF UpdateStatus
<1>5. ASSUME NEW u \in UnitIds, NEW p \in Plates \cup {None}, NEW km \in Readings \cup {None},
             UpdateUnit(r, u, p, km)
      PROVE  AnyInv' /\ UNCHANGED units
  <2> DEFINE row == units[u]
             new == [row EXCEPT !.plate = Given(p, @), !.odometer = Given(km, @)]
             pc == IF new.plate = row.plate THEN "unit.write" ELSE "unit.plate"
             rec == new.odometer # row.odometer /\ specs[u].exists
  <2>1. new \in Unit
    <3>1. Given(p, row.plate) \in Plates \cup {None} /\ Given(km, row.odometer) \in Nat
      BY <1>1, UnitConstants DEF Given, Unit
    <3>2. QED
      BY <1>1, <3>1 DEF Unit
  <2>2. pc \in {"unit.plate", "unit.write"}
    OBVIOUS
  <2>3. rec \in BOOLEAN
    BY <1>1 DEF SpecRow
  <2>4. Live(u) /\ Edit(r, pc, u, new, rec)
    BY <1>5 DEF UpdateUnit
  <2> HIDE DEF new, pc, rec
  <2>5. QED
    BY <1>3, <2>1, <2>2, <2>3, <2>4
<1>6. ASSUME NEW u \in UnitIds, NEW b \in Baselines, UpsertConsumption(r, u, b)
      PROVE  AnyInv' /\ UNCHANGED units
  <2> DEFINE next == [Idle EXCEPT !.pc = "spec.write", !.unit = u, !.row = units[u], !.baseline = b]
  <2>1. next \in Job /\ next.pc = "spec.write" /\ next.unit = u
    BY <1>1 DEF Job, Idle, PCs
  <2>2. job' = [job EXCEPT ![r] = next] /\ UNCHANGED <<units, specs, trip>>
        /\ units[u].state # "unused"
    BY <1>6 DEF UpsertConsumption, Live
  <2>3. QED
    BY <2>1, <2>2, QuietRequest
<1>7. ASSUME NEW u \in UnitIds, DeleteUnit(r, u)
      PROVE  AnyInv' /\ UNCHANGED units
  <2> DEFINE next == [Idle EXCEPT !.pc = "delete.ask", !.unit = u]
  <2>1. next \in Job /\ next.pc = "delete.ask" /\ next.unit = u
    BY IdleTyped DEF Job, Idle, PCs
  <2>2. job' = [job EXCEPT ![r] = next] /\ UNCHANGED <<units, specs, trip>>
        /\ units[u].state # "unused"
    BY <1>7 DEF DeleteUnit, Live
  <2>3. QED
    BY <2>1, <2>2, QuietRequest
<1>8. QED
  BY <1>2, <1>4, <1>5, <1>6, <1>7 DEF Accept

(* A call of a request in flight is answered. *)
LEMMA AnyServe ==
  ASSUME AnyInv, NEW r \in Requests, Serve(r)
  PROVE  AnyInv' /\ \A u \in UnitIds : units[u].state = "deleted" => units'[u].state = "deleted"
<1> DEFINE j == job[r]
<1>1. units \in [UnitIds -> Unit] /\ specs \in [UnitIds -> SpecRow] /\ job \in [Requests -> Job]
      /\ trip \in [UnitIds -> {"none", "looked", "inserted"}] /\ UnitsHaveSpecs /\ Holds(r)
  BY DEF AnyInv, TypeOK
<1>2. j \in Job /\ j.row \in Unit /\ j.row.odometer \in Nat
  BY <1>1 DEF Job, Unit
<1>3. ASSUME Done(r) \/ \E pc \in {"unit.write", "delete.write"} : Goto(r, pc),
             j.pc \in {"unit.plate", "delete.ask"} \/ Done(r),
             UNCHANGED <<units, specs, trip>>
      PROVE  AnyInv' /\ UNCHANGED units
  <2>1. CASE Done(r)
    BY <1>3, <2>1, IdleTyped, QuietRequest DEF Done, Idle
  <2>2. ASSUME NEW pc \in {"unit.write", "delete.write"}, Goto(r, pc), ~Done(r)
        PROVE  AnyInv' /\ UNCHANGED units
    <3> DEFINE next == [j EXCEPT !.pc = pc]
    <3>1. next \in Job /\ next.pc = pc /\ next.unit = j.unit
      BY <1>2 DEF Job, PCs
    <3>2. job' = [job EXCEPT ![r] = next]
      BY <2>2, <1>1 DEF Goto
    <3>3. QED
      BY <1>1, <1>3, <2>2, <3>1, <3>2, QuietRequest DEF Holds
  <2>3. QED
    BY <1>3, <2>1, <2>2
<1>4. CASE CheckPlate(r) \/ AskTrips(r) \/ AskUnanswered(r) \/ Interrupt(r)
  BY <1>3, <1>4 DEF CheckPlate, AskTrips, AskUnanswered, Interrupt
<1>5. CASE CommitUnit(r)
  <2>1. PICK u \in UnitIds :
          /\ units[u].state = "unused"
          /\ units' = [units EXCEPT ![u] = j.row]
          /\ specs' = [specs EXCEPT ![u] = [exists |-> TRUE, baseline |-> j.baseline,
                                            calibrationK |-> CalibrationK(j.row.odometer)]]
    BY <1>5 DEF CommitUnit
  <2>2. j.row.state = "live" /\ job' = [job EXCEPT ![r] = Idle] /\ UNCHANGED trip
    BY <1>1, <1>5 DEF CommitUnit, Holds, Done
  <2>3. units' \in [UnitIds -> Unit]
        /\ \A v \in UnitIds : units'[v] = IF v = u THEN j.row ELSE units[v]
    BY <1>1, <1>2, <2>1
  <2>4. specs' \in [UnitIds -> SpecRow]
    BY <1>1, <1>2, <2>1, FactorInBand DEF SpecRow, Job
  <2>5. UnitsHaveSpecs'
    BY <1>1, <2>1, <2>3 DEF UnitsHaveSpecs
  <2>6. job' \in [Requests -> Job] /\ \A s \in Requests : Holds(s)'
    BY <2>2, <2>3, IdleTyped, SlotSteps DEF Idle
  <2>7. QED
    BY <1>1, <2>1, <2>2, <2>3, <2>4, <2>5, <2>6 DEF AnyInv, TypeOK
<1>6. CASE WriteUnit(r)
  <2> DEFINE row == [j.row EXCEPT !.state = units[j.unit].state]
             next == IF j.recalculate THEN [j EXCEPT !.pc = "spec.write"] ELSE Idle
  <2>1. j.unit \in UnitIds /\ units[j.unit].state # "unused"
        /\ units' = [units EXCEPT ![j.unit] = row] /\ UNCHANGED <<specs, trip>>
    BY <1>1, <1>6 DEF WriteUnit, Holds
  <2>2. row \in Unit /\ row.state = units[j.unit].state
    BY <1>1, <1>2, <2>1 DEF Unit
  <2>3. units' \in [UnitIds -> Unit] /\ \A v \in UnitIds : units'[v].state = units[v].state
    BY <1>1, <2>1, <2>2
  <2>4. next \in Job /\ (next.pc = "idle" \/ (next.pc = "spec.write" /\ next.unit = j.unit))
    BY <1>2, IdleTyped DEF Job, PCs, Idle
  <2>5. job' = [job EXCEPT ![r] = next]
    BY <1>1, <1>6 DEF WriteUnit, Goto, Done
  <2> HIDE DEF row, next
  <2>6. job' \in [Requests -> Job] /\ \A s \in Requests : Holds(s)'
    BY <2>1, <2>3, <2>4, <2>5, SlotSteps
  <2>7. UnitsHaveSpecs'
    BY <1>1, <2>1, <2>3 DEF UnitsHaveSpecs
  <2>8. QED
    BY <1>1, <2>1, <2>3, <2>6, <2>7 DEF AnyInv, TypeOK
<1>7. CASE WriteSpec(r)
  <2> DEFINE spec == [exists |-> TRUE, baseline |-> j.baseline,
                      calibrationK |-> CalibrationK(j.row.odometer)]
  <2>1. spec \in SpecRow /\ spec.exists
    BY <1>2, FactorInBand DEF SpecRow, Job
  <2>2. specs' = [specs EXCEPT ![j.unit] = spec] /\ job' = [job EXCEPT ![r] = Idle]
        /\ UNCHANGED <<units, trip>>
    BY <1>7 DEF WriteSpec, Done
  <2>3. specs' \in [UnitIds -> SpecRow] /\ UnitsHaveSpecs'
    BY <1>1, <2>1, <2>2 DEF UnitsHaveSpecs
  <2>4. job' \in [Requests -> Job] /\ \A s \in Requests : Holds(s)'
    <3>1. \A u \in UnitIds : units[u].state # "unused" => units'[u].state # "unused"
      BY <2>2
    <3>2. Idle \in Job /\ Idle.pc = "idle"
      BY IdleTyped DEF Idle
    <3>3. QED
      BY <2>2, <3>1, <3>2, SlotSteps
  <2>5. QED
    BY <1>1, <2>2, <2>3, <2>4 DEF AnyInv, TypeOK
<1>8. CASE EraseUnit(r)
  <2>1. j.unit \in UnitIds /\ units[j.unit].state # "unused"
        /\ units' = [units EXCEPT ![j.unit].state = "deleted"]
        /\ job' = [job EXCEPT ![r] = Idle] /\ UNCHANGED <<specs, trip>>
    BY <1>1, <1>8 DEF EraseUnit, Holds, Done
  <2>2. units' \in [UnitIds -> Unit]
        /\ \A v \in UnitIds : units'[v].state = IF v = j.unit THEN "deleted" ELSE units[v].state
    BY <1>1, <2>1 DEF Unit
  <2>3. job' \in [Requests -> Job] /\ \A s \in Requests : Holds(s)'
    <3>1. \A v \in UnitIds : units[v].state # "unused" => units'[v].state # "unused"
      BY <2>2
    <3>2. Idle \in Job /\ Idle.pc = "idle"
      BY IdleTyped DEF Idle
    <3>3. QED
      BY <2>1, <3>1, <3>2, SlotSteps
  <2>4. UnitsHaveSpecs'
    BY <1>1, <2>1, <2>2 DEF UnitsHaveSpecs
  <2>5. QED
    BY <1>1, <2>1, <2>2, <2>3, <2>4 DEF AnyInv, TypeOK
<1>9. QED
  BY <1>4, <1>5, <1>6, <1>7, <1>8 DEF Serve

(* Steps of routes-srv. *)
LEMMA AnyTrips ==
  ASSUME AnyInv, NEW u \in UnitIds, LookAtUnit(u) \/ InsertTrip(u) \/ MoveTrip(u)
  PROVE  AnyInv' /\ UNCHANGED <<units, specs, job>>
BY DEF AnyInv, TypeOK, UnitsHaveSpecs, Holds, LookAtUnit, InsertTrip, MoveTrip

LEMMA AnyStep ==
  ASSUME AnyInv, [Next]_vars
  PROVE  AnyInv' /\ \A u \in UnitIds : units[u].state = "deleted" => units'[u].state = "deleted"
<1>1. CASE Next
  BY <1>1, AnyAccept, AnyServe, AnyTrips DEF Next
<1>2. CASE UNCHANGED vars
  BY <1>2 DEF vars, AnyInv, TypeOK, UnitsHaveSpecs, Holds
<1>3. QED
  BY <1>1, <1>2

-----------------------------------------------------------------------------
(* Theorems for any number of requests. *)

(* TypeOK is an invariant: the rows written back and the factor computed   *)
(* from them are in range, whatever the interleaving.                      *)
THEOREM UnitTypes == Spec => []TypeOK
<1>1. AnyInv => TypeOK
  BY DEF AnyInv
<1>2. QED
  BY <1>1, AnyInit, AnyStep, PTL DEF Spec

(* UnitsHaveSpecs is an invariant: the transaction of createUnit is enough *)
(* to keep a unit and its consumption together.                            *)
THEOREM UnitsKeepSpecs == Spec => []UnitsHaveSpecs
<1>1. AnyInv => UnitsHaveSpecs
  BY DEF AnyInv
<1>2. QED
  BY <1>1, AnyInit, AnyStep, PTL DEF Spec

(* DeletedStaysDeleted holds: no whole-row write of an interleaved request *)
(* brings a deleted unit back.                                             *)
THEOREM DeletionIsFinal == Spec => DeletedStaysDeleted
<1>1. AnyInv /\ [Next]_vars =>
        [\A u \in UnitIds : units[u].state = "deleted" => units'[u].state = "deleted"]_vars
  BY AnyStep
<1>2. QED
  BY <1>1, AnyInit, AnyStep, PTL DEF Spec, DeletedStaysDeleted

-----------------------------------------------------------------------------
(* How many units can come to share a plate.                               *)
(*                                                                         *)
(* The query for a plate keeps it unique among requests that do not        *)
(* overlap.  Requests that do can all be told that it is free, and one     *)
(* that holds a row read before can write a plate back that the unit has   *)
(* lost since.  What is counted is the units that have the plate or may    *)
(* still be given it by a row in memory, and the units being created with  *)
(* it: a query adds to them only while no unit in service has the plate.   *)

Bearers(p) == {u \in UnitIds : Live(u) /\ units[u].plate = p}

Editing(p) == {r \in Requests : job[r].pc = "unit.write" /\ job[r].row.plate = p}

Creating(p) == {r \in Requests : job[r].pc = "create.commit" /\ job[r].row.plate = p}

Claimed(p) == Bearers(p) \cup {job[r].unit : r \in Editing(p)}

Bounded(p) ==
  /\ IsFiniteSet(Claimed(p))
  /\ Cardinality(Claimed(p)) + Cardinality(Creating(p)) =< Cardinality(Requests)

PlateInv == AnyInv /\ \A p \in Plates : Bounded(p)

(* No plate is on more units in service than requests can be served at a   *)
(* time: createUnit and updateUnit do not make it unique, and this is how  *)
(* far from unique it gets.                                                *)
PlateBound == \A p \in Plates : Cardinality(Bearers(p)) =< Cardinality(Requests)

LEMMA CreatingFinite ==
  ASSUME IsFiniteSet(Requests), NEW S \in SUBSET Requests
  PROVE  IsFiniteSet(S) /\ Cardinality(S) \in Nat /\ Cardinality(S) =< Cardinality(Requests)
         /\ Cardinality(Requests) \in Nat
BY FS_Subset, FS_CardinalityType

LEMMA ClaimsShrink ==
  ASSUME IsFiniteSet(Requests), NEW p, Bounded(p),
         Claimed(p)' \subseteq Claimed(p), Creating(p)' \subseteq Creating(p)
  PROVE  Bounded(p)'
<1>1. /\ IsFiniteSet(Claimed(p)') /\ Cardinality(Claimed(p)') =< Cardinality(Claimed(p))
      /\ Cardinality(Claimed(p)') \in Nat /\ Cardinality(Claimed(p)) \in Nat
  BY FS_Subset, FS_CardinalityType DEF Bounded
<1>2. /\ IsFiniteSet(Creating(p)) /\ Cardinality(Creating(p)) \in Nat
      /\ Cardinality(Requests) \in Nat
  BY CreatingFinite DEF Creating
<1>3. Cardinality(Creating(p)') =< Cardinality(Creating(p)) /\ Cardinality(Creating(p)') \in Nat
  BY <1>2, FS_Subset, FS_CardinalityType
<1>4. QED
  BY <1>1, <1>2, <1>3 DEF Bounded

(* While no unit in service has the plate, each claim is a request's own.  *)
LEMMA OneClaimEach ==
  ASSUME IsFiniteSet(Requests), NEW p, ~ExistsPlate(p), UNCHANGED units
  PROVE  Bounded(p)'
<1> DEFINE E == Editing(p)'
           C == Creating(p)'
           f == [r \in E |-> job'[r].unit]
           T == {job'[r].unit : r \in E}
<1>1. Claimed(p)' = T
  BY DEF Claimed, Bearers, ExistsPlate, Live
<1>2. /\ E \subseteq Requests /\ C \subseteq Requests /\ E \cap C = {}
  BY DEF Editing, Creating
<1> HIDE DEF E, C
<1>3. f \in Surjection(E, T)
  BY DEF Surjection
<1>4. IsFiniteSet(E) /\ IsFiniteSet(C) /\ Cardinality(E) \in Nat /\ Cardinality(C) \in Nat
  BY <1>2, CreatingFinite
<1>5. IsFiniteSet(T) /\ Cardinality(T) =< Cardinality(E) /\ Cardinality(T) \in Nat
  BY <1>3, <1>4, FS_Surjection, FS_CardinalityType
<1>6. Cardinality(E) + Cardinality(C) =< Cardinality(Requests)
  <2>1. Cardinality(E \cup C) = Cardinality(E) + Cardinality(C) - Cardinality(E \cap C)
    BY <1>4, FS_Union
  <2>2. Cardinality(E \cap C) = 0
    BY <1>2, FS_EmptySet
  <2>3. Cardinality(E \cup C) =< Cardinality(Requests) /\ Cardinality(Requests) \in Nat
    BY <1>2, CreatingFinite
  <2>4. QED
    BY <1>4, <2>1, <2>2, <2>3
<1>7. Cardinality(Requests) \in Nat
  BY <1>2, CreatingFinite
<1>8. QED
  BY <1>1, <1>4, <1>5, <1>6, <1>7 DEF Bounded, C

(* A request goes on without writing a unit and without a new claim.       *)
LEMMA NoNewClaim ==
  ASSUME IsFiniteSet(Requests), AnyInv, NEW p, Bounded(p), UNCHANGED units,
         NEW r \in Requests, NEW next \in Job, job' = [job EXCEPT ![r] = next],
         next.pc = "create.commit" => next.row.plate # p,
         next.pc = "unit.write" /\ next.row.plate = p => next.unit \in Claimed(p)
  PROVE  Bounded(p)'
<1>1. \A s \in Requests : job'[s] = IF s = r THEN next ELSE job[s]
  BY DEF AnyInv, TypeOK
<1>2. Creating(p)' \subseteq Creating(p)
  BY <1>1 DEF Creating
<1>3. \A s \in Editing(p)' : job'[s].unit \in Claimed(p)
  BY <1>1 DEF Editing, Claimed
<1>4. Bearers(p)' = Bearers(p)
  BY DEF Bearers, Live
<1>5. Claimed(p)' \subseteq Claimed(p)
  BY <1>3, <1>4 DEF Claimed
<1>6. QED
  BY <1>2, <1>5, ClaimsShrink

LEMMA ClaimsOfAccept ==
  ASSUME IsFiniteSet(Requests), PlateInv, NEW r \in Requests, Accept(r), NEW p \in Plates
  PROVE  Bounded(p)'
<1>1. /\ Bounded(p) /\ AnyInv
      /\ units \in [UnitIds -> Unit] /\ specs \in [UnitIds -> SpecRow] /\ job \in [Requests -> Job]
  BY DEF PlateInv, AnyInv, TypeOK
<1>0. UNCHANGED units /\ job' \in [Requests -> Job]
  BY <1>1, AnyAccept DEF AnyInv, TypeOK
<1>2. ASSUME NEW q \in Plates, NEW km \in Readings, NEW b \in Baselines, CreateUnit(r, q, km, b)
      PROVE  Bounded(p)'
  <2>1. CASE q = p
    BY <1>0, <1>2, <2>1, OneClaimEach DEF CreateUnit
  <2>2. CASE q # p
    <3> DEFINE row == [state |-> "live", plate |-> q, status |-> "ACTIVE", odometer |-> km]
               next == [Idle EXCEPT !.pc = "create.commit", !.baseline = b, !.row = row]
    <3>1. job' = [job EXCEPT ![r] = next]
      BY <1>2 DEF CreateUnit
    <3>2. next.pc = "create.commit" /\ next.row.plate = q
      BY DEF Idle
    <3>3. next = job'[r]
      BY <1>1, <3>1
    <3>4. next \in Job
      BY <1>0, <3>3
    <3> HIDE DEF next
    <3>5. QED
      BY <1>0, <1>1, <2>2, <3>1, <3>2, <3>4, NoNewClaim
  <2>3. QED
    BY <2>1, <2>2
<1>3. ASSUME NEW u \in UnitIds, Live(u), NEW row, NEW rec, NEW pc \in {"unit.plate", "unit.write"},
             Edit(r, pc, u, row, rec), pc = "unit.write" => row.plate = units[u].plate
      PROVE  Bounded(p)'
  <2> DEFINE next == [pc |-> pc, unit |-> u, row |-> row,
                      baseline |-> specs[u].baseline, recalculate |-> rec]
  <2>1. job' = [job EXCEPT ![r] = next]
    BY <1>3 DEF Edit
  <2>2. next.pc = pc /\ next.row = row /\ next.unit = u
    OBVIOUS
  <2>3. next = job'[r] /\ next \in Job
    BY <1>0, <1>1, <2>1
  <2>4. row.plate = p /\ pc = "unit.write" => u \in Claimed(p)
    BY <1>3 DEF Claimed, Bearers
  <2> HIDE DEF next
  <2>5. QED
    BY <1>0, <1>1, <1>3, <2>1, <2>2, <2>3, <2>4, NoNewClaim
<1>4. ASSUME NEW u \in UnitIds, NEW s \in OperationalStatus, UpdateStatus(r, u, s)
      PROVE  Bounded(p)'
  <2>1. [units[u] EXCEPT !.status = s].plate = units[u].plate
    BY <1>1 DEF Unit
  <2>2. QED
    BY <1>3, <1>4, <2>1 DEF UpdateStatus
<1>5. ASSUME NEW u \in UnitIds, NEW q \in Plates \cup {None}, NEW km \in Readings \cup {None},
             UpdateUnit(r, u, q, km)
      PROVE  Bounded(p)'
  <2> DEFINE row == units[u]
             new == [row EXCEPT !.plate = Given(q, @), !.odometer = Given(km, @)]
             pc == IF new.plate = row.plate THEN "unit.write" ELSE "unit.plate"
             rec == new.odometer # row.odometer /\ specs[u].exists
  <2>1. Live(u) /\ Edit(r, pc, u, new, rec)
    BY <1>5 DEF UpdateUnit
  <2>2. pc \in {"unit.plate", "unit.write"} /\ (pc = "unit.write" => new.plate = units[u].plate)
    OBVIOUS
  <2> HIDE DEF new, pc, rec
  <2>3. QED
    BY <1>3, <2>1, <2>2
<1>6. ASSUME NEW u \in UnitIds, NEW b \in Baselines, UpsertConsumption(r, u, b)
      PROVE  Bounded(p)'
  <2> DEFINE next == [Idle EXCEPT !.pc = "spec.write", !.unit = u, !.row = units[u], !.baseline = b]
  <2>1. next.pc = "spec.write" /\ job' = [job EXCEPT ![r] = next]
    BY <1>6 DEF UpsertConsumption, Idle
  <2>2. next = job'[r] /\ next \in Job
    BY <1>0, <1>1, <2>1
  <2> HIDE DEF next
  <2>3. QED
    BY <1>0, <1>1, <2>1, <2>2, NoNewClaim
<1>7. ASSUME NEW u \in UnitIds, DeleteUnit(r, u)
      PROVE  Bounded(p)'
  <2> DEFINE next == [Idle EXCEPT !.pc = "delete.ask", !.unit = u]
  <2>1. next.pc = "delete.ask" /\ job' = [job EXCEPT ![r] = next]
    BY <1>7 DEF DeleteUnit, Idle
  <2>2. next = job'[r] /\ next \in Job
    BY <1>0, <1>1, <2>1
  <2> HIDE DEF next
  <2>3. QED
    BY <1>0, <1>1, <2>1, <2>2, NoNewClaim
<1>8. QED
  BY <1>2, <1>4, <1>5, <1>6, <1>7 DEF Accept

LEMMA ClaimsOfServe ==
  ASSUME IsFiniteSet(Requests), PlateInv, NEW r \in Requests, Serve(r), NEW p \in Plates
  PROVE  Bounded(p)'
<1> DEFINE j == job[r]
<1>1. /\ Bounded(p) /\ AnyInv /\ Holds(r)
      /\ units \in [UnitIds -> Unit] /\ job \in [Requests -> Job] /\ j \in Job
  BY DEF PlateInv, AnyInv, TypeOK
<1>0. job' \in [Requests -> Job]
  BY <1>1, AnyServe DEF AnyInv, TypeOK
<1>2. ASSUME UNCHANGED units, Done(r) PROVE Bounded(p)'
  BY <1>1, <1>2, IdleTyped, NoNewClaim DEF Done, Idle
<1>3. ASSUME UNCHANGED units, Goto(r, "delete.write") PROVE Bounded(p)'
  <2>1. [j EXCEPT !.pc = "delete.write"] \in Job /\ [j EXCEPT !.pc = "delete.write"].pc = "delete.write"
    BY <1>1 DEF Job, PCs
  <2>2. job' = [job EXCEPT ![r] = [j EXCEPT !.pc = "delete.write"]]
    BY <1>1, <1>3 DEF Goto
  <2>3. QED
    BY <1>1, <1>3, <2>1, <2>2, NoNewClaim
<1>4. CASE AskTrips(r) \/ AskUnanswered(r) \/ Interrupt(r) \/ WriteSpec(r)
  BY <1>2, <1>3, <1>4 DEF AskTrips, AskUnanswered, Interrupt, WriteSpec
<1>5. CASE CheckPlate(r)
  <2>1. UNCHANGED units
    BY <1>5 DEF CheckPlate
  <2>2. CASE j.row.plate = p /\ ~ExistsPlate(p)
    BY <2>1, <2>2, OneClaimEach
  <2>3. CASE Done(r)
    BY <1>2, <2>1, <2>3
  <2>4. CASE j.row.plate # p /\ Goto(r, "unit.write")
    <3> DEFINE next == [j EXCEPT !.pc = "unit.write"]
    <3>1. next \in Job /\ next.pc = "unit.write" /\ next.row.plate # p
      BY <1>1, <2>4 DEF Job, PCs
    <3>2. job' = [job EXCEPT ![r] = next]
      BY <1>1, <2>4 DEF Goto
    <3> HIDE DEF next
    <3>3. QED
      BY <1>1, <2>1, <3>1, <3>2, NoNewClaim
  <2>5. QED
    BY <1>5, <2>2, <2>3, <2>4 DEF CheckPlate
<1>6. CASE WriteUnit(r)
  <2> DEFINE u == j.unit
  <2>1. u \in UnitIds /\ j.pc = "unit.write"
    BY <1>1, <1>6 DEF WriteUnit, Holds
  <2>2. \A v \in UnitIds \ {u} : units'[v] = units[v]
    BY <1>1, <1>6, <2>1 DEF WriteUnit
  <2>3. units'[u].plate = j.row.plate
    BY <1>1, <1>6, <2>1 DEF WriteUnit, Job, Unit
  <2>4. job'[r].pc \in {"spec.write", "idle"} /\ \A s \in Requests \ {r} : job'[s] = job[s]
    BY <1>1, <1>6 DEF WriteUnit, Goto, Done, Job, Idle
  <2>5. Creating(p)' \subseteq Creating(p) /\ \A s \in Editing(p)' : s \in Editing(p) /\ job'[s] = job[s]
    BY <2>4 DEF Creating, Editing
  <2>6. j.row.plate = p => u \in Claimed(p)
    BY <2>1 DEF Claimed, Editing
  <2>7. \A v \in Bearers(p)' : v \in Claimed(p)
    BY <2>2, <2>3, <2>6 DEF Bearers, Live, Claimed
  <2>8. Claimed(p)' \subseteq Claimed(p)
    BY <2>5, <2>7 DEF Claimed
  <2>9. QED
    BY <1>1, <2>5, <2>8, ClaimsShrink
<1>7. CASE EraseUnit(r)
  <2>1. job' = [job EXCEPT ![r] = Idle] /\ units' = [units EXCEPT ![j.unit].state = "deleted"]
        /\ j.unit \in UnitIds
    BY <1>1, <1>7 DEF EraseUnit, Done, Holds
  <2>2. Creating(p)' \subseteq Creating(p) /\ \A s \in Editing(p)' : s \in Editing(p) /\ job'[s] = job[s]
    BY <1>1, <2>1 DEF Creating, Editing, Idle
  <2>3. \A v \in UnitIds : Live(v)' => Live(v) /\ units'[v] = units[v]
    BY <1>1, <2>1 DEF Live, Unit
  <2>4. Claimed(p)' \subseteq Claimed(p)
    BY <2>2, <2>3 DEF Claimed, Bearers
  <2>5. QED
    BY <1>1, <2>2, <2>4, ClaimsShrink
<1>8. CASE CommitUnit(r)
  <2>1. PICK u \in UnitIds : units[u].state = "unused" /\ units' = [units EXCEPT ![u] = j.row]
    BY <1>8 DEF CommitUnit
  <2>2. job' = [job EXCEPT ![r] = Idle] /\ j.pc = "create.commit"
    BY <1>8 DEF CommitUnit, Done
  <2>3. \A s \in Editing(p)' : s \in Editing(p) /\ job'[s] = job[s]
    BY <1>1, <2>2 DEF Editing, Idle
  <2>4. \A v \in UnitIds \ {u} : units'[v] = units[v]
    BY <1>1, <2>1
  <2>5. units'[u].plate = j.row.plate
    BY <1>1, <2>1
  <2>6. Creating(p)' = Creating(p) \ {r}
    BY <1>1, <2>2 DEF Creating, Idle
  <2>7. CASE j.row.plate # p
    <3>1. Bearers(p)' \subseteq Bearers(p)
      BY <2>4, <2>5, <2>7 DEF Bearers, Live
    <3>2. Claimed(p)' \subseteq Claimed(p)
      BY <2>3, <3>1 DEF Claimed
    <3>3. QED
      BY <1>1, <2>6, <3>2, ClaimsShrink
  <2>8. CASE j.row.plate = p
    <3> DEFINE S == Claimed(p) \cup {u}
    <3>1. Bearers(p)' \subseteq Bearers(p) \cup {u}
      BY <2>4 DEF Bearers, Live
    <3>2. Claimed(p)' \subseteq S
      BY <2>3, <3>1 DEF Claimed
    <3>3. /\ IsFiniteSet(Claimed(p)) /\ Cardinality(Claimed(p)) \in Nat
          /\ Cardinality(Claimed(p)) + Cardinality(Creating(p)) =< Cardinality(Requests)
      BY <1>1, FS_CardinalityType DEF Bounded
    <3>4. IsFiniteSet(S) /\ Cardinality(S) =< Cardinality(Claimed(p)) + 1 /\ Cardinality(S) \in Nat
      <4>1. /\ IsFiniteSet(S)
            /\ Cardinality(S) = IF u \in Claimed(p) THEN Cardinality(Claimed(p))
                                ELSE Cardinality(Claimed(p)) + 1
        BY <3>3, FS_AddElement
      <4>2. QED
        BY <3>3, <4>1
    <3>5. /\ IsFiniteSet(Claimed(p)') /\ Cardinality(Claimed(p)') \in Nat
          /\ Cardinality(Claimed(p)') =< Cardinality(S)
      BY <3>2, <3>4, FS_Subset, FS_CardinalityType
    <3>6. r \in Creating(p)
      BY <2>2, <2>8 DEF Creating
    <3>7. /\ IsFiniteSet(Creating(p)) /\ Cardinality(Creating(p)) \in Nat
          /\ Cardinality(Requests) \in Nat
      BY CreatingFinite DEF Creating
    <3>8. Cardinality(Creating(p)') = Cardinality(Creating(p)) - 1
      BY <2>6, <3>6, <3>7, FS_RemoveElement
    <3> HIDE DEF S
    <3>9. QED
      BY <3>3, <3>4, <3>5, <3>7, <3>8 DEF Bounded
  <2>9. QED
    BY <2>7, <2>8
<1>9. QED
  BY <1>4, <1>5, <1>6, <1>7, <1>8 DEF Serve

LEMMA PlateStep ==
  ASSUME IsFiniteSet(Requests), PlateInv, [Next]_vars
  PROVE  PlateInv'
<1>1. AnyInv'
  BY AnyStep DEF PlateInv
<1>2. ASSUME UNCHANGED <<units, specs, job>>, NEW p \in Plates PROVE Bounded(p)'
  BY <1>2 DEF PlateInv, Bounded, Claimed, Bearers, Editing, Creating, Live
<1>3. ASSUME NEW p \in Plates, Next PROVE Bounded(p)'
  <2>1. ASSUME NEW u \in UnitIds, LookAtUnit(u) \/ InsertTrip(u) \/ MoveTrip(u)
        PROVE  Bounded(p)'
    BY <1>2, <2>1 DEF LookAtUnit, InsertTrip, MoveTrip
  <2>2. QED
    BY <1>3, <2>1, ClaimsOfAccept, ClaimsOfServe DEF Next
<1>4. QED
  BY <1>1, <1>2, <1>3 DEF PlateInv, vars

LEMMA PlateInit ==
  ASSUME IsFiniteSet(Requests)
  PROVE  Init => PlateInv
<1> SUFFICES ASSUME Init, NEW p \in Plates PROVE Bounded(p)
  BY AnyInit DEF PlateInv
<1>1. Claimed(p) = {} /\ Creating(p) = {}
  BY DEF Init, Claimed, Bearers, Live, NoUnit, Editing, Creating, Idle
<1>2. Cardinality(Requests) \in Nat
  BY FS_CardinalityType
<1>3. QED
  BY <1>1, <1>2, FS_EmptySet DEF Bounded

(* The unique index does not cover units in service, so the query of       *)
(* createUnit and updateUnit is all there is against a plate on two units. *)
(* Under any interleaving, failures included, it keeps a plate from more   *)
(* units than there are requests at a time.                                *)
THEOREM PlatesBounded ==
  ASSUME IsFiniteSet(Requests)
  PROVE  Spec => []PlateBound
<1>1. PlateInv => PlateBound
  <2> SUFFICES ASSUME NEW p \in Plates, Bounded(p)
               PROVE  Cardinality(Bearers(p)) =< Cardinality(Requests)
    BY DEF PlateInv, PlateBound
  <2>1. Bearers(p) \subseteq Claimed(p)
    BY DEF Claimed
  <2>2. /\ Cardinality(Bearers(p)) \in Nat /\ Cardinality(Claimed(p)) \in Nat
        /\ Cardinality(Bearers(p)) =< Cardinality(Claimed(p))
    BY <2>1, FS_Subset, FS_CardinalityType DEF Bounded
  <2>3. Cardinality(Creating(p)) \in Nat /\ Cardinality(Requests) \in Nat
    BY CreatingFinite DEF Creating
  <2>4. QED
    BY <2>2, <2>3 DEF Bounded
<1>2. PlateInv /\ [Next]_vars => PlateInv'
  BY PlateStep
<1>3. QED
  BY <1>1, <1>2, PlateInit, PTL DEF Spec

-----------------------------------------------------------------------------
(* One request at a time: what it read is still there when it writes. *)

Reads(r) ==
  LET j == job[r]
  IN  /\ j.pc = "create.commit" => ~ExistsPlate(j.row.plate)
      /\ j.pc \in {"unit.plate", "unit.write"} =>
           j.row.odometer >= units[j.unit].odometer
      /\ j.pc = "unit.write" =>
           \A v \in UnitIds : Live(v) /\ v # j.unit => units[v].plate # j.row.plate
      /\ j.pc = "spec.write" => j.row.odometer = units[j.unit].odometer

SerialInv == AnyInv /\ (\A r \in Requests : Reads(r)) /\ PlatesUnique /\ FactorNotAhead

LEMMA SerialInit == Init => SerialInv
<1>1. ASSUME Init PROVE SerialInv
  <2>1. PlatesUnique
    BY <1>1 DEF Init, PlatesUnique, Live, NoUnit
  <2>2. CalibrationK(0) = 0
    BY UnitConstants DEF CalibrationK
  <2>3. FactorNotAhead
    BY <1>1, <2>2 DEF Init, FactorNotAhead, NoUnit, NoSpec
  <2>4. \A r \in Requests : Reads(r)
    BY <1>1 DEF Init, Reads, Idle
  <2>5. QED
    BY <1>1, <2>1, <2>3, <2>4, AnyInit DEF SerialInv
<1>2. QED
  BY <1>1

(* A step that writes no table keeps the invariant if what the slot has    *)
(* read is as it says.                                                     *)
LEMMA SerialQuiet ==
  ASSUME SerialInv, AnyInv', UNCHANGED <<units, specs>>, \A r \in Requests : Reads(r)'
  PROVE  SerialInv'
BY DEF SerialInv, PlatesUnique, FactorNotAhead, Live

LEMMA SerialAccept ==
  ASSUME NEW slot, Requests = {slot}, SerialInv, Accept(slot)
  PROVE  SerialInv'
<1>1. units \in [UnitIds -> Unit] /\ job \in [Requests -> Job] /\ slot \in Requests /\ PlatesUnique
  BY DEF SerialInv, AnyInv, TypeOK
<1>2. AnyInv' /\ UNCHANGED units
  BY <1>1, AnyAccept DEF SerialInv
<1>3. ASSUME NEW p \in Plates, NEW km \in Readings, NEW b \in Baselines, CreateUnit(slot, p, km, b)
      PROVE  Reads(slot)' /\ UNCHANGED specs
  <2>1. job'[slot].pc = "create.commit" /\ job'[slot].row.plate = p /\ ~ExistsPlate(p)
        /\ UNCHANGED specs
    BY <1>1, <1>3 DEF CreateUnit, Idle
  <2>2. QED
    BY <1>2, <2>1 DEF Reads, ExistsPlate, Live
<1>4. ASSUME NEW u \in UnitIds, NEW s \in OperationalStatus, UpdateStatus(slot, u, s)
      PROVE  Reads(slot)' /\ UNCHANGED specs
  <2>1. job'[slot].pc = "unit.write" /\ job'[slot].unit = u /\ Live(u) /\ UNCHANGED specs
        /\ job'[slot].row = [units[u] EXCEPT !.status = s]
    BY <1>1, <1>4 DEF UpdateStatus, Edit
  <2>2. job'[slot].row.odometer = units[u].odometer /\ job'[slot].row.plate = units[u].plate
    BY <1>1, <2>1 DEF Unit
  <2>3. units[u].odometer \in Nat
    BY <1>1 DEF Unit
  <2>4. QED
    BY <1>1, <1>2, <2>1, <2>2, <2>3 DEF Reads, PlatesUnique, Live
<1>5. ASSUME NEW u \in UnitIds, NEW p \in Plates \cup {None}, NEW km \in Readings \cup {None},
             UpdateUnit(slot, u, p, km)
      PROVE  Reads(slot)' /\ UNCHANGED specs
  <2> DEFINE row == units[u]
             new == [row EXCEPT !.plate = Given(p, @), !.odometer = Given(km, @)]
  <2>1. Live(u) /\ new.odometer >= row.odometer /\ UNCHANGED specs
        /\ job'[slot].unit = u /\ job'[slot].row = new
        /\ job'[slot].pc = IF new.plate = row.plate THEN "unit.write" ELSE "unit.plate"
    BY <1>1, <1>5 DEF UpdateUnit, Edit
  <2> HIDE DEF new
  <2>2. QED
    BY <1>1, <1>2, <2>1 DEF Reads, PlatesUnique, Live
<1>6. ASSUME NEW u \in UnitIds, NEW b \in Baselines, UpsertConsumption(slot, u, b)
      PROVE  Reads(slot)' /\ UNCHANGED specs
  <2>1. job'[slot].pc = "spec.write" /\ job'[slot].unit = u /\ job'[slot].row = units[u]
        /\ UNCHANGED specs
    BY <1>1, <1>6 DEF UpsertConsumption, Idle
  <2>2. QED
    BY <1>2, <2>1 DEF Reads
<1>7. ASSUME NEW u \in UnitIds, DeleteUnit(slot, u)
      PROVE  Reads(slot)' /\ UNCHANGED specs
  <2>1. job'[slot].pc = "delete.ask" /\ UNCHANGED specs
    BY <1>1, <1>7 DEF DeleteUnit, Idle
  <2>2. QED
    BY <2>1 DEF Reads
<1>8. Reads(slot)' /\ UNCHANGED specs
  BY <1>3, <1>4, <1>5, <1>6, <1>7 DEF Accept
<1>9. QED
  BY <1>2, <1>8, SerialQuiet

LEMMA SerialServe ==
  ASSUME NEW slot, Requests = {slot}, SerialInv, Serve(slot)
  PROVE  SerialInv'
<1> DEFINE j == job[slot]
<1>1. units \in [UnitIds -> Unit] /\ specs \in [UnitIds -> SpecRow] /\ job \in [Requests -> Job]
      /\ slot \in Requests /\ PlatesUnique /\ FactorNotAhead /\ Reads(slot) /\ Holds(slot)
  BY DEF SerialInv, AnyInv, TypeOK
<1>2. AnyInv'
  BY <1>1, AnyServe DEF SerialInv
<1>3. j.row \in Unit /\ j.row.odometer \in Nat
  BY <1>1 DEF Job, Unit
<1>4. Done(slot) => Reads(slot)'
  BY <1>1 DEF Done, Reads, Idle
<1>5. CASE CheckPlate(slot) \/ AskTrips(slot) \/ AskUnanswered(slot) \/ Interrupt(slot)
  <2>1. UNCHANGED <<units, specs>>
    BY <1>5 DEF CheckPlate, AskTrips, AskUnanswered, Interrupt
  <2>2. ASSUME Goto(slot, "delete.write") PROVE Reads(slot)'
    <3>1. job'[slot].pc = "delete.write"
      BY <1>1, <2>2 DEF Goto, Job
    <3>2. QED
      BY <3>1 DEF Reads
  <2>3. ASSUME Goto(slot, "unit.write"), ~ExistsPlate(j.row.plate), j.pc = "unit.plate"
        PROVE  Reads(slot)'
    <3>1. job'[slot].pc = "unit.write" /\ job'[slot].unit = j.unit /\ job'[slot].row = j.row
      BY <1>1, <2>3 DEF Goto, Job
    <3>2. QED
      BY <1>1, <2>1, <2>3, <3>1 DEF Reads, ExistsPlate, Live
  <2>4. Reads(slot)'
    BY <1>4, <1>5, <2>2, <2>3 DEF CheckPlate, AskTrips, AskUnanswered, Interrupt
  <2>5. QED
    BY <1>2, <2>1, <2>4, SerialQuiet
<1>6. CASE CommitUnit(slot)
  <2>1. PICK u \in UnitIds :
          /\ units[u].state = "unused"
          /\ units' = [units EXCEPT ![u] = j.row]
          /\ specs' = [specs EXCEPT ![u] = [exists |-> TRUE, baseline |-> j.baseline,
                                            calibrationK |-> CalibrationK(j.row.odometer)]]
    BY <1>6 DEF CommitUnit
  <2>2. j.pc = "create.commit" /\ ~ExistsPlate(j.row.plate) /\ Reads(slot)'
    BY <1>1, <1>4, <1>6 DEF CommitUnit, Reads
  <2>3. \A v \in UnitIds : units'[v] = IF v = u THEN j.row ELSE units[v]
    BY <1>1, <2>1
  <2>4. PlatesUnique'
    BY <1>1, <2>2, <2>3 DEF PlatesUnique, ExistsPlate, Live
  <2>5. \A v \in UnitIds : specs'[v].calibrationK =
          IF v = u THEN CalibrationK(j.row.odometer) ELSE specs[v].calibrationK
    BY <1>1, <2>1
  <2>6. CalibrationK(j.row.odometer) =< CalibrationK(j.row.odometer)
    BY <1>3, FactorGrows
  <2>7. FactorNotAhead'
    BY <1>1, <2>3, <2>5, <2>6 DEF FactorNotAhead
  <2>8. QED
    BY <1>2, <2>2, <2>4, <2>7 DEF SerialInv
<1>7. CASE WriteUnit(slot)
  <2> DEFINE row == [j.row EXCEPT !.state = units[j.unit].state]
  <2>1. j.pc = "unit.write" /\ j.unit \in UnitIds /\ UNCHANGED specs
        /\ units' = [units EXCEPT ![j.unit] = row]
    BY <1>1, <1>7 DEF WriteUnit, Holds
  <2>2. row.state = units[j.unit].state /\ row.plate = j.row.plate /\ row.odometer = j.row.odometer
    BY <1>3 DEF Unit
  <2> HIDE DEF row
  <2>3. \A v \in UnitIds : units'[v] = IF v = j.unit THEN row ELSE units[v]
    BY <1>1, <2>1
  <2>4. PlatesUnique'
    BY <1>1, <2>1, <2>2, <2>3 DEF PlatesUnique, Reads, Live
  <2>5. CalibrationK(units[j.unit].odometer) =< CalibrationK(row.odometer)
    <3>1. units[j.unit].odometer \in Nat /\ units[j.unit].odometer =< j.row.odometer
      BY <1>1, <1>3, <2>1 DEF Reads, Unit
    <3>2. QED
      BY <1>3, <2>2, <3>1, FactorGrows
  <2>6. FactorNotAhead'
    <3>1. ASSUME NEW v \in UnitIds
          PROVE  specs[v].calibrationK =< CalibrationK(units'[v].odometer)
      <4>1. specs[v].calibrationK \in Int /\ specs[v].calibrationK =< CalibrationK(units[v].odometer)
        BY <1>1 DEF SpecRow, FactorNotAhead
      <4>2. units[v].odometer \in Nat /\ row.odometer \in Nat
        BY <1>1, <1>3, <2>2 DEF Unit
      <4>3. CalibrationK(units[v].odometer) \in Int /\ CalibrationK(row.odometer) \in Int
        BY <4>2, FactorInBand
      <4>4. QED
        BY <2>3, <2>5, <4>1, <4>3
    <3>2. QED
      BY <2>1, <3>1 DEF FactorNotAhead
  <2>7. Reads(slot)'
    <3>1. CASE j.recalculate
      <4>1. job'[slot].pc = "spec.write" /\ job'[slot].unit = j.unit /\ job'[slot].row = j.row
        BY <1>1, <1>7, <3>1 DEF WriteUnit, Goto, Job
      <4>2. QED
        BY <2>1, <2>2, <2>3, <4>1 DEF Reads
    <3>2. CASE ~j.recalculate
      BY <1>4, <1>7, <3>2 DEF WriteUnit
    <3>3. QED
      BY <3>1, <3>2
  <2>8. QED
    BY <1>2, <2>4, <2>6, <2>7 DEF SerialInv
<1>8. CASE WriteSpec(slot)
  <2>1. j.pc = "spec.write" /\ j.unit \in UnitIds /\ UNCHANGED units /\ Reads(slot)'
        /\ specs' = [specs EXCEPT ![j.unit] = [exists |-> TRUE, baseline |-> j.baseline,
                                               calibrationK |-> CalibrationK(j.row.odometer)]]
    BY <1>1, <1>4, <1>8 DEF WriteSpec, Holds
  <2>2. \A v \in UnitIds : specs'[v].calibrationK =
          IF v = j.unit THEN CalibrationK(j.row.odometer) ELSE specs[v].calibrationK
    BY <1>1, <2>1
  <2>3. j.row.odometer = units[j.unit].odometer
    BY <1>1, <2>1 DEF Reads
  <2>4. CalibrationK(j.row.odometer) =< CalibrationK(j.row.odometer)
    BY <1>3, FactorGrows
  <2>5. FactorNotAhead'
    BY <1>1, <2>1, <2>2, <2>3, <2>4 DEF FactorNotAhead
  <2>6. QED
    BY <1>1, <1>2, <2>1, <2>5 DEF SerialInv, PlatesUnique, Live
<1>9. CASE EraseUnit(slot)
  <2>1. j.unit \in UnitIds /\ UNCHANGED specs /\ Reads(slot)'
        /\ units' = [units EXCEPT ![j.unit].state = "deleted"]
    BY <1>1, <1>4, <1>9 DEF EraseUnit, Holds
  <2>2. \A v \in UnitIds : /\ units'[v].plate = units[v].plate
                           /\ units'[v].odometer = units[v].odometer
                           /\ units'[v].state = "live" => units[v].state = "live"
    BY <1>1, <2>1 DEF Unit
  <2>3. PlatesUnique'
    BY <1>1, <2>2 DEF PlatesUnique, Live
  <2>4. FactorNotAhead'
    BY <1>1, <2>1, <2>2 DEF FactorNotAhead
  <2>5. QED
    BY <1>2, <2>1, <2>3, <2>4 DEF SerialInv
<1>10. QED
  BY <1>5, <1>6, <1>7, <1>8, <1>9 DEF Serve

LEMMA SerialStep ==
  ASSUME NEW slot, Requests = {slot}, SerialInv, [Next]_vars
  PROVE  SerialInv'
<1>1. ASSUME NEW u \in UnitIds, LookAtUnit(u) \/ InsertTrip(u) \/ MoveTrip(u) PROVE SerialInv'
  <2>1. AnyInv' /\ UNCHANGED <<units, specs, job>>
    BY <1>1, AnyTrips DEF SerialInv
  <2>2. \A r \in Requests : Reads(r)'
    BY <2>1 DEF SerialInv, Reads, ExistsPlate, Live
  <2>3. QED
    BY <2>1, <2>2, SerialQuiet
<1>2. CASE Next
  BY <1>1, <1>2, SerialAccept, SerialServe DEF Next
<1>3. CASE UNCHANGED vars
  <2>1. AnyInv'
    BY <1>3, AnyStep DEF SerialInv
  <2>2. \A r \in Requests : Reads(r)'
    BY <1>3 DEF vars, SerialInv, Reads, ExistsPlate, Live
  <2>3. QED
    BY <1>3, <2>1, <2>2, SerialQuiet DEF vars
<1>4. QED
  BY <1>2, <1>3

(* PlatesUnique is an invariant when requests are served one at a time,    *)
(* although no index of the database backs the query.                      *)
THEOREM SerialPlates ==
  ASSUME NEW slot, Requests = {slot}
  PROVE  Spec => []PlatesUnique
<1>1. SerialInv => PlatesUnique
  BY DEF SerialInv
<1>2. SerialInv /\ [Next]_vars => SerialInv'
  BY SerialStep
<1>3. QED
  BY <1>1, <1>2, SerialInit, PTL DEF Spec

(* FactorNotAhead is an invariant when requests are served one at a time,  *)
(* with interruptions between any two statements.                          *)
THEOREM SerialFactor ==
  ASSUME NEW slot, Requests = {slot}
  PROVE  Spec => []FactorNotAhead
<1>1. SerialInv => FactorNotAhead
  BY DEF SerialInv
<1>2. SerialInv /\ [Next]_vars => SerialInv'
  BY SerialStep
<1>3. QED
  BY <1>1, <1>2, SerialInit, PTL DEF Spec

-----------------------------------------------------------------------------
(* One request at a time and none interrupted: between requests the factor *)
(* is the one of the odometer.                                             *)

(* An edit that will not calculate the factor again leaves the odometer.   *)
Recalculates(r) ==
  LET j == job[r]
  IN  j.pc \in {"unit.plate", "unit.write"} /\ ~j.recalculate =>
        j.row.odometer = units[j.unit].odometer

Exact(u) == Live(u) => specs[u].calibrationK = CalibrationK(units[u].odometer)

(* The only unit whose factor may lag is the one whose consumption the     *)
(* request in flight writes next.                                          *)
Lagging(u) == \E r \in Requests : job[r].pc = "spec.write" /\ job[r].unit = u

FactorInv ==
  /\ SerialInv
  /\ \A r \in Requests : Recalculates(r)
  /\ \A u \in UnitIds : Exact(u) \/ Lagging(u)

LEMMA FactorInit == Init => FactorInv
<1>1. ASSUME Init PROVE FactorInv
  <2>1. \A u \in UnitIds : Exact(u)
    BY <1>1 DEF Init, Exact, Live, NoUnit
  <2>2. \A r \in Requests : Recalculates(r)
    BY <1>1 DEF Init, Recalculates, Idle
  <2>3. QED
    BY <1>1, <2>1, <2>2, SerialInit DEF FactorInv
<1>2. QED
  BY <1>1

(* A step that writes no table keeps what is exact so.                     *)
LEMMA FactorQuiet ==
  ASSUME NEW slot, Requests = {slot}, FactorInv, SerialInv', UNCHANGED <<units, specs>>,
         Recalculates(slot)', job[slot].pc # "spec.write"
  PROVE  FactorInv'
BY DEF FactorInv, Exact, Lagging, Live

LEMMA FactorAccept ==
  ASSUME NEW slot, Requests = {slot}, FactorInv, Accept(slot)
  PROVE  FactorInv'
<1>1. units \in [UnitIds -> Unit] /\ job \in [Requests -> Job] /\ specs \in [UnitIds -> SpecRow]
      /\ slot \in Requests /\ UnitsHaveSpecs
  BY DEF FactorInv, SerialInv, AnyInv, TypeOK
<1>2. SerialInv' /\ UNCHANGED units
  BY <1>1, SerialAccept, AnyAccept DEF FactorInv, SerialInv
<1>3. ASSUME NEW p \in Plates, NEW km \in Readings, NEW b \in Baselines, CreateUnit(slot, p, km, b)
      PROVE  Recalculates(slot)' /\ UNCHANGED specs /\ job[slot].pc = "idle"
  <2>1. job'[slot].pc = "create.commit" /\ UNCHANGED specs /\ job[slot].pc = "idle"
    BY <1>1, <1>3 DEF CreateUnit, Idle, Accepts
  <2>2. QED
    BY <2>1 DEF Recalculates
<1>4. ASSUME NEW u \in UnitIds, NEW s \in OperationalStatus, UpdateStatus(slot, u, s)
      PROVE  Recalculates(slot)' /\ UNCHANGED specs /\ job[slot].pc = "idle"
  <2>1. job'[slot].unit = u /\ UNCHANGED specs /\ job[slot].pc = "idle"
        /\ job'[slot].row = [units[u] EXCEPT !.status = s]
    BY <1>1, <1>4 DEF UpdateStatus, Edit, Accepts
  <2>2. job'[slot].row.odometer = units[u].odometer
    BY <1>1, <2>1 DEF Unit
  <2>3. QED
    BY <1>2, <2>1, <2>2 DEF Recalculates
<1>5. ASSUME NEW u \in UnitIds, NEW p \in Plates \cup {None}, NEW km \in Readings \cup {None},
             UpdateUnit(slot, u, p, km)
      PROVE  Recalculates(slot)' /\ UNCHANGED specs /\ job[slot].pc = "idle"
  <2> DEFINE row == units[u]
             new == [row EXCEPT !.plate = Given(p, @), !.odometer = Given(km, @)]
  <2>1. Live(u) /\ UNCHANGED specs /\ job[slot].pc = "idle"
        /\ job'[slot].unit = u /\ job'[slot].row = new
        /\ job'[slot].recalculate = (new.odometer # row.odometer /\ specs[u].exists)
    BY <1>1, <1>5 DEF UpdateUnit, Edit, Accepts
  <2>2. specs[u].exists
    BY <1>1, <2>1 DEF UnitsHaveSpecs, Live
  <2> HIDE DEF new
  <2>3. QED
    BY <1>2, <2>1, <2>2 DEF Recalculates
<1>6. ASSUME NEW u \in UnitIds, NEW b \in Baselines, UpsertConsumption(slot, u, b)
      PROVE  Recalculates(slot)' /\ UNCHANGED specs /\ job[slot].pc = "idle"
  <2>1. job'[slot].pc = "spec.write" /\ UNCHANGED specs /\ job[slot].pc = "idle"
    BY <1>1, <1>6 DEF UpsertConsumption, Idle, Accepts
  <2>2. QED
    BY <2>1 DEF Recalculates
<1>7. ASSUME NEW u \in UnitIds, DeleteUnit(slot, u)
      PROVE  Recalculates(slot)' /\ UNCHANGED specs /\ job[slot].pc = "idle"
  <2>1. job'[slot].pc = "delete.ask" /\ UNCHANGED specs /\ job[slot].pc = "idle"
    BY <1>1, <1>7 DEF DeleteUnit, Idle, Accepts
  <2>2. QED
    BY <2>1 DEF Recalculates
<1>8. Recalculates(slot)' /\ UNCHANGED specs /\ job[slot].pc = "idle"
  BY <1>3, <1>4, <1>5, <1>6, <1>7 DEF Accept
<1>9. QED
  BY <1>2, <1>8, FactorQuiet

LEMMA FactorServe ==
  ASSUME NEW slot, Requests = {slot}, ~Faults, FactorInv, Serve(slot)
  PROVE  FactorInv'
<1> DEFINE j == job[slot]
<1>1. units \in [UnitIds -> Unit] /\ specs \in [UnitIds -> SpecRow] /\ job \in [Requests -> Job]
      /\ slot \in Requests /\ Holds(slot) /\ Reads(slot) /\ Recalculates(slot)
  BY DEF FactorInv, SerialInv, AnyInv, TypeOK
<1>2. SerialInv'
  BY SerialServe DEF FactorInv
<1>3. j \in Job /\ j.row \in Unit
  BY <1>1 DEF Job
<1>4. Done(slot) => Recalculates(slot)'
  BY <1>1 DEF Done, Recalculates, Idle
<1>5. CASE CheckPlate(slot) \/ AskTrips(slot)
  <2>1. UNCHANGED <<units, specs>> /\ j.pc # "spec.write"
    BY <1>5 DEF CheckPlate, AskTrips
  <2>2. ASSUME Goto(slot, "delete.write") PROVE Recalculates(slot)'
    <3>1. job'[slot].pc = "delete.write"
      BY <1>1, <2>2 DEF Goto, Job
    <3>2. QED
      BY <3>1 DEF Recalculates
  <2>3. ASSUME Goto(slot, "unit.write"), j.pc = "unit.plate" PROVE Recalculates(slot)'
    <3>1. job'[slot].unit = j.unit /\ job'[slot].row = j.row
          /\ job'[slot].recalculate = j.recalculate
      BY <1>1, <2>3 DEF Goto, Job
    <3>2. QED
      BY <1>1, <2>1, <2>3, <3>1 DEF Recalculates
  <2>4. Recalculates(slot)'
    BY <1>4, <1>5, <2>2, <2>3 DEF CheckPlate, AskTrips
  <2>5. QED
    BY <1>2, <2>1, <2>4, FactorQuiet
<1>6. CASE CommitUnit(slot)
  <2>1. PICK u \in UnitIds :
          /\ units' = [units EXCEPT ![u] = j.row]
          /\ specs' = [specs EXCEPT ![u] = [exists |-> TRUE, baseline |-> j.baseline,
                                            calibrationK |-> CalibrationK(j.row.odometer)]]
    BY <1>6 DEF CommitUnit
  <2>2. j.pc = "create.commit" /\ Recalculates(slot)'
    BY <1>4, <1>6 DEF CommitUnit
  <2>3. \A v \in UnitIds : Exact(v)
    BY <2>2 DEF FactorInv, Lagging
  <2>4. units'[u] = j.row /\ specs'[u].calibrationK = CalibrationK(j.row.odometer)
        /\ \A v \in UnitIds \ {u} : units'[v] = units[v] /\ specs'[v] = specs[v]
    BY <1>1, <2>1
  <2>5. ASSUME NEW v \in UnitIds PROVE Exact(v)'
    BY <2>3, <2>4 DEF Exact, Live
  <2>6. QED
    BY <1>2, <2>2, <2>5 DEF FactorInv
<1>7. CASE WriteUnit(slot)
  <2> DEFINE row == [j.row EXCEPT !.state = units[j.unit].state]
  <2>1. j.pc = "unit.write" /\ j.unit \in UnitIds /\ UNCHANGED specs
        /\ units' = [units EXCEPT ![j.unit] = row]
    BY <1>1, <1>7 DEF WriteUnit, Holds
  <2>2. row.state = units[j.unit].state /\ row.odometer = j.row.odometer
    BY <1>3 DEF Unit
  <2> HIDE DEF row
  <2>3. \A v \in UnitIds : Exact(v)
    BY <2>1 DEF FactorInv, Lagging
  <2>4. units'[j.unit] = row /\ \A v \in UnitIds \ {j.unit} : units'[v] = units[v]
    BY <1>1, <2>1
  <2>5. PICK u \in UnitIds : u = j.unit
    BY <2>1
  <2>6. \A v \in UnitIds \ {u} : Exact(v)'
    BY <2>1, <2>3, <2>4, <2>5 DEF Exact, Live
  <2>7. CASE j.recalculate
    <3>1. job'[slot].pc = "spec.write" /\ job'[slot].unit = u
      BY <2>5, <1>1, <1>7, <2>7 DEF WriteUnit, Goto, Job
    <3>2. Recalculates(slot)' /\ Lagging(u)'
      BY <1>1, <3>1 DEF Recalculates, Lagging
    <3>3. QED
      BY <1>2, <2>6, <3>2 DEF FactorInv
  <2>8. CASE ~j.recalculate
    <3>1. row.odometer = units[u].odometer /\ Recalculates(slot)'
      BY <1>1, <1>4, <1>7, <2>1, <2>2, <2>8, <2>5 DEF Recalculates, WriteUnit
    <3>2. Exact(u)'
      BY <2>1, <2>2, <2>3, <2>4, <2>5, <3>1 DEF Exact, Live
    <3>3. QED
      BY <1>2, <2>6, <3>1, <3>2 DEF FactorInv
  <2>9. QED
    BY <2>7, <2>8
<1>8. CASE WriteSpec(slot)
  <2>1. j.pc = "spec.write" /\ j.unit \in UnitIds /\ UNCHANGED units /\ Recalculates(slot)'
        /\ specs' = [specs EXCEPT ![j.unit] = [exists |-> TRUE, baseline |-> j.baseline,
                                               calibrationK |-> CalibrationK(j.row.odometer)]]
    BY <1>1, <1>4, <1>8 DEF WriteSpec, Holds
  <2>2. j.row.odometer = units[j.unit].odometer
    BY <1>1, <2>1 DEF Reads
  <2>3. specs'[j.unit].calibrationK = CalibrationK(j.row.odometer)
        /\ \A v \in UnitIds \ {j.unit} : specs'[v] = specs[v]
    BY <1>1, <2>1
  <2>4. ASSUME NEW v \in UnitIds \ {j.unit} PROVE Exact(v)
    BY DEF FactorInv, Lagging
  <2>5. ASSUME NEW v \in UnitIds PROVE Exact(v)'
    BY <2>1, <2>2, <2>3, <2>4 DEF Exact, Live
  <2>6. QED
    BY <1>2, <2>1, <2>5 DEF FactorInv
<1>9. CASE EraseUnit(slot)
  <2>1. j.pc = "delete.write" /\ j.unit \in UnitIds /\ UNCHANGED specs /\ Recalculates(slot)'
        /\ units' = [units EXCEPT ![j.unit].state = "deleted"]
    BY <1>1, <1>4, <1>9 DEF EraseUnit, Holds
  <2>2. \A v \in UnitIds : Exact(v)
    BY <2>1 DEF FactorInv, Lagging
  <2>3. units'[j.unit].state = "deleted" /\ \A v \in UnitIds \ {j.unit} : units'[v] = units[v]
    BY <1>1, <2>1 DEF Unit
  <2>4. ASSUME NEW v \in UnitIds PROVE Exact(v)'
    BY <2>1, <2>2, <2>3 DEF Exact, Live
  <2>5. QED
    BY <1>2, <2>1, <2>4 DEF FactorInv
<1>10. ~AskUnanswered(slot) /\ ~Interrupt(slot)
  BY DEF AskUnanswered, Interrupt
<1>11. QED
  BY <1>5, <1>6, <1>7, <1>8, <1>9, <1>10 DEF Serve

LEMMA FactorStep ==
  ASSUME NEW slot, Requests = {slot}, ~Faults, FactorInv, [Next]_vars
  PROVE  FactorInv'
<1>1. SerialInv'
  BY SerialStep DEF FactorInv
<1>2. ASSUME UNCHANGED <<units, specs, job>> PROVE FactorInv'
  BY <1>1, <1>2 DEF FactorInv, Recalculates, Exact, Lagging, Live
<1>3. CASE Next
  BY <1>2, <1>3, FactorAccept, FactorServe DEF Next, LookAtUnit, InsertTrip, MoveTrip
<1>4. QED
  BY <1>2, <1>3 DEF vars

(* FactorFollowsOdometer is an invariant when requests are served one at a *)
(* time and none is interrupted: every way the odometer changes ends with  *)
(* a factor of that odometer, and no other edit touches either.            *)
THEOREM SerialFactorFollows ==
  ASSUME NEW slot, Requests = {slot}, ~Faults
  PROVE  Spec => []FactorFollowsOdometer
<1>1. FactorInv => FactorFollowsOdometer
  BY DEF FactorInv, FactorFollowsOdometer, Lagging, Exact
<1>2. FactorInv /\ [Next]_vars => FactorInv'
  BY FactorStep
<1>3. QED
  BY <1>1, <1>2, FactorInit, PTL DEF Spec
=============================================================================
