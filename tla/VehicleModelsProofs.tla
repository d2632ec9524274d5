------------------------ MODULE VehicleModelsProofs ------------------------
(* No update of a model is lost and no other version than the one expected *)
(* is deleted, no identity is given to two models and no unit left without *)
(* a model but by the overlaps that the queries cannot see: for any number *)
(* of requests.                                                            *)
(*                                                                         *)
(* The versions of a model only grow, and each write makes a new one: so a *)
(* request whose version is still that of the row has read the row itself, *)
(* but for its deletion, which makes no version.                           *)
EXTENDS VehicleModels, TLAPS

Updates == {"update.units", "update.identity", "update.write"}

Deletes == {"delete.units", "delete.write"}

(* The row is the one that was read, but perhaps deleted since. *)
SameColumns(base, row) == base = [row EXCEPT !.state = "live"]

(* What request r knows of the model it has read. *)
Knows(r) ==
  LET j == job[r]
      row == models[j.model]
  IN  j.pc \in Updates \cup Deletes =>
        /\ j.model \in ModelIds
        /\ row.state # "unused"
        /\ j.base.version <= row.version
        /\ j.base.version = row.version => SameColumns(j.base, row)

(* What it holds of its own. *)
Holds(r) ==
  LET j == job[r]
  IN  /\ j.pc = "unit.insert" => j.model \in ModelIds
      /\ j.pc \in Updates => j.row.state = "live"
      /\ j.pc \in Deletes => j.expected \in {None, 0, j.base.version}
      /\ j.pc = "delete.write" => j.base.status = "DEPRECATED" /\ j.base.yearTo # None

HistoryTyped == standing \subseteq Requests /\ crossing \subseteq Requests

ModelInv == TypeOK /\ \A r \in Requests : Knows(r) /\ Holds(r)

-----------------------------------------------------------------------------
(* Types and what requests know. *)

LEMMA Blank == NoModel \in Model /\ Idle \in Job
BY ModelConstants DEF NoModel, Model, ModelStatus, Idle, Job, PCs

LEMMA ModelInit == Init => ModelInv
<1> SUFFICES ASSUME Init PROVE ModelInv
  OBVIOUS
<1>1. TypeOK
  BY Blank DEF Init, TypeOK
<1>2. \A r \in Requests : Knows(r) /\ Holds(r)
  BY DEF Init, Idle, Knows, Holds, Updates, Deletes
<1>3. QED
  BY <1>1, <1>2 DEF ModelInv

(* A request is accepted. *)
LEMMA BeginStep ==
  ASSUME ModelInv, NEW r \in Requests, NEW j \in Job, Begin(r, j),
         j.pc \in Updates \cup Deletes => j.model \in ModelIds /\ Live(j.model) /\ j.base = models[j.model],
         j.pc = "unit.insert" => j.model \in ModelIds,
         j.pc \in Updates => j.row.state = "live",
         j.pc \in Deletes => j.expected \in {None, 0, j.base.version},
         j.pc # "delete.write", HistoryTyped'
  PROVE  ModelInv'
<1>1. TypeOK'
  BY DEF ModelInv, TypeOK, HistoryTyped, Begin
<1>2. ASSUME NEW q \in Requests PROVE Knows(q)' /\ Holds(q)'
  <2>1. CASE q = r
    <3>1. job'[r] = j /\ UNCHANGED models
      BY DEF ModelInv, TypeOK, Begin
    <3>2. ASSUME j.pc \in Updates \cup Deletes
          PROVE  /\ j.model \in ModelIds /\ models[j.model].state = "live"
                 /\ j.base.version <= models[j.model].version
                 /\ SameColumns(j.base, models[j.model])
      BY <3>2 DEF ModelInv, TypeOK, Live, Model, SameColumns
    <3>3. QED
      BY <2>1, <3>1, <3>2 DEF Knows, Holds
  <2>2. CASE q # r
    BY <2>2 DEF ModelInv, TypeOK, Begin, Knows, Holds
  <2>3. QED
    BY <2>1, <2>2
<1>3. QED
  BY <1>1, <1>2 DEF ModelInv

LEMMA CreateStep ==
  ASSUME ModelInv, NEW r \in Requests, NEW n \in Names, NEW from \in Years,
         NEW t \in Trims \cup {None}, NEW to \in Years \cup {0, None}, NEW L \in SUBSET Licences,
         CreateModel(r, n, t, from, to, L), HistoryTyped'
  PROVE  ModelInv'
<1> DEFINE row == [NoModel EXCEPT !.state = "live", !.name = n, !.trim = t,
                                  !.yearFrom = from, !.yearTo = to, !.licences = L]
           j   == [Idle EXCEPT !.pc = "create.write", !.row = row]
<1>1. row \in Model
  BY Blank DEF NoModel, Model
<1>2. j \in Job /\ j.pc = "create.write"
  BY <1>1, Blank DEF Job, Idle, PCs
<1>3. Begin(r, j)
  BY DEF CreateModel
<1> HIDE DEF j
<1>4. QED
  BY <1>2, <1>3, BeginStep DEF Updates, Deletes

LEMMA UpdateStep ==
  ASSUME ModelInv, NEW r \in Requests, NEW m \in ModelIds, NEW s \in ModelStatus, NEW n \in Names,
         NEW t \in Trims \cup {None}, NEW from \in Years, NEW to \in Years \cup {None, models[m].yearTo},
         UpdateModel(r, m, s, n, t, from, to), HistoryTyped'
  PROVE  ModelInv'
<1> DEFINE base  == models[m]
           row   == [base EXCEPT !.status = s, !.name = n, !.trim = t,
                                 !.yearFrom = from, !.yearTo = to]
           j(pc) == [pc |-> pc, model |-> m, base |-> base, row |-> row, expected |-> None]
<1>1. base \in Model /\ base.state = "live"
  BY DEF ModelInv, TypeOK, UpdateModel, Live
<1>2. row \in Model /\ row.state = "live"
  BY <1>1 DEF Model
<1>3. PICK pc \in Updates : Begin(r, j(pc))
  BY DEF UpdateModel, Onward, Updates
<1> HIDE DEF row
<1>4. j(pc) \in Job /\ j(pc).pc = pc /\ j(pc).model = m /\ j(pc).base = base /\ j(pc).row = row
  BY <1>1, <1>2 DEF Job, Updates, PCs
<1> HIDE DEF j
<1>5. QED
  BY <1>1, <1>2, <1>3, <1>4, BeginStep DEF Live, Updates, Deletes

LEMMA LicencesStep ==
  ASSUME ModelInv, NEW r \in Requests, NEW m \in ModelIds, NEW L \in SUBSET Licences,
         EditLicences(r, m, L), HistoryTyped'
  PROVE  ModelInv'
<1> DEFINE row == [models[m] EXCEPT !.licences = L]
           j   == [pc |-> "update.write", model |-> m, base |-> models[m], row |-> row, expected |-> None]
<1>1. models[m] \in Model /\ Live(m)
  BY DEF ModelInv, TypeOK, EditLicences
<1>2. row \in Model /\ row.state = "live"
  BY <1>1 DEF Model, Live
<1>3. Begin(r, j)
  BY DEF EditLicences
<1> HIDE DEF row
<1>4. j \in Job /\ j.pc = "update.write" /\ j.model = m /\ j.base = models[m] /\ j.row = row
  BY <1>1, <1>2 DEF Job, PCs
<1> HIDE DEF j
<1>5. QED
  BY <1>1, <1>2, <1>3, <1>4, BeginStep DEF Updates, Deletes

LEMMA DeleteStep ==
  ASSUME ModelInv, NEW r \in Requests, NEW m \in ModelIds, NEW v,
         DeleteModel(r, m, v), HistoryTyped'
  PROVE  ModelInv'
<1> DEFINE j == [Idle EXCEPT !.pc = "delete.units", !.model = m, !.base = models[m], !.expected = v]
<1>1. models[m] \in Model /\ Live(m)
  BY DEF ModelInv, TypeOK, DeleteModel
<1>2. v \in {None, 0, models[m].version} /\ v \in Nat \cup {None}
  BY <1>1 DEF DeleteModel, Model
<1>3. Begin(r, j)
  BY DEF DeleteModel
<1>4. j \in Job /\ j.pc = "delete.units" /\ j.model = m /\ j.base = models[m] /\ j.expected = v
  BY <1>1, <1>2, Blank DEF Job, Idle, PCs
<1> HIDE DEF j
<1>5. QED
  BY <1>1, <1>2, <1>3, <1>4, BeginStep DEF Updates, Deletes

LEMMA CreateUnitStep ==
  ASSUME ModelInv, NEW r \in Requests, NEW m \in ModelIds, CreateUnit(r, m), HistoryTyped'
  PROVE  ModelInv'
<1> DEFINE j == [Idle EXCEPT !.pc = "unit.insert", !.model = m]
<1>1. Begin(r, j)
  BY DEF CreateUnit
<1>2. j \in Job /\ j.pc = "unit.insert" /\ j.model = m
  BY Blank DEF Job, Idle, PCs
<1> HIDE DEF j
<1>3. QED
  BY <1>1, <1>2, BeginStep DEF Updates, Deletes

(* A request goes on or ends, and the models stay as they are. *)
LEMMA QuietStep ==
  ASSUME ModelInv, HistoryTyped', UNCHANGED models, units' \in [ModelIds -> Nat],
         job' \in [Requests -> Job],
         \A q \in Requests :
           \/ job'[q] = job[q]
           \/ job'[q] = Idle
           \/ \E pc \in Updates : job[q].pc \in Updates /\ job'[q] = [job[q] EXCEPT !.pc = pc]
           \/ /\ job[q].pc = "delete.units"
              /\ job'[q] = [job[q] EXCEPT !.pc = "delete.write"]
              /\ job[q].base.status = "DEPRECATED" /\ job[q].base.yearTo # None
  PROVE  ModelInv'
<1>1. TypeOK'
  BY DEF ModelInv, TypeOK, HistoryTyped
<1>2. ASSUME NEW q \in Requests PROVE Knows(q)' /\ Holds(q)'
  <2>1. job[q] \in Job /\ Knows(q) /\ Holds(q)
    BY DEF ModelInv, TypeOK
  <2>2. QED
    BY <2>1 DEF Knows, Holds, Updates, Deletes, Idle, Job
<1>3. QED
  BY <1>1, <1>2 DEF ModelInv

LEMMA AskStep ==
  ASSUME ModelInv, HistoryTyped', NEW r \in Requests,
         CheckNoUnits(r) \/ CheckIdentity(r) \/ CheckDeletable(r) \/ InsertUnit(r) \/ Interrupt(r)
  PROVE  ModelInv'
<1>1. /\ job \in [Requests -> Job] /\ units \in [ModelIds -> Nat] /\ Holds(r)
  BY DEF ModelInv, TypeOK
<1>2. Done(r) => /\ job' \in [Requests -> Job]
                 /\ \A q \in Requests : job'[q] = job[q] \/ job'[q] = Idle
  BY <1>1, Blank DEF Done
<1>3. ASSUME NEW pc \in PCs, Goto(r, pc)
      PROVE  /\ job' \in [Requests -> Job]
             /\ job'[r] = [job[r] EXCEPT !.pc = pc]
             /\ \A q \in Requests \ {r} : job'[q] = job[q]
  <2>1. job' = [job EXCEPT ![r] = [job[r] EXCEPT !.pc = pc]]
    BY <1>1, <1>3 DEF Goto
  <2>2. job[r] \in Job /\ [job[r] EXCEPT !.pc = pc] \in Job
    BY <1>1 DEF Job
  <2>3. job' \in [Requests -> Job]
    BY <1>1, <2>1, <2>2
  <2>4. job'[r] = [job[r] EXCEPT !.pc = pc] /\ \A q \in Requests \ {r} : job'[q] = job[q]
    BY <1>1, <2>1
  <2>5. QED
    BY <2>3, <2>4
<1>4. CASE Refuse(r)
  BY <1>1, <1>2, <1>4, QuietStep DEF Refuse
<1>5. ASSUME NEW pc \in Updates, job[r].pc \in Updates, Goto(r, pc) PROVE ModelInv'
  BY <1>1, <1>3, <1>5, QuietStep DEF Goto, Updates, PCs
<1>6. CASE CheckDeletable(r)
  <2>1. CASE Goto(r, "delete.write") /\ job[r].base.status = "DEPRECATED" /\ job[r].base.yearTo # None
    BY <1>1, <1>3, <1>6, <2>1, QuietStep DEF CheckDeletable, Goto, PCs
  <2>2. QED
    BY <1>4, <1>6, <2>1 DEF CheckDeletable
<1>7. CASE InsertUnit(r)
  <2>1. units' \in [ModelIds -> Nat]
    BY <1>1, <1>7 DEF InsertUnit, Holds
  <2>2. QED
    BY <1>2, <1>7, <2>1, QuietStep DEF InsertUnit
<1>8. CASE CheckNoUnits(r) \/ CheckIdentity(r)
  BY <1>4, <1>5, <1>8 DEF CheckNoUnits, CheckIdentity, ToldFree, Onward, Updates
<1>9. QED
  BY <1>4, <1>6, <1>7, <1>8 DEF Interrupt

(* A model is inserted where nothing was read. *)
LEMMA SaveStep ==
  ASSUME ModelInv, HistoryTyped', NEW r \in Requests, SaveModel(r)
  PROVE  ModelInv'
<1>1. /\ job[r] \in Job /\ job' = [job EXCEPT ![r] = Idle] /\ UNCHANGED units
      /\ job \in [Requests -> Job] /\ models \in [ModelIds -> Model]
  BY DEF ModelInv, TypeOK, SaveModel, Done
<1>2. PICK m \in ModelIds : models[m] = NoModel /\ models' = [models EXCEPT ![m] = job[r].row]
  BY DEF SaveModel
<1>3. TypeOK'
  BY <1>1, <1>2, Blank DEF ModelInv, TypeOK, HistoryTyped, Job
<1>4. ASSUME NEW q \in Requests PROVE Knows(q)' /\ Holds(q)'
  <2>1. CASE q = r
    BY <1>1, <2>1 DEF Knows, Holds, Idle, Updates, Deletes
  <2>2. CASE q # r
    <3>1. job'[q] = job[q] /\ Knows(q) /\ Holds(q)
      BY <1>1, <2>2 DEF ModelInv
    <3>2. job[q].pc \in Updates \cup Deletes => job[q].model # m
      BY <1>2, <3>1 DEF Knows, NoModel
    <3>3. job[q].pc \in Updates \cup Deletes => models'[job[q].model] = models[job[q].model]
      BY <1>1, <1>2, <3>2
    <3>4. QED
      BY <3>1, <3>3 DEF Knows, Holds
  <2>3. QED
    BY <2>1, <2>2
<1>5. QED
  BY <1>3, <1>4 DEF ModelInv

(* A write makes a new version, which nobody has read. *)
LEMMA WriteStep ==
  ASSUME ModelInv, HistoryTyped', NEW r \in Requests, WriteModel(r)
  PROVE  ModelInv'
<1> DEFINE m == job[r].model
<1>1. /\ job[r] \in Job /\ job' = [job EXCEPT ![r] = Idle] /\ UNCHANGED units
      /\ job \in [Requests -> Job] /\ models \in [ModelIds -> Model]
      /\ Knows(r) /\ Holds(r) /\ job[r].pc = "update.write"
  BY DEF ModelInv, TypeOK, WriteModel, Done
<1>2. CASE UNCHANGED models
  BY <1>1, <1>2, Blank, QuietStep DEF ModelInv, TypeOK
<1>3. CASE ~UNCHANGED models
  <2>1. models' = [models EXCEPT ![m] = Written(models[m], job[r].row)]
    BY <1>3 DEF WriteModel
  <2>2. m \in ModelIds /\ models[m].state # "unused" /\ job[r].row \in Model /\ models[m] \in Model
    BY <1>1 DEF Knows, Updates, Job
  <2>3. /\ models'[m].state = models[m].state
        /\ models'[m].version = models[m].version + 1
        /\ models'[m] \in Model
        /\ \A k \in ModelIds \ {m} : models'[k] = models[k]
    <3>1. models[m].version + 1 \in Nat
      BY <2>2 DEF Model
    <3>2. Written(models[m], job[r].row) \in Model
      BY <2>2, <3>1 DEF Model, Written, NotNull
    <3>3. /\ models'[m] = Written(models[m], job[r].row)
          /\ \A k \in ModelIds \ {m} : models'[k] = models[k]
      BY <1>1, <2>1, <2>2
    <3>4. QED
      BY <2>2, <3>2, <3>3 DEF Model, Written
  <2>4. TypeOK'
    BY <1>1, <2>1, <2>2, <2>3, Blank DEF ModelInv, TypeOK, HistoryTyped
  <2>5. ASSUME NEW q \in Requests PROVE Knows(q)' /\ Holds(q)'
    <3>1. CASE q = r
      BY <1>1, <3>1 DEF Knows, Holds, Idle, Updates, Deletes
    <3>2. CASE q # r
      <4>1. job'[q] = job[q] /\ Knows(q) /\ Holds(q) /\ job[q] \in Job
        BY <1>1, <3>2 DEF ModelInv
      <4>2. job[q].base.version \in Nat /\ models[m].version \in Nat
        BY <2>2, <4>1 DEF Job, Model
      <4>3. QED
        BY <2>2, <2>3, <4>1, <4>2 DEF Knows, Holds
    <3>3. QED
      BY <3>1, <3>2
  <2>6. QED
    BY <2>4, <2>5 DEF ModelInv
<1>4. QED
  BY <1>2, <1>3

(* A deletion leaves the columns and the version. *)
LEMMA EraseStep ==
  ASSUME ModelInv, HistoryTyped', NEW r \in Requests, EraseModel(r)
  PROVE  ModelInv'
<1> DEFINE m == job[r].model
<1>1. /\ job[r] \in Job /\ job' = [job EXCEPT ![r] = Idle] /\ UNCHANGED units
      /\ job \in [Requests -> Job] /\ models \in [ModelIds -> Model]
      /\ Knows(r) /\ job[r].pc = "delete.write"
  BY DEF ModelInv, TypeOK, EraseModel, Done
<1>2. CASE UNCHANGED models
  BY <1>1, <1>2, Blank, QuietStep DEF ModelInv, TypeOK
<1>3. CASE ~UNCHANGED models
  <2>1. models' = [models EXCEPT ![m].state = "deleted"]
    BY <1>3 DEF EraseModel
  <2>2. m \in ModelIds /\ models[m] \in Model
    BY <1>1 DEF Knows, Deletes
  <2>3. /\ models'[m] = [models[m] EXCEPT !.state = "deleted"]
        /\ models'[m] \in Model
        /\ \A k \in ModelIds \ {m} : models'[k] = models[k]
    BY <1>1, <2>1, <2>2 DEF Model
  <2>4. TypeOK'
    BY <1>1, <2>1, <2>2, <2>3, Blank DEF ModelInv, TypeOK, HistoryTyped
  <2>5. ASSUME NEW q \in Requests PROVE Knows(q)' /\ Holds(q)'
    <3>1. CASE q = r
      BY <1>1, <3>1 DEF Knows, Holds, Idle, Updates, Deletes
    <3>2. CASE q # r
      <4>1. job'[q] = job[q] /\ Knows(q) /\ Holds(q)
        BY <1>1, <3>2 DEF ModelInv
      <4>2. \A base : SameColumns(base, models[m]) => SameColumns(base, models'[m])
        BY <2>2, <2>3 DEF SameColumns, Model
      <4>3. models'[m].version = models[m].version /\ models'[m].state # "unused"
        BY <2>2, <2>3 DEF Model
      <4>4. QED
        <5>1. CASE job[q].model = m
          BY <2>2, <4>1, <4>2, <4>3, <5>1 DEF Knows, Holds
        <5>2. CASE job[q].model # m
          BY <2>3, <4>1, <5>2 DEF Knows, Holds
        <5>3. QED
          BY <5>1, <5>2
    <3>3. QED
      BY <3>1, <3>2
  <2>6. QED
    BY <2>4, <2>5 DEF ModelInv
<1>4. QED
  BY <1>2, <1>3

LEMMA HistoryStep ==
  ASSUME ModelInv, [Next]_vars
  PROVE  HistoryTyped'
<1>1. HistoryTyped
  BY DEF ModelInv, TypeOK, HistoryTyped
<1>2. ASSUME NEW r \in Requests, NEW m, NEW pc, Cross(r, m, pc) PROVE crossing' \subseteq Requests
  BY <1>1, <1>2 DEF HistoryTyped, Cross
<1>3. ASSUME NEW r \in Requests, Accept(r) PROVE HistoryTyped'
  <2>1. ASSUME NEW n, NEW t, NEW from, NEW to, NEW L, CreateModel(r, n, t, from, to, L)
        PROVE  HistoryTyped'
    BY <1>1, <2>1 DEF HistoryTyped, CreateModel
  <2>2. ASSUME NEW m, NEW s, NEW n, NEW t, NEW from, NEW to, UpdateModel(r, m, s, n, t, from, to)
        PROVE  HistoryTyped'
    BY <1>1, <2>2 DEF HistoryTyped, history, UpdateModel
  <2>3. ASSUME NEW m, NEW L, EditLicences(r, m, L) PROVE HistoryTyped'
    BY <1>1, <2>3 DEF HistoryTyped, history, EditLicences
  <2>4. ASSUME NEW m, NEW v, DeleteModel(r, m, v) PROVE HistoryTyped'
    BY <1>1, <2>4 DEF HistoryTyped, history, DeleteModel
  <2>5. ASSUME NEW m, CreateUnit(r, m) PROVE HistoryTyped'
    BY <1>1, <1>2, <2>5 DEF HistoryTyped, CreateUnit
  <2>6. QED
    BY <1>3, <2>1, <2>2, <2>3, <2>4, <2>5 DEF Accept
<1>4. ASSUME NEW r \in Requests, Done(r), NEW i, Wrote(r, i) PROVE HistoryTyped'
  BY <1>1, <1>4 DEF HistoryTyped, Done, Wrote
<1>5. ASSUME NEW r \in Requests, Refuse(r) PROVE HistoryTyped'
  BY <1>4, <1>5 DEF Refuse
<1>6. ASSUME NEW r \in Requests, Serve(r) PROVE HistoryTyped'
  <2>1. CASE SaveModel(r) \/ WriteModel(r) \/ EraseModel(r) \/ InsertUnit(r)
    BY <1>4, <2>1 DEF SaveModel, WriteModel, EraseModel, InsertUnit
  <2>2. CASE CheckNoUnits(r) \/ CheckIdentity(r) \/ CheckDeletable(r) \/ Interrupt(r)
    BY <1>1, <1>2, <1>5, <2>2
       DEF CheckNoUnits, CheckIdentity, ToldFree, CheckDeletable, Interrupt, HistoryTyped, history
  <2>3. QED
    BY <1>6, <2>1, <2>2 DEF Serve
<1>7. QED
  BY <1>1, <1>3, <1>6 DEF Next, DeleteUnit, HistoryTyped, history, vars

LEMMA ModelStep == ModelInv /\ [Next]_vars => ModelInv'
<1> SUFFICES ASSUME ModelInv, [Next]_vars PROVE ModelInv'
  OBVIOUS
<1> USE HistoryStep
<1>1. ASSUME NEW r \in Requests, Accept(r) PROVE ModelInv'
  BY <1>1, CreateStep, UpdateStep, LicencesStep, DeleteStep, CreateUnitStep DEF Accept
<1>2. ASSUME NEW r \in Requests, Serve(r) PROVE ModelInv'
  BY <1>2, AskStep, SaveStep, WriteStep, EraseStep DEF Serve
<1>3. ASSUME NEW m \in ModelIds, DeleteUnit(m) PROVE ModelInv'
  <2>1. units' \in [ModelIds -> Nat]
    BY <1>3 DEF DeleteUnit, ModelInv, TypeOK
  <2>2. QED
    BY <1>3, <2>1, QuietStep DEF DeleteUnit, ModelInv, TypeOK
<1>4. CASE UNCHANGED vars
  BY <1>4, QuietStep DEF vars, ModelInv, TypeOK
<1>5. QED
  BY <1>1, <1>2, <1>3, <1>4 DEF Next

(* Rows and requests are well typed. *)
THEOREM ModelTypes == Spec => []TypeOK
<1>1. ModelInv => TypeOK
  BY DEF ModelInv
<1>2. QED
  BY ModelInit, ModelStep, <1>1, PTL DEF Spec

-----------------------------------------------------------------------------
(* What the version is for. *)

(* The row of a live model that is of the version read is the row read. *)
LEMMA ReadIsCurrent ==
  ASSUME ModelInv, NEW r \in Requests, job[r].pc \in Updates \cup Deletes, Live(job[r].model),
         job[r].base.version = models[job[r].model].version
  PROVE  job[r].base = models[job[r].model]
<1>1. job[r].model \in ModelIds /\ SameColumns(job[r].base, models[job[r].model])
  BY DEF ModelInv, Knows
<1>2. models[job[r].model] \in Model
  BY <1>1 DEF ModelInv, TypeOK
<1>3. QED
  BY <1>1, <1>2 DEF SameColumns, Live, Model

(* Three steps write models. *)
LEMMA Writers ==
  ASSUME [Next]_vars, models' # models
  PROVE  \E r \in Requests : SaveModel(r) \/ WriteModel(r) \/ EraseModel(r)
<1>1. ~UNCHANGED vars
  BY DEF vars
<1>2. ASSUME NEW r \in Requests, Accept(r) PROVE FALSE
  <2>1. \A j : ~Begin(r, j)
    BY DEF Begin
  <2>2. ASSUME NEW m, NEW s, NEW n, NEW t, NEW from, NEW to, UpdateModel(r, m, s, n, t, from, to)
        PROVE  FALSE
    BY <2>1, <2>2 DEF UpdateModel
  <2>3. ASSUME NEW n, NEW t, NEW from, NEW to, NEW L, CreateModel(r, n, t, from, to, L)
        PROVE  FALSE
    BY <2>1, <2>3 DEF CreateModel
  <2>4. ASSUME NEW m, NEW L, EditLicences(r, m, L) PROVE FALSE
    BY <2>1, <2>4 DEF EditLicences
  <2>5. ASSUME NEW m, NEW v, DeleteModel(r, m, v) PROVE FALSE
    BY <2>1, <2>5 DEF DeleteModel
  <2>6. ASSUME NEW m, CreateUnit(r, m) PROVE FALSE
    BY <2>1, <2>6 DEF CreateUnit
  <2>7. QED
    BY <1>2, <2>2, <2>3, <2>4, <2>5, <2>6 DEF Accept
<1>3. ASSUME NEW m \in ModelIds, DeleteUnit(m) PROVE FALSE
  BY <1>3 DEF DeleteUnit
<1>4. ASSUME NEW r \in Requests,
             CheckNoUnits(r) \/ CheckIdentity(r) \/ CheckDeletable(r) \/ InsertUnit(r) \/ Interrupt(r)
      PROVE  FALSE
  BY <1>4 DEF CheckNoUnits, CheckIdentity, ToldFree, CheckDeletable, InsertUnit, Interrupt, Goto, Refuse
<1>5. QED
  BY <1>1, <1>2, <1>3, <1>4 DEF Next, Serve

(* However requests overlap, a change of a live model was made to the      *)
(* columns the model has.                                                  *)
THEOREM UpdatesKept == Spec => NoLostUpdate
<1> DEFINE Kept ==
      \A m \in ModelIds :
        (Live(m) /\ models'[m].state = "live" /\ models'[m] # models[m]) =>
          \E r \in Requests : job[r].model = m /\ job[r].base = models[m]
<1>1. ModelInv /\ [Next]_vars => [Kept]_vars
  <2> SUFFICES ASSUME ModelInv, [Next]_vars, NEW m \in ModelIds,
                      Live(m), models'[m].state = "live", models'[m] # models[m]
               PROVE  \E r \in Requests : job[r].model = m /\ job[r].base = models[m]
    OBVIOUS
  <2>1. models \in [ModelIds -> Model]
    BY DEF ModelInv, TypeOK
  <2>2. ASSUME NEW r \in Requests, SaveModel(r) PROVE FALSE
    <3>1. PICK k \in ModelIds : models[k] = NoModel /\ models' = [models EXCEPT ![k] = job[r].row]
      BY <2>2 DEF SaveModel
    <3>2. QED
      BY <2>1, <3>1 DEF Live, NoModel
  <2>3. ASSUME NEW r \in Requests, EraseModel(r) PROVE FALSE
    BY <2>1, <2>3 DEF EraseModel, Model
  <2>4. ASSUME NEW r \in Requests, WriteModel(r)
        PROVE  job[r].model = m /\ job[r].base = models[m]
    <3>1. /\ job[r].base.version = models[job[r].model].version
          /\ job[r].model = m
          /\ job[r].pc \in Updates
      BY <2>1, <2>4 DEF WriteModel, Updates
    <3>2. QED
      BY <3>1, ReadIsCurrent
  <2>5. PICK r \in Requests : WriteModel(r)
    BY <2>2, <2>3, Writers
  <2>6. QED
    BY <2>4, <2>5
<1>2. QED
  BY ModelInit, ModelStep, <1>1, PTL DEF Spec, NoLostUpdate

(* A deletion on a version deletes a model as deleteModel found it. *)
THEOREM DeletionsAsExpected == Spec => DeletedAsExpected
<1> DEFINE Expected ==
      \A m \in ModelIds, r \in Requests :
        (/\ Live(m) /\ models'[m].state = "deleted"
         /\ job[r].pc = "delete.write" /\ job'[r] = Idle
         /\ job[r].model = m /\ job[r].expected # None) =>
          models[m].status = "DEPRECATED" /\ models[m].yearTo # None
<1>1. ModelInv /\ [Next]_vars => [Expected]_vars
  <2> SUFFICES ASSUME ModelInv, [Next]_vars, NEW m \in ModelIds, NEW r \in Requests,
                      Live(m), models'[m].state = "deleted", job[r].pc = "delete.write",
                      job'[r] = Idle, job[r].model = m, job[r].expected # None
               PROVE  models[m].status = "DEPRECATED" /\ models[m].yearTo # None
    OBVIOUS
  <2>1. models \in [ModelIds -> Model] /\ job \in [Requests -> Job] /\ Knows(r) /\ Holds(r)
    BY DEF ModelInv, TypeOK
  <2>2. job'[r] # job[r] /\ models' # models
    BY DEF Idle, Live
  <2>3. EraseModel(r)
    <3>1. PICK q \in Requests : SaveModel(q) \/ WriteModel(q) \/ EraseModel(q)
      BY <2>2, Writers
    <3>2. job' = [job EXCEPT ![q] = Idle]
      BY <3>1 DEF SaveModel, WriteModel, EraseModel, Done
    <3>3. q = r
      BY <2>1, <2>2, <3>2
    <3>4. QED
      BY <3>1, <3>3 DEF SaveModel, WriteModel
  <2>4. job[r].expected = models[m].version
    BY <2>2, <2>3 DEF EraseModel
  <2>5. job[r].base.version = models[m].version
    <3>1. job[r].base.version =< models[m].version /\ job[r].base.version \in Nat
      BY <2>1 DEF Knows, Deletes, Job, Model
    <3>2. QED
      BY <2>1, <2>4, <3>1 DEF Holds, Deletes
  <2>6. job[r].base = models[m]
    BY <2>5, ReadIsCurrent DEF Deletes
  <2>7. QED
    BY <2>1, <2>6 DEF Holds
<1>2. QED
  BY ModelInit, ModelStep, <1>1, PTL DEF Spec, DeletedAsExpected

-----------------------------------------------------------------------------
(* Identities: who has been told that an identity is free, and has not     *)
(* been overtaken, is right until it writes.                               *)

Told(r) ==
  LET j == job[r]
  IN  /\ j.pc = "create.write" => j.model = None /\ j.base = NoModel
      /\ r \in standing =>
           /\ j.pc \in {"create.write", "update.write"}
           /\ \A k \in ModelIds \ {j.model} :
                Live(k) => Identity(models[k]) # Identity(Written(j.base, j.row))

ToldInv == ModelInv /\ \A r \in Requests : Told(r)

(* What is written has the identity that the row as read was checked for.  *)
LEMMA WrittenIdentity ==
  ASSUME NEW base \in Model, NEW row \in Model, NEW edited \in Model
  PROVE  /\ SameColumns(base, row) =>
              Identity(Written(row, edited)) = Identity(Written(base, edited))
         /\ Identity(Written(NoModel, edited)) = Identity(edited)
BY DEF SameColumns, Written, NotNull, Identity, Model, NoModel

LEMMA EraseLeaves ==
  ASSUME ModelInv, NEW r \in Requests, EraseModel(r), NEW k \in ModelIds
  PROVE  /\ models'[k] = models[k] \/ models'[k].state = "deleted"
         /\ k # job[r].model => models'[k] = models[k]
<1>1. models \in [ModelIds -> Model] /\ job[r].model \in ModelIds
  BY DEF ModelInv, TypeOK, Knows, Deletes, EraseModel
<1>2. CASE UNCHANGED models
  BY <1>2
<1>3. CASE models' = [models EXCEPT ![job[r].model].state = "deleted"]
  <2>1. CASE k = job[r].model
    BY <1>1, <1>3, <2>1 DEF Model
  <2>2. CASE k # job[r].model
    BY <1>1, <1>3, <2>2
  <2>3. QED
    BY <2>1, <2>2
<1>4. QED
  BY <1>2, <1>3 DEF EraseModel

(* No live model gets an identity, and no request an answer. *)
LEMMA ToldQuiet ==
  ASSUME ToldInv, ModelInv', standing' \subseteq standing,
         \A k \in ModelIds : Live(k)' => Live(k) /\ Identity(models[k])' = Identity(models[k]),
         \A q \in Requests :
           job'[q] = job[q] \/ (q \notin standing' /\ job'[q].pc # "create.write")
  PROVE  ToldInv'
<1>1. ASSUME NEW q \in Requests PROVE Told(q)'
  BY DEF ToldInv, Told
<1>2. QED
  BY <1>1 DEF ToldInv

(* An identity is given, and nobody's answer stands. *)
LEMMA ToldNobody ==
  ASSUME ToldInv, ModelInv', standing' = {},
         \A q \in Requests : job'[q] = job[q] \/ job'[q] = Idle
  PROVE  ToldInv'
<1>1. ASSUME NEW q \in Requests PROVE Told(q)'
  BY DEF ToldInv, Told, Idle
<1>2. QED
  BY <1>1 DEF ToldInv

LEMMA ToldAccept ==
  ASSUME ToldInv, ModelInv', NEW r \in Requests, Accept(r)
  PROVE  ToldInv'
<1>1. job \in [Requests -> Job] /\ HistoryTyped
  BY DEF ToldInv, ModelInv, TypeOK, HistoryTyped
<1>2. ASSUME NEW j, Begin(r, j), j.pc # "create.write", UNCHANGED standing PROVE ToldInv'
  <2>1. r \notin standing
    BY <1>2 DEF Begin, ToldInv, Told
  <2>2. \A q \in Requests :
          job'[q] = job[q] \/ (q \notin standing' /\ job'[q].pc # "create.write")
    BY <1>1, <1>2, <2>1 DEF Begin
  <2>3. \A k \in ModelIds : Live(k)' => Live(k) /\ Identity(models[k])' = Identity(models[k])
    BY <1>2 DEF Begin, Live
  <2>4. QED
    BY <1>2, <2>2, <2>3, ToldQuiet
<1>3. ASSUME NEW n \in Names, NEW t \in Trims \cup {None}, NEW from \in Years,
             NEW to \in Years \cup {0, None}, NEW L \in SUBSET Licences,
             CreateModel(r, n, t, from, to, L)
      PROVE  ToldInv'
  <2> DEFINE row == [NoModel EXCEPT !.state = "live", !.name = n, !.trim = t,
                                    !.yearFrom = from, !.yearTo = to, !.licences = L]
             j   == [Idle EXCEPT !.pc = "create.write", !.row = row]
  <2>1. Begin(r, j) /\ ~ExistsByIdentity(n, t, from, to) /\ standing' = standing \cup {r}
    BY <1>3 DEF CreateModel
  <2>2. row \in Model /\ Identity(row) = <<n, t, from, to>>
    BY Blank DEF NoModel, Model, Identity
  <2> HIDE DEF row
  <2>3. j.pc = "create.write" /\ j.row = row /\ j.model = None /\ j.base = NoModel
    BY DEF Idle
  <2>4. \A k \in ModelIds : Live(k) => Identity(models[k]) # Identity(row)
    BY <2>1, <2>2 DEF ExistsByIdentity, Identity
  <2>5. Identity(Written(NoModel, row)) = Identity(row)
    BY <2>2, Blank, WrittenIdentity
  <2> HIDE DEF j
  <2>6. job'[r] = j /\ UNCHANGED models /\ \A q \in Requests \ {r} : job'[q] = job[q]
    BY <1>1, <2>1 DEF Begin
  <2>7. ASSUME NEW q \in Requests PROVE Told(q)'
    <3>1. CASE q = r
      BY <2>3, <2>4, <2>5, <2>6, <3>1 DEF Told, Live
    <3>2. CASE q # r
      BY <2>1, <2>6, <3>2 DEF ToldInv, Told, Live
    <3>3. QED
      BY <3>1, <3>2
  <2>8. QED
    BY <2>7 DEF ToldInv
<1>4. ASSUME NEW m, NEW s, NEW n, NEW t, NEW from, NEW to, UpdateModel(r, m, s, n, t, from, to)
      PROVE  ToldInv'
  <2> DEFINE base  == models[m]
             row   == [base EXCEPT !.status = s, !.name = n, !.trim = t,
                                   !.yearFrom = from, !.yearTo = to]
             j(pc) == [pc |-> pc, model |-> m, base |-> base, row |-> row, expected |-> None]
  <2>1. PICK pc \in Updates : Begin(r, j(pc))
    BY <1>4 DEF UpdateModel, Onward, Updates
  <2>2. j(pc).pc = pc /\ UNCHANGED standing
    BY <1>4 DEF UpdateModel, history
  <2> HIDE DEF j
  <2>3. QED
    BY <1>2, <2>1, <2>2 DEF Updates
<1>5. ASSUME NEW m, NEW L, EditLicences(r, m, L) PROVE ToldInv'
  BY <1>2, <1>5 DEF EditLicences, history
<1>6. ASSUME NEW m, NEW v, DeleteModel(r, m, v) PROVE ToldInv'
  BY <1>2, <1>6 DEF DeleteModel, history, Idle
<1>7. ASSUME NEW m, CreateUnit(r, m) PROVE ToldInv'
  BY <1>2, <1>7 DEF CreateUnit, Idle
<1>8. QED
  BY <1>3, <1>4, <1>5, <1>6, <1>7 DEF Accept

LEMMA ToldServe ==
  ASSUME ToldInv, ModelInv', NEW r \in Requests, Serve(r)
  PROVE  ToldInv'
<1>1. /\ job \in [Requests -> Job] /\ models \in [ModelIds -> Model] /\ standing \subseteq Requests
      /\ job[r] \in Job /\ Told(r) /\ Knows(r)
  BY DEF ToldInv, ModelInv, TypeOK
<1>2. ASSUME Done(r), Wrote(r, FALSE),
             \A k \in ModelIds : Live(k)' => Live(k) /\ Identity(models[k])' = Identity(models[k])
      PROVE  ToldInv'
  <2>1. \A q \in Requests :
          job'[q] = job[q] \/ (q \notin standing' /\ job'[q].pc # "create.write")
    BY <1>1, <1>2 DEF Done, Wrote, Idle
  <2>2. QED
    BY <1>2, <2>1, ToldQuiet DEF Wrote
<1>3. ASSUME Done(r), Wrote(r, TRUE) PROVE ToldInv'
  <2>1. \A q \in Requests : job'[q] = job[q] \/ job'[q] = Idle
    BY <1>1, <1>3 DEF Done
  <2>2. QED
    BY <1>3, <2>1, ToldNobody DEF Wrote
<1>4. CASE Refuse(r)
  BY <1>2, <1>4 DEF Refuse, Live
<1>5. ASSUME NEW pc \in PCs \ {"create.write"}, Goto(r, pc), r \notin standing, UNCHANGED standing
      PROVE  ToldInv'
  <2>1. \A q \in Requests :
          job'[q] = job[q] \/ (q \notin standing' /\ job'[q].pc # "create.write")
    BY <1>1, <1>5 DEF Goto, Job
  <2>2. \A k \in ModelIds : Live(k)' => Live(k) /\ Identity(models[k])' = Identity(models[k])
    BY <1>5 DEF Goto, Live
  <2>3. QED
    BY <1>5, <2>1, <2>2, ToldQuiet
<1>6. CASE CheckNoUnits(r)
  <2>1. r \notin standing
    BY <1>1, <1>6 DEF CheckNoUnits, Told
  <2>2. Refuse(r) \/ \E pc \in PCs \ {"create.write"} : Goto(r, pc) /\ UNCHANGED standing
    BY <1>6 DEF CheckNoUnits, Onward, history, PCs
  <2>3. QED
    BY <1>4, <1>5, <2>1, <2>2
<1>7. CASE CheckDeletable(r)
  <2>1. r \notin standing
    BY <1>1, <1>7 DEF CheckDeletable, Told
  <2>2. Refuse(r) \/ (Goto(r, "delete.write") /\ UNCHANGED standing)
    BY <1>7 DEF CheckDeletable
  <2>3. QED
    BY <1>4, <1>5, <2>1, <2>2 DEF PCs
<1>8. CASE CheckIdentity(r) /\ ~Refuse(r)
  <2> DEFINE j == job[r]
  <2>1. /\ j.pc = "update.identity" /\ Goto(r, "update.write")
        /\ FindByIdentity(j.row) \ {j.model} = {}
        /\ standing' = IF Identity(Written(j.base, j.row)) = Identity(j.row)
                        THEN standing \cup {r} ELSE standing
    BY <1>8 DEF CheckIdentity, ToldFree
  <2>2. r \notin standing
    BY <1>1, <2>1 DEF Told
  <2>3. \A k \in ModelIds \ {j.model} : Live(k) => Identity(models[k]) # Identity(j.row)
    BY <2>1 DEF FindByIdentity
  <2>4. /\ job'[r].pc = "update.write" /\ job'[r].model = j.model
        /\ job'[r].base = j.base /\ job'[r].row = j.row
        /\ UNCHANGED models /\ \A q \in Requests \ {r} : job'[q] = job[q]
    BY <1>1, <2>1 DEF Goto, Job
  <2>5. ASSUME NEW q \in Requests PROVE Told(q)'
    <3>1. CASE q = r
      BY <2>1, <2>2, <2>3, <2>4, <3>1 DEF Told, Live
    <3>2. CASE q # r
      BY <2>1, <2>4, <3>2 DEF ToldInv, Told, Live
    <3>3. QED
      BY <3>1, <3>2
  <2>6. QED
    BY <2>5 DEF ToldInv
<1>9. CASE WriteModel(r)
  <2> DEFINE m   == job[r].model
             new == Written(models[m], job[r].row)
  <2>1. /\ Done(r) /\ m \in ModelIds /\ job[r].row \in Model /\ models[m] \in Model
    BY <1>1, <1>9 DEF WriteModel, Knows, Updates, Job
  <2>2. CASE UNCHANGED models /\ Wrote(r, FALSE)
    BY <1>2, <2>1, <2>2 DEF Live
  <2>3. CASE models' = [models EXCEPT ![m] = new] /\ Wrote(r, Live(m) /\ Identity(new) # Identity(models[m]))
    <3>1. models'[m] = new /\ new.state = models[m].state /\ \A k \in ModelIds \ {m} : models'[k] = models[k]
      BY <1>1, <2>1, <2>3 DEF Written, Model
    <3>2. CASE Live(m) /\ Identity(new) # Identity(models[m])
      BY <1>3, <2>1, <2>3, <3>2 DEF Wrote
    <3>3. CASE ~(Live(m) /\ Identity(new) # Identity(models[m]))
      <4>1. Wrote(r, FALSE)
        BY <2>3, <3>3 DEF Wrote
      <4>2. \A k \in ModelIds : Live(k)' => Live(k) /\ Identity(models[k])' = Identity(models[k])
        BY <3>1, <3>3 DEF Live, Identity
      <4>3. QED
        BY <1>2, <2>1, <4>1, <4>2
    <3>4. QED
      BY <3>2, <3>3
  <2>4. QED
    BY <1>9, <2>2, <2>3 DEF WriteModel
<1>10. CASE EraseModel(r)
  <2>1. \A k \in ModelIds : Live(k)' => Live(k) /\ Identity(models[k])' = Identity(models[k])
    BY <1>10, EraseLeaves DEF ToldInv, Live
  <2>2. QED
    BY <1>2, <1>10, <2>1 DEF EraseModel
<1>11. CASE SaveModel(r)
  BY <1>3, <1>11 DEF SaveModel
<1>12. CASE InsertUnit(r)
  BY <1>2, <1>12 DEF InsertUnit, Live
<1>13. QED
  BY <1>4, <1>6, <1>7, <1>8, <1>9, <1>10, <1>11, <1>12 DEF Serve, Interrupt

LEMMA ToldStep == ToldInv /\ [Next]_vars => ToldInv'
<1> SUFFICES ASSUME ToldInv, [Next]_vars PROVE ToldInv'
  OBVIOUS
<1>1. ModelInv'
  BY ModelStep DEF ToldInv
<1>2. CASE UNCHANGED vars \/ \E m \in ModelIds : DeleteUnit(m)
  BY <1>1, <1>2, ToldQuiet DEF vars, history, DeleteUnit, Live
<1>3. QED
  BY <1>1, <1>2, ToldAccept, ToldServe DEF Next

LEMMA ToldStart == Init => ToldInv
BY ModelInit DEF ToldInv, Told, Init, Idle

(* However requests overlap, a live model gets the identity of another     *)
(* only from a request that was not told that it is free, or that an       *)
(* identity written since has overtaken.                                   *)
THEOREM IdentitiesDistinct == Spec => IdentityUnique
<1> DEFINE Unique ==
      \A m, k \in ModelIds :
        (m # k /\ Same(m, k)' /\ ~Same(m, k)) =>
          \E r \in Requests \ standing : job[r].pc # "idle" /\ job'[r] = Idle
<1>1. ToldInv /\ [Next]_vars => [Unique]_vars
  <2> SUFFICES ASSUME ToldInv, [Next]_vars, NEW m \in ModelIds, NEW k \in ModelIds,
                      m # k, Same(m, k)', ~Same(m, k)
               PROVE  \E r \in Requests \ standing : job[r].pc # "idle" /\ job'[r] = Idle
    OBVIOUS
  <2>1. models \in [ModelIds -> Model] /\ job \in [Requests -> Job]
    BY DEF ToldInv, ModelInv, TypeOK
  <2>2. models' # models
    BY DEF Same, Live
  <2>3. PICK r \in Requests : SaveModel(r) \/ WriteModel(r) \/ EraseModel(r)
    BY <2>2, Writers
  <2>4. Told(r) /\ Knows(r) /\ job[r] \in Job
    BY <2>1 DEF ToldInv, ModelInv
  <2>5. job[r].pc # "idle" /\ job'[r] = Idle
    BY <2>1, <2>3 DEF SaveModel, WriteModel, EraseModel, Done
  <2>6. CASE EraseModel(r)
    BY <2>6, EraseLeaves DEF ToldInv, Same, Live
  <2>7. CASE SaveModel(r) /\ r \in standing
    <3>1. PICK l \in ModelIds : models[l] = NoModel /\ models' = [models EXCEPT ![l] = job[r].row]
      BY <2>7 DEF SaveModel
    <3>2. job[r].row \in Model /\ job[r].base = NoModel /\ job[r].model = None
      BY <2>4, <2>7 DEF SaveModel, Told, Job
    <3>3. Identity(Written(job[r].base, job[r].row)) = Identity(job[r].row)
      BY <3>2, Blank, WrittenIdentity
    <3>4. \A i \in ModelIds : Live(i) => Identity(models[i]) # Identity(job[r].row)
      BY <2>4, <2>7, <3>2, <3>3, ModelConstants DEF Told
    <3>5. models'[l] = job[r].row /\ \A i \in ModelIds \ {l} : models'[i] = models[i]
      BY <2>1, <3>1
    <3>6. QED
      BY <3>4, <3>5 DEF Same, Live
  <2>8. CASE WriteModel(r) /\ r \in standing
    <3> DEFINE l   == job[r].model
               new == Written(models[l], job[r].row)
    <3>1. /\ l \in ModelIds /\ job[r].row \in Model /\ models[l] \in Model /\ job[r].base \in Model
          /\ models' = [models EXCEPT ![l] = new]
          /\ models[l].version = job[r].base.version
      BY <2>1, <2>2, <2>4, <2>8 DEF WriteModel, Knows, Updates, Job
    <3>2. SameColumns(job[r].base, models[l])
      BY <2>4, <2>8, <3>1 DEF WriteModel, Knows, Updates
    <3>3. Identity(new) = Identity(Written(job[r].base, job[r].row))
      BY <3>1, <3>2, WrittenIdentity
    <3>4. \A i \in ModelIds \ {l} : Live(i) => Identity(models[i]) # Identity(new)
      BY <2>4, <2>8, <3>3 DEF Told
    <3>5. /\ models'[l] = new /\ new.state = models[l].state
          /\ \A i \in ModelIds \ {l} : models'[i] = models[i]
      BY <2>1, <3>1 DEF Written, Model
    <3> HIDE DEF new
    <3>6. QED
      BY <3>4, <3>5 DEF Same, Live
  <2>9. QED
    BY <2>3, <2>5, <2>6, <2>7, <2>8
<1>2. QED
  BY ToldStart, ToldStep, <1>1, PTL DEF Spec, IdentityUnique

-----------------------------------------------------------------------------
(* Units: a request that creates one and a request that deletes its model  *)
(* know of nobody else, unless they cross.                                 *)

Inserts(r) == job[r].pc = "unit.insert"
Erases(r)  == job[r].pc = "delete.write"

Apart(r) ==
  LET m == job[r].model
  IN  r \notin crossing =>
        /\ Erases(r) => units[m] = 0 /\ \A q \in Requests : Inserts(q) => job[q].model # m
        /\ Inserts(r) => Live(m) /\ \A q \in Requests : Erases(q) => job[q].model # m

ApartInv == ModelInv /\ \A r \in Requests : Apart(r)

(* No unit is inserted, no model deleted, and no request begins to do so.  *)
LEMMA ApartQuiet ==
  ASSUME ApartInv, ModelInv',
         \A k \in ModelIds : (Live(k) => Live(k)') /\ (units[k] = 0 => units'[k] = 0),
         \A q \in Requests :
           \/ job'[q] = job[q] /\ (q \in crossing => q \in crossing')
           \/ ~Erases(q)' /\ ~Inserts(q)'
  PROVE  ApartInv'
<1>1. ASSUME NEW q \in Requests PROVE Apart(q)'
  <2>1. CASE ~Erases(q)' /\ ~Inserts(q)'
    BY <2>1 DEF Apart
  <2>2. CASE job'[q] = job[q] /\ (q \in crossing => q \in crossing') /\ (Erases(q) \/ Inserts(q))
    <3>1. Apart(q) /\ job[q].model \in ModelIds
      BY <2>2 DEF ApartInv, ModelInv, Knows, Holds, Deletes, Erases, Inserts
    <3>2. \A p \in Requests :
            /\ Inserts(p)' => Inserts(p) /\ job'[p].model = job[p].model
            /\ Erases(p)' => Erases(p) /\ job'[p].model = job[p].model
      BY DEF Inserts, Erases
    <3>3. QED
      BY <2>2, <3>1, <3>2 DEF Apart, Erases, Inserts
  <2>3. QED
    BY <2>1, <2>2 DEF Erases, Inserts
<1>2. QED
  BY <1>1 DEF ApartInv

(* A request ends: it has inserted a unit of m, or deleted m. *)
LEMMA ApartEnd ==
  ASSUME ApartInv, ModelInv', NEW r \in Requests, Erases(r) \/ Inserts(r), Done(r),
         \A k \in ModelIds \ {job[r].model} : Live(k)' = Live(k) /\ units'[k] = units[k],
         Erases(r) => UNCHANGED units, Inserts(r) => UNCHANGED models
  PROVE  ApartInv'
<1> DEFINE m == job[r].model
<1>1. /\ job \in [Requests -> Job]
      /\ job' = [job EXCEPT ![r] = Idle] /\ crossing' = crossing \ {r}
  BY DEF ApartInv, ModelInv, TypeOK, Done
<1>2. job'[r] = Idle /\ \A q \in Requests \ {r} : job'[q] = job[q]
  BY <1>1
<1>3. \A p \in Requests :
        /\ Inserts(p)' => Inserts(p) /\ job'[p].model = job[p].model
        /\ Erases(p)' => Erases(p) /\ job'[p].model = job[p].model
  BY <1>2 DEF Inserts, Erases, Idle
<1>4. ASSUME NEW q \in Requests PROVE Apart(q)'
  <2>1. CASE ~Erases(q)' /\ ~Inserts(q)'
    BY <2>1 DEF Apart
  <2>2. CASE (Erases(q) \/ Inserts(q)) /\ q # r /\ q \notin crossing
    <3>1. Apart(q) /\ Apart(r) /\ job[q].model \in ModelIds /\ job'[q] = job[q]
      BY <1>2, <2>2 DEF ApartInv, ModelInv, Knows, Holds, Deletes, Erases, Inserts
    <3>2. CASE job[q].model # m
      BY <1>3, <2>2, <3>1, <3>2 DEF Apart, Live, Erases, Inserts
    <3>3. CASE job[q].model = m /\ Erases(q)
      <4>1. Erases(r)
        BY <2>2, <3>1, <3>3 DEF Apart
      <4>2. QED
        BY <1>3, <2>2, <3>1, <3>3, <4>1 DEF Apart, Erases, Inserts
    <3>4. CASE job[q].model = m /\ Inserts(q)
      <4>1. Inserts(r)
        BY <2>2, <3>1, <3>4 DEF Apart
      <4>2. QED
        BY <1>3, <2>2, <3>1, <3>4, <4>1 DEF Apart, Live, Erases, Inserts
    <3>5. QED
      BY <2>2, <3>2, <3>3, <3>4
  <2>3. CASE (Erases(q) \/ Inserts(q)) /\ q # r /\ q \in crossing
    BY <1>1, <2>3 DEF Apart
  <2>4. QED
    BY <1>2, <2>1, <2>2, <2>3 DEF Erases, Inserts, Idle
<1>5. QED
  BY <1>4 DEF ApartInv

(* A request comes to insert a unit, or to delete a model: it crosses all  *)
(* who are at the other.                                                   *)
LEMMA ApartMeet ==
  ASSUME ApartInv, ModelInv', NEW r \in Requests, NEW m \in ModelIds, NEW mine, NEW other,
         <<mine, other>> \in {<<"unit.insert", "delete.write">>, <<"delete.write", "unit.insert">>},
         Cross(r, m, other), job[r].pc \notin {mine, other},
         job'[r].pc = mine, job'[r].model = m, \A q \in Requests \ {r} : job'[q] = job[q],
         UNCHANGED <<models, units>>,
         mine = "unit.insert" => Live(m), mine = "delete.write" => units[m] = 0
  PROVE  ApartInv'
<1> DEFINE others == {q \in Requests : job[q].pc = other /\ job[q].model = m}
<1>1. /\ crossing \subseteq crossing'
      /\ others # {} => others \subseteq crossing' /\ r \in crossing'
  BY DEF Cross
<1> HIDE DEF Cross
<1>2. ASSUME NEW q \in Requests PROVE Apart(q)'
  <2>1. CASE q \in crossing'
    BY <2>1 DEF Apart
  <2>2. CASE q = r /\ q \notin crossing'
    <3>1. \A p \in Requests \ {r} : job'[p].pc = other => job'[p].model # m
      BY <1>1, <2>2
    <3>2. QED
      BY <2>2, <3>1 DEF Apart, Live, Erases, Inserts
  <2>3. CASE q # r /\ q \notin crossing'
    <3>1. Apart(q) /\ q \notin crossing /\ q \notin others
      BY <1>1, <2>3 DEF ApartInv
    <3>2. CASE job[q].pc = other
      BY <2>3, <3>1, <3>2 DEF Apart, Live, Erases, Inserts
    <3>3. CASE job[q].pc = mine
      BY <2>3, <3>1, <3>3 DEF Apart, Live, Erases, Inserts
    <3>4. QED
      BY <2>3, <3>2, <3>3 DEF Apart, Erases, Inserts
  <2>4. QED
    BY <2>1, <2>2, <2>3
<1>3. QED
  BY <1>2 DEF ApartInv

LEMMA ApartAccept ==
  ASSUME ApartInv, ModelInv', NEW r \in Requests, Accept(r)
  PROVE  ApartInv'
<1>1. job \in [Requests -> Job]
  BY DEF ApartInv, ModelInv, TypeOK
<1>2. ASSUME NEW j, Begin(r, j), j.pc \notin {"delete.write", "unit.insert"}, UNCHANGED crossing
      PROVE  ApartInv'
  <2>1. \A q \in Requests :
          \/ job'[q] = job[q] /\ (q \in crossing => q \in crossing')
          \/ ~Erases(q)' /\ ~Inserts(q)'
    BY <1>1, <1>2 DEF Begin, Erases, Inserts
  <2>2. QED
    BY <1>2, <2>1, ApartQuiet DEF Begin, Live
<1>3. ASSUME NEW n, NEW t, NEW from, NEW to, NEW L, CreateModel(r, n, t, from, to, L)
      PROVE  ApartInv'
  BY <1>2, <1>3 DEF CreateModel, Idle
<1>4. ASSUME NEW m, NEW s, NEW n, NEW t, NEW from, NEW to, UpdateModel(r, m, s, n, t, from, to)
      PROVE  ApartInv'
  <2> DEFINE base  == models[m]
             row   == [base EXCEPT !.status = s, !.name = n, !.trim = t,
                                   !.yearFrom = from, !.yearTo = to]
             j(pc) == [pc |-> pc, model |-> m, base |-> base, row |-> row, expected |-> None]
  <2>1. PICK pc \in Updates : Begin(r, j(pc))
    BY <1>4 DEF UpdateModel, Onward, Updates
  <2>2. j(pc).pc = pc /\ UNCHANGED crossing
    BY <1>4 DEF UpdateModel, history
  <2> HIDE DEF j
  <2>3. QED
    BY <1>2, <2>1, <2>2 DEF Updates
<1>5. ASSUME NEW m, NEW L, EditLicences(r, m, L) PROVE ApartInv'
  BY <1>2, <1>5 DEF EditLicences, history
<1>6. ASSUME NEW m, NEW v, DeleteModel(r, m, v) PROVE ApartInv'
  BY <1>2, <1>6 DEF DeleteModel, history, Idle
<1>7. ASSUME NEW m \in ModelIds, CreateUnit(r, m) PROVE ApartInv'
  <2> DEFINE j == [Idle EXCEPT !.pc = "unit.insert", !.model = m]
  <2>1. Begin(r, j) /\ Live(m) /\ Cross(r, m, "delete.write")
    BY <1>7 DEF CreateUnit
  <2>2. j.pc = "unit.insert" /\ j.model = m
    BY DEF Idle
  <2> HIDE DEF j
  <2>3. /\ job[r].pc = "idle" /\ job'[r] = j /\ UNCHANGED <<models, units>>
        /\ \A q \in Requests \ {r} : job'[q] = job[q]
    BY <1>1, <2>1 DEF Begin
  <2>4. QED
    BY <2>1, <2>2, <2>3, ApartMeet
<1>8. QED
  BY <1>3, <1>4, <1>5, <1>6, <1>7 DEF Accept

(* An update leaves the state of every model as it was. *)
LEMMA WriteKeepsState ==
  ASSUME ModelInv, NEW r \in Requests, WriteModel(r), NEW k \in ModelIds
  PROVE  models'[k].state = models[k].state
<1>1. /\ models \in [ModelIds -> Model] /\ job[r] \in Job /\ job[r].model \in ModelIds
  BY DEF ModelInv, TypeOK, WriteModel, Knows, Updates
<1> DEFINE new == Written(models[job[r].model], job[r].row)
<1>2. new.state = models[job[r].model].state
  <2>1. models[job[r].model] \in Model /\ job[r].row \in Model
    BY <1>1 DEF Job
  <2>2. QED
    BY <2>1 DEF Written, Model
<1> HIDE DEF new
<1>3. models' = models \/ models' = [models EXCEPT ![job[r].model] = new]
  BY DEF WriteModel, new
<1>4. QED
  BY <1>1, <1>2, <1>3

LEMMA ApartServe ==
  ASSUME ApartInv, ModelInv', NEW r \in Requests, Serve(r)
  PROVE  ApartInv'
<1>1. /\ job \in [Requests -> Job] /\ models \in [ModelIds -> Model] /\ units \in [ModelIds -> Nat]
      /\ job[r] \in Job /\ Knows(r) /\ Holds(r)
  BY DEF ApartInv, ModelInv, TypeOK
<1>2. ASSUME Done(r), \A k \in ModelIds : (Live(k) => Live(k)') /\ (units[k] = 0 => units'[k] = 0)
      PROVE  ApartInv'
  <2>1. \A q \in Requests :
          \/ job'[q] = job[q] /\ (q \in crossing => q \in crossing')
          \/ ~Erases(q)' /\ ~Inserts(q)'
    BY <1>1, <1>2 DEF Done, Erases, Inserts, Idle
  <2>2. QED
    BY <1>2, <2>1, ApartQuiet
<1>3. CASE Refuse(r)
  BY <1>2, <1>3 DEF Refuse, Live
<1>4. ASSUME NEW pc \in Updates, Goto(r, pc), UNCHANGED crossing PROVE ApartInv'
  <2>1. \A q \in Requests :
          \/ job'[q] = job[q] /\ (q \in crossing => q \in crossing')
          \/ ~Erases(q)' /\ ~Inserts(q)'
    BY <1>1, <1>4 DEF Goto, Erases, Inserts, Job, Updates
  <2>2. QED
    BY <1>4, <2>1, ApartQuiet DEF Goto, Live
<1>5. CASE CheckNoUnits(r)
  <2>1. Refuse(r) \/ \E pc \in Updates : Goto(r, pc) /\ UNCHANGED crossing
    BY <1>5 DEF CheckNoUnits, Onward, history, Updates
  <2>2. QED
    BY <1>3, <1>4, <2>1
<1>6. CASE CheckIdentity(r)
  BY <1>3, <1>4, <1>6 DEF CheckIdentity, ToldFree, Updates
<1>7. CASE CheckDeletable(r) /\ ~Refuse(r)
  <2>1. /\ Goto(r, "delete.write") /\ Cross(r, job[r].model, "unit.insert")
        /\ job[r].pc = "delete.units" /\ units[job[r].model] = 0
    BY <1>7 DEF CheckDeletable
  <2>2. job[r].model \in ModelIds
    BY <1>1, <2>1 DEF Knows, Deletes
  <2>3. /\ job'[r].pc = "delete.write" /\ job'[r].model = job[r].model
        /\ UNCHANGED <<models, units>> /\ \A q \in Requests \ {r} : job'[q] = job[q]
    BY <1>1, <2>1 DEF Goto, Job
  <2>4. QED
    BY <2>1, <2>2, <2>3, ApartMeet
<1>8. CASE SaveModel(r)
  <2>1. PICK m \in ModelIds : models[m] = NoModel /\ models' = [models EXCEPT ![m] = job[r].row]
    BY <1>8 DEF SaveModel
  <2>2. \A k \in ModelIds : Live(k) => Live(k)'
    BY <1>1, <2>1 DEF Live, NoModel
  <2>3. QED
    BY <1>2, <1>8, <2>2 DEF SaveModel
<1>9. CASE WriteModel(r)
  <2>1. \A k \in ModelIds : Live(k) => Live(k)'
    BY <1>9, WriteKeepsState DEF ApartInv, Live
  <2>2. QED
    BY <1>2, <1>9, <2>1 DEF WriteModel
<1>10. CASE EraseModel(r)
  BY <1>10, EraseLeaves, ApartEnd DEF ApartInv, EraseModel, Erases, Inserts, Live
<1>11. CASE InsertUnit(r)
  BY <1>1, <1>11, ApartEnd DEF InsertUnit, Erases, Inserts, Live, Holds
<1>12. QED
  BY <1>3, <1>5, <1>6, <1>7, <1>8, <1>9, <1>10, <1>11 DEF Serve, Interrupt

LEMMA ApartStep == ApartInv /\ [Next]_vars => ApartInv'
<1> SUFFICES ASSUME ApartInv, [Next]_vars PROVE ApartInv'
  OBVIOUS
<1>1. ModelInv' /\ units \in [ModelIds -> Nat]
  BY ModelStep DEF ApartInv, ModelInv, TypeOK
<1>2. CASE UNCHANGED vars
  BY <1>1, <1>2, ApartQuiet DEF vars, history, Live
<1>3. ASSUME NEW m \in ModelIds, DeleteUnit(m) PROVE ApartInv'
  <2>1. UNCHANGED <<models, job, crossing>> /\ units' = [units EXCEPT ![m] = @ - 1] /\ units[m] > 0
    BY <1>3 DEF DeleteUnit, history
  <2>2. \A k \in ModelIds : units[k] = 0 => units'[k] = 0
    BY <1>1, <2>1
  <2>3. QED
    BY <1>1, <2>1, <2>2, ApartQuiet DEF Live
<1>4. QED
  BY <1>1, <1>2, <1>3, ApartAccept, ApartServe DEF Next

(* Units appear by one step. *)
LEMMA UnitWriters ==
  ASSUME [Next]_vars, units \in [ModelIds -> Nat], NEW m \in ModelIds, units[m] = 0, units'[m] > 0
  PROVE  \E r \in Requests : InsertUnit(r)
<1>1. units' # units
  OBVIOUS
<1>2. ASSUME NEW r \in Requests, Accept(r) PROVE FALSE
  <2>1. \A j : ~Begin(r, j)
    BY <1>1 DEF Begin
  <2>2. ASSUME NEW k, NEW s, NEW n, NEW t, NEW from, NEW to, UpdateModel(r, k, s, n, t, from, to)
        PROVE  FALSE
    BY <2>1, <2>2 DEF UpdateModel
  <2>3. ASSUME NEW n, NEW t, NEW from, NEW to, NEW L, CreateModel(r, n, t, from, to, L)
        PROVE  FALSE
    BY <2>1, <2>3 DEF CreateModel
  <2>4. ASSUME NEW k, NEW L, EditLicences(r, k, L) PROVE FALSE
    BY <2>1, <2>4 DEF EditLicences
  <2>5. ASSUME NEW k, NEW v, DeleteModel(r, k, v) PROVE FALSE
    BY <2>1, <2>5 DEF DeleteModel
  <2>6. ASSUME NEW k, CreateUnit(r, k) PROVE FALSE
    BY <2>1, <2>6 DEF CreateUnit
  <2>7. QED
    BY <1>2, <2>2, <2>3, <2>4, <2>5, <2>6 DEF Accept
<1>3. ASSUME NEW r \in Requests, Serve(r), ~InsertUnit(r) PROVE FALSE
  BY <1>1, <1>3 DEF Serve, SaveModel, CheckNoUnits, CheckIdentity, ToldFree, WriteModel,
                    CheckDeletable, EraseModel, Interrupt, Goto, Refuse
<1>4. ASSUME NEW k \in ModelIds, DeleteUnit(k) PROVE FALSE
  BY <1>4 DEF DeleteUnit
<1>5. QED
  BY <1>1, <1>2, <1>3, <1>4 DEF Next, vars

LEMMA ApartStart == Init => ApartInv
BY ModelInit DEF ApartInv, Apart, Init, Idle, Erases, Inserts

(* However requests overlap, a model with units is deleted, or a unit of a *)
(* deleted model inserted, only by one of two requests that cross.         *)
THEOREM UnitsKeepModel == Spec => UnitsHaveModel
<1> DEFINE Kept ==
      \A m \in ModelIds :
        (Orphans(m)' /\ ~Orphans(m)) =>
          \E r \in crossing : job[r].model = m /\ job'[r] = Idle
<1>1. ApartInv /\ [Next]_vars => [Kept]_vars
  <2> SUFFICES ASSUME ApartInv, [Next]_vars, NEW m \in ModelIds, Orphans(m)', ~Orphans(m)
               PROVE  \E r \in crossing : job[r].model = m /\ job'[r] = Idle
    OBVIOUS
  <2>1. /\ models \in [ModelIds -> Model] /\ job \in [Requests -> Job] /\ units \in [ModelIds -> Nat]
        /\ units'[m] > 0 /\ ~Live(m)'
    BY DEF ApartInv, ModelInv, TypeOK, Orphans
  <2>2. CASE models' # models
    <3>1. PICK r \in Requests : SaveModel(r) \/ WriteModel(r) \/ EraseModel(r)
      BY <2>2, Writers
    <3>2. UNCHANGED units /\ Live(m)
      BY <2>1, <3>1 DEF SaveModel, WriteModel, EraseModel, Orphans
    <3>3. ASSUME SaveModel(r) PROVE FALSE
      <4>1. PICK k \in ModelIds :
              models[k] = NoModel /\ models' = [models EXCEPT ![k] = job[r].row]
        BY <3>3 DEF SaveModel
      <4>2. k # m
        BY <3>2, <4>1 DEF Live, NoModel
      <4>3. QED
        BY <2>1, <3>2, <4>1, <4>2 DEF Live
    <3>4. ASSUME WriteModel(r) PROVE FALSE
      BY <2>1, <3>2, <3>4, WriteKeepsState DEF ApartInv, Live
    <3>5. EraseModel(r) /\ Apart(r) /\ job[r].model = m
      BY <2>1, <3>1, <3>2, <3>3, <3>4, EraseLeaves DEF ApartInv, Live
    <3>6. job'[r] = Idle /\ Erases(r)
      BY <2>1, <3>5 DEF EraseModel, Done, Erases
    <3>7. QED
      BY <2>1, <3>2, <3>5, <3>6 DEF Apart
  <2>3. CASE models' = models
    <3>1. ~Live(m) /\ units[m] = 0 /\ units' # units
      BY <2>1, <2>3 DEF Live, Orphans
    <3>2. PICK r \in Requests : InsertUnit(r)
      BY <2>1, <3>1, UnitWriters
    <3>3. units' = [units EXCEPT ![job[r].model] = @ + 1] /\ job'[r] = Idle /\ Inserts(r)
      BY <2>1, <3>2 DEF InsertUnit, Done, Inserts
    <3>4. job[r].model = m
      BY <2>1, <3>1, <3>3
    <3>5. Apart(r)
      BY DEF ApartInv
    <3>6. QED
      BY <3>1, <3>3, <3>4, <3>5 DEF Apart
  <2>4. QED
    BY <2>2, <2>3
<1>2. QED
  BY ApartStart, ApartStep, <1>1, PTL DEF Spec, UnitsHaveModel

=============================================================================
