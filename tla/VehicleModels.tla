---------------------------- MODULE VehicleModels ----------------------------
(***************************************************************************)
(* VehicleModelService of vehicles-svc, and the one call of its neighbour  *)
(* VehicleUnitService that depends on a model: createUnit.                 *)
(*                                                                         *)
(* A model has a version.  updateModel and the two requests about licences *)
(* read a model, ask other queries, and write every column back on the     *)
(* condition that the version is still the one they read; deleteModel      *)
(* counts the units of a model, and deletes it later.  Transactions run at *)
(* READ COMMITTED: they make the writes of a request one, and keep nothing *)
(* they have read.  As in VehicleUnits, job[r] is a request being served.  *)
(*                                                                         *)
(* The name of a model stands for brand and family.  A year or a trim that *)
(* is given as zero or as the empty word is sent, and told from one that   *)
(* is left out.  A stored year_to of 0 and one of NULL differ: the first   *)
(* is what the gateway sends for a new model without a last year.          *)
(*                                                                         *)
(* Left out: the figures of the engine, which no condition reads; whether  *)
(* there is an engine, which is created and deleted with the model; the    *)
(* idempotency key, which createModel stores and never reads; the machine  *)
(* type, but not the question that its change makes updateModel ask.       *)
(*                                                                         *)
(* A definition called a variant is the one that follows it with a bug; it *)
(* shows that the properties tell the two apart, and is used nowhere.      *)
(***************************************************************************)
EXTENDS FiniteSets, Naturals

CONSTANTS
  Requests,     \* slots for requests being served at the same time
  ModelIds,     \* identifiers the table can hand out
  Names, Trims, Years,
  Licences,     \* kinds of licence a model can require
  None,         \* an argument that was not given; NULL in a row
  MaxVersion,   \* bound: versions of two models together
  MaxUnits      \* bound: units of one model

ASSUME ModelConstants ==
  /\ Years \subseteq Nat \ {0}
  /\ {MaxVersion, MaxUnits} \subseteq Nat
  /\ None \notin ModelIds \cup Names \cup Trims \cup Nat

VARIABLES
  models,   \* models[m]: a row of vehicle_models with its requirements
  units,    \* units[m]: how many units of m are not deleted
  job,      \* job[r]: the request being served in slot r
  \* History, which no step reads.
  standing, \* requests told that the identity they will write is free, and
            \* no identity was written since
  crossing  \* requests that delete a model while another creates a unit of
            \* it, and those others

history == <<standing, crossing>>

vars == <<models, units, job, history>>

-----------------------------------------------------------------------------
(* Data. *)

ModelStatus == {"ACTIVE", "DEPRECATED"}

Model == [ state : {"unused", "live", "deleted"}, name : Names \cup {None},
           trim : Trims \cup {None}, yearFrom : Years \cup {None},
           yearTo : Years \cup {0, None}, status : ModelStatus,
           licences : SUBSET Licences, version : Nat ]

NoModel == [ state |-> "unused", name |-> None, trim |-> None, yearFrom |-> None,
             yearTo |-> None, status |-> "ACTIVE", licences |-> {}, version |-> 0 ]

PCs == {"idle", "create.write", "update.units", "update.identity",
        "update.write", "delete.units", "delete.write", "unit.insert"}

(* base is the row as read, row the row as edited. *)
Job == [ pc : PCs, model : ModelIds \cup {None}, base : Model, row : Model,
         expected : Nat \cup {None} ]

Idle == [ pc |-> "idle", model |-> None, base |-> NoModel, row |-> NoModel,
          expected |-> None ]

-----------------------------------------------------------------------------
(* Queries and steps. *)

Live(m) == models[m].state = "live"

Identity(row) == <<row.name, row.trim, row.yearFrom, row.yearTo>>

(* existsByIdentity: a trim or a last year that is not given matches any.  *)
ExistsByIdentity(n, t, from, to) ==
  \E m \in ModelIds :
    /\ Live(m)
    /\ models[m].name = n /\ models[m].yearFrom = from
    /\ t \in {None, models[m].trim} /\ to \in {None, models[m].yearTo}

(* findByIdentity: one that is not given matches NULL.                     *)
FindByIdentity(row) == {m \in ModelIds : Live(m) /\ Identity(models[m]) = Identity(row)}

Begin(r, j) ==
  /\ job[r].pc = "idle"
  /\ job' = [job EXCEPT ![r] = j]
  /\ UNCHANGED <<models, units>>

Goto(r, pc) == job' = [job EXCEPT ![r].pc = pc] /\ UNCHANGED <<models, units>>

Done(r) ==
  /\ job' = [job EXCEPT ![r] = Idle]
  /\ crossing' = crossing \ {r}

(* History: r ends having written an identity of a live model, or none; r  *)
(* comes to model m while others are at the step named.                    *)
Wrote(r, identity) == standing' = IF identity THEN {} ELSE standing \ {r}

Cross(r, m, pc) ==
  LET others == {q \in Requests : job[q].pc = pc /\ job[q].model = m}
  IN  crossing' = IF others = {} THEN crossing ELSE crossing \cup others \cup {r}

Refuse(r) == Done(r) /\ Wrote(r, FALSE) /\ UNCHANGED <<models, units>>

-----------------------------------------------------------------------------
(* createModel.  Its years are not compared.  The unique index counts      *)
(* deleted_at, which is null for two live rows: it refuses none.           *)

CreateModel(r, n, t, from, to, licences) ==
  /\ NoModel \in {models[m] : m \in ModelIds}   \* bound: identifiers left
  /\ ~ExistsByIdentity(n, t, from, to)
  /\ Begin(r, [Idle EXCEPT !.pc = "create.write",
                           !.row = [NoModel EXCEPT !.state = "live", !.name = n, !.trim = t,
                                                   !.yearFrom = from, !.yearTo = to,
                                                   !.licences = licences]])
  /\ standing' = standing \cup {r}
  /\ UNCHANGED crossing

SaveModel(r) ==
  /\ job[r].pc = "create.write"
  /\ \E m \in ModelIds :
       /\ models[m] = NoModel
       /\ models' = [models EXCEPT ![m] = job[r].row]
  /\ Done(r)
  /\ Wrote(r, TRUE)
  /\ UNCHANGED units

-----------------------------------------------------------------------------
(* updateModel: what it asks next, if anything, depends on the edit.  A    *)
(* version the client expects is compared with the row read, and forgotten *)
(* when it is the same; the write asks for the version read in any case.   *)
(* A column that is not given keeps its value in the row in memory.  A     *)
(* last year of 0 and an empty trim are orders to clear, and become null.  *)

AsksUnits(base, row) == row.status = "DEPRECATED" /\ base.status # "DEPRECATED"

(* Where an update goes once it needs no units: it asks for its identity   *)
(* if that changes, and if the machine type does.                          *)
Onward(base, row) ==
  {"update.identity"} \cup (IF Identity(row) = Identity(base) THEN {"update.write"} ELSE {})

UpdateModel(r, m, s, n, t, from, to) ==
  LET base == models[m]
      row == [base EXCEPT !.status = s, !.name = n, !.trim = t,
                          !.yearFrom = from, !.yearTo = to]
  IN  /\ Live(m)
      /\ to # base.yearTo =>
           /\ to \in Years => to >= base.yearFrom
           /\ from # base.yearFrom => to \in Years /\ from <= to   \* YearRangeConstraint
      /\ \E pc \in IF AsksUnits(base, row) THEN {"update.units"} ELSE Onward(base, row) :
           Begin(r, [ pc |-> pc, model |-> m, base |-> base, row |-> row, expected |-> None ])
      /\ UNCHANGED history

CheckNoUnits(r) ==
  LET j == job[r]
  IN  /\ j.pc = "update.units"
      /\ IF units[j.model] > 0
         THEN Refuse(r)
         ELSE /\ \E pc \in Onward(j.base, j.row) : Goto(r, pc)
              /\ UNCHANGED history

(* The columns that modelRepo.update leaves in a row: it writes neither a  *)
(* trim nor a last year that is null, and a cleared one stays as it was.   *)
NotNull(new, old) == IF new = None THEN old ELSE new

Written(row, edited) ==
  [edited EXCEPT !.state = row.state, !.version = row.version + 1,
                 !.trim = NotNull(@, row.trim), !.yearTo = NotNull(@, row.yearTo)]

(* The query asks for the row as edited, which is not the row as written   *)
(* when a column is cleared: its answer is then about another identity.    *)
ToldFree(r) ==
  LET j == job[r]
  IN  /\ Goto(r, "update.write")
      /\ standing' = IF Identity(Written(j.base, j.row)) = Identity(j.row)
                     THEN standing \cup {r}
                     ELSE standing
      /\ UNCHANGED crossing

(* Variant: an update may take the identity of another model. *)
CheckIdentitySkipped(r) == job[r].pc = "update.identity" /\ ToldFree(r)

(* One row is returned.  Were it the model's own, another request would    *)
(* have renamed it since, and the write would fail on the version.         *)
CheckIdentity(r) ==
  LET j == job[r]
      found == FindByIdentity(j.row)
  IN  /\ j.pc = "update.identity"
      /\ IF found \ {j.model} # {} THEN Refuse(r) ELSE ToldFree(r)

(* Variant: the write asks for the model, not for its version. *)
WriteModelAnyway(r) ==
  LET j == job[r]
      row == models[j.model]
      new == Written(row, j.row)
  IN  /\ j.pc = "update.write"
      /\ models' = [models EXCEPT ![j.model] = new]
      /\ Done(r)
      /\ Wrote(r, Live(j.model) /\ Identity(new) # Identity(row))
      /\ UNCHANGED units

(* modelRepo.update: UPDATE ... WHERE version, which increments it; then   *)
(* the requirements, as read or as edited.  deleted_at is not asked for.   *)
WriteModel(r) ==
  LET j == job[r]
      row == models[j.model]
      new == Written(row, j.row)
  IN  /\ j.pc = "update.write"
      /\ IF row.version # j.base.version
         THEN UNCHANGED models /\ Wrote(r, FALSE)
         ELSE /\ \A k \in ModelIds \ {j.model} :   \* bound
                   row.version + models[k].version < MaxVersion
              /\ models' = [models EXCEPT ![j.model] = new]
              /\ Wrote(r, Live(j.model) /\ Identity(new) # Identity(row))
      /\ Done(r)
      /\ UNCHANGED units

-----------------------------------------------------------------------------
(* setModelLicenses and deleteModelLicense: the model as read is written   *)
(* with other licences, those given or those that remain.                  *)

EditLicences(r, m, licences) ==
  /\ Live(m)
  /\ Begin(r, [ pc |-> "update.write", model |-> m, base |-> models[m],
                row |-> [models[m] EXCEPT !.licences = licences], expected |-> None ])
  /\ UNCHANGED history

-----------------------------------------------------------------------------
(* deleteModel: three queries and the deletion in one transaction. *)

DeleteModel(r, m, v) ==
  /\ Live(m) /\ v \in {None, 0, models[m].version}   \* 0 is not compared
  /\ Begin(r, [Idle EXCEPT !.pc = "delete.units", !.model = m,
                           !.base = models[m], !.expected = v])
  /\ UNCHANGED history

(* Variant: the units are not asked for. *)
CheckDeletableByStatus(r) ==
  LET j == job[r]
  IN  /\ j.pc = "delete.units"
      /\ IF j.base.status = "DEPRECATED" /\ j.base.yearTo # None
         THEN /\ Goto(r, "delete.write")
              /\ Cross(r, j.model, "unit.insert")
              /\ UNCHANGED standing
         ELSE Refuse(r)

(* The units are asked for; the status and the year are those read, and a  *)
(* last year of 0 is not null.                                             *)
CheckDeletable(r) ==
  LET j == job[r]
  IN  /\ j.pc = "delete.units"
      /\ IF units[j.model] = 0 /\ j.base.status = "DEPRECATED" /\ j.base.yearTo # None
         THEN /\ Goto(r, "delete.write")
              /\ Cross(r, j.model, "unit.insert")
              /\ UNCHANGED standing
         ELSE Refuse(r)

(* Variant: the version was compared when the model was read. *)
EraseModelAnyway(r) ==
  LET j == job[r]
  IN  /\ j.pc = "delete.write"
      /\ models' = [models EXCEPT ![j.model].state = "deleted"]
      /\ Done(r)
      /\ Wrote(r, FALSE)
      /\ UNCHANGED units

(* deleteById, on the version if the client gave one, and then 0 is one;   *)
(* it does not change the version.                                         *)
EraseModel(r) ==
  LET j == job[r]
  IN  /\ j.pc = "delete.write"
      /\ IF Live(j.model) /\ j.expected \in {None, models[j.model].version}
         THEN models' = [models EXCEPT ![j.model].state = "deleted"]
         ELSE UNCHANGED models
      /\ Done(r)
      /\ Wrote(r, FALSE)
      /\ UNCHANGED units

-----------------------------------------------------------------------------
(* Units: createUnit reads the model and inserts later. *)

CreateUnit(r, m) ==
  /\ Live(m)
  /\ units[m] < MaxUnits   \* bound
  /\ Begin(r, [Idle EXCEPT !.pc = "unit.insert", !.model = m])
  /\ Cross(r, m, "delete.write")
  /\ UNCHANGED standing

InsertUnit(r) ==
  /\ job[r].pc = "unit.insert"
  /\ units' = [units EXCEPT ![job[r].model] = @ + 1]
  /\ Done(r)
  /\ Wrote(r, FALSE)
  /\ UNCHANGED models

DeleteUnit(m) ==
  /\ units[m] > 0
  /\ units' = [units EXCEPT ![m] = @ - 1]
  /\ UNCHANGED <<models, job, history>>

(* A call fails, or the process dies while it serves r; a transaction that *)
(* is under way is undone.                                                 *)
Interrupt(r) ==
  /\ job[r].pc # "idle"
  /\ Refuse(r)

-----------------------------------------------------------------------------

Init ==
  /\ models = [m \in ModelIds |-> NoModel]
  /\ units = [m \in ModelIds |-> 0]
  /\ job = [r \in Requests |-> Idle]
  /\ standing = {} /\ crossing = {}

(* A last year that is left out comes from a client other than the gateway *)
(* (as the rows of the seed do).  The gateway sends no empty trim here.    *)
Accept(r) ==
  \/ \E n \in Names, t \in Trims \cup {None}, from \in Years, to \in Years \cup {0, None},
        licences \in SUBSET Licences : CreateModel(r, n, t, from, to, licences)
  \/ \E m \in ModelIds :
       \/ \E s \in ModelStatus, n \in Names, t \in Trims \cup {None},
             from \in Years, to \in Years \cup {None, models[m].yearTo} :
            UpdateModel(r, m, s, n, t, from, to)
       \/ \E v \in {None, 0, models[m].version} : DeleteModel(r, m, v)
       \/ \E licences \in SUBSET Licences : EditLicences(r, m, licences)
       \/ CreateUnit(r, m)

Serve(r) ==
  \/ SaveModel(r) \/ CheckNoUnits(r) \/ CheckIdentity(r) \/ WriteModel(r)
  \/ CheckDeletable(r) \/ EraseModel(r) \/ InsertUnit(r) \/ Interrupt(r)

Next ==
  \/ \E r \in Requests : Accept(r) \/ Serve(r)
  \/ \E m \in ModelIds : DeleteUnit(m)

Spec == Init /\ [][Next]_vars

-----------------------------------------------------------------------------
(* Properties. *)

TypeOK ==
  /\ models \in [ModelIds -> Model]
  /\ units \in [ModelIds -> Nat]
  /\ job \in [Requests -> Job]
  /\ standing \subseteq Requests /\ crossing \subseteq Requests

(* No update is lost: when a live model changes, the change was made to    *)
(* the columns the model has, not to older ones, however requests overlap  *)
(* (the version is what updateModel and the licences rely on).             *)
NoLostUpdate ==
  [][ \A m \in ModelIds :
        (Live(m) /\ models'[m].state = "live" /\ models'[m] # models[m]) =>
          \E r \in Requests : job[r].model = m /\ job[r].base = models[m] ]_vars

(* Who deletes a version deletes that version: no update slips in between  *)
(* the checks of deleteModel and its write, so the model is deprecated and *)
(* has a last year that is not null, which is how the code tells that its  *)
(* years are closed (a last year of 0 passes for one).                     *)
DeletedAsExpected ==
  [][ \A m \in ModelIds, r \in Requests :
        (/\ Live(m) /\ models'[m].state = "deleted"
         /\ job[r].pc = "delete.write" /\ job'[r] = Idle
         /\ job[r].model = m /\ job[r].expected # None) =>
          models[m].status = "DEPRECATED" /\ models[m].yearTo # None ]_vars

(* The queries do what the unique index does not.  However requests        *)
(* overlap, a live model gets the identity of another only from a request  *)
(* that was not told so: it asked about another identity (it clears a      *)
(* column, which modelRepo.update then keeps), or an identity was written  *)
(* between its question and its write.                                     *)
Same(m, k) == Live(m) /\ Live(k) /\ Identity(models[m]) = Identity(models[k])

IdentityUnique ==
  [][ \A m, k \in ModelIds :
        (m # k /\ Same(m, k)' /\ ~Same(m, k)) =>
          \E r \in Requests \ standing : job[r].pc # "idle" /\ job'[r] = Idle ]_vars

(* Units have a live model: however requests overlap, a model with units   *)
(* is deleted, or a unit of a deleted model inserted, only by one of two   *)
(* requests that cross, when createUnit had found the model and deleteModel*)
(* no unit of it.                                                          *)
Orphans(m) == units[m] > 0 /\ ~Live(m)

UnitsHaveModel ==
  [][ \A m \in ModelIds :
        (Orphans(m)' /\ ~Orphans(m)) =>
          \E r \in crossing : job[r].model = m /\ job'[r] = Idle ]_vars

=============================================================================
