---------------------------- MODULE LicenseTypes ----------------------------
(***************************************************************************)
(* Licence types of driver-ms: which type includes which, the closure of a *)
(* type, and canDrive, which asks for it.                                  *)
(*                                                                         *)
(* getLicenseClosure is one recursive query.  PostgreSQL evaluates it in   *)
(* rounds, against the table as it was when the query began: a working     *)
(* table, at first the types included directly, is replaced in each round  *)
(* by what its members include and UNION has not seen before.  Each round  *)
(* is a step here, and other requests run in between.  Nothing stops       *)
(* addLicenseInclusion from closing a cycle of two types or more.          *)
(*                                                                         *)
(* As in Trips, job[r] is a request being served.  Requests that change    *)
(* the types are a step each: their queries before the write only decide   *)
(* whether it is refused, and the keys of the tables decide it again.      *)
(* Licences and drivers are here as canDrive sees them.                    *)
(*                                                                         *)
(* Left out: codes and descriptions of types, and the dates of licences,   *)
(* which canDrive only formats.                                            *)
(***************************************************************************)
EXTENDS FiniteSets, Naturals

CONSTANTS
  Requests,   \* slots for requests being served at the same time
  Types,      \* identifiers of licence types the table can hand out
  Drivers,
  MaxPairs,   \* bound: inclusions there are at a time
  None        \* getLicenseClosure has no driver

ASSUME LicenceConstants ==
  /\ IsFiniteSet(Types)
  /\ MaxPairs \in Nat
  /\ None \notin Drivers \cup Types

VARIABLES
  types,      \* types[t]: state of the row of license_types
  includes,   \* license_includes: pairs of a parent and a child
  licences,   \* licences[d][t]: status of the licence of that type
  deleted,    \* drivers whose deleted_at is set
  job         \* job[r]: the request being served in slot r

vars == <<types, includes, licences, deleted, job>>

-----------------------------------------------------------------------------
(* Data. *)

(* EXPIRED and SUSPENDED are one: canDrive looks for VALID only. *)
LicenseStatus == {"VALID", "NOT_VALID"}

PCs == {"idle", "closure.start", "closure.loop", "answer"}

Job == [ pc : PCs, driver : Drivers \cup {None}, type : Types \cup {None},
         valid : SUBSET Types, snapshot : SUBSET (Types \X Types),
         working : SUBSET Types, closure : SUBSET Types, answer : BOOLEAN ]

Idle == [ pc |-> "idle", driver |-> None, type |-> None, valid |-> {},
          snapshot |-> {}, working |-> {}, closure |-> {}, answer |-> FALSE ]

Live(t) == types[t] = "live"

ValidLicences(d) == {t \in Types : licences[d][t] = "VALID"}

(* What the types of a set include directly. *)
Children(pairs, parents) == {c \in Types : \E p \in parents : <<p, c>> \in pairs}

(* Reference definition of the closure: the types that are in every set    *)
(* that has the children of t and, with a type, its children.              *)
Closed(pairs, t, S) == Children(pairs, {t}) \subseteq S /\ Children(pairs, S) \subseteq S

Included(pairs, t) == {c \in Types : \A S \in SUBSET Types : Closed(pairs, t, S) => c \in S}

-----------------------------------------------------------------------------
(* Requests that change types and inclusions. *)

CreateType(t) ==
  /\ types[t] = "unused"
  /\ types' = [types EXCEPT ![t] = "live"]
  /\ UNCHANGED <<includes, licences, deleted, job>>

(* The DELETE is refused while a licence refers to the type, and takes the *)
(* inclusions with it.                                                     *)
RemoveType(t) ==
  /\ Live(t)
  /\ \A d \in Drivers : licences[d][t] = "none"
  /\ types' = [types EXCEPT ![t] = "removed"]
  /\ includes' = {pair \in includes : t # pair[1] /\ t # pair[2]}
  /\ UNCHANGED <<licences, deleted, job>>

(* Variant: a type may include itself. *)
AddLicenseInclusionAny(p, c) ==
  /\ Live(p) /\ Live(c)
  /\ Cardinality(includes) < MaxPairs
  /\ includes' = includes \cup {<<p, c>>}
  /\ UNCHANGED <<types, licences, deleted, job>>

AddLicenseInclusion(p, c) ==
  /\ p # c
  /\ Live(p) /\ Live(c)
  /\ Cardinality(includes) < MaxPairs
  /\ includes' = includes \cup {<<p, c>>}
  /\ UNCHANGED <<types, licences, deleted, job>>

RemoveLicenseInclusion(p, c) ==
  /\ <<p, c>> \in includes
  /\ includes' = includes \ {<<p, c>>}
  /\ UNCHANGED <<types, licences, deleted, job>>

-----------------------------------------------------------------------------
(* Licences and drivers. *)

IssueLicence(d, t, status) ==
  /\ licences[d][t] = "none"
  /\ Live(t)
  /\ licences' = [licences EXCEPT ![d][t] = status]
  /\ UNCHANGED <<types, includes, deleted, job>>

SetLicenceStatus(d, t, status) ==
  /\ licences[d][t] # "none"
  /\ licences' = [licences EXCEPT ![d][t] = status]
  /\ UNCHANGED <<types, includes, deleted, job>>

RemoveDriver(d) ==
  /\ deleted' = deleted \cup {d}
  /\ UNCHANGED <<types, includes, licences, job>>

UndeleteDriver(d) ==
  /\ deleted' = deleted \ {d}
  /\ UNCHANGED <<types, includes, licences, job>>

-----------------------------------------------------------------------------
(* The closure. *)

Begin(r, j) ==
  /\ job[r].pc = "idle"
  /\ job' = [job EXCEPT ![r] = j]
  /\ UNCHANGED <<types, includes, licences, deleted>>

GetLicenseClosure(r, t) == Begin(r, [Idle EXCEPT !.pc = "closure.start", !.type = t])

(* The first term of the query, on the table as it is now. *)
StartClosure(r) ==
  /\ job[r].pc = "closure.start"
  /\ LET children == Children(includes, {job[r].type})
     IN  job' = [job EXCEPT ![r].pc = "closure.loop", ![r].snapshot = includes,
                            ![r].working = children, ![r].closure = children]
  /\ UNCHANGED <<types, includes, licences, deleted>>

(* Variant: UNION ALL keeps what was seen before. *)
IterateClosureAll(r) ==
  /\ job[r].pc = "closure.loop"
  /\ job[r].working # {}
  /\ LET found == Children(job[r].snapshot, job[r].working)
     IN  job' = [job EXCEPT ![r].working = found, ![r].closure = @ \cup found]
  /\ UNCHANGED <<types, includes, licences, deleted>>

(* Variant: the recursive term is not evaluated again. *)
IterateClosureOnce(r) ==
  /\ job[r].pc = "closure.loop"
  /\ job[r].working # {}
  /\ LET found == Children(job[r].snapshot, job[r].working) \ job[r].closure
     IN  job' = [job EXCEPT ![r].working = {}, ![r].closure = @ \cup found]
  /\ UNCHANGED <<types, includes, licences, deleted>>

(* The recursive term, on what the last round found. *)
IterateClosure(r) ==
  /\ job[r].pc = "closure.loop"
  /\ job[r].working # {}
  /\ LET found == Children(job[r].snapshot, job[r].working) \ job[r].closure
     IN  job' = [job EXCEPT ![r].working = found, ![r].closure = @ \cup found]
  /\ UNCHANGED <<types, includes, licences, deleted>>

-----------------------------------------------------------------------------
(* canDrive *)

(* A driver that is deleted has no answer but no; one with a VALID licence *)
(* of the type itself needs no closure.  canDrive compares ids of entities *)
(* with the number it was called with, and below with ids of a raw query.  *)
(* The columns are bigint in init.sql and integers in the entity, and the  *)
(* database client makes text of the first and numbers of the second:      *)
(* whether two equal ids are the same kind of value is chosen each time.   *)
CanDrive(r, d, t, sameKind) ==
  LET valid == IF d \in deleted THEN {} ELSE ValidLicences(d)
      direct == sameKind /\ t \in valid
      pc == IF direct \/ d \in deleted THEN "answer" ELSE "closure.start"
  IN  Begin(r, [Idle EXCEPT !.pc = pc, !.driver = d, !.type = t,
                            !.valid = valid, !.answer = direct])

(* The closure is there.  canDrive looks for a VALID licence of one of its *)
(* types, see above on sameKind.                                           *)
EndClosure(r) ==
  /\ job[r].pc = "closure.loop"
  /\ job[r].working = {}
  /\ \E sameKind \in BOOLEAN :
       job' = [job EXCEPT ![r].pc = "answer",
                          ![r].answer = sameKind /\ job[r].valid \cap job[r].closure # {}]
  /\ UNCHANGED <<types, includes, licences, deleted>>

(* The answer is sent, or a query fails and the request with it. *)
Respond(r) ==
  /\ job[r].pc # "idle"
  /\ job' = [job EXCEPT ![r] = Idle]
  /\ UNCHANGED <<types, includes, licences, deleted>>

-----------------------------------------------------------------------------

Init ==
  /\ types = [t \in Types |-> "unused"]
  /\ includes = {}
  /\ licences = [d \in Drivers |-> [t \in Types |-> "none"]]
  /\ deleted = {}
  /\ job = [r \in Requests |-> Idle]

Administer ==
  \/ \E t \in Types : CreateType(t) \/ RemoveType(t)
  \/ \E p, c \in Types : AddLicenseInclusion(p, c) \/ RemoveLicenseInclusion(p, c)
  \/ \E d \in Drivers :
       \/ RemoveDriver(d) \/ UndeleteDriver(d)
       \/ \E t \in Types, status \in LicenseStatus :
            IssueLicence(d, t, status) \/ SetLicenceStatus(d, t, status)

Accept(r) ==
  \E t \in Types :
    \/ Live(t) /\ GetLicenseClosure(r, t)
    \/ \E d \in Drivers, sameKind \in BOOLEAN : CanDrive(r, d, t, sameKind)

Serve(r) == StartClosure(r) \/ IterateClosure(r) \/ EndClosure(r) \/ Respond(r)

Next == Administer \/ \E r \in Requests : Accept(r) \/ Serve(r)

Spec == Init /\ [][Next]_vars

-----------------------------------------------------------------------------
(* Properties. *)

(* Rows and requests have the columns and fields the code gives them, and  *)
(* no type includes itself.                                                *)
TypeOK ==
  /\ types \in [Types -> {"unused", "live", "removed"}]
  /\ includes \subseteq {pair \in Types \X Types : pair[1] # pair[2]}
  /\ licences \in [Drivers -> [Types -> LicenseStatus \cup {"none"}]]
  /\ deleted \subseteq Drivers
  /\ job \in [Requests -> Job]

(* Inclusions and licences refer to types that are there, whatever is      *)
(* removed meanwhile.                                                      *)
References ==
  /\ \A pair \in includes : Live(pair[1]) /\ Live(pair[2])
  /\ \A d \in Drivers, t \in Types : licences[d][t] # "none" => Live(t)

(* Cycles or not, and whatever inclusions change while the rounds go on,   *)
(* the query ends with exactly the types that were included, directly or   *)
(* through others, when it began.                                          *)
ClosureExact ==
  \A r \in Requests :
    job[r].pc = "closure.loop" /\ job[r].working = {} =>
      job[r].closure = Included(job[r].snapshot, job[r].type)

(* Each round finds a type that was not in the closure, or is the last: on *)
(* a cycle too the query ends, after at most one round for each type.      *)
ClosureAdvances ==
  [][ \A r \in Requests :
        LET now  == job[r]
            next == job'[r]
        IN  now.pc = "closure.loop" /\ next.pc = "closure.loop" /\ now # next =>
              /\ now.closure \subseteq next.closure
              /\ next.closure = now.closure => next.working = {} ]_vars

=============================================================================
