------------------------- MODULE LicenseTypesProofs -------------------------
(* Theorems of LicenseTypes, for any number of requests, types and drivers. *)
EXTENDS LicenseTypes, FiniteSetTheorems, TLAPS

(* What the rounds of a query keep: the closure has all it should have     *)
(* except what the members of the working table include, and nothing more  *)
(* than it should.                                                         *)
Rounds(j) ==
  /\ Children(j.snapshot, {j.type}) \subseteq j.closure
  /\ Children(j.snapshot, j.closure \ j.working) \subseteq j.closure
  /\ j.working \subseteq j.closure
  /\ j.closure \subseteq Included(j.snapshot, j.type)

Inv ==
  /\ TypeOK
  /\ \A r \in Requests : job[r].pc = "closure.loop" => Rounds(job[r])

-----------------------------------------------------------------------------
(* The closure as a least set. *)

(* What a type includes directly, and what is included by something the    *)
(* type includes, is included.                                             *)
LEMMA ChildrenIncluded ==
  ASSUME NEW P, NEW t, NEW W, W \subseteq Included(P, t)
  PROVE  Children(P, {t}) \subseteq Included(P, t) /\ Children(P, W) \subseteq Included(P, t)
<1>1. ASSUME NEW c \in Children(P, {t}) PROVE c \in Included(P, t)
  BY DEF Children, Included, Closed
<1>2. ASSUME NEW c \in Children(P, W) PROVE c \in Included(P, t)
  <2>1. PICK p \in W : c \in Types /\ <<p, c>> \in P
    BY DEF Children
  <2>2. ASSUME NEW S \in SUBSET Types, Closed(P, t, S) PROVE c \in S
    <3>1. p \in S
      BY <2>1, <2>2 DEF Included
    <3>2. c \in Children(P, S)
      BY <2>1, <3>1 DEF Children
    <3>3. QED
      BY <2>2, <3>2 DEF Closed
  <2>3. QED
    BY <2>1, <2>2 DEF Included
<1>3. QED
  BY <1>1, <1>2

(* A closed set has everything the type includes. *)
LEMMA IncludedLeast ==
  ASSUME NEW P, NEW t, NEW S \in SUBSET Types, Closed(P, t, S)
  PROVE  Included(P, t) \subseteq S
BY DEF Included

LEMMA RoundsAtEnd ==
  ASSUME NEW j \in Job, Rounds(j), j.working = {}
  PROVE  j.closure = Included(j.snapshot, j.type)
<1>1. j.closure \ j.working = j.closure /\ j.closure \in SUBSET Types
  BY DEF Job
<1>2. Closed(j.snapshot, j.type, j.closure)
  BY <1>1 DEF Rounds, Closed
<1>3. QED
  BY <1>1, <1>2, IncludedLeast DEF Rounds

LEMMA RoundsBegin ==
  ASSUME NEW j, j.working = Children(j.snapshot, {j.type}), j.closure = j.working
  PROVE  Rounds(j)
<1>1. Children(j.snapshot, j.closure \ j.working) = {}
  BY DEF Children
<1>2. j.closure \subseteq Included(j.snapshot, j.type)
  BY ChildrenIncluded
<1>3. QED
  BY <1>1, <1>2 DEF Rounds

LEMMA RoundsGoOn ==
  ASSUME NEW j, Rounds(j), NEW k, k.snapshot = j.snapshot, k.type = j.type,
         k.working = Children(j.snapshot, j.working) \ j.closure,
         k.closure = j.closure \cup k.working
  PROVE  Rounds(k)
<1>1. Children(k.snapshot, {k.type}) \subseteq k.closure /\ k.working \subseteq k.closure
  BY DEF Rounds
<1>2. k.closure \ k.working = j.closure
  OBVIOUS
<1>3. Children(j.snapshot, j.closure)
        \subseteq Children(j.snapshot, j.closure \ j.working) \cup Children(j.snapshot, j.working)
  BY DEF Children
<1>4. Children(k.snapshot, k.closure \ k.working) \subseteq k.closure
  BY <1>2, <1>3 DEF Rounds
<1>5. Children(j.snapshot, j.working) \subseteq Included(j.snapshot, j.type)
  <2>1. j.working \subseteq Included(j.snapshot, j.type)
    BY DEF Rounds
  <2>2. QED
    BY <2>1, ChildrenIncluded
<1>6. k.closure \subseteq Included(k.snapshot, k.type)
  BY <1>5 DEF Rounds
<1>7. QED
  BY <1>1, <1>4, <1>6 DEF Rounds

-----------------------------------------------------------------------------
(* The invariant. *)

LEMMA IdleTyped == Idle \in Job /\ Idle.pc = "idle"
BY DEF Idle, Job, PCs

LEMMA ChildrenTyped == \A P, W : Children(P, W) \in SUBSET Types
BY DEF Children

LEMMA InvInit == Init => Inv
<1>1. ASSUME Init PROVE Inv
  <2>1. TypeOK
    BY <1>1, IdleTyped DEF Init, TypeOK
  <2>2. \A r \in Requests : job[r].pc # "closure.loop"
    BY <1>1, IdleTyped DEF Init
  <2>3. QED
    BY <2>1, <2>2 DEF Inv
<1>2. QED
  BY <1>1

(* Requests that change the tables leave the closures alone. *)
LEMMA InvAdminister == Inv /\ Administer => Inv' /\ UNCHANGED job
<1> SUFFICES ASSUME Inv, Administer PROVE Inv' /\ UNCHANGED job
  OBVIOUS
<1> USE DEF Inv, TypeOK
<1>1. ASSUME NEW t \in Types, CreateType(t) PROVE TypeOK' /\ UNCHANGED job
  BY <1>1 DEF CreateType
<1>2. ASSUME NEW t \in Types, RemoveType(t) PROVE TypeOK' /\ UNCHANGED job
  BY <1>2 DEF RemoveType
<1>3. ASSUME NEW p \in Types, NEW c \in Types, AddLicenseInclusion(p, c)
      PROVE  TypeOK' /\ UNCHANGED job
  BY <1>3 DEF AddLicenseInclusion
<1>4. ASSUME NEW p \in Types, NEW c \in Types, RemoveLicenseInclusion(p, c)
      PROVE  TypeOK' /\ UNCHANGED job
  BY <1>4 DEF RemoveLicenseInclusion
<1>5. ASSUME NEW d \in Drivers, RemoveDriver(d) \/ UndeleteDriver(d)
      PROVE  TypeOK' /\ UNCHANGED job
  BY <1>5 DEF RemoveDriver, UndeleteDriver
<1>6. ASSUME NEW d \in Drivers, NEW t \in Types, NEW status \in LicenseStatus,
             IssueLicence(d, t, status) \/ SetLicenceStatus(d, t, status)
      PROVE  TypeOK' /\ UNCHANGED job
  BY <1>6 DEF IssueLicence, SetLicenceStatus
<1>7. QED
  BY <1>1, <1>2, <1>3, <1>4, <1>5, <1>6 DEF Administer

(* A step of one request. *)
LEMMA SlotStep ==
  ASSUME Inv, NEW r \in Requests, NEW j \in Job, job' = [job EXCEPT ![r] = j],
         UNCHANGED <<types, includes, licences, deleted>>,
         j.pc = "closure.loop" => Rounds(j)
  PROVE  Inv'
<1>1. TypeOK'
  BY DEF Inv, TypeOK
<1>2. ASSUME NEW s \in Requests, job'[s].pc = "closure.loop" PROVE Rounds(job'[s])
  <2>1. job'[s] = j \/ job'[s] = job[s]
    BY DEF Inv, TypeOK
  <2>2. QED
    BY <1>2, <2>1 DEF Inv
<1>3. QED
  BY <1>1, <1>2 DEF Inv

LEMMA InvAccept ==
  ASSUME Inv, NEW r \in Requests, Accept(r)
  PROVE  Inv' /\ job[r].pc = "idle"
<1>1. ASSUME NEW t \in Types, GetLicenseClosure(r, t) PROVE Inv' /\ job[r].pc = "idle"
  <2> DEFINE j == [Idle EXCEPT !.pc = "closure.start", !.type = t]
  <2>1. j \in Job /\ j.pc # "closure.loop"
    BY DEF Idle, Job, PCs
  <2>2. QED
    BY <1>1, <2>1, SlotStep DEF GetLicenseClosure, Begin
<1>2. ASSUME NEW d \in Drivers, NEW t \in Types, NEW sameKind \in BOOLEAN,
             CanDrive(r, d, t, sameKind)
      PROVE  Inv' /\ job[r].pc = "idle"
  <2> DEFINE valid == IF d \in deleted THEN {} ELSE ValidLicences(d)
             direct == sameKind /\ t \in valid
             pc == IF direct \/ d \in deleted THEN "answer" ELSE "closure.start"
             j == [Idle EXCEPT !.pc = pc, !.driver = d, !.type = t,
                               !.valid = valid, !.answer = direct]
  <2>1. valid \in SUBSET Types /\ direct \in BOOLEAN /\ pc \in {"answer", "closure.start"}
    BY DEF ValidLicences
  <2>2. j \in Job /\ j.pc # "closure.loop"
    BY <2>1 DEF Idle, Job, PCs
  <2>3. job' = [job EXCEPT ![r] = j] /\ job[r].pc = "idle"
        /\ UNCHANGED <<types, includes, licences, deleted>>
    BY <1>2 DEF CanDrive, Begin
  <2>4. QED
    BY <2>2, <2>3, SlotStep
<1>3. QED
  BY <1>1, <1>2 DEF Accept

LEMMA InvServe ==
  ASSUME Inv, NEW r \in Requests, Serve(r)
  PROVE  Inv'
<1>1. job[r] \in Job /\ includes \in SUBSET (Types \X Types) /\ job \in [Requests -> Job]
  BY DEF Inv, TypeOK
<1>2. CASE StartClosure(r)
  <2> DEFINE children == Children(includes, {job[r].type})
             j == [job[r] EXCEPT !.pc = "closure.loop", !.snapshot = includes,
                                 !.working = children, !.closure = children]
  <2>1. children \in SUBSET Types
    BY ChildrenTyped
  <2>2. j \in Job
    BY <1>1, <2>1 DEF Job, PCs
  <2>3. j.working = Children(j.snapshot, {j.type}) /\ j.closure = j.working
    BY <1>1 DEF Job
  <2>4. job' = [job EXCEPT ![r] = j]
    BY <1>1, <1>2 DEF StartClosure, Job
  <2>5. QED
    BY <1>2, <2>2, <2>3, <2>4, RoundsBegin, SlotStep DEF StartClosure
<1>3. CASE IterateClosure(r)
  <2> DEFINE found == Children(job[r].snapshot, job[r].working) \ job[r].closure
             j == [job[r] EXCEPT !.working = found, !.closure = @ \cup found]
  <2>1. found \in SUBSET Types
    BY ChildrenTyped
  <2>2. j \in Job
    BY <1>1, <2>1 DEF Job
  <2>3. j.snapshot = job[r].snapshot /\ j.type = job[r].type /\ j.working = found
        /\ j.closure = job[r].closure \cup j.working
    BY <1>1 DEF Job
  <2>4. Rounds(job[r])
    BY <1>3 DEF Inv, IterateClosure
  <2>5. Rounds(j)
    BY <2>3, <2>4, RoundsGoOn
  <2>6. job' = [job EXCEPT ![r] = j]
    BY <1>1, <1>3 DEF IterateClosure, Job
  <2>7. QED
    BY <1>3, <2>2, <2>5, <2>6, SlotStep DEF IterateClosure
<1>4. CASE EndClosure(r)
  <2>1. PICK sameKind \in BOOLEAN :
          job' = [job EXCEPT ![r].pc = "answer",
                             ![r].answer = sameKind /\ job[r].valid \cap job[r].closure # {}]
    BY <1>4 DEF EndClosure
  <2> DEFINE j == [job[r] EXCEPT !.pc = "answer",
                     !.answer = sameKind /\ job[r].valid \cap job[r].closure # {}]
  <2>2. j \in Job /\ j.pc # "closure.loop"
    BY <1>1 DEF Job, PCs
  <2>3. job' = [job EXCEPT ![r] = j]
    BY <1>1, <2>1 DEF Job
  <2>4. QED
    BY <1>4, <2>2, <2>3, SlotStep DEF EndClosure
<1>5. CASE Respond(r)
  BY <1>5, IdleTyped, SlotStep DEF Respond
<1>6. QED
  BY <1>2, <1>3, <1>4, <1>5 DEF Serve

LEMMA InvNext == Inv /\ [Next]_vars => Inv'
<1>1. ASSUME Inv, Administer PROVE Inv'
  BY <1>1, InvAdminister
<1>2. ASSUME Inv, NEW r \in Requests, Accept(r) \/ Serve(r) PROVE Inv'
  BY <1>2, InvAccept, InvServe
<1>3. ASSUME Inv, UNCHANGED vars PROVE Inv'
  BY <1>3 DEF vars, Inv, TypeOK
<1>4. QED
  BY <1>1, <1>2, <1>3 DEF Next

LEMMA Invariant == Spec => []Inv
BY InvInit, InvNext, PTL DEF Spec

-----------------------------------------------------------------------------
(* The theorems. *)

(* Rows and requests are well typed and no type includes itself, whatever  *)
(* addLicenseInclusion, canDrive and getLicenseClosure are called with.    *)
THEOREM TypesTyped == Spec => []TypeOK
<1>1. Inv => TypeOK
  BY DEF Inv
<1>2. QED
  BY <1>1, Invariant, PTL

(* The recursive query of getLicenseClosure ends with exactly the types    *)
(* included when it began, on any graph, while others change the graph.    *)
THEOREM ClosureCorrect == Spec => []ClosureExact
<1>1. Inv => ClosureExact
  BY RoundsAtEnd DEF Inv, TypeOK, ClosureExact
<1>2. QED
  BY <1>1, Invariant, PTL

(* No type that is referred to is removed: the foreign keys of             *)
(* license_includes and driver_licenses hold through every request.        *)
THEOREM ReferencesKept == Spec => []References
<1>1. Init => References
  BY DEF Init, References
<1>2. ASSUME Inv, References, Administer PROVE References'
  <2> USE <1>2 DEF References, Live
  <2>0. /\ types \in [Types -> {"unused", "live", "removed"}]
        /\ licences \in [Drivers -> [Types -> LicenseStatus \cup {"none"}]]
        /\ includes \subseteq Types \X Types
    BY DEF Inv, TypeOK
  <2>1. ASSUME NEW t \in Types, CreateType(t) PROVE References'
    BY <2>0, <2>1 DEF CreateType
  <2>2. ASSUME NEW t \in Types, RemoveType(t) PROVE References'
    BY <2>0, <2>2 DEF RemoveType
  <2>3. ASSUME NEW p \in Types, NEW c \in Types, AddLicenseInclusion(p, c) PROVE References'
    BY <2>0, <2>3 DEF AddLicenseInclusion
  <2>4. ASSUME NEW p \in Types, NEW c \in Types, RemoveLicenseInclusion(p, c) PROVE References'
    BY <2>0, <2>4 DEF RemoveLicenseInclusion
  <2>5. ASSUME NEW d \in Drivers, RemoveDriver(d) \/ UndeleteDriver(d) PROVE References'
    BY <2>5 DEF RemoveDriver, UndeleteDriver
  <2>6. ASSUME NEW d \in Drivers, NEW t \in Types, NEW status \in LicenseStatus,
               IssueLicence(d, t, status) \/ SetLicenceStatus(d, t, status)
        PROVE  References'
    BY <2>0, <2>6 DEF IssueLicence, SetLicenceStatus
  <2>7. QED
    BY <2>1, <2>2, <2>3, <2>4, <2>5, <2>6 DEF Administer
<1>3. ASSUME References, NEW r \in Requests, Accept(r) \/ Serve(r) PROVE References'
  <2>1. UNCHANGED <<types, includes, licences>>
    BY <1>3 DEF Accept, Serve, GetLicenseClosure, CanDrive, Begin, StartClosure,
                IterateClosure, EndClosure, Respond
  <2>2. QED
    BY <1>3, <2>1 DEF References, Live
<1>4. Inv /\ References /\ [Next]_vars => References'
  BY <1>2, <1>3 DEF Next, vars, References, Live
<1>5. QED
  BY <1>1, <1>4, Invariant, PTL DEF Spec

(* Each round of the query adds a type or is the last, on cycles too. *)
THEOREM ClosureEnds == Spec => ClosureAdvances
<1> DEFINE Advance(r) ==
      job[r].pc = "closure.loop" /\ job'[r].pc = "closure.loop" /\ job[r] # job'[r] =>
        /\ job[r].closure \subseteq job'[r].closure
        /\ job'[r].closure = job[r].closure => job'[r].working = {}
<1>1. ASSUME Inv, [Next]_vars, NEW r \in Requests PROVE Advance(r)
  <2>1. job \in [Requests -> Job]
    BY <1>1 DEF Inv, TypeOK
  <2>2. CASE Administer \/ UNCHANGED vars
    BY <1>1, <2>2, InvAdminister DEF vars
  <2>3. ASSUME NEW s \in Requests, Accept(s) PROVE Advance(r)
    <3>1. job[s].pc = "idle"
      BY <1>1, <2>3, InvAccept
    <3>2. s # r => job'[r] = job[r]
      BY <2>1, <2>3 DEF Accept, GetLicenseClosure, CanDrive, Begin
    <3>3. QED
      BY <3>1, <3>2
  <2>4. ASSUME NEW s \in Requests, Serve(s) PROVE Advance(r)
    <3>1. CASE s # r
      <4>1. job'[r] = job[r]
        BY <2>1, <2>4, <3>1 DEF Serve, StartClosure, IterateClosure, EndClosure, Respond
      <4>2. QED
        BY <4>1
    <3>2. CASE s = r /\ ~IterateClosure(s)
      BY <2>1, <2>4, <3>2, IdleTyped DEF Serve, StartClosure, EndClosure, Respond, Job
    <3>3. CASE s = r /\ IterateClosure(r)
      <4> DEFINE found == Children(job[r].snapshot, job[r].working) \ job[r].closure
      <4>1. job'[r].working = found /\ job'[r].closure = job[r].closure \cup found
        BY <2>1, <3>3 DEF IterateClosure, Job
      <4>2. QED
        BY <4>1
    <3>4. QED
      BY <3>1, <3>2, <3>3
  <2>5. QED
    BY <1>1, <2>2, <2>3, <2>4 DEF Next
<1>2. Inv /\ [Next]_vars => \A r \in Requests : Advance(r)
  BY <1>1
<1>3. (\A r \in Requests : Advance(r)) =>
        \A r \in Requests :
          LET now  == job[r]
              next == job'[r]
          IN  now.pc = "closure.loop" /\ next.pc = "closure.loop" /\ now # next =>
                /\ now.closure \subseteq next.closure
                /\ next.closure = now.closure => next.working = {}
  OBVIOUS
<1>4. QED
  BY <1>2, <1>3, Invariant, PTL DEF Spec, ClosureAdvances

(* How many rounds the query can still take: one for each type that is not *)
(* in the closure, and the last, which finds none.                         *)
RoundsLeft(j) ==
  IF j.pc = "closure.loop" /\ j.working # {} THEN 1 + Cardinality(Types \ j.closure) ELSE 0

(* Every step of getLicenseClosure that leaves the query running takes one *)
(* of its rounds, whoever else changes types and inclusions.               *)
RoundsRunOut ==
  [][ \A r \in Requests :
        job[r].pc = "closure.loop" /\ job'[r].pc = "closure.loop" /\ job'[r] # job[r] =>
          RoundsLeft(job'[r]) < RoundsLeft(job[r]) ]_vars

LEMMA RoundsLeftNat ==
  ASSUME NEW j \in Job
  PROVE  RoundsLeft(j) \in 0 .. 1 + Cardinality(Types)
<1>1. IsFiniteSet(Types)
  BY LicenceConstants
<1>2. /\ Cardinality(Types) \in Nat /\ Cardinality(Types \ j.closure) \in Nat
      /\ Cardinality(Types \ j.closure) =< Cardinality(Types)
  <2>1. Types \ j.closure \subseteq Types
    OBVIOUS
  <2>2. QED
    BY <1>1, <2>1, FS_CardinalityType, FS_Subset
<1>3. QED
  BY <1>2 DEF RoundsLeft

(* A round takes at least one of the rounds left. *)
LEMMA RoundTakesOne ==
  ASSUME NEW r \in Requests, job \in [Requests -> Job], IterateClosure(r)
  PROVE  RoundsLeft(job'[r]) < RoundsLeft(job[r])
<1> DEFINE found == Children(job[r].snapshot, job[r].working) \ job[r].closure
           out   == Types \ job[r].closure
<1>1. /\ job[r].pc = "closure.loop" /\ job[r].working # {}
      /\ job'[r].working = found /\ job'[r].closure = job[r].closure \cup found
  BY DEF IterateClosure, Job
<1>2. found \subseteq out
  BY ChildrenTyped
<1>3. IsFiniteSet(out) /\ Cardinality(out) \in Nat
  <2>1. out \subseteq Types
    OBVIOUS
  <2>2. QED
    BY <2>1, LicenceConstants, FS_Subset, FS_CardinalityType
<1>4. RoundsLeft(job[r]) = 1 + Cardinality(out)
  BY <1>1 DEF RoundsLeft
<1>5. CASE found = {}
  <2>1. RoundsLeft(job'[r]) = 0
    BY <1>1, <1>5 DEF RoundsLeft
  <2>2. QED
    BY <1>3, <1>4, <2>1
<1>6. CASE found # {}
  <2>1. Types \ job'[r].closure = out \ found
    BY <1>1
  <2>2. out \ found \subseteq out /\ out \ found # out
    BY <1>2, <1>6
  <2>3. Cardinality(out \ found) \in Nat /\ Cardinality(out \ found) < Cardinality(out)
    BY <1>3, <2>2, FS_Subset, FS_CardinalityType
  <2>4. RoundsLeft(job'[r]) \in {0, 1 + Cardinality(out \ found)}
    BY <2>1 DEF RoundsLeft
  <2>5. QED
    BY <1>3, <1>4, <2>3, <2>4
<1>7. QED
  BY <1>5, <1>6

(* The query of getLicenseClosure ends after at most one round for each    *)
(* type and one more: a natural number within that bound falls with each.  *)
THEOREM ClosureRunsOut ==
  Spec => RoundsRunOut /\ [](\A r \in Requests : RoundsLeft(job[r]) \in 0 .. 1 + Cardinality(Types))
<1> DEFINE Falls(r) ==
      job[r].pc = "closure.loop" /\ job'[r].pc = "closure.loop" /\ job'[r] # job[r] =>
        RoundsLeft(job'[r]) < RoundsLeft(job[r])
<1>1. ASSUME Inv, [Next]_vars, NEW r \in Requests PROVE Falls(r)
  <2>1. job \in [Requests -> Job]
    BY <1>1 DEF Inv, TypeOK
  <2>2. CASE Administer \/ UNCHANGED vars
    BY <1>1, <2>2, InvAdminister DEF vars
  <2>3. ASSUME NEW s \in Requests, Accept(s) PROVE Falls(r)
    <3>1. job[s].pc = "idle"
      BY <1>1, <2>3, InvAccept
    <3>2. s # r => job'[r] = job[r]
      BY <2>1, <2>3 DEF Accept, GetLicenseClosure, CanDrive, Begin
    <3>3. QED
      BY <3>1, <3>2
  <2>4. ASSUME NEW s \in Requests, Serve(s) PROVE Falls(r)
    <3>1. CASE s # r
      <4>1. job'[r] = job[r]
        BY <2>1, <2>4, <3>1 DEF Serve, StartClosure, IterateClosure, EndClosure, Respond
      <4>2. QED
        BY <4>1
    <3>2. CASE s = r /\ ~IterateClosure(s)
      BY <2>1, <2>4, <3>2, IdleTyped DEF Serve, StartClosure, EndClosure, Respond, Job
    <3>3. CASE s = r /\ IterateClosure(r)
      BY <2>1, <3>3, RoundTakesOne
    <3>4. QED
      BY <3>1, <3>2, <3>3
  <2>5. QED
    BY <1>1, <2>2, <2>3, <2>4 DEF Next
<1>2. Inv /\ [Next]_vars => \A r \in Requests : Falls(r)
  BY <1>1
<1>3. Inv => \A r \in Requests : RoundsLeft(job[r]) \in 0 .. 1 + Cardinality(Types)
  BY RoundsLeftNat DEF Inv, TypeOK
<1>4. QED
  BY <1>2, <1>3, Invariant, PTL DEF Spec, RoundsRunOut

=============================================================================
