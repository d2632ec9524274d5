----------------------------- MODULE Discovery -----------------------------
(***************************************************************************)
(* How a service finds and calls another: the instances of the service     *)
(* called register in Eureka, the caller keeps a copy of the registry,     *)
(* picks an instance of it in turn and sends the request there.            *)
(*                                                                         *)
(* Every service has its own copy of this code, and they differ in what    *)
(* they do when the copy is empty or old.  kind says which caller it is:   *)
(*   gateway   the started client of Eureka fetches the registry again and *)
(*             again; an empty copy is waited for; a request has a         *)
(*             deadline (auth-svc, fuel-svc, users-srv and the others with *)
(*             an EurekaLocator are like it, without the deadline)         *)
(*   routes    the client of Eureka is never started: the registry is      *)
(*             fetched while the copy is empty and not again               *)
(*   vehicles  the client is started, and an empty copy is an error        *)
(*   driver    the client of users-srv in driver-ms: as gateway until the  *)
(*             first instance is picked, which is called ever after; its   *)
(*             calls have a deadline, its wait has none of its own         *)
(*                                                                         *)
(* Instances register when they start and some time later listen, or the   *)
(* other way round; stopped by a signal, they deregister; when they crash, *)
(* the registry forgets them later.                                        *)
(*                                                                         *)
(* turn is a history: the instances picked since all the instances of the  *)
(* copy were last picked, or since the copy changed.                       *)
(*                                                                         *)
(* Left out: the port, the name of the host, and what is asked.            *)
(*                                                                         *)
(* A definition called a variant is the one that follows it with a bug; it *)
(* shows that the properties tell the two apart, and is used nowhere.      *)
(***************************************************************************)
EXTENDS Naturals, Sequences, SequencesExt

CONSTANTS
  Requests,   \* slots for requests being served at the same time
  N,          \* addresses of the service that is called
  Cycle,      \* a common multiple of the lengths of a list, see NextCursor
  NoAddress   \* no address

Addresses == 1..N

ASSUME DiscoveryConstants ==
  /\ N \in Nat \ {0}
  /\ Cycle \in Nat \ {0} /\ \A n \in Addresses : Cycle % n = 0
  /\ NoAddress \notin Addresses

VARIABLES
  kind,      \* which caller it is, see above
  phase,     \* phase[a]: the process at address a
  registry,  \* addresses in Eureka
  copy,      \* the caller's list of addresses
  cursor,    \* of the caller's round robin
  pinned,    \* the address the caller has a client for, if it keeps one
  job,       \* job[q]: the request in slot q
  turn       \* history, see above

instances == <<phase, registry>>

caller == <<copy, cursor, pinned, turn>>

discoveryVars == <<kind, instances, caller, job>>

-----------------------------------------------------------------------------
(* Data. *)

CallerKinds == {"gateway", "routes", "vehicles", "driver"}

(* The client of Eureka fetches the registry every so often. *)
Started == {"gateway", "vehicles", "driver"}

PCs == {"idle", "look", "send", "executed", "lost"}

Answers == {"none", "ok", "noInstances", "refused", "timeout"}

Job == [ pc : PCs, waited : BOOLEAN, address : Addresses \cup {NoAddress},
         executed : 0..2, answer : Answers ]

Idle == [pc |-> "idle", waited |-> FALSE, address |-> NoAddress, executed |-> 0, answer |-> "none"]

(* The list of a set of addresses, in the order Eureka has them in: it is  *)
(* the same as long as the set is.                                         *)
List(S) == SetToSeq(S)

Listens(a) == phase[a] \in {"up", "stopping"}

-----------------------------------------------------------------------------
(* Instances. *)

Process(a, from, to) ==
  /\ phase[a] \in from
  /\ phase' = [phase EXCEPT ![a] = to]
  /\ UNCHANGED <<kind, caller>>

StartInstance(a) == Process(a, {"down"}, "starting") /\ UNCHANGED <<registry, job>>

(* bootstrap asks Eureka for the registration and does not wait for it.    *)
Register(a) ==
  /\ Process(a, {"starting", "up"}, phase[a])
  /\ registry' = registry \cup {a}
  /\ UNCHANGED job

Listen(a) == Process(a, {"starting"}, "up") /\ UNCHANGED <<registry, job>>

(* A signal.  The instance deregisters and closes, in any order; if it     *)
(* closes first that is a crash here, and Expire what comes after.         *)
Terminate(a) ==
  /\ Process(a, {"up"}, "stopping")
  /\ registry' = registry \ {a}
  /\ UNCHANGED job

(* The process ends, and its connections with it. *)
Crash(a) ==
  /\ Process(a, {"starting", "up", "stopping"}, "down")
  /\ job' = [q \in Requests |-> IF job[q].pc = "executed" /\ job[q].address = a
                                THEN [job[q] EXCEPT !.pc = "lost"] ELSE job[q]]
  /\ UNCHANGED registry

(* Eureka has not heard of the instance for a while. *)
Expire(a) ==
  /\ Process(a, {"down"}, "down")
  /\ registry' = registry \ {a}
  /\ UNCHANGED job

-----------------------------------------------------------------------------
(* The caller's copy of the registry. *)

Fetch ==
  /\ copy' = List(registry)
  /\ turn' = IF copy' = copy THEN turn ELSE {}
  /\ UNCHANGED <<kind, instances, cursor, pinned>>

(* Variant: the registry is fetched while the copy is empty. *)
RefreshWhenEmpty ==
  /\ kind \in Started
  /\ copy = <<>>
  /\ Fetch
  /\ UNCHANGED job

Refresh ==
  /\ kind \in Started
  /\ Fetch
  /\ UNCHANGED job

-----------------------------------------------------------------------------
(* Requests. *)

Begin(q) ==
  /\ job[q].pc = "idle"
  /\ job' = [job EXCEPT ![q] =
       IF pinned = NoAddress THEN [Idle EXCEPT !.pc = "look"]
       ELSE [Idle EXCEPT !.pc = "send", !.address = pinned]]
  /\ UNCHANGED <<kind, instances, caller>>

(* An empty copy is waited for, and the registry fetched meanwhile. *)
WaitForInstances(q) ==
  /\ kind # "vehicles"
  /\ job[q].pc = "look"
  /\ copy = <<>>
  /\ Fetch
  /\ job' = [job EXCEPT ![q].waited = TRUE]

(* Variant: the next pick begins where this one did. *)
NextCursorSame == cursor

(* Variant: the cursor counts on, and only its use is bounded. *)
NextCursorUnbounded == cursor + 1

(* The counter of routes-srv counts on; all that is seen of it is its      *)
(* remainder by the length of a list.                                      *)
NextCursor == (cursor + 1) % (IF kind = "routes" THEN Cycle ELSE Len(copy))

Pick(q) ==
  LET a == copy[(cursor % Len(copy)) + 1]
  IN  /\ job[q].pc = "look"
      /\ copy # <<>>
      /\ job' = [job EXCEPT ![q].pc = "send", ![q].address = a]
      /\ cursor' = NextCursor
      /\ turn' = IF turn \cup {a} = ToSet(copy) THEN {} ELSE turn \cup {a}
      /\ pinned' = IF kind = "driver" THEN a ELSE NoAddress
      /\ UNCHANGED <<kind, instances, copy>>

(* The request ends.  If it has timed out that was its answer.             *)
Ends(q, answer) ==
  /\ job' = [job EXCEPT ![q] =
       [Idle EXCEPT !.executed = job[q].executed,
                    !.answer = IF job[q].answer = "none" THEN answer ELSE "timeout"]]
  /\ UNCHANGED <<kind, instances, caller>>

(* No instance in time; the copy is not looked at after the last fetch.    *)
NoInstances(q) ==
  /\ job[q].pc = "look"
  /\ IF kind = "vehicles" THEN copy = <<>> ELSE job[q].waited
  /\ Ends(q, "noInstances")

(* The instance serves the request: what it does there is done. *)
Execute(q) ==
  /\ job[q].pc = "send"
  /\ Listens(job[q].address)
  /\ job' = [job EXCEPT ![q].pc = "executed", ![q].executed = @ + 1]
  /\ UNCHANGED <<kind, instances, caller>>

Respond(q) == job[q].pc = "executed" /\ Ends(q, "ok")

(* Variant: a request whose connection is lost is sent again. *)
RefusedIsRetried(q) ==
  \/ /\ job[q].pc = "send"
     /\ ~Listens(job[q].address)
     /\ Ends(q, "refused")
  \/ /\ job[q].pc = "lost"
     /\ job' = [job EXCEPT ![q].pc = "send"]
     /\ UNCHANGED <<kind, instances, caller>>

(* UNAVAILABLE: nobody listens, or the connection is lost before there is  *)
(* an answer.  No caller tries again.                                      *)
Refused(q) ==
  /\ \/ job[q].pc = "send" /\ ~Listens(job[q].address)
     \/ job[q].pc = "lost"
  /\ Ends(q, "refused")

(* The deadline of the gateway, and that of a call to users-srv.  The      *)
(* client has its answer, and the request goes on.                         *)
Timeout(q) ==
  /\ \/ kind = "gateway" /\ job[q].pc # "idle"
     \/ kind = "driver" /\ job[q].pc \in {"send", "executed", "lost"}
  /\ job[q].answer = "none"
  /\ job' = [job EXCEPT ![q].answer = "timeout"]
  /\ UNCHANGED <<kind, instances, caller>>

(* A handler made of observables is cut short by its deadline, unless it   *)
(* is too late; one that awaits promises never is.                         *)
Cancel(q) ==
  /\ job[q].pc # "idle"
  /\ job[q].answer = "timeout"
  /\ Ends(q, "timeout")

-----------------------------------------------------------------------------

DiscoveryInit ==
  /\ kind \in CallerKinds
  /\ phase = [a \in Addresses |-> "down"]
  /\ registry = {}
  /\ copy = <<>>
  /\ cursor = 0
  /\ pinned = NoAddress
  /\ job = [q \in Requests |-> Idle]
  /\ turn = {}

Live ==
  \E a \in Addresses :
    \/ StartInstance(a) \/ Register(a) \/ Listen(a)
    \/ Terminate(a) \/ Crash(a) \/ Expire(a)

Serve(q) ==
  \/ Begin(q) \/ WaitForInstances(q) \/ Pick(q) \/ NoInstances(q)
  \/ Execute(q) \/ Respond(q) \/ Refused(q) \/ Timeout(q) \/ Cancel(q)

DiscoveryNext == Live \/ Refresh \/ \E q \in Requests : Serve(q)

DiscoverySpec == DiscoveryInit /\ [][DiscoveryNext]_discoveryVars

(* The client of Eureka fetches again and again, and a request does not    *)
(* stop: its timers run out, instances answer and connections break.       *)
DiscoveryFairness ==
  /\ WF_discoveryVars(Refresh)
  /\ \A q \in Requests :
       /\ WF_discoveryVars(Pick(q))
       /\ WF_discoveryVars(NoInstances(q))
       /\ WF_discoveryVars(Execute(q))
       /\ WF_discoveryVars(Respond(q))
       /\ WF_discoveryVars(Refused(q))

FairDiscoverySpec == DiscoverySpec /\ DiscoveryFairness

-----------------------------------------------------------------------------
(* Properties. *)

(* The list has no address twice, the cursor is within bounds, and what    *)
(* the caller has picked are addresses.                                    *)
DiscoveryTypeOK ==
  /\ kind \in CallerKinds
  /\ phase \in [Addresses -> {"down", "starting", "up", "stopping"}]
  /\ registry \subseteq Addresses
  /\ \E S \in SUBSET Addresses : copy = List(S)
  /\ cursor \in 0..(Cycle - 1)
  /\ pinned \in Addresses \cup {NoAddress}
  /\ job \in [Requests -> Job]
  /\ turn \subseteq ToSet(copy)

(* rr.strategy.ts and lb.strategy.ts: whatever requests look at the same   *)
(* time, and wherever the cursor is when the copy changes, no instance is  *)
(* picked again before all the others of the copy have been.               *)
Balanced ==
  [][ \A q \in Requests :
        job[q].pc = "look" /\ job'[q].pc = "send" => job'[q].address \notin turn ]_discoveryVars

(* What a request did is never done twice, as no caller sends it again; it *)
(* was done if the answer is a good one, and was not and will not be done  *)
(* if no instance was found.  (Of a refusal or a timeout there is no       *)
(* telling.)                                                               *)
AtMostOnce ==
  \A q \in Requests :
    /\ job[q].executed =< 1
    /\ job[q].answer = "ok" => job[q].executed = 1
    /\ job[q].answer = "noInstances" => job[q].executed = 0

(* Once the instances are what Eureka says for good, the callers whose     *)
(* client of Eureka is started, and who keep no instance, are in the end   *)
(* refused no more: they fail again and again only if the instances change *)
(* again and again.  (routes-srv may go on for ever with an instance that  *)
(* is gone, and driver-ms too.)                                            *)
Settled == registry # {} /\ registry = {a \in Addresses : phase[a] = "up"}

RequestFails ==
  /\ kind \in {"gateway", "vehicles"}
  /\ \E q \in Requests : /\ job[q].pc # "idle" /\ job'[q].pc = "idle"
                         /\ job'[q].answer \in {"noInstances", "refused"}

SettledServes == []<><<RequestFails>>_discoveryVars => []<>~Settled

=============================================================================
