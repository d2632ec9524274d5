---------------------------- MODULE CallsProofs ----------------------------
(* What holds of the calls between services, for any number of those who   *)
(* take part: an entry on its way to the log (LogPipeline), a request to   *)
(* an instance of another service (Discovery), a report put together from  *)
(* several answers (FuelReports).  The three have no name in common and    *)
(* are proved about one after the other.                                   *)
EXTENDS LogPipeline, Discovery, FuelReports, FiniteSetTheorems, SequenceTheorems, TLAPS

-----------------------------------------------------------------------------
(* LogPipeline: an entry that is confirmed is not lost, and is stored      *)
(* twice only if the broker took it back.                                  *)
(*                                                                         *)
(* Neither is inductive.  An entry is in the queue once, since its call    *)
(* publishes it once: so until then there is nothing of it anywhere, and   *)
(* what is queued, received and stored of it is counted together, each     *)
(* take-back adding what logger-svc had been through with.  An entry that  *)
(* waits for an acknowledgement has been through logToElastic.             *)

(* Before the publish there is nothing of e. *)
Unpublished(e) ==
  at[e] \in {"new", "client", "send", "publish"} =>
    queue[e] = 0 /\ received[e] = 0 /\ handled[e] = 0 /\ copies[e] = 0

Counted(e) == queue[e] + received[e] + copies[e] <= 1 + requeued[e]

Kept(e) ==
  at[e] \in {"confirm", "ok"} =>
    \/ queue[e] + Unacked(e) > 0
    \/ e \in tried
    \/ e \in unrouted

HandledIsTried(e) == handled[e] > 0 => e \in tried

Sound(e) == Unpublished(e) /\ Counted(e) /\ Kept(e) /\ HandledIsTried(e)

PipelineInv == PipelineTypeOK /\ \A e \in Logs : Sound(e)

Counts ==
  /\ queue \in [Logs -> Nat] /\ received \in [Logs -> Nat] /\ handled \in [Logs -> Nat]
  /\ copies \in [Logs -> Nat] /\ requeued \in [Logs -> Nat]

LEMMA TypedCounts == PipelineTypeOK => Counts
BY DEF PipelineTypeOK, Counts

-----------------------------------------------------------------------------
(* Steps that leave the counts alone. *)

StillCounts == UNCHANGED <<queue, received, handled, copies, requeued>>

(* A call that goes on without a publish, or comes back. *)
LEMMA StillStep ==
  ASSUME PipelineInv, StillCounts, UNCHANGED <<tried, unrouted>>,
         \A e \in Logs :
           /\ at'[e] \in {"new", "client", "send", "publish"} =>
                at[e] \in {"new", "client", "send", "publish"}
           /\ at'[e] \in {"confirm", "ok"} => at[e] \in {"confirm", "ok"}
  PROVE  \A e \in Logs : Sound(e)'
BY DEF PipelineInv, StillCounts, Sound, Unpublished, Counted, Kept, HandledIsTried, Unacked

LEMMA StillTypes ==
  ASSUME PipelineTypeOK, StillCounts, UNCHANGED <<tried, unrouted>>,
         at' \in [Logs -> Stages],
         client' \in {"none", "pending", "ready"}, publisher' \in Processes,
         consumer' \in Processes \ {"starting"}, broker' \in {"up", "down"},
         bound' \in BOOLEAN, failures' \in 0 .. MaxFailures
  PROVE  PipelineTypeOK'
BY DEF PipelineTypeOK, StillCounts

LEMMA LogStep ==
  ASSUME PipelineInv, NEW e \in Logs, Log(e)
  PROVE  PipelineInv'
<1>1. PipelineTypeOK'
  BY StillTypes DEF PipelineInv, Log, Move, PipelineTypeOK, StillCounts, messages, Stages
<1>2. QED
  BY <1>1, StillStep DEF PipelineInv, Log, Move, PipelineTypeOK, StillCounts, messages

LEMMA SettleStep ==
  ASSUME PipelineInv, Settle
  PROVE  PipelineInv'
<1>1. PipelineTypeOK'
  BY StillTypes DEF PipelineInv, Settle, ClientReady, ClientFails, ClientSettles, PipelineTypeOK,
                    StillCounts, messages, Stages, Returned
<1>2. QED
  BY <1>1, StillStep DEF PipelineInv, Settle, ClientReady, ClientFails, ClientSettles, PipelineTypeOK,
                         StillCounts, messages

LEMMA SendStep ==
  ASSUME PipelineInv, NEW e \in Logs, Send(e) \/ Confirmed(e)
  PROVE  PipelineInv'
<1>1. PipelineTypeOK'
  BY StillTypes DEF PipelineInv, Send, Confirmed, Move, PipelineTypeOK, StillCounts, messages, Stages,
                    AtPublisher, Returned
<1>2. QED
  BY <1>1, StillStep DEF PipelineInv, Send, Confirmed, Move, PipelineTypeOK, StillCounts, messages

LEMMA RestartStep ==
  ASSUME PipelineInv, Restart
  PROVE  PipelineInv'
<1>1. PipelineTypeOK'
  <2>1. CASE InitPublisher
    BY <2>1, StillTypes DEF PipelineInv, InitPublisher, CallsFail, PipelineTypeOK, StillCounts, messages,
                            Stages, Returned, Processes
  <2>2. CASE StartPublisher \/ ConnectConsumer \/ StartBroker
    BY <2>2, StillTypes DEF PipelineInv, StartPublisher, ConnectConsumer, StartBroker, PipelineTypeOK,
                            StillCounts, messages, Processes
  <2>3. QED
    BY <2>1, <2>2 DEF Restart
<1>2. \A e \in Logs : Sound(e)'
  BY StillStep DEF PipelineInv, Restart, StartPublisher, InitPublisher, ConnectConsumer,
                   StartBroker, CallsFail, PipelineTypeOK, StillCounts, messages
<1>3. QED
  BY <1>1, <1>2 DEF PipelineInv

LEMMA CrashPublisherStep ==
  ASSUME PipelineInv, CrashPublisher
  PROVE  PipelineInv'
<1>1. PipelineTypeOK'
  BY PipelineConstants, StillTypes
     DEF PipelineInv, CrashPublisher, Fails, CallsFail, PipelineTypeOK, StillCounts, messages, Stages,
         Returned, Processes
<1>2. QED
  BY <1>1, StillStep DEF PipelineInv, CrashPublisher, CallsFail, PipelineTypeOK, StillCounts, messages

-----------------------------------------------------------------------------
(* The messages of the broker. *)

LEMMA PublishStep ==
  ASSUME PipelineInv, NEW e \in Logs, PublishLog(e)
  PROVE  PipelineInv'
<1> USE DEF PublishLog, Move
<1>1. Counts
  BY TypedCounts DEF PipelineInv
<1>2. PipelineTypeOK'
  <2>1. at' \in [Logs -> Stages] /\ queue' \in [Logs -> Nat] /\ unrouted' \subseteq Logs
    BY <1>1 DEF PipelineInv, PipelineTypeOK, Counts, Stages, AtPublisher, Returned
  <2>2. QED
    BY <2>1 DEF PipelineInv, PipelineTypeOK
<1>3. ASSUME NEW f \in Logs PROVE Sound(f)'
  <2>1. CASE f = e
    BY <1>1, <2>1 DEF PipelineInv, PipelineTypeOK, Counts, Sound, Unpublished, Counted, Kept,
                      HandledIsTried, Unacked
  <2>2. CASE f # e
    BY <1>1, <2>2 DEF PipelineInv, PipelineTypeOK, Counts, Sound, Unpublished, Counted, Kept,
                      HandledIsTried, Unacked
  <2>3. QED
    BY <2>1, <2>2
<1>4. QED
  BY <1>2, <1>3 DEF PipelineInv

LEMMA ReceiveStep ==
  ASSUME PipelineInv, NEW e \in Logs, Receive(e)
  PROVE  PipelineInv'
<1> USE DEF Receive
<1>1. Counts
  BY TypedCounts DEF PipelineInv
<1>2. PipelineTypeOK'
  BY <1>1 DEF PipelineInv, PipelineTypeOK, Counts
<1>3. \A f \in Logs : Sound(f)'
  BY <1>1 DEF PipelineInv, Counts, Sound, Unpublished, Counted, Kept, HandledIsTried, Unacked
<1>4. QED
  BY <1>2, <1>3 DEF PipelineInv

LEMMA LogToElasticStep ==
  ASSUME PipelineInv, NEW e \in Logs, LogToElastic(e)
  PROVE  PipelineInv'
<1> USE DEF LogToElastic
<1>1. Counts
  BY TypedCounts DEF PipelineInv
<1>2. PipelineTypeOK'
  BY <1>1 DEF PipelineInv, PipelineTypeOK, Counts
<1>3. \A f \in Logs : Sound(f)'
  BY <1>1 DEF PipelineInv, Counts, Sound, Unpublished, Counted, Kept, HandledIsTried, Unacked
<1>4. QED
  BY <1>2, <1>3 DEF PipelineInv

LEMMA AckStep ==
  ASSUME PipelineInv, NEW e \in Logs, Ack(e)
  PROVE  PipelineInv'
<1> USE DEF Ack
<1>1. Counts
  BY TypedCounts DEF PipelineInv
<1>2. PipelineTypeOK'
  BY <1>1 DEF PipelineInv, PipelineTypeOK, Counts
<1>3. \A f \in Logs : Sound(f)'
  BY <1>1 DEF PipelineInv, Counts, Sound, Unpublished, Counted, Kept, HandledIsTried, Unacked
<1>4. QED
  BY <1>2, <1>3 DEF PipelineInv

(* The broker takes back what is not acknowledged, and calls that waited   *)
(* for a confirm may end with it.                                          *)
LEMMA TakeBackStep ==
  ASSUME PipelineInv, TakeBack, UNCHANGED <<copies, tried, unrouted>>,
         \A e \in Logs :
           /\ at'[e] \in {"new", "client", "send", "publish"} =>
                at[e] \in {"new", "client", "send", "publish"}
           /\ at'[e] \in {"confirm", "ok"} => at[e] \in {"confirm", "ok"}
  PROVE  /\ Counts'
         /\ \A e \in Logs : Sound(e)'
<1>1. Counts
  BY TypedCounts DEF PipelineInv
<1>2. Counts'
  BY <1>1 DEF Counts, TakeBack, Unacked
<1>3. \A e \in Logs : Sound(e)'
  BY <1>1 DEF PipelineInv, Counts, TakeBack, Sound, Unpublished, Counted, Kept, HandledIsTried,
              Unacked
<1>4. QED
  BY <1>2, <1>3

LEMMA CrashConsumerStep ==
  ASSUME PipelineInv, CrashConsumer
  PROVE  PipelineInv'
<1>1. Counts' /\ \A e \in Logs : Sound(e)'
  BY TakeBackStep DEF CrashConsumer
<1>2. PipelineTypeOK'
  BY <1>1, PipelineConstants DEF PipelineInv, CrashConsumer, Fails, PipelineTypeOK, Counts, Processes
<1>3. QED
  BY <1>1, <1>2 DEF PipelineInv

LEMMA StopBrokerStep ==
  ASSUME PipelineInv, StopBroker
  PROVE  PipelineInv'
<1>1. at' \in [Logs -> Stages]
  BY DEF PipelineInv, StopBroker, PipelineTypeOK, Stages, AtPublisher, Returned
<1>2. Counts' /\ \A e \in Logs : Sound(e)'
  BY TakeBackStep DEF StopBroker, PipelineInv, PipelineTypeOK
<1>3. PipelineTypeOK'
  BY <1>1, <1>2, PipelineConstants
     DEF PipelineInv, StopBroker, Fails, PipelineTypeOK, Counts, Processes
<1>4. QED
  BY <1>2, <1>3 DEF PipelineInv

-----------------------------------------------------------------------------

LEMMA PipelineBegins == PipelineInit => PipelineInv
<1> SUFFICES ASSUME PipelineInit PROVE PipelineInv
  OBVIOUS
<1>1. Counts
  BY DEF PipelineInit, NoMessages, Counts
<1>2. PipelineTypeOK
  <2>1. at \in [Logs -> Stages]
    BY DEF PipelineInit, Stages
  <2>2. failures \in 0 .. MaxFailures
    BY PipelineConstants DEF PipelineInit
  <2>3. QED
    BY <1>1, <2>1, <2>2 DEF PipelineInit, Counts, PipelineTypeOK, Processes
<1>3. ASSUME NEW e \in Logs PROVE Sound(e)
  BY DEF PipelineInit, NoMessages, Sound, Unpublished, Counted, Kept, HandledIsTried, Unacked
<1>4. QED
  BY <1>2, <1>3 DEF PipelineInv

LEMMA PipelineStep == PipelineInv /\ [PipelineNext]_pipelineVars => PipelineInv'
<1> SUFFICES ASSUME PipelineInv, [PipelineNext]_pipelineVars PROVE PipelineInv'
  OBVIOUS
<1>1. ASSUME NEW e \in Logs, Log(e) \/ Call(e) \/ Handle(e) PROVE PipelineInv'
  BY <1>1, LogStep, SendStep, PublishStep, ReceiveStep, LogToElasticStep, AckStep DEF Call, Handle
<1>2. CASE Settle \/ Restart \/ Outage
  BY <1>2, SettleStep, RestartStep, CrashPublisherStep, CrashConsumerStep, StopBrokerStep
     DEF Outage
<1>3. CASE UNCHANGED pipelineVars
  BY <1>3 DEF pipelineVars, messages, PipelineInv, PipelineTypeOK, Sound, Unpublished, Counted, Kept,
              HandledIsTried, Unacked
<1>4. QED
  BY <1>1, <1>2, <1>3 DEF PipelineNext

(* What is known of calls, processes and messages is well typed. *)
THEOREM PipelineTypes == PipelineSpec => []PipelineTypeOK
<1>1. PipelineInv => PipelineTypeOK
  BY DEF PipelineInv
<1>2. QED
  BY PipelineBegins, PipelineStep, <1>1, PTL DEF PipelineSpec

(* For any number of entries, and whatever fails however often, an entry   *)
(* whose log call succeeded is queued, held by logger-svc or has been      *)
(* through logToElastic, unless it was published before there was a queue. *)
THEOREM ConfirmedLogKept == PipelineSpec => []NoConfirmedLogLost
<1>1. PipelineInv => NoConfirmedLogLost
  BY DEF PipelineInv, Sound, Kept, NoConfirmedLogLost
<1>2. QED
  BY PipelineBegins, PipelineStep, <1>1, PTL DEF PipelineSpec

(* An entry is stored at most once for its publish and once for each time  *)
(* the broker took it back.                                                *)
THEOREM CopiesBounded == PipelineSpec => []CopiesBound
<1>1. PipelineInv => CopiesBound
  <2> SUFFICES ASSUME PipelineInv, NEW e \in Logs PROVE copies[e] <= 1 + requeued[e]
    BY DEF CopiesBound
  <2>1. Counts /\ Counted(e)
    BY TypedCounts DEF PipelineInv, Sound
  <2>2. QED
    BY <2>1 DEF Counts, Counted
<1>2. QED
  BY PipelineBegins, PipelineStep, <1>1, PTL DEF PipelineSpec

-----------------------------------------------------------------------------
(* Discovery: a request is served once, and the instances in turn.         *)
(*                                                                         *)
(* Which instances have been picked in this turn depends on where the      *)
(* cursor is: they are always the latest ones of the list, as many as have *)
(* been picked, since the next one is the oldest.  That needs the cursor's *)
(* remainder by the length of the list to go up by one at each pick, also  *)
(* where the cursor itself starts again, at a multiple of that length.     *)

(* Remainders. *)

LEMMA RemainderType ==
  ASSUME NEW c \in Nat, NEW n \in Nat \ {0}
  PROVE  c % n \in 0..(n - 1) /\ c \div n \in Nat /\ c = (c \div n) * n + (c % n)
OBVIOUS

LEMMA RemainderUnique ==
  ASSUME NEW quotient \in Nat, NEW n \in Nat \ {0}, NEW r \in 0..(n - 1)
  PROVE  (quotient * n + r) % n = r
OBVIOUS

(* The remainder of the next number is the next one, or none. *)
LEMMA NextRemainder ==
  ASSUME NEW c \in Nat, NEW n \in Nat \ {0}
  PROVE  (c + 1) % n = IF c % n = n - 1 THEN 0 ELSE (c % n) + 1
<1> DEFINE k == c \div n
           r == c % n
<1>1. k \in Nat /\ r \in 0..(n - 1) /\ c = k * n + r
  BY RemainderType
<1> HIDE DEF k, r
<1>2. CASE r = n - 1
  <2>1. k + 1 \in Nat /\ c + 1 = (k + 1) * n + 0
    BY <1>1, <1>2
  <2>2. 0 \in 0..(n - 1)
    OBVIOUS
  <2>3. ((k + 1) * n + 0) % n = 0
    BY <2>1, <2>2, RemainderUnique
  <2>4. QED
    BY <1>2, <2>1, <2>3 DEF r
<1>3. CASE r # n - 1
  <2>1. r + 1 \in 0..(n - 1) /\ c + 1 = k * n + (r + 1)
    BY <1>1, <1>3
  <2>2. QED
    BY <1>1, <1>3, <2>1, RemainderUnique DEF r
<1>4. QED
  BY <1>2, <1>3

(* A counter bounded by a multiple of n has the remainders of one that     *)
(* counts on.                                                              *)
LEMMA RemainderOfRemainder ==
  ASSUME NEW c \in Nat, NEW n \in Nat \ {0}, NEW multiple \in Nat \ {0}, multiple % n = 0
  PROVE  (c % multiple) % n = c % n
<1> DEFINE m == multiple \div n
           k == c \div multiple
           r == c % multiple
<1>1. m \in Nat /\ multiple = m * n
  BY RemainderType
<1>2. k \in Nat /\ r \in Nat /\ c = k * multiple + r
  BY RemainderType
<1> HIDE DEF m, k, r
<1>3. r \div n \in Nat /\ r % n \in 0..(n - 1) /\ r = (r \div n) * n + (r % n)
  BY <1>2, RemainderType
<1>4. k * m + (r \div n) \in Nat /\ c = (k * m + (r \div n)) * n + (r % n)
  <2> DEFINE s == r \div n
             z == r % n
  <2>1. s \in Nat /\ z \in Nat /\ r = s * n + z /\ c = k * (m * n) + (s * n + z)
    BY <1>1, <1>2, <1>3
  <2> HIDE DEF s, z
  <2>2. m \in Nat /\ k \in Nat
    BY <1>1, <1>2
  <2>3. c = (k * m + s) * n + z /\ k * m + s \in Nat
    BY <2>1, <2>2
  <2>4. QED
    BY <2>3 DEF s, z
<1>5. QED
  BY <1>3, <1>4, RemainderUnique DEF r

LEMMA MultipleIsLarger ==
  ASSUME NEW n \in Nat \ {0}, NEW multiple \in Nat \ {0}, multiple % n = 0
  PROVE  n =< multiple
OBVIOUS
-----------------------------------------------------------------------------
(* The caller's list. *)

(* A list without repetition. *)
Once(list) ==
  /\ list \in Seq(Addresses)
  /\ Len(list) \in 0..N
  /\ DOMAIN list = 1..Len(list)
  /\ \A i, j \in 1..Len(list) : list[i] = list[j] => i = j

LEMMA ListIsOnce ==
  ASSUME NEW S \in SUBSET Addresses
  PROVE  Once(List(S))
<1> DEFINE n == Cardinality(S)
<1>1. IsFiniteSet(Addresses) /\ Cardinality(Addresses) = N
  BY FS_Interval, DiscoveryConstants DEF Addresses
<1>2. IsFiniteSet(S) /\ n =< N
  BY <1>1, FS_Subset
<1>3. n \in Nat /\ ExistsBijection(1..n, S)
  BY <1>2, FS_CardinalityType
<1>4. PICK f \in [1..n -> S] : IsInjective(f)
  BY <1>3 DEF ExistsBijection, Bijection, Injection
<1>5. List(S) \in [1..n -> S] /\ IsInjective(List(S))
  BY <1>4 DEF List, SetToSeq
<1> DEFINE list == List(S)
<1> HIDE DEF list, n
<1>6. list \in [1..n -> S] /\ \A i, j \in 1..n : list[i] = list[j] => i = j
  BY <1>5 DEF list, n, IsInjective
<1>7. list \in Seq(Addresses) /\ Len(list) = n /\ DOMAIN list = 1..n
  <2>1. list \in [1..n -> Addresses]
    BY <1>6
  <2>2. list \in Seq(Addresses)
    BY <2>1, <1>3 DEF n
  <2>3. QED
    BY <2>1, <2>2, <1>3 DEF n
<1>8. QED
  BY <1>2, <1>3, <1>6, <1>7, DiscoveryConstants DEF Once, list, n
-----------------------------------------------------------------------------
(* The callers: what is true of a request, and of the instances picked.    *)

Request(q) ==
  /\ job[q].pc \in {"look", "send"} => job[q].executed = 0
  /\ job[q].pc \in {"executed", "lost"} => job[q].executed = 1
  /\ job[q].pc # "idle" => job[q].answer \in {"none", "timeout"}

(* How many picks ago the i-th of the list was picked, had it always been  *)
(* this list.                                                              *)
Age(i) ==
  LET p == cursor % Len(copy)
  IN  IF i - 1 < p THEN p - (i - 1) ELSE p - (i - 1) + Len(copy)

Latest(k) == {copy[i] : i \in {j \in 1..Len(copy) : Age(j) =< k}}

(* The instances of this turn are the latest picked. *)
Window == copy # <<>> => \E k \in 0..(Len(copy) - 1) : turn = Latest(k)

DiscoveryInv ==
  /\ DiscoveryTypeOK
  /\ Once(copy)
  /\ \A q \in Requests : Request(q)
  /\ AtMostOnce
  /\ Window

(* The list and the cursor. *)
LEMMA Remainder ==
  ASSUME DiscoveryInv, copy # <<>>
  PROVE  /\ Len(copy) \in 1..N /\ Len(copy) \in Nat \ {0}
         /\ cursor \in Nat /\ cursor % Len(copy) \in 0..(Len(copy) - 1)
         /\ Len(copy) =< Cycle /\ Cycle % Len(copy) = 0
<1>1. Len(copy) \in 1..N /\ Len(copy) \in Nat \ {0}
  BY EmptySeq, DiscoveryConstants DEF DiscoveryInv, Once
<1>2. cursor \in Nat
  BY DiscoveryConstants DEF DiscoveryInv, DiscoveryTypeOK
<1>3. Cycle % Len(copy) = 0 /\ Len(copy) =< Cycle
  BY <1>1, DiscoveryConstants, MultipleIsLarger DEF Addresses
<1>4. cursor % Len(copy) \in 0..(Len(copy) - 1)
  BY <1>1, <1>2, RemainderType
<1>5. QED
  BY <1>1, <1>2, <1>3, <1>4

LEMMA SameWindow ==
  ASSUME Window, UNCHANGED <<copy, cursor, turn>>
  PROVE  Window'
<1>1. \A j \in 1..Len(copy) : Age(j)' = Age(j)
  BY DEF Age
<1>2. \A k \in 0..(Len(copy) - 1) : Latest(k)' = Latest(k)
  BY <1>1 DEF Latest
<1>3. QED
  BY <1>2 DEF Window

LEMMA EmptyWindow ==
  ASSUME NEW S \in SUBSET Addresses, copy' = List(S), turn' = {}, cursor' \in Nat
  PROVE  Window'
<1> SUFFICES ASSUME copy' # <<>> PROVE turn' = Latest(0)' /\ 0 \in 0..(Len(copy') - 1)
  BY DEF Window
<1>1. Once(copy')
  BY ListIsOnce
<1>2. Len(copy') \in Nat \ {0}
  BY <1>1, EmptySeq, DiscoveryConstants DEF Once
<1>3. cursor' % Len(copy') \in 0..(Len(copy') - 1)
  BY <1>2, RemainderType
<1>4. \A j \in 1..Len(copy') : Age(j)' > 0
  BY <1>2, <1>3 DEF Age
<1>5. QED
  BY <1>2, <1>4, <1>3 DEF Latest, Age
-----------------------------------------------------------------------------
(* Steps that leave the list and the cursor alone. *)

LEMMA JobTypes ==
  ASSUME DiscoveryInv, NEW q \in Requests
  PROVE  /\ job[q] \in Job /\ Request(q)
         /\ job[q].executed =< 1
         /\ job[q].answer = "ok" => job[q].executed = 1
         /\ job[q].answer = "noInstances" => job[q].executed = 0
BY DEF DiscoveryInv, DiscoveryTypeOK, AtMostOnce

(* Good(j): the record j is one a slot may hold. *)
Good(j) ==
  /\ j \in Job
  /\ j.pc \in {"look", "send"} => j.executed = 0
  /\ j.pc \in {"executed", "lost"} => j.executed = 1
  /\ j.pc # "idle" => j.answer \in {"none", "timeout"}
  /\ j.executed =< 1
  /\ j.answer = "ok" => j.executed = 1
  /\ j.answer = "noInstances" => j.executed = 0

LEMMA JobsGood == DiscoveryInv => job \in [Requests -> Job] /\ \A q \in Requests : Good(job[q])
BY JobTypes DEF Good, Request, DiscoveryInv, DiscoveryTypeOK

LEMMA OneJob ==
  ASSUME DiscoveryInv, NEW q \in Requests, NEW j, Good(j), job' = [job EXCEPT ![q] = j]
  PROVE  job' \in [Requests -> Job] /\ \A other \in Requests : Good(job'[other])
BY JobsGood DEF Good

(* The caller stays as it is: what is left to show is that the jobs and    *)
(* the instances are good ones.                                            *)
LEMMA StillCaller ==
  ASSUME DiscoveryInv, UNCHANGED <<kind, caller>>,
         phase' \in [Addresses -> {"down", "starting", "up", "stopping"}],
         registry' \subseteq Addresses,
         job' \in [Requests -> Job], \A q \in Requests : Good(job'[q])
  PROVE  DiscoveryInv'
<1>1. DiscoveryTypeOK'
  BY DEF DiscoveryInv, DiscoveryTypeOK, caller
<1>2. Once(copy)' /\ Window'
  <2>1. copy' = copy /\ cursor' = cursor /\ turn' = turn
    BY DEF caller
  <2>2. Once(copy)'
    BY <2>1 DEF DiscoveryInv, Once
  <2>3. Window'
    BY <2>1, SameWindow DEF DiscoveryInv
  <2>4. QED
    BY <2>2, <2>3
<1>3. AtMostOnce' /\ \A q \in Requests : Request(q)'
  BY DEF AtMostOnce, Request, Good
<1>4. QED
  BY <1>1, <1>2, <1>3 DEF DiscoveryInv

LEMMA CallerGoesOn ==
  ASSUME DiscoveryInv, UNCHANGED <<kind, instances, caller>>,
         NEW q \in Requests, NEW j, Good(j), job' = [job EXCEPT ![q] = j]
  PROVE  DiscoveryInv'
<1>1. job' \in [Requests -> Job] /\ \A other \in Requests : Good(job'[other])
  BY OneJob
<1>2. phase' \in [Addresses -> {"down", "starting", "up", "stopping"}] /\ registry' \subseteq Addresses
  BY DEF instances, DiscoveryInv, DiscoveryTypeOK
<1>3. QED
  BY <1>1, <1>2, StillCaller

LEMMA InstanceStep == DiscoveryInv /\ Live => DiscoveryInv'
<1> SUFFICES ASSUME DiscoveryInv, NEW a \in Addresses,
                    \/ StartInstance(a) \/ Register(a) \/ Listen(a)
                    \/ Terminate(a) \/ Crash(a) \/ Expire(a)
             PROVE  DiscoveryInv'
  BY DEF Live
<1>1. UNCHANGED <<kind, caller>>
  BY DEF StartInstance, Register, Listen, Terminate, Crash, Expire, Process
<1>2. phase' \in [Addresses -> {"down", "starting", "up", "stopping"}]
  BY DEF StartInstance, Register, Listen, Terminate, Crash, Expire, Process,
         DiscoveryInv, DiscoveryTypeOK
<1>3. registry' \subseteq Addresses
  BY DEF StartInstance, Register, Listen, Terminate, Crash, Expire, Process,
         DiscoveryInv, DiscoveryTypeOK
<1>4. job' \in [Requests -> Job] /\ \A q \in Requests : Good(job'[q])
  <2>1. CASE Crash(a)
    <3>1. SUFFICES ASSUME NEW q \in Requests, job[q].pc = "executed" PROVE Good([job[q] EXCEPT !.pc = "lost"])
      BY <2>1, JobsGood DEF Crash, Good
    <3>2. Good(job[q]) /\ job[q] \in Job
      BY JobsGood
    <3>3. QED
      BY <3>1, <3>2 DEF Good, Job, PCs
  <2>2. CASE ~Crash(a)
    <3>1. UNCHANGED job
      BY <2>2 DEF StartInstance, Register, Listen, Terminate, Expire
    <3>2. QED
      BY <3>1, JobsGood
  <2>3. QED
    BY <2>1, <2>2
<1>5. QED
  BY <1>1, <1>2, <1>3, <1>4, StillCaller

-----------------------------------------------------------------------------
(* Steps that change the list. *)

LEMMA FetchStep ==
  ASSUME DiscoveryInv, Fetch, job' \in [Requests -> Job], \A q \in Requests : Good(job'[q])
  PROVE  DiscoveryInv'
<1>1. registry \in SUBSET Addresses
  BY DEF DiscoveryInv, DiscoveryTypeOK
<1>2. Once(copy)'
  BY <1>1, ListIsOnce DEF Fetch, Once
<1>3. turn' \subseteq ToSet(copy')
  BY DEF Fetch, DiscoveryInv, DiscoveryTypeOK
<1>4. DiscoveryTypeOK'
  BY <1>1, <1>3 DEF Fetch, DiscoveryInv, DiscoveryTypeOK, instances
<1>5. Window'
  <2>1. CASE copy' = copy
    BY <2>1, SameWindow DEF Fetch, DiscoveryInv
  <2>2. CASE copy' # copy
    BY <1>1, <2>2, EmptyWindow, DiscoveryConstants DEF Fetch, DiscoveryInv, DiscoveryTypeOK
  <2>3. QED
    BY <2>1, <2>2
<1>6. AtMostOnce' /\ \A q \in Requests : Request(q)'
  BY DEF AtMostOnce, Request, Good
<1>7. QED
  BY <1>2, <1>4, <1>5, <1>6 DEF DiscoveryInv

LEMMA WaitStep ==
  ASSUME DiscoveryInv, NEW q \in Requests, WaitForInstances(q)
  PROVE  DiscoveryInv'
<1>1. Good([job[q] EXCEPT !.waited = TRUE])
  BY JobsGood DEF Good, Job
<1>2. QED
  BY <1>1, OneJob, FetchStep DEF WaitForInstances

-----------------------------------------------------------------------------
(* A pick. *)

(* The next address is the one picked longest ago, and all others are one  *)
(* pick older after it.                                                    *)
LEMMA Ages ==
  ASSUME DiscoveryInv, copy # <<>>, copy' = copy,
         cursor' % Len(copy) = IF cursor % Len(copy) = Len(copy) - 1
                               THEN 0 ELSE (cursor % Len(copy)) + 1,
         NEW i \in 1..Len(copy)
  PROVE  /\ Age(i) \in 1..Len(copy)
         /\ Age(i) = Len(copy) <=> i = (cursor % Len(copy)) + 1
         /\ Age(i)' = IF i = (cursor % Len(copy)) + 1 THEN 1 ELSE Age(i) + 1
<1> DEFINE n == Len(copy)
           p == cursor % n
           q == cursor' % n
<1>1. n \in Nat \ {0} /\ p \in 0..(n - 1)
  BY Remainder
<1>2. q = IF p = n - 1 THEN 0 ELSE p + 1
  OBVIOUS
<1>3. Age(i) = IF i - 1 < p THEN p - (i - 1) ELSE p - (i - 1) + n
  BY DEF Age
<1>4. Age(i)' = IF i - 1 < q THEN q - (i - 1) ELSE q - (i - 1) + n
  BY DEF Age
<1> HIDE DEF n, p, q
<1>5. QED
  BY <1>1, <1>2, <1>3, <1>4 DEF n, p
LEMMA PickCursor ==
  ASSUME DiscoveryInv, NEW q \in Requests, Pick(q)
  PROVE  /\ cursor' \in 0..(Cycle - 1)
         /\ cursor' % Len(copy) = IF cursor % Len(copy) = Len(copy) - 1
                                   THEN 0 ELSE (cursor % Len(copy)) + 1
<1> DEFINE n == Len(copy)
<1>1. /\ n \in Nat \ {0} /\ cursor \in Nat
      /\ n =< Cycle /\ Cycle \in Nat \ {0} /\ Cycle % n = 0
  BY Remainder, DiscoveryConstants DEF Pick
<1>2. (cursor + 1) % n = IF cursor % n = n - 1 THEN 0 ELSE (cursor % n) + 1
  BY <1>1, NextRemainder
<1>3. cursor' = (cursor + 1) % (IF kind = "routes" THEN Cycle ELSE n)
  BY DEF Pick, NextCursor
<1> HIDE DEF n
<1>4. cursor + 1 \in Nat
  BY <1>1
<1>5. CASE kind = "routes"
  <2>1. ((cursor + 1) % Cycle) % n = (cursor + 1) % n
    BY <1>1, <1>4, RemainderOfRemainder
  <2>2. (cursor + 1) % Cycle \in 0..(Cycle - 1)
    BY <1>1, <1>4, RemainderType
  <2>3. QED
    BY <1>2, <1>3, <1>5, <2>1, <2>2 DEF n
<1>6. CASE kind # "routes"
  <2>1. (cursor + 1) % n \in 0..(n - 1)
    BY <1>1, <1>4, RemainderType
  <2>2. n % n = 0
    BY <1>1
  <2>3. ((cursor + 1) % n) % n = (cursor + 1) % n
    BY <1>1, <1>4, <2>2, RemainderOfRemainder
  <2>4. QED
    BY <1>1, <1>2, <1>3, <1>6, <2>1, <2>3 DEF n
<1>7. QED
  BY <1>5, <1>6

(* The instance picked is not one of those of this turn. *)
LEMMA PickIsNew ==
  ASSUME DiscoveryInv, NEW q \in Requests, Pick(q)
  PROVE  /\ copy[(cursor % Len(copy)) + 1] \in Addresses
         /\ copy[(cursor % Len(copy)) + 1] \notin turn
         /\ copy[(cursor % Len(copy)) + 1] \in ToSet(copy)
<1> DEFINE n == Len(copy)
           i == (cursor % n) + 1
<1>1. copy # <<>> /\ copy' = copy
  BY DEF Pick
<1>2. n \in Nat \ {0} /\ i \in 1..n
  BY <1>1, Remainder
<1>3. \A j \in 1..n : Age(j) \in 1..n /\ (Age(j) = n <=> j = i)
  BY <1>1, PickCursor, Ages
<1>4. PICK k \in 0..(n - 1) : turn = Latest(k)
  BY <1>1 DEF DiscoveryInv, Window
<1> HIDE DEF n, i
<1>5. \A j \in 1..n : copy[j] = copy[i] => j = i
  BY <1>2 DEF DiscoveryInv, Once, n
<1>6. copy[i] \notin turn
  <2> SUFFICES ASSUME NEW j \in 1..n, Age(j) =< k, copy[j] = copy[i] PROVE FALSE
    BY <1>4 DEF Latest, n
  <2>1. j = i
    BY <1>5
  <2>2. QED
    BY <1>2, <1>3, <2>1
<1>7. copy[i] \in Addresses /\ copy[i] \in ToSet(copy)
  BY <1>2 DEF DiscoveryInv, Once, ToSet, n
<1>8. QED
  BY <1>6, <1>7 DEF i, n

LEMMA PickWindow ==
  ASSUME DiscoveryInv, NEW q \in Requests, Pick(q)
  PROVE  Window'
<1> DEFINE n == Len(copy)
           i == (cursor % n) + 1
           a == copy[i]
<1>1. /\ copy # <<>> /\ copy' = copy
      /\ turn' = IF turn \cup {a} = ToSet(copy) THEN {} ELSE turn \cup {a}
  BY DEF Pick
<1>2. n \in Nat \ {0} /\ i \in 1..n
  BY <1>1, Remainder
<1>3. \A j \in 1..n : /\ Age(j) \in 1..n /\ (Age(j) = n <=> j = i)
                       /\ Age(j)' = IF j = i THEN 1 ELSE Age(j) + 1
  BY <1>1, PickCursor, Ages
<1>4. PICK k \in 0..(n - 1) : turn = Latest(k)
  BY <1>1 DEF DiscoveryInv, Window
<1>5. DOMAIN copy = 1..n
  BY DEF DiscoveryInv, Once
<1> HIDE DEF n, i, a
<1>6. CASE turn \cup {a} = ToSet(copy)
  <2>1. 0 \in 0..(n - 1)
    BY <1>2
  <2>2. Latest(0)' = {}
    <3> SUFFICES ASSUME NEW j \in 1..n, Age(j)' =< 0 PROVE FALSE
      BY <1>1 DEF Latest, n
    <3>1. QED
      BY <1>2, <1>3
  <2>3. QED
    BY <1>1, <1>6, <2>1, <2>2 DEF Window, n
<1>7. CASE turn \cup {a} # ToSet(copy)
  <2>1. \A j \in 1..n : Age(j)' =< k + 1 <=> (j = i \/ Age(j) =< k)
    <3> SUFFICES ASSUME NEW j \in 1..n PROVE Age(j)' =< k + 1 <=> (j = i \/ Age(j) =< k)
      OBVIOUS
    <3>1. QED
      BY <1>2, <1>3
  <2>2. turn \cup {a} = {copy[j] : j \in {l \in 1..n : l = i \/ Age(l) =< k}}
    <3>1. turn = {copy[j] : j \in {l \in 1..n : Age(l) =< k}}
      BY <1>4 DEF Latest, n
    <3>2. QED
      BY <1>2, <3>1 DEF a
  <2>3. turn \cup {a} = Latest(k + 1)'
    <3>1. Latest(k + 1)' = {copy[j] : j \in {l \in 1..n : Age(l)' =< k + 1}}
      BY <1>1 DEF Latest, n
    <3>2. {l \in 1..n : Age(l)' =< k + 1} = {l \in 1..n : l = i \/ Age(l) =< k}
      BY <2>1
    <3>3. QED
      BY <2>2, <3>1, <3>2
  <2>4. k + 1 \in 0..(n - 1)
    <3> SUFFICES ASSUME k + 1 = n PROVE FALSE
      BY <1>2
    <3>1. \A j \in 1..n : j = i \/ Age(j) =< k
      <4> SUFFICES ASSUME NEW j \in 1..n, j # i PROVE Age(j) =< k
        OBVIOUS
      <4>1. QED
        BY <1>2, <1>3
    <3>2. turn \cup {a} = ToSet(copy)
      BY <2>2, <3>1, <1>5 DEF ToSet
    <3>3. QED
      BY <3>2, <1>7
  <2>5. QED
    BY <1>1, <1>7, <2>3, <2>4 DEF Window, n
<1>8. QED
  BY <1>6, <1>7

LEMMA PickStep ==
  ASSUME DiscoveryInv, NEW q \in Requests, Pick(q)
  PROVE  DiscoveryInv'
<1> DEFINE a == copy[(cursor % Len(copy)) + 1]
<1>1. a \in Addresses /\ a \in ToSet(copy)
  BY PickIsNew
<1>2. /\ job[q].pc = "look" /\ copy' = copy /\ UNCHANGED <<kind, instances>>
      /\ job' = [job EXCEPT ![q].pc = "send", ![q].address = a]
      /\ turn' = IF turn \cup {a} = ToSet(copy) THEN {} ELSE turn \cup {a}
      /\ pinned' \in {a, NoAddress}
  BY DEF Pick
<1> HIDE DEF a
<1>3. Good([job[q] EXCEPT !.pc = "send", !.address = a])
  BY <1>1, <1>2, JobsGood DEF Good, Job, PCs
<1>4. job' \in [Requests -> Job] /\ \A other \in Requests : Good(job'[other])
  <2>1. job' = [job EXCEPT ![q] = [job[q] EXCEPT !.pc = "send", !.address = a]]
    BY <1>2
  <2>2. QED
    BY <1>3, <2>1, OneJob
<1>5. DiscoveryTypeOK'
  BY <1>1, <1>2, <1>4, PickCursor DEF DiscoveryInv, DiscoveryTypeOK, instances
<1>6. Once(copy)'
  BY <1>2 DEF DiscoveryInv, Once
<1>7. AtMostOnce' /\ \A other \in Requests : Request(other)'
  BY <1>4 DEF AtMostOnce, Request, Good
<1>8. QED
  BY <1>5, <1>6, <1>7, PickWindow DEF DiscoveryInv
-----------------------------------------------------------------------------
(* The other steps of a request. *)

LEMMA IdleIsJob == Idle \in Job
BY DEF Job, Idle, PCs, Answers

LEMMA JobMoves ==
  ASSUME NEW j \in Job, NEW pc \in PCs
  PROVE  [j EXCEPT !.pc = pc] \in Job
BY DEF Job

LEMMA JobSends ==
  ASSUME NEW j \in Job, NEW pc \in PCs, NEW address \in Addresses \cup {NoAddress}
  PROVE  [j EXCEPT !.pc = pc, !.address = address] \in Job
BY DEF Job

LEMMA JobExecutes ==
  ASSUME NEW j \in Job, NEW pc \in PCs, NEW executed \in 0..2
  PROVE  [j EXCEPT !.pc = pc, !.executed = executed] \in Job
BY DEF Job

LEMMA BeginStep ==
  ASSUME DiscoveryInv, NEW q \in Requests, Begin(q)
  PROVE  DiscoveryInv'
<1> DEFINE j == IF pinned = NoAddress THEN [Idle EXCEPT !.pc = "look"]
                ELSE [Idle EXCEPT !.pc = "send", !.address = pinned]
<1>1. Good(j)
  <2>1. pinned \in Addresses \cup {NoAddress}
    BY DEF DiscoveryInv, DiscoveryTypeOK
  <2>2. Good([Idle EXCEPT !.pc = "look"])
    <3>1. "look" \in PCs
      BY DEF PCs
    <3>2. [Idle EXCEPT !.pc = "look"] \in Job
      BY <3>1, IdleIsJob, JobMoves
    <3>3. QED
      BY <3>2 DEF Good, Idle
  <2>3. Good([Idle EXCEPT !.pc = "send", !.address = pinned])
    <3>1. "send" \in PCs
      BY DEF PCs
    <3>2. [Idle EXCEPT !.pc = "send", !.address = pinned] \in Job
      BY <2>1, <3>1, IdleIsJob, JobSends
    <3>3. QED
      BY <3>2 DEF Good, Idle
  <2>4. QED
    BY <2>2, <2>3
<1>2. job' = [job EXCEPT ![q] = j] /\ UNCHANGED <<kind, instances, caller>>
  BY DEF Begin
<1>3. QED
  BY <1>1, <1>2, CallerGoesOn

LEMMA EndsStep ==
  ASSUME DiscoveryInv, NEW q \in Requests, NEW answer \in {"ok", "noInstances", "refused", "timeout"},
         job[q].pc # "idle", Ends(q, answer),
         answer = "ok" => job[q].executed = 1,
         answer = "noInstances" => job[q].executed = 0
  PROVE  DiscoveryInv'
<1> DEFINE j == [Idle EXCEPT !.executed = job[q].executed,
                             !.answer = IF job[q].answer = "none" THEN answer ELSE "timeout"]
<1>1. Good(j)
  BY JobsGood DEF Good, Job, Idle, PCs, Answers
<1>2. job' = [job EXCEPT ![q] = j] /\ UNCHANGED <<kind, instances, caller>>
  BY DEF Ends
<1>3. QED
  BY <1>1, <1>2, CallerGoesOn

LEMMA ServeStep ==
  ASSUME DiscoveryInv, NEW q \in Requests, Serve(q)
  PROVE  DiscoveryInv'
<1>1. Good(job[q]) /\ job[q] \in Job
  BY JobsGood
<1>2. CASE NoInstances(q) \/ Respond(q) \/ Refused(q) \/ Cancel(q)
  BY <1>1, <1>2, EndsStep DEF NoInstances, Respond, Refused, Cancel, Good
<1>3. CASE Execute(q)
  <2>1. Good([job[q] EXCEPT !.pc = "executed", !.executed = @ + 1])
    <3>1. job[q].executed + 1 = 1
      BY <1>1, <1>3 DEF Execute, Good
    <3>2. [job[q] EXCEPT !.pc = "executed", !.executed = 1] \in Job
      <4>1. "executed" \in PCs /\ 1 \in 0..2
        BY DEF PCs
      <4>2. QED
        BY <1>1, <4>1, JobExecutes
    <3>3. Good([job[q] EXCEPT !.pc = "executed", !.executed = 1])
      BY <1>1, <1>3, <3>2 DEF Execute, Good, Job
    <3>4. QED
      BY <3>1, <3>3
  <2>2. /\ job' = [job EXCEPT ![q] = [job[q] EXCEPT !.pc = "executed", !.executed = @ + 1]]
        /\ UNCHANGED <<kind, instances, caller>>
    BY <1>3 DEF Execute
  <2>3. QED
    BY <2>1, <2>2, CallerGoesOn
<1>4. CASE Timeout(q)
  <2>1. Good([job[q] EXCEPT !.answer = "timeout"])
    BY <1>1, <1>4 DEF Timeout, Good, Job, Answers
  <2>2. /\ job' = [job EXCEPT ![q] = [job[q] EXCEPT !.answer = "timeout"]]
        /\ UNCHANGED <<kind, instances, caller>>
    BY <1>4 DEF Timeout
  <2>3. QED
    BY <2>1, <2>2, CallerGoesOn
<1>5. QED
  BY <1>2, <1>3, <1>4, BeginStep, WaitStep, PickStep DEF Serve

LEMMA DiscoveryBegins == DiscoveryInit => DiscoveryInv
<1> SUFFICES ASSUME DiscoveryInit PROVE DiscoveryInv
  OBVIOUS
<1>1. Idle \in Job
  BY DEF Idle, Job, PCs, Answers
<1>2. \E S \in SUBSET Addresses : copy = List(S)
  <2>1. List({}) = <<>>
    <3>1. Cardinality({}) = 0
      BY FS_EmptySet
    <3>2. QED
      BY <3>1 DEF List, SetToSeq, IsInjective
  <2>2. QED
    BY <2>1 DEF DiscoveryInit
<1>3. DiscoveryTypeOK
  BY <1>1, <1>2, DiscoveryConstants DEF DiscoveryInit, DiscoveryTypeOK
<1>4. Once(copy)
  BY <1>2, ListIsOnce
<1>5. AtMostOnce /\ \A q \in Requests : Request(q)
  BY DEF DiscoveryInit, AtMostOnce, Request, Idle
<1>6. Window
  BY DEF DiscoveryInit, Window
<1>7. QED
  BY <1>3, <1>4, <1>5, <1>6 DEF DiscoveryInv

LEMMA DiscoveryStep == DiscoveryInv /\ [DiscoveryNext]_discoveryVars => DiscoveryInv'
<1> SUFFICES ASSUME DiscoveryInv, [DiscoveryNext]_discoveryVars PROVE DiscoveryInv'
  OBVIOUS
<1>1. CASE Live
  BY <1>1, InstanceStep
<1>2. CASE Refresh
  BY <1>2, FetchStep, JobsGood DEF Refresh
<1>3. ASSUME NEW q \in Requests, Serve(q) PROVE DiscoveryInv'
  BY <1>3, ServeStep
<1>4. CASE UNCHANGED discoveryVars
  BY <1>4, StillCaller, JobsGood DEF discoveryVars, instances, DiscoveryInv, DiscoveryTypeOK
<1>5. QED
  BY <1>1, <1>2, <1>3, <1>4 DEF DiscoveryNext

(* Whatever requests, instances and the registry do, the caller's list has *)
(* no address twice and its cursor stays within bounds.                    *)
THEOREM DiscoveryTypes == DiscoverySpec => []DiscoveryTypeOK
<1>1. DiscoveryInv => DiscoveryTypeOK
  BY DEF DiscoveryInv
<1>2. QED
  BY DiscoveryBegins, DiscoveryStep, <1>1, PTL DEF DiscoverySpec

(* For any number of requests and of instances, however these come and go, *)
(* a request is served at most once, exactly once if it was answered, and  *)
(* never if the answer was that there is no instance.                      *)
THEOREM ServedAtMostOnce == DiscoverySpec => []AtMostOnce
<1>1. DiscoveryInv => AtMostOnce
  BY DEF DiscoveryInv
<1>2. QED
  BY DiscoveryBegins, DiscoveryStep, <1>1, PTL DEF DiscoverySpec

(* For a list of any length and any number of requests that pick at the    *)
(* same time, no instance is picked again before all the others of the     *)
(* list have been.                                                         *)
THEOREM PicksAreBalanced == DiscoverySpec => Balanced
<1> DEFINE New(q) == job[q].pc = "look" /\ job'[q].pc = "send" => job'[q].address \notin turn
<1>1. ASSUME DiscoveryInv, [DiscoveryNext]_discoveryVars
      PROVE  [\A q \in Requests : New(q)]_discoveryVars
  <2> SUFFICES ASSUME DiscoveryNext, NEW q \in Requests,
                      job[q].pc = "look", job'[q].pc = "send"
               PROVE  job'[q].address \notin turn
    BY <1>1
  <2>1. job[q] \in Job /\ job \in [Requests -> Job]
    BY <1>1, JobsGood
  <2>2. ASSUME Live PROVE FALSE
    BY <2>1, <2>2 DEF Live, StartInstance, Register, Listen, Terminate, Crash, Expire, Job
  <2>3. ASSUME Refresh PROVE FALSE
    BY <2>1, <2>3 DEF Refresh
  <2>4. ASSUME NEW other \in Requests, Serve(other) PROVE Pick(q)
    <3>1. CASE Begin(other)
      BY <2>1, <2>4, <3>1 DEF Begin
    <3>2. CASE Execute(other)
      BY <2>1, <2>4, <3>2 DEF Execute
    <3>3. CASE Timeout(other)
      BY <2>1, <2>4, <3>3 DEF Timeout, Job
    <3>4. CASE WaitForInstances(other)
      BY <2>1, <2>4, <3>4 DEF WaitForInstances
    <3>5. CASE Pick(other)
      BY <2>1, <2>4, <3>5 DEF Pick
    <3>6. CASE NoInstances(other) \/ Respond(other) \/ Refused(other) \/ Cancel(other)
      BY <2>1, <2>4, <3>6 DEF NoInstances, Respond, Refused, Cancel, Ends, Idle
    <3>7. QED
      BY <2>4, <3>1, <3>4, <3>5, <3>6, <3>2, <3>3 DEF Serve
  <2>5. Pick(q)
    BY <2>2, <2>3, <2>4 DEF DiscoveryNext
  <2>6. job'[q].address = copy[(cursor % Len(copy)) + 1]
    BY <2>1, <2>5 DEF Pick, Job
  <2>7. QED
    BY <1>1, <2>5, <2>6, PickIsNew
<1>2. QED
  BY DiscoveryBegins, DiscoveryStep, <1>1, PTL DEF DiscoverySpec, Balanced

-----------------------------------------------------------------------------
(* FuelReports: what a report says was true at one instant.                *)
(*                                                                         *)
(* That instant is the one when its trips were listed, except for the      *)
(* trips of a route, where it is the last.  Until it is closed the report  *)
(* would say the same as then: its finished trips do not change, their     *)
(* routes keep their type and stay listed, and the types it has looked up  *)
(* are theirs.                                                             *)

(* What a report computes depends on little of the types it is given.      *)

LEMMA PerTypeSame ==
  ASSUME NEW T, NEW types, NEW others,
         \A row \in Finished(T) : types[row.id] = others[row.id]
  PROVE  PerType(T, types) = PerType(T, others)
<1> DEFINE done == Finished(T)
<1>1. \A k \in VehicleTypes : {row \in done : types[row.id] = k} = {row \in done : others[row.id] = k}
  OBVIOUS
<1> HIDE DEF done
<1>2. [k \in VehicleTypes |-> Figures({row \in done : types[row.id] = k})]
      = [k \in VehicleTypes |-> Figures({row \in done : others[row.id] = k})]
  BY <1>1
<1>3. QED
  BY <1>2 DEF PerType, GroupBy, done

LEMMA PerRouteSame ==
  ASSUME NEW T, NEW types, NEW others,
         {row.route : row \in Finished(T)} \cap DOMAIN types
         = {row.route : row \in Finished(T)} \cap DOMAIN others
  PROVE  PerRoute(T, types) = PerRoute(T, others)
BY DEF PerRoute, GroupBy

LEMMA PerVehicleRouteSame ==
  ASSUME NEW T, NEW types, NEW others,
         {row.route : row \in T} \cap DOMAIN types = {row.route : row \in T} \cap DOMAIN others
  PROVE  PerVehicleRoute(T, types) = PerVehicleRoute(T, others)
BY DEF PerVehicleRoute, GroupBy

LEMMA SingleIgnoresTypes ==
  ASSUME NEW name \in SingleCall, NEW about, NEW T, NEW types, NEW others
  PROVE  Compute(name, about, T, types) = Compute(name, about, T, others)
BY DEF Compute, SingleCall

LEMMA RouteTripsIgnoresTypes ==
  ASSUME NEW about, NEW T, NEW types, NEW others
  PROVE  Compute("routeTrips", about, T, types) = Compute("routeTrips", about, T, others)
BY DEF Compute

(* With nothing finished, the routes do not matter. *)
LEMMA EmptyIgnoresTypes ==
  ASSUME NEW name \in {"general", "machinery", "routes", "vehicleRoutes"}, NEW about, NEW T,
         NEW types, NEW others, Finished(T) = {}, name = "vehicleRoutes" => T = {}
  PROVE  Compute(name, about, T, types) = Compute(name, about, T, others)
<1>1. CASE name \in {"general", "machinery"}
  BY <1>1, PerTypeSame DEF Compute
<1>2. CASE name = "routes"
  <2>1. {row.route : row \in Finished(T)} = {}
    OBVIOUS
  <2>2. {row.route : row \in Finished(T)} \cap DOMAIN types
        = {row.route : row \in Finished(T)} \cap DOMAIN others
    BY <2>1
  <2>3. QED
    BY <1>2, <2>2, PerRouteSame DEF Compute
<1>3. CASE name = "vehicleRoutes"
  <2>1. {row.route : row \in T} \cap DOMAIN types = {row.route : row \in T} \cap DOMAIN others
    BY <1>3
  <2>2. QED
    BY <1>3, <2>1 DEF Compute, PerVehicleRoute, GroupBy
<1>4. QED
  BY <1>1, <1>2, <1>3

LEMMA ComputePerType ==
  ASSUME NEW name \in {"general", "machinery"}, NEW about, NEW T, NEW types
  PROVE  Compute(name, about, T, types) = PerType(T, types)
BY DEF Compute

(* The same tables give the same answers. *)
LEMMA SameAnswers ==
  ASSUME UNCHANGED <<trips, routes>>
  PROVE  /\ FindAll' = FindAll /\ ListRoutes' = ListRoutes
         /\ \A name, from, to, about : Listing(name, from, to, about)' = Listing(name, from, to, about)
         /\ \A T : TypesOfTrips(T)' = TypesOfTrips(T)
<1>1. FindAll' = FindAll
  BY DEF FindAll, Used
<1>2. ListRoutes' = ListRoutes
  BY DEF ListRoutes, LiveRoutes
<1>3. \A name, from, to, about : Listing(name, from, to, about)' = Listing(name, from, to, about)
  BY <1>1 DEF Listing, FindAllByTimeRange, FindAllByVehicleType, ListTripsByDriver,
              FindAllByVehicleIdAndStatus
<1>4. \A T : TypesOfTrips(T)' = TypesOfTrips(T)
  BY DEF TypesOfTrips
<1>5. QED
  BY <1>1, <1>2, <1>3, <1>4
-----------------------------------------------------------------------------
(* The report has its fields, and so has the next. *)
Fields(r) ==
  DOMAIN r = {"kind", "pc", "from", "to", "about", "trips", "types", "answer"}

Tables ==
  /\ trips \in [TripIds -> Trip]
  /\ \A t \in TripIds :
       /\ trips[t].id = t
       /\ trips[t].start = None <=> trips[t].status \in {"unused", "CREADO"}
       /\ trips[t].end = None <=> trips[t].status \notin {"EN_REVISION", "TERMINADO"}
       /\ trips[t].status # "unused" => trips[t].route \in LiveRoutes
  /\ routes \in [RouteIds -> Route]
  /\ today \in Days
  /\ updates \in 0..MaxUpdates

(* The types of routes looked up are those of the trips still. *)
TypesHold ==
  /\ DOMAIN report.types \subseteq {row.id : row \in Finished(report.trips)}
  /\ \A t \in DOMAIN report.types : report.types[t] = routes[trips[t].route].type

(* What the report will say is what it would have said at some instant. *)
Building ==
  /\ report.pc = "getRoutes" =>
       /\ report.kind \in {"general", "machinery"}
       /\ PerType(report.trips, TypesOfTrips(report.trips)) \in moments
       /\ TypesHold
  /\ report.pc = "listRoutes" =>
       /\ report.kind \in {"routes", "vehicleRoutes"}
       /\ report.kind = "vehicleRoutes" => report.trips = Finished(report.trips)
       /\ Compute(report.kind, report.about, report.trips, ListRoutes) \in moments
  /\ report.pc = "listTrips" => report.kind \in {"summary", "routeTrips"}

ReportsInv ==
  /\ Tables
  /\ Fields(report)
  /\ report.kind \in Kinds \cup {None}
  /\ report.pc \in {"idle", "getRoutes", "listRoutes", "listTrips", "done"}
  /\ report.pc # "idle" => report.kind \in Kinds
  /\ Finished(report.trips) \subseteq FindAll
  /\ Building
  /\ AnswerIsOfOneInstant

LEMMA RowsOfTables ==
  ASSUME Tables, NEW row \in FindAll
  PROVE  /\ row.id \in TripIds /\ trips[row.id] = row /\ row.status # "unused"
         /\ row.route \in LiveRoutes /\ HasTrips(row.route)
BY DEF Tables, FindAll, Used, HasTrips

(* The routes of finished trips are live. *)
LEMMA RoutesAreListed ==
  ASSUME Tables, NEW T, Finished(T) \subseteq FindAll
  PROVE  {row.route : row \in Finished(T)} \cap DOMAIN ListRoutes = {row.route : row \in Finished(T)}
BY RowsOfTables DEF ListRoutes

LEMMA SameInstant ==
  ASSUME ReportsInv, UNCHANGED tables, Observe, report'.pc # "idle"
  PROVE  /\ moments \subseteq moments'
         /\ LET T == Listing(report'.kind, report'.from, report'.to, report'.about)
            IN  Compute(report'.kind, report'.about, T,
                        IF report'.kind \in {"general", "machinery"} THEN TypesOfTrips(T)
                        ELSE ListRoutes) \in moments'
BY SameAnswers DEF Observe, AtOnce, tables

LEMMA TablesStay == ASSUME ReportsInv, UNCHANGED tables PROVE Tables'
BY DEF tables, ReportsInv, Tables, LiveRoutes

LEMMA FinishedOf == ASSUME NEW T PROVE Finished(T) \subseteq T /\ Finished(Finished(T)) = Finished(T)
BY DEF Finished

LEMMA ListedFromTables ==
  ASSUME NEW name, NEW from, NEW to, NEW about, name \in MultiCall \cup SingleCall
  PROVE  /\ Listing(name, from, to, about) \subseteq FindAll
         /\ name = "vehicleRoutes" => Finished(Listing(name, from, to, about)) = Listing(name, from, to, about)
BY DEF Listing, MultiCall, SingleCall, FindAllByTimeRange, FindAllByVehicleType, ListTripsByDriver,
       FindAllByVehicleIdAndStatus, Finished

-----------------------------------------------------------------------------
(* A report is asked for. *)

(* What makes a report that is asked for a good one. *)
LEMMA AskedWell ==
  ASSUME ReportsInv, Observe, NEW name, NEW next, Ask(name, next),
         Fields(next), next.kind = name, next.pc \in {"getRoutes", "listRoutes", "listTrips", "done"},
         Finished(next.trips) \subseteq FindAll,
         next.pc = "done" /\ ~next.answer.failed /\ name # "summary" => next.answer \in moments',
         next.pc = "getRoutes" =>
           /\ name \in {"general", "machinery"}
           /\ PerType(next.trips, TypesOfTrips(next.trips)) \in moments'
           /\ next.types = <<>>,
         next.pc = "listRoutes" =>
           /\ name \in {"routes", "vehicleRoutes"}
           /\ name = "vehicleRoutes" => next.trips = Finished(next.trips)
           /\ Compute(name, next.about, next.trips, ListRoutes) \in moments',
         next.pc = "listTrips" => name \in {"summary", "routeTrips"}
  PROVE  ReportsInv'
<1>1. report' = next /\ UNCHANGED tables /\ name \in Kinds
  BY DEF Ask
<1>2. Tables'
  BY <1>1, TablesStay
<1>3. /\ FindAll' = FindAll /\ ListRoutes' = ListRoutes
      /\ \A T : TypesOfTrips(T)' = TypesOfTrips(T)
  BY <1>1, SameAnswers DEF tables
<1>4. Building'
  BY <1>1, <1>3 DEF Building, TypesHold
<1>5. AnswerIsOfOneInstant'
  BY <1>1 DEF AnswerIsOfOneInstant, Answered
<1>6. QED
  BY <1>1, <1>2, <1>3, <1>4, <1>5 DEF ReportsInv, Fields, Finished
LEMMA NoReportFields ==
  Fields(NoReport) /\ NoReport.pc = "idle" /\ NoReport.trips = {} /\ NoReport.types = <<>>
BY DEF Fields, NoReport

LEMMA AskedFields ==
  ASSUME NEW name, NEW from, NEW to, NEW about
  PROVE  LET asked == Asked(name, from, to, about)
         IN  /\ Fields(asked)
             /\ asked.kind = name /\ asked.from = from /\ asked.to = to /\ asked.about = about
             /\ asked.trips = {} /\ asked.types = <<>>
BY NoReportFields DEF Asked, Fields

LEMMA ClosedFields ==
  ASSUME NEW r, NEW answer, Fields(r)
  PROVE  LET closed == Closed(r, answer)
         IN  /\ Fields(closed)
             /\ closed.kind = r.kind /\ closed.from = r.from /\ closed.to = r.to /\ closed.about = r.about
             /\ closed.pc = "done" /\ closed.trips = {} /\ closed.answer = answer
BY DEF Fields, Closed

LEMMA FailureFails == Failure.failed
BY DEF Failure, NoAnswer

LEMMA NothingFinished == Finished({}) \subseteq FindAll
BY DEF Finished

LEMMA ClosedWell ==
  ASSUME ReportsInv, Observe, NEW name, NEW from, NEW to, NEW about, NEW answer,
         Ask(name, Closed(Asked(name, from, to, about), answer)),
         ~answer.failed /\ name # "summary" => answer \in moments'
  PROVE  ReportsInv'
<1> DEFINE asked == Asked(name, from, to, about)
           next == Closed(asked, answer)
<1>1. Fields(asked) /\ asked.kind = name
  BY AskedFields
<1>2. /\ Fields(next) /\ next.kind = name /\ next.pc = "done"
      /\ next.trips = {} /\ next.answer = answer
  BY <1>1, ClosedFields
<1> HIDE DEF next
<1>3. QED
  BY <1>2, NothingFinished, AskedWell DEF next

LEMMA ObservedWhenAsked ==
  ASSUME ReportsInv, Observe, NEW name, NEW next, Ask(name, next), next.pc # "idle", next.kind = name
  PROVE  LET T == Listing(name, next.from, next.to, next.about)
         IN  Compute(name, next.about, T,
                     IF name \in {"general", "machinery"} THEN TypesOfTrips(T) ELSE ListRoutes) \in moments'
<1>1. report' = next /\ UNCHANGED tables
  BY DEF Ask
<1>2. QED
  BY <1>1, SameInstant

LEMMA AskOnceStep ==
  ASSUME ReportsInv, Observe, NEW name \in SingleCall, NEW from, NEW to, NEW about,
         AskOnce(name, from, to, about)
  PROVE  ReportsInv'
<1> DEFINE T == Listing(name, from, to, about)
           asked == Asked(name, from, to, about)
           answer == IF T = {} /\ name = "driverTrips"
                     THEN Failure ELSE Compute(name, about, T, <<>>)
           next == Closed(asked, answer)
<1>1. Ask(name, next)
  BY DEF AskOnce
<1>2. /\ Fields(asked) /\ asked.kind = name /\ asked.from = from /\ asked.to = to
      /\ asked.about = about
  BY AskedFields
<1>3. /\ next.kind = name /\ next.from = from /\ next.to = to /\ next.about = about
      /\ next.pc = "done"
  BY <1>2, ClosedFields
<1>4. Compute(name, about, T, ListRoutes) \in moments'
  <2>1. name \notin {"general", "machinery"}
    BY DEF SingleCall
  <2> HIDE DEF next
  <2>2. QED
    BY <1>1, <1>3, <2>1, ObservedWhenAsked
<1>5. ~answer.failed => answer \in moments'
  BY <1>4, SingleIgnoresTypes, FailureFails
<1> HIDE DEF answer
<1>6. QED
  BY <1>1, <1>5, ClosedWell

LEMMA AskTripsStep ==
  ASSUME ReportsInv, Observe, NEW name, NEW from, NEW to, NEW about, NEW pc,
         AskTrips(name, from, to, about, pc),
         \/ name \in {"general", "machinery"} /\ pc = "getRoutes"
         \/ name \in {"routes", "vehicleRoutes"} /\ pc = "listRoutes"
  PROVE  ReportsInv'
<1> DEFINE T == Listing(name, from, to, about)
           asked == Asked(name, from, to, about)
<1>1. /\ Fields(asked) /\ asked.kind = name /\ asked.from = from /\ asked.to = to
      /\ asked.about = about /\ asked.types = <<>>
  BY AskedFields
<1>2. T \subseteq FindAll /\ Finished(T) \subseteq FindAll
  BY ListedFromTables, FinishedOf DEF MultiCall
<1>3. CASE Finished(T) = {}
  <2> DEFINE answer == Compute(name, about, T, <<>>)
             next == Closed(asked, answer)
             types == IF name \in {"general", "machinery"} THEN TypesOfTrips(T) ELSE ListRoutes
  <2>1. Ask(name, next)
    BY <1>3 DEF AskTrips
  <2>2. /\ next.kind = name /\ next.from = from /\ next.to = to /\ next.about = about
        /\ next.pc = "done"
    BY <1>1, ClosedFields
  <2>3. Compute(name, about, T, types) \in moments'
    <3> HIDE DEF next
    <3>1. QED
      BY <2>1, <2>2, ObservedWhenAsked
  <2> HIDE DEF types
  <2>4. name = "vehicleRoutes" => T = {}
    BY <1>3, ListedFromTables DEF MultiCall
  <2>5. answer = Compute(name, about, T, types)
    BY <1>3, <2>4, EmptyIgnoresTypes
  <2> HIDE DEF answer
  <2>6. QED
    BY <2>1, <2>3, <2>5, ClosedWell
<1>4. CASE Finished(T) # {}
  <2> DEFINE next == [asked EXCEPT !.pc = pc, !.trips = T]
  <2>1. Ask(name, next)
    BY <1>4 DEF AskTrips
  <2> HIDE DEF asked
  <2>2. /\ next.kind = name /\ next.from = from /\ next.to = to /\ next.about = about
        /\ next.pc = pc /\ next.trips = T /\ next.types = <<>>
    BY <1>1 DEF Fields
  <2>3. Fields(next)
    BY <1>1 DEF Fields
  <2> HIDE DEF next
  <2>4. Compute(name, about, T, IF name \in {"general", "machinery"} THEN TypesOfTrips(T)
                                ELSE ListRoutes) \in moments'
    BY <2>1, <2>2, ObservedWhenAsked
  <2>5. CASE pc = "getRoutes"
    <3>1. PerType(T, TypesOfTrips(T)) \in moments'
      BY <2>4, <2>5, ComputePerType
    <3>2. QED
      BY <1>2, <2>1, <2>2, <2>3, <2>5, <3>1, AskedWell
  <2>6. CASE pc = "listRoutes"
    <3>1. name = "vehicleRoutes" => T = Finished(T)
      BY ListedFromTables DEF MultiCall
    <3>2. Compute(name, about, T, ListRoutes) \in moments'
      BY <2>4, <2>6
    <3>3. QED
      BY <1>2, <2>1, <2>2, <2>3, <2>6, <3>1, <3>2, AskedWell
  <2>7. QED
    BY <2>5, <2>6
<1>5. QED
  BY <1>3, <1>4

(* The reports that list routes or look one up first. *)
LEMMA AskRoutesStep ==
  ASSUME ReportsInv, Observe, NEW name \in {"summary", "routeTrips"}, NEW about, NEW next,
         Ask(name, next),
         \/ next = Closed(Asked(name, 0, 0, about), Failure)
         \/ next = [Asked(name, 0, 0, about) EXCEPT !.pc = "listTrips", !.types = ListRoutes]
  PROVE  ReportsInv'
<1> DEFINE asked == Asked(name, 0, 0, about)
<1>1. Fields(asked) /\ asked.kind = name /\ asked.trips = {}
  BY AskedFields
<1>2. CASE next = Closed(asked, Failure)
  BY <1>2, FailureFails, ClosedWell
<1>3. CASE next = [asked EXCEPT !.pc = "listTrips", !.types = ListRoutes]
  <2>1. /\ Fields(next) /\ next.kind = name /\ next.pc = "listTrips" /\ next.trips = {}
    BY <1>1, <1>3 DEF Fields
  <2>2. QED
    BY <2>1, NothingFinished, AskedWell
<1>4. QED
  BY <1>2, <1>3

LEMMA GenerateStep == ReportsInv /\ Generate /\ Observe => ReportsInv'
<1> SUFFICES ASSUME ReportsInv, Generate, Observe PROVE ReportsInv'
  OBVIOUS
<1>1. ASSUME NEW from \in Days, NEW to \in from..MaxDay,
             \/ GenerateGeneralReport(from, to) \/ GenerateMachineryTypeReport(from, to)
             \/ GenerateRoutesConsumptionReport(from, to) \/ GenerateDriverConsumptionReport(from, to)
      PROVE  ReportsInv'
  BY <1>1, AskTripsStep, AskOnceStep
     DEF GenerateGeneralReport, GenerateMachineryTypeReport, GenerateRoutesConsumptionReport,
         GenerateDriverConsumptionReport, SingleCall
<1>2. ASSUME NEW about,
             \/ GenerateVehicleDetailReport(about) \/ GetDriverTrips(about)
             \/ GenerateVehicleRoutesReport(about)
      PROVE  ReportsInv'
  BY <1>2, AskTripsStep, AskOnceStep
     DEF GenerateVehicleDetailReport, GetDriverTrips, GenerateVehicleRoutesReport, SingleCall
<1>3. ASSUME NEW rt \in RouteIds, GetRouteTripsDetail(rt) PROVE ReportsInv'
  BY <1>3, AskRoutesStep DEF GetRouteTripsDetail
<1>4. CASE GenerateKPIs \/ GenerateDriverRankingReport
  BY <1>4, AskOnceStep DEF GenerateKPIs, GenerateDriverRankingReport, SingleCall
<1>5. CASE GenerateRoutesSummaryReport
  BY <1>5, AskRoutesStep DEF GenerateRoutesSummaryReport
<1>6. QED
  BY <1>1, <1>2, <1>3, <1>4, <1>5 DEF Generate
-----------------------------------------------------------------------------
(* The later calls of a report. *)

(* A report that is closed says what it would have said at some instant. *)
LEMMA CloseWell ==
  ASSUME ReportsInv, Observe, UNCHANGED tables, report.pc # "idle", NEW answer,
         report' = Closed(report, answer),
         ~answer.failed /\ report.kind # "summary" => answer \in moments'
  PROVE  ReportsInv'
<1>1. /\ Fields(report') /\ report'.kind = report.kind /\ report'.pc = "done"
      /\ report'.trips = {} /\ report'.answer = answer
  BY ClosedFields DEF ReportsInv
<1>2. Tables' /\ FindAll' = FindAll
  BY TablesStay, SameAnswers DEF tables
<1>3. Building' /\ AnswerIsOfOneInstant'
  BY <1>1 DEF Building, AnswerIsOfOneInstant, Answered
<1>4. Finished(report'.trips) \subseteq FindAll'
  BY <1>1, <1>2, NothingFinished
<1>5. QED
  BY <1>1, <1>2, <1>3, <1>4 DEF ReportsInv

LEMMA ThenListRoutesStep == ReportsInv /\ ThenListRoutes /\ Observe => ReportsInv'
<1> SUFFICES ASSUME ReportsInv, ThenListRoutes, Observe PROVE ReportsInv'
  OBVIOUS
<1> DEFINE answer == Compute(report.kind, report.about, report.trips, ListRoutes)
<1>1. report' = Closed(report, answer) /\ UNCHANGED tables /\ report.pc = "listRoutes"
  BY DEF ThenListRoutes, Close
<1>2. answer \in moments
  BY <1>1 DEF ReportsInv, Building
<1>3. report'.pc # "idle"
  BY <1>1, ClosedFields DEF ReportsInv
<1>4. answer \in moments'
  BY <1>1, <1>2, <1>3, SameInstant
<1>5. QED
  BY <1>1, <1>4, CloseWell

LEMMA ThenListTripsStep == ReportsInv /\ ThenListTrips /\ Observe => ReportsInv'
<1> SUFFICES ASSUME ReportsInv, ThenListTrips, Observe PROVE ReportsInv'
  OBVIOUS
<1> DEFINE answer == Compute(report.kind, report.about, FindAll, report.types)
<1>1. report' = Closed(report, answer) /\ UNCHANGED tables /\ report.pc = "listTrips"
  BY DEF ThenListTrips, Close
<1>2. /\ report'.kind = report.kind /\ report'.about = report.about /\ report'.pc = "done"
  BY <1>1, ClosedFields DEF ReportsInv
<1>3. report.kind # "summary" => answer \in moments'
  <2> SUFFICES ASSUME report.kind = "routeTrips" PROVE answer \in moments'
    BY <1>1 DEF ReportsInv, Building
  <2>1. Compute("routeTrips", report.about, FindAll, ListRoutes) \in moments'
    <3>1. Listing("routeTrips", report'.from, report'.to, report.about) = FindAll
      BY DEF Listing
    <3>2. QED
      BY <1>1, <1>2, <3>1, SameInstant
  <2>2. QED
    BY <2>1, RouteTripsIgnoresTypes
<1> HIDE DEF answer
<1>4. QED
  BY <1>1, <1>3, CloseWell

LEMMA GetRouteStep ==
  ASSUME ReportsInv, Observe, NEW row \in report.trips, GetRoute(row)
  PROVE  ReportsInv'
<1> DEFINE done  == Finished(report.trips)
           types == [t \in {row.id} \cup DOMAIN report.types |->
                       IF t = row.id THEN routes[row.route].type ELSE report.types[t]]
<1>1. /\ report.pc = "getRoutes" /\ row \in done /\ UNCHANGED tables
      /\ IF row.route \notin LiveRoutes THEN report' = Closed(report, Failure)
         ELSE IF DOMAIN types = {other.id : other \in done}
         THEN report' = Closed(report, Compute(report.kind, None, report.trips, types))
         ELSE report' = [report EXCEPT !.types = types]
  BY DEF GetRoute, tables
<1>2. /\ report.kind \in {"general", "machinery"} /\ TypesHold
      /\ PerType(report.trips, TypesOfTrips(report.trips)) \in moments
      /\ Fields(report)
  BY <1>1 DEF ReportsInv, Building
<1>3. \A t \in DOMAIN types : types[t] = routes[trips[t].route].type
  <2>1. trips[row.id] = row
    BY <1>1, RowsOfTables DEF ReportsInv
  <2>2. QED
    BY <1>2, <2>1 DEF TypesHold
<1> HIDE DEF types
<1>4. CASE row.route \notin LiveRoutes
  BY <1>1, <1>4, FailureFails, CloseWell
<1>5. CASE report' = Closed(report, Compute(report.kind, None, report.trips, types))
           /\ DOMAIN types = {other.id : other \in done}
  <2>1. report'.pc # "idle"
    BY <1>2, <1>5, ClosedFields
  <2>2. PerType(report.trips, TypesOfTrips(report.trips)) \in moments'
    BY <1>1, <1>2, <2>1, SameInstant
  <2>3. PerType(report.trips, types) = PerType(report.trips, TypesOfTrips(report.trips))
    <3>1. \A other \in done : types[other.id] = TypesOfTrips(report.trips)[other.id]
      BY <1>3, <1>5, FinishedOf DEF TypesOfTrips
    <3>2. QED
      BY <3>1, PerTypeSame
  <2>4. Compute(report.kind, None, report.trips, types) \in moments'
    BY <1>2, <2>2, <2>3, ComputePerType
  <2>5. QED
    BY <1>1, <1>5, <2>4, CloseWell
<1>6. CASE report' = [report EXCEPT !.types = types]
  <2>1. /\ Fields(report') /\ report'.kind = report.kind /\ report'.pc = report.pc
        /\ report'.trips = report.trips /\ report'.types = types
    BY <1>2, <1>6 DEF Fields
  <2>2. Tables' /\ FindAll' = FindAll /\ \A T : TypesOfTrips(T)' = TypesOfTrips(T)
    BY <1>1, TablesStay, SameAnswers DEF tables
  <2>3. moments \subseteq moments'
    BY <1>1, <2>1, SameInstant
  <2>4. PerType(report.trips, TypesOfTrips(report.trips))' \in moments'
    BY <1>2, <2>1, <2>2, <2>3
  <2>5. TypesHold'
    <3>1. DOMAIN types \subseteq {other.id : other \in done}
      BY <1>1, <1>2 DEF TypesHold, types
    <3>2. QED
      BY <1>1, <1>3, <2>1, <3>1 DEF TypesHold, tables, Finished
  <2>6. Building'
    BY <1>1, <1>2, <2>1, <2>4, <2>5 DEF Building
  <2>7. AnswerIsOfOneInstant'
    BY <1>1, <2>1 DEF AnswerIsOfOneInstant, Answered
  <2>8. QED
    BY <1>1, <2>1, <2>2, <2>6, <2>7 DEF ReportsInv, Finished
<1>7. QED
  BY <1>1, <1>4, <1>5, <1>6

LEMMA DeliverStep == ReportsInv /\ Deliver /\ Observe => ReportsInv'
<1> SUFFICES ASSUME ReportsInv, Deliver PROVE ReportsInv'
  OBVIOUS
<1>1. report' = NoReport /\ UNCHANGED tables
  BY DEF Deliver
<1>2. Tables' /\ report'.kind = None
  BY <1>1, TablesStay DEF NoReport
<1>3. Building' /\ AnswerIsOfOneInstant'
  BY <1>1, NoReportFields DEF Building, AnswerIsOfOneInstant, Answered
<1>4. QED
  BY <1>1, <1>2, <1>3, NoReportFields DEF ReportsInv, Finished
-----------------------------------------------------------------------------
(* Meanwhile, in routes-srv. *)

(* What the answers being put together need of a step of routes-srv:       *)
(* finished trips stay as they are, and so do the routes of trips.         *)
Respects ==
  /\ \A row \in FindAll : row.status = "TERMINADO" => row \in FindAll'
  /\ \A row \in FindAll : routes'[row.route] = routes[row.route]
  /\ \A t \in TripIds : trips[t].status # "unused" => trips'[t].route = trips[t].route

LEMMA RespectfulStep ==
  ASSUME ReportsInv, Observe, Tables', Respects, UNCHANGED report, report.pc # "done"
  PROVE  ReportsInv'
<1> DEFINE done == Finished(report.trips)
<1>1. done \subseteq FindAll
  BY DEF ReportsInv
<1>2. done \subseteq FindAll'
  BY <1>1 DEF Respects, Finished
<1>3. report.pc # "idle" => moments \subseteq moments'
  BY DEF Observe
<1>4. \A row \in done : /\ row.id \in TripIds /\ trips[row.id] = row /\ trips'[row.id] = row
                         /\ routes'[row.route] = routes[row.route]
  <2> SUFFICES ASSUME NEW row \in done
               PROVE  /\ row.id \in TripIds /\ trips[row.id] = row /\ trips'[row.id] = row
                      /\ routes'[row.route] = routes[row.route]
    OBVIOUS
  <2>1. row.id \in TripIds /\ trips[row.id] = row
    BY <1>1, RowsOfTables DEF ReportsInv
  <2>2. trips'[row.id] = row
    <3>1. PICK t \in TripIds : trips'[t] = row
      BY <1>2 DEF FindAll, Used
    <3>2. QED
      BY <3>1 DEF Tables
  <2>3. QED
    BY <1>1, <2>1, <2>2 DEF Respects
<1>5. CASE report.pc = "getRoutes"
  <2>1. PerType(report.trips, TypesOfTrips(report.trips)') = PerType(report.trips, TypesOfTrips(report.trips))
    <3>1. \A row \in done : TypesOfTrips(report.trips)'[row.id] = TypesOfTrips(report.trips)[row.id]
      BY <1>4, FinishedOf DEF TypesOfTrips
    <3>2. QED
      BY <3>1, PerTypeSame
  <2>2. TypesHold /\ DOMAIN report.types \subseteq {row.id : row \in done}
    BY <1>5 DEF ReportsInv, Building, TypesHold
  <2>3. TypesHold'
    BY <1>4, <2>2 DEF TypesHold
  <2>4. QED
    BY <1>2, <1>3, <1>5, <2>1, <2>3 DEF ReportsInv, Building, AnswerIsOfOneInstant, Answered, Finished
<1>6. CASE report.pc = "listRoutes"
  <2>1. {row.route : row \in done} \cap DOMAIN ListRoutes' = {row.route : row \in done} \cap DOMAIN ListRoutes
    <3>1. {row.route : row \in done} \cap DOMAIN ListRoutes = {row.route : row \in done}
      BY <1>1, RoutesAreListed DEF ReportsInv
    <3>2. {row.route : row \in done} \cap DOMAIN ListRoutes' = {row.route : row \in done}
      <4>1. \A row \in done : row.route \in LiveRoutes'
        BY <1>4 DEF Tables, Finished
      <4>2. QED
        BY <4>1 DEF ListRoutes
    <3>3. QED
      BY <3>1, <3>2
  <2>2. Compute(report.kind, report.about, report.trips, ListRoutes')
        = Compute(report.kind, report.about, report.trips, ListRoutes)
    <3>1. CASE report.kind = "routes"
      BY <2>1, <3>1, PerRouteSame DEF Compute
    <3>2. CASE report.kind = "vehicleRoutes"
      BY <1>6, <2>1, <3>2, PerVehicleRouteSame DEF Compute, ReportsInv, Building
    <3>3. QED
      BY <1>6, <3>1, <3>2 DEF ReportsInv, Building
  <2>3. QED
    BY <1>2, <1>3, <1>6, <2>2 DEF ReportsInv, Building, AnswerIsOfOneInstant, Answered, Finished
<1>7. CASE report.pc \in {"idle", "listTrips"}
  BY <1>2, <1>7 DEF ReportsInv, Building, AnswerIsOfOneInstant, Answered, Finished
<1>8. QED
  BY <1>5, <1>6, <1>7 DEF ReportsInv
(* An edit of a trip that is not finished, and stays on its route. *)
LEMMA TripEdited ==
  ASSUME ReportsInv, Observe, NEW t \in TripIds, NEW row \in Trip, Write(t, row),
         updates' \in 0..MaxUpdates,
         trips[t].status # "TERMINADO", row.id = t, row.status # "unused",
         row.route \in LiveRoutes,
         trips[t].status # "unused" => row.route = trips[t].route,
         row.start = None <=> row.status \in {"unused", "CREADO"},
         row.end = None <=> row.status \notin {"EN_REVISION", "TERMINADO"}
  PROVE  ReportsInv'
<1>1. /\ trips' = [trips EXCEPT ![t] = row] /\ UNCHANGED <<routes, today, report>>
      /\ report.pc # "done" /\ Tables /\ LiveRoutes' = LiveRoutes
  BY DEF Write, ReportsInv, LiveRoutes
<1>2. Tables'
  BY <1>1 DEF Tables
<1>3. Respects
  <2>1. ASSUME NEW other \in FindAll, other.status = "TERMINADO" PROVE other \in FindAll'
    <3>1. other.id \in TripIds /\ trips[other.id] = other /\ other.id # t
      BY <1>1, <2>1, RowsOfTables
    <3>2. trips'[other.id] = other
      BY <1>1, <3>1 DEF Tables
    <3>3. QED
      BY <2>1, <3>1, <3>2 DEF FindAll, Used
  <2>2. \A u \in TripIds : trips[u].status # "unused" => trips'[u].route = trips[u].route
    BY <1>1 DEF Tables
  <2>3. QED
    BY <1>1, <2>1, <2>2 DEF Respects
<1>4. QED
  BY <1>1, <1>2, <1>3, RespectfulStep

(* An edit of a route without trips. *)
LEMMA RouteEdited ==
  ASSUME ReportsInv, Observe, NEW rt \in RouteIds, NEW row \in Route, EditRoute(rt, row), ~HasTrips(rt)
  PROVE  ReportsInv'
<1>1. /\ routes' = [routes EXCEPT ![rt] = row] /\ UNCHANGED <<trips, today, updates, report>>
      /\ report.pc # "done" /\ Tables
  BY DEF EditRoute, ReportsInv
<1>2. FindAll' = FindAll
  BY <1>1 DEF FindAll, Used
<1>3. \A t \in TripIds : trips[t].status # "unused" => trips[t].route # rt
  BY DEF HasTrips, Used
<1>4. Tables'
  BY <1>1, <1>3 DEF Tables, LiveRoutes
<1>5. Respects
  <2>1. \A other \in FindAll : other.route # rt
    BY <1>1, <1>3, RowsOfTables
  <2>2. \A other \in FindAll : routes'[other.route] = routes[other.route]
    BY <1>1, <2>1, RowsOfTables DEF Tables, LiveRoutes
  <2>3. QED
    BY <1>1, <1>2, <2>2 DEF Respects
<1>6. QED
  BY <1>1, <1>4, <1>5, RespectfulStep

LEMMA NoneIsNotADay == None \notin Days /\ None \notin RouteIds
BY FuelConstants DEF Days

LEMMA TripOf ==
  ASSUME ReportsInv, NEW t \in TripIds
  PROVE  /\ trips[t] \in Trip /\ trips[t].id = t
         /\ trips[t].start = None <=> trips[t].status \in {"unused", "CREADO"}
         /\ trips[t].end = None <=> trips[t].status \notin {"EN_REVISION", "TERMINADO"}
         /\ trips[t].status # "unused" => trips[t].route \in LiveRoutes
         /\ today \in Days /\ updates \in 0..MaxUpdates
BY DEF ReportsInv, Tables

(* Rows written. *)
LEMMA RowStarted ==
  ASSUME NEW row \in Trip, NEW day \in Days
  PROVE  LET new == [row EXCEPT !.status = "EN_RUTA", !.start = day]
         IN  /\ new \in Trip /\ new.id = row.id /\ new.status = "EN_RUTA" /\ new.route = row.route
             /\ new.start = day /\ new.end = row.end
BY DEF Trip, TripStatus

LEMMA RowFinished ==
  ASSUME NEW row \in Trip, NEW day \in Days
  PROVE  LET new == [row EXCEPT !.status = "EN_REVISION", !.end = day]
         IN  /\ new \in Trip /\ new.id = row.id /\ new.status = "EN_REVISION" /\ new.route = row.route
             /\ new.start = row.start /\ new.end = day
BY DEF Trip, TripStatus

LEMMA RowReviewed ==
  ASSUME NEW row \in Trip, NEW actual \in Nat
  PROVE  LET new == [row EXCEPT !.status = "TERMINADO", !.actual = actual]
         IN  /\ new \in Trip /\ new.id = row.id /\ new.status = "TERMINADO" /\ new.route = row.route
             /\ new.start = row.start /\ new.end = row.end
BY DEF Trip, TripStatus

LEMMA NewTrip ==
  ASSUME NEW t \in TripIds
  PROVE  /\ NoTrip(t) \in Trip /\ NoTrip(t).status = "unused" /\ NoTrip(t).id = t
         /\ NoTrip(t).start = None /\ NoTrip(t).end = None
BY DEF NoTrip, Trip

LEMMA CreateTripStep ==
  ASSUME ReportsInv, Observe, NEW t \in TripIds, NEW rt \in RouteIds, NEW d \in Drivers,
         NEW v \in Vehicles, NEW estimate \in Estimates, CreateTrip(t, rt, d, v, estimate)
  PROVE  ReportsInv'
<1> DEFINE row == [NoTrip(t) EXCEPT !.status = "CREADO", !.route = rt, !.driver = d, !.vehicle = v,
                                    !.estimated = estimate]
<1>1. /\ row \in Trip /\ row.id = t /\ row.status = "CREADO" /\ row.route = rt
      /\ row.start = None /\ row.end = None
  <2>1. estimate \in Nat
    BY FuelConstants
  <2>2. NoTrip(t) \in Trip /\ NoTrip(t).id = t /\ NoTrip(t).start = None /\ NoTrip(t).end = None
    BY NewTrip
  <2>3. QED
    <3>1. row \in Trip
      BY <2>1, <2>2 DEF Trip, TripStatus
    <3>2. /\ row.id = NoTrip(t).id /\ row.status = "CREADO" /\ row.route = rt
          /\ row.start = NoTrip(t).start /\ row.end = NoTrip(t).end
      BY <2>2 DEF Trip
    <3>3. QED
      BY <2>2, <3>1, <3>2
<1>2. Write(t, row) /\ UNCHANGED updates /\ trips[t].status = "unused" /\ rt \in LiveRoutes
  BY DEF CreateTrip, Edit, LiveRoutes
<1> HIDE DEF row
<1>3. QED
  BY <1>1, <1>2, TripOf, TripEdited

LEMMA UpdateTripStep ==
  ASSUME ReportsInv, Observe, NEW t \in TripIds, NEW d \in Drivers, NEW v \in Vehicles,
         UpdateTrip(t, d, v)
  PROVE  ReportsInv'
<1> DEFINE row == [trips[t] EXCEPT !.driver = d, !.vehicle = v]
<1>1. /\ row \in Trip /\ row.id = t /\ row.status = trips[t].status /\ row.route = trips[t].route
      /\ row.start = trips[t].start /\ row.end = trips[t].end
  <2>1. trips[t] \in Trip /\ trips[t].id = t /\ today \in Days
    BY TripOf
  <2>2. QED
    BY <2>1 DEF Trip
<1>2. Write(t, row) /\ updates' = updates + 1 /\ updates < MaxUpdates /\ trips[t].status = "CREADO"
  BY DEF UpdateTrip
<1>3. updates' \in 0..MaxUpdates
  BY <1>2, TripOf, FuelConstants
<1> HIDE DEF row
<1>4. QED
  BY <1>1, <1>2, <1>3, TripOf, TripEdited

LEMMA StartTripStep ==
  ASSUME ReportsInv, Observe, NEW t \in TripIds, StartTrip(t)
  PROVE  ReportsInv'
<1> DEFINE row == [trips[t] EXCEPT !.status = "EN_RUTA", !.start = today]
<1>1. /\ row \in Trip /\ row.id = t /\ row.status = "EN_RUTA" /\ row.route = trips[t].route
      /\ row.start = today /\ row.end = trips[t].end
  <2>1. trips[t] \in Trip /\ trips[t].id = t /\ today \in Days
    BY TripOf
  <2>2. QED
    BY <2>1, RowStarted
<1>2. Write(t, row) /\ UNCHANGED updates /\ trips[t].status = "CREADO"
  BY DEF StartTrip, Edit
<1> HIDE DEF row
<1>3. QED
  BY <1>1, <1>2, TripOf, NoneIsNotADay, TripEdited

LEMMA FinishTripStep ==
  ASSUME ReportsInv, Observe, NEW t \in TripIds, FinishTrip(t)
  PROVE  ReportsInv'
<1> DEFINE row == [trips[t] EXCEPT !.status = "EN_REVISION", !.end = today]
<1>1. /\ row \in Trip /\ row.id = t /\ row.status = "EN_REVISION" /\ row.route = trips[t].route
      /\ row.start = trips[t].start /\ row.end = today
  <2>1. trips[t] \in Trip /\ trips[t].id = t /\ today \in Days
    BY TripOf
  <2>2. QED
    BY <2>1, RowFinished
<1>2. Write(t, row) /\ UNCHANGED updates /\ trips[t].status = "EN_RUTA"
  BY DEF FinishTrip, Edit
<1> HIDE DEF row
<1>3. QED
  BY <1>1, <1>2, TripOf, NoneIsNotADay, TripEdited

LEMMA ReviewTripStep ==
  ASSUME ReportsInv, Observe, NEW t \in TripIds, NEW actual \in Actuals, ReviewTrip(t, actual)
  PROVE  ReportsInv'
<1> DEFINE row == [trips[t] EXCEPT !.status = "TERMINADO", !.actual = actual]
<1>1. /\ row \in Trip /\ row.id = t /\ row.status = "TERMINADO" /\ row.route = trips[t].route
      /\ row.start = trips[t].start /\ row.end = trips[t].end
  <2>1. trips[t] \in Trip /\ trips[t].id = t /\ today \in Days /\ actual \in Nat
    BY TripOf, FuelConstants
  <2>2. QED
    BY <2>1, RowReviewed
<1>2. Write(t, row) /\ UNCHANGED updates /\ trips[t].status = "EN_REVISION"
  BY DEF ReviewTrip, Edit
<1> HIDE DEF row
<1>3. QED
  BY <1>1, <1>2, TripOf, TripEdited

LEMMA RouteStep ==
  ASSUME ReportsInv, Observe, NEW rt \in RouteIds,
         (\E type \in Types : CreateRoute(rt, type) \/ UpdateRoute(rt, type)) \/ DeleteRoute(rt)
  PROVE  ReportsInv'
<1>1. routes[rt] \in Route
  BY DEF ReportsInv, Tables
<1>2. ASSUME NEW type \in Types, CreateRoute(rt, type) PROVE ReportsInv'
  <2>1. [state |-> "live", type |-> type] \in Route
    BY FuelConstants DEF Route
  <2>2. ~HasTrips(rt)
    BY <1>2 DEF CreateRoute, HasTrips, Used, ReportsInv, Tables, LiveRoutes
  <2>3. QED
    BY <1>2, <2>1, <2>2, RouteEdited DEF CreateRoute
<1>3. ASSUME NEW type \in Types, UpdateRoute(rt, type) PROVE ReportsInv'
  <2>1. [routes[rt] EXCEPT !.type = type] \in Route
    BY <1>1, FuelConstants DEF Route
  <2>2. QED
    BY <1>3, <2>1, RouteEdited DEF UpdateRoute
<1>4. CASE DeleteRoute(rt)
  <2>1. [routes[rt] EXCEPT !.state = "deleted"] \in Route
    BY <1>1 DEF Route
  <2>2. QED
    BY <1>4, <2>1, RouteEdited DEF DeleteRoute
<1>5. QED
  BY <1>2, <1>3, <1>4

LEMMA NextDayStep == ReportsInv /\ NextDay /\ Observe => ReportsInv'
<1> SUFFICES ASSUME ReportsInv, NextDay, Observe PROVE ReportsInv'
  OBVIOUS
<1>1. /\ UNCHANGED <<trips, routes, updates, report>> /\ report.pc # "done"
      /\ today' = today + 1 /\ today < MaxDay /\ Tables
  BY DEF NextDay, ReportsInv
<1>2. today' \in Days
  BY <1>1, FuelConstants DEF Tables, Days
<1>3. Tables'
  BY <1>1, <1>2 DEF Tables, LiveRoutes
<1>4. Respects
  BY <1>1, SameAnswers DEF Respects
<1>5. QED
  BY <1>1, <1>3, <1>4, RespectfulStep

LEMMA MeanwhileStep == ReportsInv /\ Meanwhile /\ Observe => ReportsInv'
BY CreateTripStep, UpdateTripStep, StartTripStep, FinishTripStep, ReviewTripStep, RouteStep, NextDayStep
   DEF Meanwhile

-----------------------------------------------------------------------------

LEMMA ReportsBegin == ReportsInit => ReportsInv
<1> SUFFICES ASSUME ReportsInit PROVE ReportsInv
  OBVIOUS
<1>1. \A t \in TripIds : NoTrip(t) \in Trip /\ NoTrip(t).status = "unused" /\ NoTrip(t).id = t
                          /\ NoTrip(t).start = None /\ NoTrip(t).end = None
  BY NewTrip
<1>2. NoRoute \in Route
  BY DEF NoRoute, Route, VehicleTypes
<1>3. Tables
  BY <1>1, <1>2, FuelConstants DEF ReportsInit, Tables, Days
<1>4. report.kind = None
  BY DEF ReportsInit, NoReport
<1>5. Building /\ AnswerIsOfOneInstant
  BY NoReportFields DEF ReportsInit, Building, AnswerIsOfOneInstant, Answered
<1>6. QED
  BY <1>3, <1>4, <1>5, NoReportFields, NothingFinished DEF ReportsInit, ReportsInv

LEMMA ReportsStep == ReportsInv /\ [ReportsNext]_reportsVars => ReportsInv'
<1> SUFFICES ASSUME ReportsInv, [ReportsNext]_reportsVars PROVE ReportsInv'
  OBVIOUS
<1>1. CASE ReportsNext
  BY <1>1, GenerateStep, GetRouteStep, ThenListRoutesStep, ThenListTripsStep, DeliverStep, MeanwhileStep
     DEF ReportsNext, Step
<1>2. CASE UNCHANGED reportsVars
  <2>1. UNCHANGED <<tables, report, moments>>
    BY <1>2 DEF reportsVars
  <2>2. Tables' /\ FindAll' = FindAll /\ ListRoutes' = ListRoutes /\ \A T : TypesOfTrips(T)' = TypesOfTrips(T)
    BY <2>1, TablesStay, SameAnswers DEF tables
  <2>3. Building'
    BY <2>1, <2>2 DEF ReportsInv, Building, TypesHold, tables
  <2>4. AnswerIsOfOneInstant'
    BY <2>1 DEF ReportsInv, AnswerIsOfOneInstant, Answered
  <2>5. QED
    BY <2>1, <2>2, <2>3, <2>4 DEF ReportsInv, Fields, Finished
<1>3. QED
  BY <1>1, <1>2

(* The tables stay well typed, with a start and an end where the status    *)
(* says so, and the finished trips a report holds are those of the table.  *)
THEOREM ReportsTypes == ReportsSpec => []ReportsTypeOK
<1>1. ReportsInv => ReportsTypeOK
  BY DEF ReportsInv, Tables, ReportsTypeOK
<1>2. QED
  BY ReportsBegin, ReportsStep, <1>1, PTL DEF ReportsSpec

(* For any number of trips and routes, whatever is created, driven, edited *)
(* and reviewed between the calls of a report: what it answers was true at *)
(* one instant.                                                            *)
THEOREM ReportsAreOfOneInstant == ReportsSpec => []AnswerIsOfOneInstant
<1>1. ReportsInv => AnswerIsOfOneInstant
  BY DEF ReportsInv
<1>2. QED
  BY ReportsBegin, ReportsStep, <1>1, PTL DEF ReportsSpec

(* What makes the totals of ReportsAgree equal, short of adding them up:   *)
(* read at one instant, every trip of a period has a row in the report by  *)
(* type and in the report by route, every trip has one in the summary by   *)
(* route and in the ranking, and no trip is listed as two.                 *)
EveryTripHasItsRow ==
  /\ \A from, to \in Days :
       LET T     == FindAllByTimeRange(from, to)
           types == TypesOfTrips(T)
       IN  /\ UNION {{row \in Finished(T) : types[row.id] = k} : k \in VehicleTypes} = Finished(T)
           /\ {row.route : row \in Finished(T)} \subseteq DOMAIN ListRoutes
  /\ {row.route : row \in FindAll} \subseteq DOMAIN ListRoutes
  /\ {row.status : row \in FindAll} \subseteq TripStatus
  /\ \A row, other \in FindAll : row.id = other.id => row = other

(* The routes of trips are neither deleted nor of another type while they  *)
(* have trips, so no grouping of the trips of an instant leaves one out.   *)
THEOREM NoTripIsLeftOut == ReportsSpec => []EveryTripHasItsRow
<1>1. ASSUME Tables PROVE EveryTripHasItsRow
  <2>1. ASSUME NEW row \in FindAll
        PROVE  /\ row.id \in TripIds /\ row = trips[row.id] /\ row.status \in TripStatus
               /\ row.route \in RouteIds /\ row.route \in DOMAIN ListRoutes
               /\ routes[row.route].type \in VehicleTypes
    <3>1. PICK t \in Used : row = trips[t]
      BY DEF FindAll
    <3>2. /\ t \in TripIds /\ trips[t] \in Trip /\ trips[t].id = t
          /\ trips[t].status # "unused" /\ trips[t].route \in LiveRoutes
      BY <1>1, <3>1 DEF Tables, Used
    <3>3. routes[trips[t].route] \in Route
      BY <1>1, <3>2 DEF Tables, LiveRoutes
    <3>4. QED
      BY <3>1, <3>2, <3>3 DEF Trip, Route, LiveRoutes, ListRoutes
  <2>2. ASSUME NEW from \in Days, NEW to \in Days
        PROVE  LET T     == FindAllByTimeRange(from, to)
                   types == TypesOfTrips(T)
               IN  /\ UNION {{row \in Finished(T) : types[row.id] = k} : k \in VehicleTypes}
                        = Finished(T)
                   /\ {row.route : row \in Finished(T)} \subseteq DOMAIN ListRoutes
    <3> DEFINE T == FindAllByTimeRange(from, to)
               types == TypesOfTrips(T)
    <3>1. T \subseteq FindAll /\ Finished(T) \subseteq T
      BY DEF FindAllByTimeRange, Finished
    <3>2. ASSUME NEW row \in T PROVE types[row.id] \in VehicleTypes
      <4>1. row \in FindAll
        BY <3>1
      <4>2. row.id \in {other.id : other \in T}
        OBVIOUS
      <4>3. types[row.id] = routes[trips[row.id].route].type
        BY <4>2 DEF TypesOfTrips
      <4>4. trips[row.id] = row
        BY <2>1, <4>1
      <4>5. QED
        BY <2>1, <4>1, <4>3, <4>4
    <3> HIDE DEF T, types
    <3>3. UNION {{row \in Finished(T) : types[row.id] = k} : k \in VehicleTypes} = Finished(T)
      BY <3>1, <3>2
    <3>4. {row.route : row \in Finished(T)} \subseteq DOMAIN ListRoutes
      BY <2>1, <3>1
    <3>5. QED
      BY <3>3, <3>4 DEF T, types
  <2>3. \A row, other \in FindAll : row.id = other.id => row = other
    <3> SUFFICES ASSUME NEW row \in FindAll, NEW other \in FindAll, row.id = other.id
                 PROVE  row = other
      OBVIOUS
    <3>1. row = trips[row.id] /\ other = trips[other.id]
      BY <2>1
    <3>2. QED
      BY <3>1
  <2>4. /\ {row.route : row \in FindAll} \subseteq DOMAIN ListRoutes
        /\ {row.status : row \in FindAll} \subseteq TripStatus
    BY <2>1
  <2>5. QED
    BY <2>2, <2>3, <2>4 DEF EveryTripHasItsRow
<1>2. ReportsInv => EveryTripHasItsRow
  BY <1>1 DEF ReportsInv
<1>3. QED
  BY ReportsBegin, ReportsStep, <1>2, PTL DEF ReportsSpec

=============================================================================
