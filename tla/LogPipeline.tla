---------------------------- MODULE LogPipeline ----------------------------
(***************************************************************************)
(* The way of a log entry: users-srv calls publisher-rabbit-srv over gRPC, *)
(* that publishes to an exchange of RabbitMQ and waits for the confirm,    *)
(* and logger-svc consumes the queue and stores the entry.                 *)
(*                                                                         *)
(* Three processes and the broker fail on their own.  A process that loses *)
(* its connection by an error dies of it, since nobody listens for the     *)
(* error, and is started again by its container; one whose broker shuts    *)
(* down in good order is left with a closed channel and never opens        *)
(* another ("closed").                                                     *)
(*                                                                         *)
(* at[e] is how far the call of log for entry e is.  The broker's messages *)
(* are counted by entry: in the queue, received by logger-svc, or handled  *)
(* and not yet acknowledged.                                               *)
(*                                                                         *)
(* Left out: what an entry says and the message that is not JSON, which    *)
(* the publisher never sends; the choice of the broker's address.          *)
(*                                                                         *)
(* A definition called a variant is the one that follows it with a bug; it *)
(* shows that the properties tell the two apart, and is used nowhere.      *)
(***************************************************************************)
EXTENDS Naturals

CONSTANTS
  Logs,        \* entries that can be logged
  MaxFailures  \* bound: crashes of processes and stops of the broker

ASSUME PipelineConstants == MaxFailures \in Nat

VARIABLES
  at,         \* at[e]: how far the call of log for e is
  client,     \* the gRPC client users-srv keeps
  publisher,  \* the process of publisher-rabbit-srv
  consumer,   \* the process of logger-svc
  broker,     \* RabbitMQ
  bound,      \* whether logger-svc's queue exists and is bound
  queue, received, handled,   \* the broker's messages, by entry
  copies,     \* copies[e]: how often e has been stored
  unrouted,   \* history: entries published before there was a queue
  tried,      \* history: entries logger-svc has been through with
  requeued,   \* history: requeued[e]: how often the broker took e back
  failures    \* history: crashes and stops so far

messages == <<queue, received, handled>>

pipelineVars == <<at, client, publisher, consumer, broker, bound, messages, copies,
          unrouted, tried, requeued, failures>>

-----------------------------------------------------------------------------
(* Data. *)

Returned == {"ok", "failed"}

AtPublisher == {"publish", "confirm", "hung"}

Stages == {"new", "client", "send"} \cup AtPublisher \cup Returned

Processes == {"down", "starting", "ready", "closed"}

-----------------------------------------------------------------------------
(* users-srv: log and the client it makes once. *)

Move(e, stage) == at' = [at EXCEPT ![e] = stage]

(* ensureClient: one promise for all who ask while it is pending. *)
Log(e) ==
  /\ at[e] = "new"
  /\ Move(e, IF client = "ready" THEN "send" ELSE "client")
  /\ client' = IF client = "none" THEN "pending" ELSE client
  /\ UNCHANGED <<publisher, consumer, broker, bound, messages, copies,
                 unrouted, tried, requeued, failures>>

(* The promise settles, and everyone who awaits it goes on or gives up. *)
ClientSettles(outcome, stage) ==
  /\ client = "pending"
  /\ client' = outcome
  /\ at' = [e \in Logs |-> IF at[e] = "client" THEN stage ELSE at[e]]
  /\ UNCHANGED <<publisher, consumer, broker, bound, messages, copies,
                 unrouted, tried, requeued, failures>>

ClientReady == ClientSettles("ready", "send")

ClientFails == ClientSettles("none", "failed")

(* createLog of the publisher; a process that is down refuses the call. *)
Send(e) ==
  /\ at[e] = "send"
  /\ Move(e, IF publisher = "down" THEN "failed" ELSE "publish")
  /\ UNCHANGED <<client, publisher, consumer, broker, bound, messages, copies,
                 unrouted, tried, requeued, failures>>

-----------------------------------------------------------------------------
(* publisher-rabbit-srv *)

(* publishLog once ready is resolved.  Without a queue the exchange drops  *)
(* the message and confirms it all the same.                               *)
PublishLog(e) ==
  /\ at[e] = "publish"
  /\ publisher \in {"ready", "closed"}
  /\ IF publisher = "closed"
     THEN Move(e, "failed") /\ UNCHANGED <<queue, unrouted>>
     ELSE /\ Move(e, "confirm")
          /\ queue' = IF bound THEN [queue EXCEPT ![e] = @ + 1] ELSE queue
          /\ unrouted' = IF bound THEN unrouted ELSE unrouted \cup {e}
  /\ UNCHANGED <<client, publisher, consumer, broker, bound, received, handled,
                 copies, tried, requeued, failures>>

Confirmed(e) ==
  /\ at[e] = "confirm"
  /\ Move(e, "ok")
  /\ UNCHANGED <<client, publisher, consumer, broker, bound, messages, copies,
                 unrouted, tried, requeued, failures>>

(* Variant: log sends the entry again when the call fails. *)
CallsRetry ==
  at' = [e \in Logs |-> IF at[e] \in AtPublisher THEN "send" ELSE at[e]]

(* The calls that are with a process which dies fail. *)
CallsFail ==
  at' = [e \in Logs |-> IF at[e] \in AtPublisher THEN "failed" ELSE at[e]]

(* bootstrap: the gRPC server listens before onModuleInit has run. *)
StartPublisher ==
  /\ publisher = "down"
  /\ publisher' = "starting"
  /\ UNCHANGED <<at, client, consumer, broker, bound, messages, copies,
                 unrouted, tried, requeued, failures>>

(* Variant: onModuleInit logs the error and does not throw it again. *)
InitPublisherQuietly ==
  /\ publisher = "starting"
  /\ IF broker = "up"
     THEN publisher' = "ready"
     ELSE publisher' = "unready"
  /\ UNCHANGED <<at, client, consumer, broker, bound, messages, copies,
                 unrouted, tried, requeued, failures>>

(* onModuleInit: what it throws ends the process. *)
InitPublisher ==
  /\ publisher = "starting"
  /\ IF broker = "up"
     THEN publisher' = "ready" /\ UNCHANGED at
     ELSE publisher' = "down" /\ CallsFail
  /\ UNCHANGED <<client, consumer, broker, bound, messages, copies,
                 unrouted, tried, requeued, failures>>

-----------------------------------------------------------------------------
(* logger-svc *)

(* connect: declare the queue, bind it, consume; or throw and die. *)
ConnectConsumer ==
  /\ consumer = "down" /\ broker = "up"
  /\ consumer' = "ready"
  /\ bound' = TRUE
  /\ UNCHANGED <<at, client, publisher, broker, messages, copies, unrouted,
                 tried, requeued, failures>>

(* handleMessage; no prefetch, so several can be under way. *)
Receive(e) ==
  /\ consumer = "ready" /\ queue[e] > 0
  /\ queue' = [queue EXCEPT ![e] = @ - 1]
  /\ received' = [received EXCEPT ![e] = @ + 1]
  /\ UNCHANGED <<at, client, publisher, consumer, broker, bound, handled,
                 copies, unrouted, tried, requeued, failures>>

(* Variant: an entry that cannot be stored goes back to the queue. *)
LogToElasticOrRequeue(e) ==
  /\ received[e] > 0
  /\ received' = [received EXCEPT ![e] = @ - 1]
  /\ \/ /\ handled' = [handled EXCEPT ![e] = @ + 1]
        /\ copies' = [copies EXCEPT ![e] = @ + 1]
        /\ tried' = tried \cup {e}
        /\ UNCHANGED queue
     \/ /\ queue' = [queue EXCEPT ![e] = @ + 1]
        /\ UNCHANGED <<handled, copies, tried>>
  /\ UNCHANGED <<at, client, publisher, consumer, broker, bound, unrouted,
                 requeued, failures>>

(* logToElastic stores the entry, or fails and says nothing. *)
LogToElastic(e) ==
  /\ received[e] > 0
  /\ received' = [received EXCEPT ![e] = @ - 1]
  /\ handled' = [handled EXCEPT ![e] = @ + 1]
  /\ tried' = tried \cup {e}
  /\ \E stored \in {0, 1} : copies' = [copies EXCEPT ![e] = @ + stored]
  /\ UNCHANGED <<at, client, publisher, consumer, broker, bound, queue,
                 unrouted, requeued, failures>>

Ack(e) ==
  /\ handled[e] > 0
  /\ handled' = [handled EXCEPT ![e] = @ - 1]
  /\ UNCHANGED <<at, client, publisher, consumer, broker, bound, queue, received,
                 copies, unrouted, tried, requeued, failures>>

-----------------------------------------------------------------------------
(* Failures. *)

Fails == failures < MaxFailures /\ failures' = failures + 1

Unacked(e) == received[e] + handled[e]

(* Variant: the queue is consumed with noAck. *)
TakeBackNone ==
  /\ received' = [e \in Logs |-> 0]
  /\ handled' = [e \in Logs |-> 0]
  /\ UNCHANGED <<queue, requeued>>

(* The broker takes back what a lost consumer has not acknowledged. *)
TakeBack ==
  /\ queue' = [e \in Logs |-> queue[e] + Unacked(e)]
  /\ requeued' = [e \in Logs |-> requeued[e] + Unacked(e)]
  /\ received' = [e \in Logs |-> 0]
  /\ handled' = [e \in Logs |-> 0]

CrashPublisher ==
  /\ Fails
  /\ publisher # "down"
  /\ publisher' = "down"
  /\ CallsFail
  /\ UNCHANGED <<client, consumer, broker, bound, messages, copies, unrouted,
                 tried, requeued>>

CrashConsumer ==
  /\ Fails
  /\ consumer # "down"
  /\ consumer' = "down"
  /\ TakeBack
  /\ UNCHANGED <<at, client, publisher, broker, bound, copies, unrouted, tried>>

(* The broker closes its connections and keeps its durable queue; a call   *)
(* that waits for a confirm gets an error or nothing.                      *)
StopBroker ==
  /\ Fails
  /\ broker = "up"
  /\ broker' = "down"
  /\ publisher' = IF publisher = "ready" THEN "closed" ELSE publisher
  /\ consumer' = IF consumer = "ready" THEN "closed" ELSE consumer
  /\ \E outcome \in {"failed", "hung"} :
       at' = [e \in Logs |-> IF at[e] = "confirm" THEN outcome ELSE at[e]]
  /\ TakeBack
  /\ UNCHANGED <<client, bound, copies, unrouted, tried>>

StartBroker ==
  /\ broker = "down"
  /\ broker' = "up"
  /\ UNCHANGED <<at, client, publisher, consumer, bound, messages, copies,
                 unrouted, tried, requeued, failures>>

-----------------------------------------------------------------------------
(* The specification. *)

NoMessages == [e \in Logs |-> 0]

PipelineInit ==
  /\ at = [e \in Logs |-> "new"]
  /\ client = "none"
  /\ publisher = "down" /\ consumer = "down" /\ broker = "up"
  /\ bound = FALSE
  /\ queue = NoMessages /\ received = NoMessages /\ handled = NoMessages
  /\ copies = NoMessages /\ requeued = NoMessages
  /\ unrouted = {} /\ tried = {}
  /\ failures = 0

Call(e) == Send(e) \/ PublishLog(e) \/ Confirmed(e)

Settle == ClientReady \/ ClientFails

Handle(e) == Receive(e) \/ LogToElastic(e) \/ Ack(e)

Restart == StartPublisher \/ InitPublisher \/ ConnectConsumer \/ StartBroker

Outage == CrashPublisher \/ CrashConsumer \/ StopBroker

PipelineNext ==
  \/ \E e \in Logs : Log(e) \/ Call(e) \/ Handle(e)
  \/ Settle \/ Restart \/ Outage

PipelineSpec == PipelineInit /\ [][PipelineNext]_pipelineVars

(* What has begun goes on, and the containers start again what died; that  *)
(* anybody logs, or that anything fails, is nobody's promise.              *)
FairPipelineSpec ==
  /\ PipelineSpec
  /\ WF_pipelineVars(Settle)
  /\ \A e \in Logs : WF_pipelineVars(Call(e))
  /\ \A e \in Logs : /\ WF_pipelineVars(Receive(e))
                     /\ WF_pipelineVars(LogToElastic(e))
                     /\ WF_pipelineVars(Ack(e))
  /\ WF_pipelineVars(StartPublisher) /\ WF_pipelineVars(InitPublisher)
  /\ WF_pipelineVars(ConnectConsumer) /\ WF_pipelineVars(StartBroker)

-----------------------------------------------------------------------------
(* Properties. *)

PipelineTypeOK ==
  /\ at \in [Logs -> Stages]
  /\ client \in {"none", "pending", "ready"}
  /\ publisher \in Processes
  /\ consumer \in Processes \ {"starting"}
  /\ broker \in {"up", "down"}
  /\ bound \in BOOLEAN
  /\ \A counts \in {queue, received, handled, copies, requeued} :
       counts \in [Logs -> Nat]
  /\ unrouted \subseteq Logs /\ tried \subseteq Logs
  /\ failures \in 0 .. MaxFailures

(* An entry whose caller was told it is logged is in the queue, with       *)
(* logger-svc, or has been through logToElastic, whatever crashed since;   *)
(* the one exception is an entry published before logger-svc ever bound    *)
(* its queue (handleMessage acknowledges last, connect makes the queue).   *)
NoConfirmedLogLost ==
  \A e \in Logs :
    at[e] = "ok" =>
      \/ queue[e] + Unacked(e) > 0
      \/ e \in tried
      \/ e \in unrouted

(* An entry is stored twice only if the broker had to take it back from    *)
(* logger-svc: log and publishLog never send an entry a second time.       *)
CopiesBound == \A e \in Logs : copies[e] <= 1 + requeued[e]

(* A call of log comes back, unless the broker shut down while it waited   *)
(* for the confirm: ready is resolved, or the process that owes it dies.   *)
LogReturns ==
  \A e \in Logs : at[e] \in {"client", "send", "publish"} ~> at[e] \in Returned \cup {"hung"}

(* A queued entry gets to logToElastic, unless a shutdown of the broker    *)
(* has cut logger-svc off (connect runs at the start of the process only). *)
QueuedIsTried ==
  \A e \in Logs : queue[e] > 0 ~> (e \in tried \/ consumer = "closed")

=============================================================================
