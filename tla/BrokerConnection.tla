-------------------------- MODULE BrokerConnection --------------------------
(***************************************************************************)
(* One process's connection to RabbitMQ (cjwstate/rabbitmq/connection.py,  *)
(* class RetryingConnection): a task, started by get_connection(), connects*)
(* and reconnects; publishers wait for it.  The process consumes Queues, as*)
(* a renderer or a fetcher does; others publish only (Queues = {}).        *)
(*                                                                         *)
(* A step ends at an "await" that may really wait: what asyncio runs       *)
(* without one, no other task sees the middle of.                          *)
(***************************************************************************)
EXTENDS Integers

CONSTANTS Queues,     \* what declare_queue_consume() was called with
          Publishers,
          Target,     \* Target[p]: the queue that p publishes to, or Groups
          Attempts,   \* RetryingConnection.attempts
          MaxFaults   \* bound: connections lost, brokers stopped

Groups == "groups"    \* the exchange of Django Channels, which is not durable

VARIABLES
  monitor,   \* connect_forever(): "connecting", "declaring" or "consuming" (parts of
             \* _attempt_connect()), "watching", "ended" or "failed"
  attempt,   \* attempts that failed since the last that did not
  connected, \* the event _connected
  open,      \* is the connection that self._connection names open?
  isClosed,  \* the event is_closed
  declared,  \* Groups \in self._declared_exchanges
  publisher, \* publisher[p]: "idle", "waiting", "declaring" the exchange, "sending",
             \* "returned" or "raised"
  broker,    \* [up, queues, exchange, consumers]
  closer,    \* close(): "none", "waiting" or "done"
  faults,
  lost       \* publishers whose message RabbitMQ had no place for (auxiliary)

vars == <<monitor, attempt, connected, open, isClosed, declared, publisher, broker, closer,
          faults, lost>>

Init ==
  /\ monitor = "connecting" /\ attempt = 0 /\ connected = FALSE
  /\ open = FALSE /\ isClosed = FALSE /\ declared = FALSE
  /\ publisher = [p \in Publishers |-> "idle"] /\ closer = "none" /\ faults = 0 /\ lost = {}
  /\ broker \in [up : BOOLEAN, queues : {{}}, exchange : {FALSE}, consumers : {{}}]

-----------------------------------------------------------------------------
(* connect_forever(), connect(), _connect(), _attempt_connect()            *)

Connecting == monitor \in {"connecting", "declaring", "consuming"}

Raised == [p \in Publishers |->
             IF publisher[p] \in {"declaring", "sending"} THEN "raised" ELSE publisher[p]]

Reach ==
  /\ monitor = "connecting" /\ broker.up
  /\ monitor' = "declaring"
  /\ UNCHANGED <<attempt, connected, open, isClosed, declared, publisher, broker, closer,
                 faults, lost>>

(* All queues, before any callback may run.                                *)
DeclareQueues ==
  /\ monitor = "declaring" /\ broker.up
  /\ broker' = [broker EXCEPT !.queues = @ \cup Queues]
  /\ monitor' = "consuming"
  /\ UNCHANGED <<attempt, connected, open, isClosed, declared, publisher, closer, faults, lost>>

Consume(q) ==
  /\ monitor = "consuming" /\ broker.up /\ q \notin broker.consumers
  /\ broker' = [broker EXCEPT !.consumers = @ \cup {q}]
  /\ UNCHANGED <<monitor, attempt, connected, open, isClosed, declared, publisher, closer,
                 faults, lost>>

(* The new connection knows no exchange.                                   *)
Connected ==
  /\ monitor = "consuming" /\ broker.consumers = Queues /\ broker.up
  /\ monitor' = "watching" /\ attempt' = 0
  /\ connected' = TRUE /\ open' = TRUE /\ declared' = FALSE
  /\ UNCHANGED <<isClosed, publisher, broker, closer, faults, lost>>

(* An attempt fails.  While it starts consumers, the error never gets to   *)
(* _connect(): logger.exception() lacks its argument, and raises TypeError.*)
AttemptFails ==
  /\ Connecting /\ ~broker.up
  /\ IF (monitor = "consuming" /\ Queues # {}) \/ isClosed \/ attempt + 1 = Attempts
     THEN monitor' = "failed" /\ UNCHANGED attempt
     ELSE monitor' = "connecting" /\ attempt' = attempt + 1
  /\ UNCHANGED <<connected, open, isClosed, declared, publisher, broker, closer, faults, lost>>

(* "await self._connection.closing" is over.                               *)
Reconnect ==
  /\ monitor = "watching" /\ ~open
  /\ IF isClosed THEN monitor' = "ended" /\ UNCHANGED connected
                 ELSE monitor' = "connecting" /\ connected' = FALSE
  /\ UNCHANGED <<attempt, open, isClosed, declared, publisher, broker, closer, faults, lost>>

-----------------------------------------------------------------------------
(* publish()                                                               *)

Publish(p) ==
  /\ publisher[p] = "idle" /\ publisher' = [publisher EXCEPT ![p] = "waiting"]
  /\ UNCHANGED <<monitor, attempt, connected, open, isClosed, declared, broker, closer,
                 faults, lost>>

(* Mutant: the exchange is noted as declared before RabbitMQ has answered. *)
EnsureConnectedHastily(p) ==
  /\ publisher[p] = "waiting" /\ connected
  /\ publisher' = [publisher EXCEPT ![p] =
       IF ~open THEN "raised" ELSE IF Target[p] = Groups /\ ~declared THEN "declaring"
       ELSE "sending"]
  /\ declared' = (declared \/ publisher'[p] = "declaring")
  /\ UNCHANGED <<monitor, attempt, connected, open, isClosed, broker, closer, faults, lost>>

(* _ensure_connected(), and what publish() does until it awaits again.     *)
EnsureConnected(p) ==
  /\ publisher[p] = "waiting" /\ connected
  /\ publisher' = [publisher EXCEPT ![p] =
       IF ~open THEN "raised" ELSE IF Target[p] = Groups /\ ~declared THEN "declaring"
       ELSE "sending"]
  /\ UNCHANGED <<monitor, attempt, connected, open, isClosed, declared, broker, closer,
                 faults, lost>>

DeclareExchange(p) ==
  /\ publisher[p] = "declaring" /\ publisher' = [publisher EXCEPT ![p] = "sending"]
  /\ broker' = [broker EXCEPT !.exchange = TRUE] /\ declared' = TRUE
  /\ UNCHANGED <<monitor, attempt, connected, open, isClosed, closer, faults, lost>>

(* RabbitMQ confirms, though it have no such queue.  (Were there no such   *)
(* exchange, it would close the channel, and publish() raise, for ever.)   *)
Send(p) ==
  /\ publisher[p] = "sending" /\ publisher' = [publisher EXCEPT ![p] = "returned"]
  /\ lost' = IF (Target[p] = Groups /\ broker.exchange) \/ Target[p] \in broker.queues
             THEN lost ELSE lost \cup {p}
  /\ UNCHANGED <<monitor, attempt, connected, open, isClosed, declared, broker, closer, faults>>

-----------------------------------------------------------------------------
(* loop.close(), wrapped by get_connection(), calls close().               *)
Close ==
  /\ closer = "none" /\ closer' = "waiting" /\ isClosed' = TRUE
  /\ UNCHANGED <<monitor, attempt, connected, open, declared, publisher, broker, faults, lost>>

(* "Currently, closing a connection means waiting for it to open first."   *)
CloseOpened ==
  /\ closer = "waiting" /\ connected /\ closer' = "done"
  /\ open' = FALSE /\ publisher' = Raised /\ broker' = [broker EXCEPT !.consumers = {}]
  /\ UNCHANGED <<monitor, attempt, connected, isClosed, declared, faults, lost>>

(* The connection dies.  If it does because RabbitMQ stops, the durable    *)
(* queues will be there when that comes back, and the exchange will not.   *)
ConnectionDies(stops) ==
  /\ broker.up /\ faults < MaxFaults /\ faults' = faults + 1
  /\ stops \/ open
  /\ broker' = [broker EXCEPT !.up = ~stops, !.exchange = @ /\ ~stops, !.consumers = {}]
  /\ open' = FALSE /\ publisher' = Raised
  /\ UNCHANGED <<monitor, attempt, connected, isClosed, declared, closer, lost>>

(* An attempt that was under way has failed by then.                       *)
BrokerStarts ==
  /\ ~broker.up /\ monitor \notin {"declaring", "consuming"}
  /\ broker' = [broker EXCEPT !.up = TRUE]
  /\ UNCHANGED <<monitor, attempt, connected, open, isClosed, declared, publisher, closer,
                 faults, lost>>

Next ==
  \/ Reach \/ DeclareQueues \/ Connected \/ AttemptFails \/ Reconnect
  \/ \E q \in Queues : Consume(q)
  \/ \E p \in Publishers : Publish(p) \/ EnsureConnected(p) \/ DeclareExchange(p) \/ Send(p)
  \/ Close \/ CloseOpened \/ BrokerStarts \/ \E stops \in BOOLEAN : ConnectionDies(stops)

Spec == Init /\ [][Next]_vars

-----------------------------------------------------------------------------
(* A process that has reconnected is as good as new: it consumes its queues*)
(* again, what publish() has sent had a place to go (unless it is a queue  *)
(* that another process declares), and who waits for the event _connected  *)
(* has a task that may yet set it -- unless RabbitMQ was away when each of *)
(* `attempts` attempts was made, or the process was being closed, or it    *)
(* went away just when consumers were started.  Then the task is over, all *)
(* who wait do so for ever, and so does the process, in wait_closed():     *)
(* nothing looks at the task that get_connection() started.                *)
ReconnectsAreWhole ==
  /\ open => broker.consumers = Queues
  /\ \A p \in lost : Target[p] \notin Queues \cup {Groups}
  /\ ~connected => Connecting \/ monitor = "failed"
=============================================================================
