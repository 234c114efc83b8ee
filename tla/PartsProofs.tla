----------------------------- MODULE PartsProofs ----------------------------
(***************************************************************************)
(* Theorems about the small parts, each for any values of its constants.   *)
(***************************************************************************)
EXTENDS Parts, SequenceTheorems, WellFoundedInduction, TLAPS

-----------------------------------------------------------------------------
(***************************************************************************)
(* BrokerConnection: any queues, any publishers, any number of attempts    *)
(* and of faults.                                                          *)
(*                                                                         *)
(* The argument: a connection is open only while the monitor watches it    *)
(* (MonitorInv), and what it was made of is there as long as it is open:   *)
(* its queues, their consumers, and its exchange once that has been        *)
(* declared (BrokerInv).  A publisher that has begun has an open           *)
(* connection, for it gets an exception when that closes (PublisherInv).   *)
(***************************************************************************)

(* The types. *)
ConnectionTypeOK ==
  /\ monitor \in {"connecting", "declaring", "consuming", "watching", "ended", "failed"}
  /\ connected \in BOOLEAN /\ open \in BOOLEAN /\ isClosed \in BOOLEAN /\ declared \in BOOLEAN
  /\ publisher \in [Publishers ->
       {"idle", "waiting", "declaring", "sending", "returned", "raised"}]
  /\ broker \in [up : BOOLEAN, queues : SUBSET Queues, exchange : BOOLEAN,
                 consumers : SUBSET Queues]
  /\ closer \in {"none", "waiting", "done"}

(* Whoever waits for _connected has a monitor that works at it.            *)
MonitorInv ==
  /\ open => monitor = "watching"
  /\ monitor \in {"watching", "ended"} => connected
  /\ monitor \in {"connecting", "declaring", "consuming"} => ~open

(* What RabbitMQ has while the connection is open. *)
BrokerInv ==
  /\ open \/ monitor = "consuming" => broker.queues = Queues
  /\ open => broker.consumers = Queues
  /\ open /\ declared => broker.exchange

(* Who publishes has a connection to do it on, and a place to publish to.  *)
PublisherInv ==
  /\ \A p \in Publishers : publisher[p] \in {"declaring", "sending"} => open
  /\ \A p \in Publishers : publisher[p] = "sending" /\ Target[p] = Connection!Groups
                           => broker.exchange
  /\ \A p \in lost : Target[p] \notin Queues \cup {Connection!Groups}

ConnectionInv == ConnectionTypeOK /\ MonitorInv /\ BrokerInv /\ PublisherInv

(* It says what the runs check. *)
LEMMA ConnectionInvImplies == ConnectionInv => ReconnectsAreWhole
  BY DEF ConnectionInv, ConnectionTypeOK, MonitorInv, BrokerInv, PublisherInv,
         ReconnectsAreWhole, Connection!ReconnectsAreWhole, Connection!Connecting

(* It holds at first. *)
LEMMA ConnectionInvInit == Connection!Init => ConnectionInv
  BY DEF Connection!Init, ConnectionInv, ConnectionTypeOK, MonitorInv, BrokerInv, PublisherInv

(* A publisher gets an exception when the connection closes. *)
LEMMA RaisedFacts ==
  ASSUME ConnectionTypeOK
  PROVE  /\ Connection!Raised \in [Publishers ->
                         {"idle", "waiting", "declaring", "sending", "returned", "raised"}]
         /\ \A p \in Publishers : Connection!Raised[p] \notin {"declaring", "sending"}
  BY DEF Connection!Raised, ConnectionTypeOK

(* The monitor keeps the invariant. *)
LEMMA MonitorSteps ==
  ASSUME ConnectionInv,
         \/ Connection!Reach \/ Connection!DeclareQueues \/ Connection!Connected
         \/ Connection!AttemptFails \/ Connection!Reconnect
         \/ \E q \in Queues : Connection!Consume(q)
  PROVE  ConnectionInv'
<1> USE DEF ConnectionInv, ConnectionTypeOK, MonitorInv, BrokerInv, PublisherInv
<1>1. CASE Connection!Reach
  BY <1>1 DEF Connection!Reach
<1>2. CASE Connection!DeclareQueues
  BY <1>2 DEF Connection!DeclareQueues
<1>3. CASE Connection!Connected
  BY <1>3 DEF Connection!Connected
<1>4. CASE Connection!AttemptFails
  BY <1>4 DEF Connection!AttemptFails, Connection!Connecting
<1>5. CASE Connection!Reconnect
  BY <1>5 DEF Connection!Reconnect
<1>6. ASSUME NEW q \in Queues, Connection!Consume(q) PROVE ConnectionInv'
  BY <1>6 DEF Connection!Consume
<1> QED
  BY <1>1, <1>2, <1>3, <1>4, <1>5, <1>6

(* So do the publishers. *)
LEMMA PublisherSteps ==
  ASSUME ConnectionInv, NEW p \in Publishers,
         \/ Connection!Publish(p) \/ Connection!EnsureConnected(p)
         \/ Connection!DeclareExchange(p) \/ Connection!Send(p)
  PROVE  ConnectionInv'
<1> USE DEF ConnectionInv, ConnectionTypeOK, MonitorInv, BrokerInv, PublisherInv
<1>1. CASE Connection!Publish(p)
  BY <1>1 DEF Connection!Publish
<1>2. CASE Connection!EnsureConnected(p)
  BY <1>2 DEF Connection!EnsureConnected
<1>3. CASE Connection!DeclareExchange(p)
  BY <1>3 DEF Connection!DeclareExchange
<1>4. CASE Connection!Send(p)
  BY <1>4 DEF Connection!Send
<1> QED
  BY <1>1, <1>2, <1>3, <1>4

(* So do the end of the process, and RabbitMQ, which may go away. *)
LEMMA FaultSteps ==
  ASSUME ConnectionInv,
         \/ Connection!Close \/ Connection!CloseOpened \/ Connection!BrokerStarts
         \/ \E stops \in BOOLEAN : Connection!ConnectionDies(stops)
  PROVE  ConnectionInv'
<1> USE DEF ConnectionInv, ConnectionTypeOK, MonitorInv, BrokerInv, PublisherInv
<1>1. CASE Connection!Close
  BY <1>1 DEF Connection!Close
<1>2. CASE Connection!CloseOpened
  BY <1>2, RaisedFacts DEF Connection!CloseOpened
<1>3. CASE Connection!BrokerStarts
  BY <1>3 DEF Connection!BrokerStarts
<1>4. ASSUME NEW stops \in BOOLEAN, Connection!ConnectionDies(stops) PROVE ConnectionInv'
  BY <1>4, RaisedFacts, ZenonT(60) DEF Connection!ConnectionDies
<1> QED
  BY <1>1, <1>2, <1>3, <1>4

(* Every step keeps the invariant. *)
THEOREM ConnectionInvariance == Connection!Spec => []ConnectionInv
<1>1. ConnectionInv /\ [Connection!Next]_(Connection!vars) => ConnectionInv'
  <2>1. ConnectionInv /\ UNCHANGED Connection!vars => ConnectionInv'
    BY DEF ConnectionInv, ConnectionTypeOK, MonitorInv, BrokerInv, PublisherInv, Connection!vars
  <2> QED
    BY <2>1, MonitorSteps, PublisherSteps, FaultSteps DEF Connection!Next
<1> QED
  BY <1>1, ConnectionInvInit, PTL DEF Connection!Spec

(* A process that has reconnected consumes its queues again, what it has   *)
(* published had a place to go, and whoever waits for the connection has a *)
(* task that may yet make it, or has failed for good.                      *)
THEOREM ConnectionsAreWhole == Connection!Spec => []ReconnectsAreWhole
  BY ConnectionInvariance, ConnectionInvImplies, PTL

-----------------------------------------------------------------------------
(***************************************************************************)
(* Subscriptions: any checkouts, any life of a subscription, any faults.   *)
(*                                                                         *)
(* The argument: all checkouts have the one customer, for only the lock    *)
(* lets one be made (PaymentCustomerInv).  The newest that Stripe has is   *)
(* told or in an event (PaymentNewsInv), and no event is more than what    *)
(* has happened (PaymentEventInv); so when none is left, what has been     *)
(* told is the newest, and the row says it unless the call handled last    *)
(* came late (PaymentRowInv): an event that finds no row to update leaves  *)
(* the payment's to come, or the end's.                                    *)
(***************************************************************************)

(* What it may be. *)
Stages == 1 .. LastStage

(* The events that there may be. *)
Event == [type : {"completed", "updated", "deleted"}, of : Checkouts, is : Stages]

(* The types. *)
PaymentTypeOK ==
  /\ customer \in Nat /\ customers \in Nat /\ payLock \in Checkouts \cup {Payment!None}
  /\ checkout \in [Checkouts -> [at : {"new", "locked", "ready", "open", "paid", "failed"},
                                 customer : Nat]]
  /\ subscription \in [Checkouts -> Stages \cup {Payment!None}]
  /\ events \subseteq Event /\ handlers \subseteq [event : Event, is : Stages]
  /\ payRow \in [Checkouts -> [status : Stages \cup {Payment!None},
                            renewed : Stages \cup {Payment!None}]]
  /\ told \in [Checkouts -> Stages \cup {Payment!None}] /\ late \in [Checkouts -> BOOLEAN]

(* A checkout under way has the user's customer, or the lock to make it.   *)
PaymentCustomerInv ==
  /\ payLock # Payment!None => checkout[payLock].at = "locked"
  /\ \A c \in Checkouts :
       /\ checkout[c].at = "locked" => payLock = c /\ customer = Payment!None
       /\ checkout[c].at \in {"ready", "open", "paid"} =>
            checkout[c].customer = customer /\ customer # Payment!None

(* An event tells of what has happened: a payment, first.                  *)
PaymentEventInv ==
  /\ \A c \in Checkouts : subscription[c] # Payment!None => checkout[c].at = "paid"
  /\ \A e \in events : /\ e.is <= subscription[e.of]
                       /\ e.type = "completed" => e.is = 1
                       /\ e.type = "updated"   => e.is < LastStage
                       /\ e.type = "deleted"   => e.is = LastStage
                       /\ e.is = LastStage         => e.type = "deleted"
  /\ \A h \in handlers : /\ h.event.type = "completed" /\ h.event.is = 1
                         /\ h.is <= subscription[h.event.of]

(* Has Stripe yet to be heard out about this? *)
Pending(c, type) == \E e \in events : e.of = c /\ e.type = type

(* What is new has been told or is yet to be. *)
PaymentNewsInv ==
  \A c \in Checkouts :
    /\ told[c] <= subscription[c]
    /\ subscription[c] # told[c] => \E e \in events : e.of = c /\ e.is = subscription[c]

(* There is a row until the end has been told, if the payment has; and it  *)
(* says what has been told, unless the call handled last came late.        *)
PaymentRowInv ==
  \A c \in Checkouts :
    /\ payRow[c] # Payment!NoRow => subscription[c] # Payment!None
    /\ subscription[c] # Payment!None /\ payRow[c] = Payment!NoRow =>
         Pending(c, "completed") \/ told[c] = LastStage
    /\ subscription[c] # Payment!None /\ ~late[c] =>
         \/ told[c] # LastStage /\ payRow[c] = [status |-> told[c], renewed |-> told[c]]
         \/ payRow[c] = Payment!NoRow /\ Pending(c, "completed")
         \/ told[c] = LastStage /\ payRow[c] = Payment!NoRow
         \/ told[c] = LastStage /\ Pending(c, "deleted")

(* The inductive invariant. *)
PaymentInv == /\ PaymentTypeOK /\ PaymentCustomerInv /\ PaymentEventInv
              /\ PaymentNewsInv /\ PaymentRowInv

(* It says what the runs check. *)
LEMMA PaymentInvImplies == PaymentInv => SubscriptionsFollowStripe
<1> SUFFICES ASSUME PaymentInv, NEW c \in Checkouts
             PROVE  /\ checkout[c].at \in {"open", "paid"} => checkout[c].customer = customer
                    /\ subscription[c] \notin {Payment!None, LastStage} /\ Payment!Settled(c) =>
                         payRow[c] # Payment!NoRow
                    /\ subscription[c] # Payment!None /\ Payment!Settled(c) /\ ~late[c] =>
                         payRow[c] = IF subscription[c] = LastStage THEN Payment!NoRow
                                  ELSE [status |-> subscription[c], renewed |-> subscription[c]]
  BY DEF SubscriptionsFollowStripe, Payment!SubscriptionsFollowStripe
<1>1. checkout[c].at \in {"open", "paid"} => checkout[c].customer = customer
  BY DEF PaymentInv, PaymentCustomerInv
<1>2. Payment!Settled(c) => /\ told[c] = subscription[c]
                    /\ ~Pending(c, "completed") /\ ~Pending(c, "deleted")
  BY DEF PaymentInv, PaymentNewsInv, Payment!Settled, Pending
<1>3. subscription[c] \notin {Payment!None, LastStage} /\ Payment!Settled(c) =>
        payRow[c] # Payment!NoRow
  BY <1>2 DEF PaymentInv, PaymentRowInv
<1>4. subscription[c] # Payment!None /\ Payment!Settled(c) /\ ~late[c] =>
        payRow[c] = IF subscription[c] = LastStage THEN Payment!NoRow
                 ELSE [status |-> subscription[c], renewed |-> subscription[c]]
  BY <1>2 DEF PaymentInv, PaymentRowInv
<1> QED
  BY <1>1, <1>3, <1>4

(* It holds at first. *)
LEMMA PaymentInvInit == Payment!Init => PaymentInv
  BY SubscriptionNumbers DEF Payment!Init, PaymentInv, PaymentTypeOK, PaymentCustomerInv,
           PaymentEventInv, PaymentNewsInv, PaymentRowInv, Payment!None, Payment!NoRow, Stages

(* Checkouts come in turn. *)
LEMMA CheckoutSteps ==
  ASSUME PaymentInv, NEW c \in Checkouts,
         \/ Payment!BeginCheckout(c) \/ Payment!CreateCustomer(c)
         \/ Payment!CustomerFails(c) \/ Payment!CreateSession(c)
  PROVE  PaymentInv'
<1> USE SubscriptionNumbers DEF PaymentInv, Payment!None
<1>1. PaymentCustomerInv'
  <2>1. CASE Payment!BeginCheckout(c)
    BY <2>1 DEF Payment!BeginCheckout, Payment!LookUp, PaymentTypeOK, PaymentCustomerInv
  <2>2. CASE Payment!CreateCustomer(c)
    BY <2>2 DEF Payment!CreateCustomer, PaymentTypeOK, PaymentCustomerInv
  <2>3. CASE Payment!CustomerFails(c)
    BY <2>3 DEF Payment!CustomerFails, PaymentTypeOK, PaymentCustomerInv
  <2>4. CASE Payment!CreateSession(c)
    BY <2>4 DEF Payment!CreateSession, PaymentTypeOK, PaymentCustomerInv
  <2> QED
    BY <2>1, <2>2, <2>3, <2>4
<1>2. PaymentTypeOK'
  <2>1. CASE Payment!BeginCheckout(c)
    BY <2>1 DEF Payment!BeginCheckout, Payment!LookUp, PaymentTypeOK
  <2>2. CASE Payment!CreateCustomer(c)
    BY <2>2 DEF Payment!CreateCustomer, PaymentTypeOK
  <2>3. CASE Payment!CustomerFails(c)
    BY <2>3, SMTT(60) DEF Payment!CustomerFails, PaymentTypeOK
  <2>4. CASE Payment!CreateSession(c)
    <3>1. PICK at \in {"open", "failed"} : checkout' = [checkout EXCEPT ![c].at = at]
      BY <2>4 DEF Payment!CreateSession
    <3> QED
      BY <2>4, <3>1, SMTT(60) DEF Payment!CreateSession, PaymentTypeOK
  <2> QED
    BY <2>1, <2>2, <2>3, <2>4
<1>3. UNCHANGED <<subscription, events, handlers, payRow, told, late>>
  BY DEF Payment!BeginCheckout, Payment!CreateCustomer, Payment!CustomerFails,
           Payment!CreateSession
<1>4. PaymentNewsInv' /\ PaymentRowInv'
  BY <1>3 DEF PaymentNewsInv, PaymentRowInv, Pending
<1>5. PaymentEventInv'
  <2>1. \A d \in Checkouts : checkout[d].at = "paid" => checkout'[d].at = "paid"
    BY DEF Payment!BeginCheckout, Payment!LookUp, Payment!CreateCustomer, Payment!CustomerFails,
             Payment!CreateSession, PaymentTypeOK
  <2> QED
    BY <1>3, <2>1 DEF PaymentEventInv
<1> QED
  BY <1>1, <1>2, <1>4, <1>5

(* Stripe has more to tell. *)
LEMMA StripeSteps ==
  ASSUME PaymentInv, NEW c \in Checkouts, Payment!Pay(c) \/ Payment!Change(c)
  PROVE  PaymentInv'
<1> USE SubscriptionNumbers DEF PaymentInv, Payment!None, Stages
<1>1. UNCHANGED <<customer, customers, payLock, handlers, payRow, told, late>>
  BY DEF Payment!Pay, Payment!Change
<1>2. /\ subscription[c] # LastStage
      /\ subscription' = [subscription EXCEPT ![c] = subscription[c] + 1]
      /\ subscription[c] + 1 \in Stages
  BY DEF Payment!Pay, Payment!Change, PaymentTypeOK, PaymentEventInv
<1>3. PICK e : /\ e \in Event /\ e.of = c /\ e.is = subscription[c] + 1
               /\ events' = events \cup {e}
               /\ e.type = "completed" <=> e.is = 1
               /\ e.type = "deleted" <=> e.is = LastStage
  <2>1. CASE Payment!Pay(c)
    <3> DEFINE e == [type |-> "completed", of |-> c, is |-> 1]
    <3>1. subscription[c] = Payment!None
      BY <2>1 DEF Payment!Pay, PaymentEventInv
    <3>2. e \in Event
      BY DEF Event
    <3> QED
      BY <2>1, <3>1, <3>2 DEF Payment!Pay
  <2>2. CASE Payment!Change(c)
    <3> DEFINE e == [type |-> IF subscription'[c] = LastStage THEN "deleted" ELSE "updated",
                     of |-> c, is |-> subscription'[c]]
    <3>1. subscription'[c] = subscription[c] + 1 /\ subscription[c] \in Nat \ {0}
      BY <2>2, <1>2 DEF Payment!Change, PaymentTypeOK
    <3>2. e \in Event
      BY <3>1, <1>2 DEF Event
    <3>3. events' = events \cup {e}
      BY <2>2 DEF Payment!Change
    <3>4. e.of = c /\ e.is = subscription[c] + 1 /\ e.type \in {"updated", "deleted"}
          /\ (e.type = "deleted" <=> e.is = LastStage)
      BY <3>1
    <3> HIDE DEF e
    <3> QED
      BY <3>1, <3>2, <3>3, <3>4
  <2> QED
    BY <2>1, <2>2
<1>4. \A d \in Checkouts : /\ checkout'[d].at = "paid" <=> checkout[d].at = "paid" \/ d = c
                           /\ checkout'[d].customer = checkout[d].customer
                           /\ d # c => checkout'[d] = checkout[d]
      /\ checkout[c].at \in {"open", "paid"}
  BY DEF Payment!Pay, Payment!Change, PaymentTypeOK, PaymentEventInv
<1>5. PaymentTypeOK'
  BY <1>1, <1>2, <1>3, SMTT(60) DEF PaymentTypeOK, Payment!Pay, Payment!Change
<1>6. PaymentCustomerInv'
  <2>1. checkout[c].at # "locked" /\ checkout'[c].at = "paid"
    BY <1>4
  <2>2. payLock' # Payment!None => checkout'[payLock'].at = "locked"
    BY <1>1, <1>4, <2>1 DEF PaymentCustomerInv, PaymentTypeOK
  <2>3. ASSUME NEW d \in Checkouts
        PROVE  /\ checkout'[d].at = "locked" => payLock' = d /\ customer' = Payment!None
               /\ checkout'[d].at \in {"ready", "open", "paid"} =>
                    checkout'[d].customer = customer' /\ customer' # Payment!None
    BY <1>1, <1>4, <2>1 DEF PaymentCustomerInv
  <2> QED
    BY <2>2, <2>3 DEF PaymentCustomerInv
<1>7. PaymentEventInv'
  <2>1. \A d \in Checkouts : /\ subscription[d] <= subscription'[d]
                             /\ subscription[d] \in Int /\ subscription'[d] \in Int
    BY <1>2 DEF PaymentTypeOK
  <2>2. \A d \in Checkouts : subscription'[d] # Payment!None => checkout'[d].at = "paid"
    BY <1>2, <1>4 DEF PaymentEventInv, PaymentTypeOK
  <2>3. ASSUME NEW d \in events'
        PROVE  /\ d.is <= subscription'[d.of]
               /\ d.type = "completed" => d.is = 1
               /\ d.type = "updated"   => d.is < LastStage
               /\ d.type = "deleted"   => d.is = LastStage
               /\ d.is = LastStage         => d.type = "deleted"
    <3>1. CASE d = e
      BY <1>2, <1>3, <3>1 DEF Event, PaymentTypeOK
    <3>2. CASE d \in events
      BY <2>1, <3>2 DEF PaymentEventInv, PaymentTypeOK, Event
    <3> QED
      BY <1>3, <3>1, <3>2
  <2>4. ASSUME NEW h \in handlers'
        PROVE  h.event.type = "completed" /\ h.event.is = 1 /\ h.is <= subscription'[h.event.of]
    BY <1>1, <2>1 DEF PaymentEventInv, PaymentTypeOK, Event
  <2> QED
    BY <2>2, <2>3, <2>4 DEF PaymentEventInv
<1>8. PaymentNewsInv'
  <2> SUFFICES ASSUME NEW d \in Checkouts
               PROVE  /\ told[d] <= subscription'[d]
                      /\ subscription'[d] # told[d] =>
                           \E f \in events' : f.of = d /\ f.is = subscription'[d]
    BY <1>1 DEF PaymentNewsInv
  <2>1. CASE d = c
    BY <1>2, <1>3, <2>1 DEF PaymentNewsInv, PaymentTypeOK
  <2>2. CASE d # c
    BY <1>2, <1>3, <2>2 DEF PaymentNewsInv, PaymentTypeOK
  <2> QED
    BY <2>1, <2>2
<1>9. PaymentRowInv'
  BY <1>1, <1>2, <1>3 DEF PaymentRowInv, PaymentNewsInv, PaymentTypeOK, Pending, Payment!NoRow
<1> QED
  BY <1>5, <1>6, <1>7, <1>8, <1>9

(* What handle_*() do of it: i is told of checkout c, in answer to event e.*)
LEMMA AnswerFacts ==
  ASSUME PaymentInv, NEW e, Payment!Answered(e), NEW c \in Checkouts, NEW i \in Stages,
         i <= subscription[c], e.of = c, e.is <= i, Payment!Tells(c, i),
         UNCHANGED <<customer, customers, payLock, checkout, subscription>>
  PROVE  /\ PaymentCustomerInv' /\ PaymentNewsInv'
         /\ told' \in [Checkouts -> Stages \cup {Payment!None}]
         /\ late' \in [Checkouts -> BOOLEAN]
         /\ events' \in {events, events \ {e}}
<1> USE SubscriptionNumbers DEF PaymentInv, Payment!None, Stages
<1>1. PaymentCustomerInv'
  BY DEF PaymentCustomerInv
<1>2. events' \in {events, events \ {e}}
  BY DEF Payment!Answered
<1>3. told' \in [Checkouts -> Stages \cup {Payment!None}]
  BY DEF Payment!Tells, PaymentTypeOK
<1>4. late' \in [Checkouts -> BOOLEAN]
  <2>1. (i < told[c] \/ (told[c] = LastStage /\ payRow'[c] # Payment!NoRow)) \in BOOLEAN
    BY Zenon
  <2> QED
    BY <2>1 DEF Payment!Tells, PaymentTypeOK
<1>5. PaymentNewsInv'
  <2> SUFFICES ASSUME NEW d \in Checkouts
               PROVE  /\ told'[d] <= subscription[d]
                      /\ subscription[d] # told'[d] =>
                           \E f \in events' : f.of = d /\ f.is = subscription[d]
    BY DEF PaymentNewsInv
  <2>1. CASE d = c
    <3>1. told'[c] = IF i > told[c] THEN i ELSE told[c]
      BY DEF Payment!Tells, PaymentTypeOK
    <3>2. /\ told[c] <= subscription[c] /\ {told[c], subscription[c]} \subseteq Int
          /\ subscription[c] # told[c] =>
               \E f \in events : f.of = c /\ f.is = subscription[c]
      BY DEF PaymentNewsInv, PaymentTypeOK
    <3> QED
      BY <1>2, <2>1, <3>1, <3>2
  <2>2. CASE d # c
    BY <1>2, <2>2 DEF PaymentNewsInv, PaymentTypeOK, Payment!Tells
  <2> QED
    BY <2>1, <2>2
<1> QED
  BY <1>1, <1>2, <1>3, <1>4, <1>5

(* The events that are left are as before. *)
LEMMA EventsShrink ==
  ASSUME PaymentInv, UNCHANGED <<checkout, subscription>>,
         NEW e, events' \in {events, events \ {e}},
         handlers' \subseteq handlers
  PROVE  /\ PaymentEventInv' /\ events' \subseteq Event
         /\ handlers' \subseteq [event : Event, is : Stages]
  BY DEF PaymentInv, PaymentEventInv, PaymentTypeOK

(* The webhook of a payment keeps the invariant. *)
LEMMA CompletedStep ==
  ASSUME PaymentInv, NEW h \in handlers, Payment!HandleCompleted(h)
  PROVE  PaymentInv'
<1> DEFINE e == h.event
           c == h.event.of
           i == h.is
<1> USE SubscriptionNumbers DEF Payment!None, Stages
<1>1. /\ c \in Checkouts /\ i \in Stages /\ i <= subscription[c] /\ e.of = c
      /\ e.is = 1 /\ e.is <= i /\ e.type = "completed"
  BY DEF PaymentInv, PaymentTypeOK, PaymentEventInv, Event
<1>2. /\ UNCHANGED <<customer, customers, payLock, checkout, subscription>>
      /\ Payment!Answered(e) /\ Payment!Tells(c, i) /\ handlers' \subseteq handlers
      /\ payRow' = [payRow EXCEPT ![c] = [status |-> i, renewed |-> i]]
  BY DEF Payment!HandleCompleted
<1> HIDE DEF e, c, i
<1>3. /\ PaymentCustomerInv' /\ PaymentNewsInv' /\ events' \in {events, events \ {e}}
      /\ told' \in [Checkouts -> Stages \cup {Payment!None}] /\ late' \in [Checkouts -> BOOLEAN]
  BY <1>1, <1>2, AnswerFacts
<1>4. /\ PaymentEventInv' /\ events' \subseteq Event
      /\ handlers' \subseteq [event : Event, is : Stages]
  BY <1>2, <1>3, EventsShrink
<1>5. PaymentTypeOK'
  BY <1>1, <1>2, <1>3, <1>4 DEF PaymentTypeOK, PaymentInv
<1>6. PaymentRowInv'
  <2> SUFFICES ASSUME NEW d \in Checkouts
               PROVE  /\ payRow'[d] # Payment!NoRow => subscription[d] # Payment!None
                      /\ subscription[d] # Payment!None /\ payRow'[d] = Payment!NoRow =>
                           Pending(d, "completed")' \/ told'[d] = LastStage
                      /\ subscription[d] # Payment!None /\ ~late'[d] =>
                           \/ /\ told'[d] # LastStage
                              /\ payRow'[d] = [status |-> told'[d],
                                            renewed |-> told'[d]]
                           \/ payRow'[d] = Payment!NoRow /\ Pending(d, "completed")'
                           \/ told'[d] = LastStage /\ payRow'[d] = Payment!NoRow
                           \/ told'[d] = LastStage /\ Pending(d, "deleted")'
    BY <1>2 DEF PaymentRowInv
  <2>1. CASE d # c
    <3>1. payRow'[d] = payRow[d] /\ told'[d] = told[d] /\ late'[d] = late[d]
      BY <1>1, <1>2, <2>1 DEF Payment!Tells, PaymentInv, PaymentTypeOK
    <3>2. \A type : Pending(d, type) => Pending(d, type)'
      BY <1>1, <1>3, <2>1 DEF Pending
    <3> QED
      BY <3>1, <3>2 DEF PaymentInv, PaymentRowInv
  <2>2. CASE d = c
    <3>1. payRow'[c] = [status |-> i, renewed |-> i] /\ payRow'[c] # Payment!NoRow
      BY <1>1, <1>2 DEF PaymentInv, PaymentTypeOK, Payment!NoRow
    <3>2. told'[c] = (IF i > told[c] THEN i ELSE told[c])
          /\ late'[c] = (i < told[c] \/ (told[c] = LastStage /\ payRow'[c] # Payment!NoRow))
      BY <1>1, <1>2 DEF Payment!Tells, PaymentInv, PaymentTypeOK
    <3>3. ~late'[c] => told'[c] = i /\ told[c] # LastStage
      <4>1. ~late'[c] => ~(i < told[c]) /\ told[c] # LastStage
        BY <3>1, <3>2, Zenon
      <4>2. told[c] \in Stages \cup {Payment!None} /\ i \in Stages
        BY <1>1 DEF PaymentInv, PaymentTypeOK
      <4> QED
        BY <3>2, <4>1, <4>2
    <3>4. i = LastStage /\ told[c] # LastStage => Pending(c, "deleted")'
      <4> SUFFICES ASSUME i = LastStage, told[c] # LastStage
                   PROVE  Pending(c, "deleted")'
        OBVIOUS
      <4>1. subscription[c] = LastStage
        <5>1. subscription[c] \in Stages \cup {Payment!None} /\ i <= subscription[c]
          BY <1>1 DEF PaymentInv, PaymentTypeOK
        <5> QED
          BY <5>1
      <4>2. PICK f \in events : f.of = c /\ f.is = LastStage
        BY <1>1, <4>1 DEF PaymentInv, PaymentNewsInv
      <4>3. f # e /\ f.type = "deleted"
        BY <1>1, <4>2 DEF PaymentInv, PaymentEventInv
      <4> QED
        BY <1>3, <4>2, <4>3 DEF Pending
    <3>5. subscription[c] # Payment!None
      BY <1>1 DEF PaymentInv, PaymentTypeOK
    <3> QED
      BY <2>2, <3>1, <3>3, <3>4, <3>5
  <2> QED
    BY <2>1, <2>2
<1> QED
  BY <1>3, <1>4, <1>5, <1>6 DEF PaymentInv

(* So do the events that need no answer from Stripe. *)
LEMMA EventSteps ==
  ASSUME PaymentInv, NEW e \in events, Payment!HandleUpdated(e) \/ Payment!HandleDeleted(e)
  PROVE  PaymentInv'
<1> DEFINE c == e.of
           i == e.is
<1> USE SubscriptionNumbers DEF Payment!None, Stages
<1>1. /\ c \in Checkouts /\ i \in Stages /\ i <= subscription[c] /\ e.of = c /\ e.is <= i
      /\ e.type \in {"updated", "deleted"} /\ (i = LastStage <=> e.type = "deleted")
  BY DEF PaymentInv, PaymentTypeOK, PaymentEventInv, Event, Payment!HandleUpdated,
           Payment!HandleDeleted
<1>2. /\ UNCHANGED <<customer, customers, payLock, checkout, subscription>>
      /\ Payment!Answered(e) /\ Payment!Tells(c, i) /\ handlers' \subseteq handlers
      /\ payRow' = [payRow EXCEPT ![c] = IF i = LastStage THEN Payment!NoRow
                                   ELSE IF payRow[c] = Payment!NoRow THEN Payment!NoRow
                                   ELSE [status |-> i, renewed |-> i]]
  BY <1>1 DEF Payment!HandleUpdated, Payment!HandleDeleted, PaymentInv, PaymentTypeOK
<1> HIDE DEF c, i
<1>3. /\ PaymentCustomerInv' /\ PaymentNewsInv' /\ events' \in {events, events \ {e}}
      /\ told' \in [Checkouts -> Stages \cup {Payment!None}] /\ late' \in [Checkouts -> BOOLEAN]
  BY <1>1, <1>2, AnswerFacts
<1>4. /\ PaymentEventInv' /\ events' \subseteq Event
      /\ handlers' \subseteq [event : Event, is : Stages]
  BY <1>2, <1>3, EventsShrink
<1>5. PaymentTypeOK'
  BY <1>1, <1>2, <1>3, <1>4 DEF PaymentTypeOK, PaymentInv, Payment!NoRow
<1>6. PaymentRowInv'
  <2> SUFFICES ASSUME NEW d \in Checkouts
               PROVE  /\ payRow'[d] # Payment!NoRow => subscription[d] # Payment!None
                      /\ subscription[d] # Payment!None /\ payRow'[d] = Payment!NoRow =>
                           Pending(d, "completed")' \/ told'[d] = LastStage
                      /\ subscription[d] # Payment!None /\ ~late'[d] =>
                           \/ /\ told'[d] # LastStage
                              /\ payRow'[d] = [status |-> told'[d],
                                            renewed |-> told'[d]]
                           \/ payRow'[d] = Payment!NoRow /\ Pending(d, "completed")'
                           \/ told'[d] = LastStage /\ payRow'[d] = Payment!NoRow
                           \/ told'[d] = LastStage /\ Pending(d, "deleted")'
    BY <1>2 DEF PaymentRowInv
  <2>1. CASE d # c
    <3>1. payRow'[d] = payRow[d] /\ told'[d] = told[d] /\ late'[d] = late[d]
      BY <1>1, <1>2, <2>1 DEF Payment!Tells, PaymentInv, PaymentTypeOK
    <3>2. \A type : Pending(d, type) => Pending(d, type)'
      BY <1>1, <1>3, <2>1 DEF Pending
    <3> QED
      BY <3>1, <3>2 DEF PaymentInv, PaymentRowInv
  <2>2. CASE d = c
    <3>1. payRow'[c] = IF i = LastStage THEN Payment!NoRow
                    ELSE IF payRow[c] = Payment!NoRow THEN Payment!NoRow
                    ELSE [status |-> i, renewed |-> i]
      BY <1>1, <1>2 DEF PaymentInv, PaymentTypeOK
    <3>2. told'[c] = (IF i > told[c] THEN i ELSE told[c])
          /\ late'[c] = (i < told[c] \/ (told[c] = LastStage /\ payRow'[c] # Payment!NoRow))
      BY <1>1, <1>2 DEF Payment!Tells, PaymentInv, PaymentTypeOK
    <3>3. subscription[c] # Payment!None
      BY <1>1 DEF PaymentInv, PaymentTypeOK
    <3>4. Pending(c, "completed") => Pending(c, "completed")'
      BY <1>1, <1>3 DEF Pending
    <3>5. told[c] \in Stages \cup {Payment!None} /\ i \in Stages
      BY <1>1 DEF PaymentInv, PaymentTypeOK
    <3>6. payRow[c] = Payment!NoRow => Pending(c, "completed") \/ told[c] = LastStage
      BY <1>1, <3>3 DEF PaymentInv, PaymentRowInv
    <3>7. CASE i = LastStage
      BY <2>2, <3>1, <3>2, <3>3, <3>5, <3>7
    <3>8. CASE i # LastStage
      <4>1. ~late'[c] => ~(i < told[c])
        BY <3>2, Zenon
      <4>2. told'[c] = LastStage <=> told[c] = LastStage
        BY <3>2, <3>5, <3>8
      <4>3. ~late'[c] => told'[c] = i
        BY <3>2, <3>5, <4>1
      <4>4. ~late'[c] /\ payRow[c] # Payment!NoRow =>
              payRow'[c] = [status |-> told'[c], renewed |-> told'[c]]
        BY <3>1, <3>8, <4>3
      <4>5. [status |-> i, renewed |-> i] # Payment!NoRow
        BY <3>5 DEF Payment!NoRow
      <4> QED
        BY <2>2, <3>1, <3>3, <3>4, <3>6, <3>8, <4>2, <4>3, <4>4, <4>5
    <3> QED
      BY <3>7, <3>8
  <2> QED
    BY <2>1, <2>2
<1> QED
  BY <1>3, <1>4, <1>5, <1>6 DEF PaymentInv

(* What a handler reads at Stripe is what has happened; it may die.        *)
LEMMA HandlerSteps ==
  ASSUME PaymentInv,
         \/ \E e \in events : Payment!Retrieve(e)
         \/ \E h \in handlers : Payment!HandleFails(h)
  PROVE  PaymentInv'
<1>1. /\ handlers' \subseteq handlers \cup
           {[event |-> e, is |-> subscription[e.of]] :
              e \in {f \in events : f.type = "completed"}}
      /\ UNCHANGED <<customer, customers, payLock, checkout, subscription, events, payRow, told,
                     late>>
  BY DEF Payment!Retrieve, Payment!HandleFails
<1>2. \A e \in events : e.is \in Stages /\ e.of \in Checkouts /\ e.is <= subscription[e.of]
                       /\ subscription[e.of] \in Stages
  BY SubscriptionNumbers DEF PaymentInv, PaymentTypeOK, Event, PaymentEventInv, Stages,
           Payment!None
<1>3. PaymentTypeOK' /\ PaymentEventInv'
  BY <1>1, <1>2 DEF PaymentInv, PaymentTypeOK, PaymentEventInv, Stages
<1> QED
  BY <1>1, <1>3 DEF PaymentInv, PaymentCustomerInv, PaymentNewsInv, PaymentRowInv, Pending

(* Every step keeps the invariant. *)
THEOREM PaymentInvariance == Payment!Spec => []PaymentInv
<1>1. PaymentInv /\ [Payment!Next]_(Payment!vars) => PaymentInv'
  <2>1. PaymentInv /\ UNCHANGED Payment!vars => PaymentInv'
    BY DEF PaymentInv, PaymentTypeOK, PaymentCustomerInv, PaymentEventInv, PaymentNewsInv,
             PaymentRowInv, Pending, Payment!vars
  <2> QED
    BY <2>1, CheckoutSteps, StripeSteps, CompletedStep, EventSteps, HandlerSteps DEF Payment!Next
<1> QED
  BY <1>1, PaymentInvInit, PTL DEF Payment!Spec

(* Whoever pays has a subscription, the row is what Stripe last told, and  *)
(* all of it is one customer's, in whatever order the webhooks were called.*)
THEOREM SubscriptionsMatchStripe == Payment!Spec => []SubscriptionsFollowStripe
  BY PaymentInvariance, PaymentInvImplies, PTL

-----------------------------------------------------------------------------
(***************************************************************************)
(* Secrets: any parameters, any module versions, any number of logins and  *)
(* of changes.                                                             *)
(*                                                                         *)
(* The argument: the session's login is the last that has begun, and an    *)
(* earlier one that is open was crossed by it (SecretWindowInv); so what   *)
(* comes of a login is for the parameter and the service that it began for *)
(* (SecretLoginInv), which is the parameter's as long as there is no other *)
(* module version.  A fetch has loaded a parameter's kind and value        *)
(* together (SecretFetchInv).                                              *)
(***************************************************************************)

(* What a secret may be, when so many logins have begun.                   *)
SecretOf(n) == [of : Vault!Services \cup {Vault!Text}, login : 0 .. n] \cup {Vault!None}

(* A login is for the parameter it says, unless it was crossed; and for    *)
(* the parameter's service, unless a module version has come.              *)
LoginFits(p, of, login) ==
  /\ login \in DOMAIN windows
  /\ windows[login].param # p => crossed /\ of = Vault!Oauth2
  /\ ~upgraded => fields[p] = of

(* The types. *)
SecretTypeOK ==
  /\ fields \in Kinds /\ configured \in SUBSET Vault!Services /\ live \in BOOLEAN
  /\ windows \in Seq([param : Params, service : Vault!Services, open : BOOLEAN])
  /\ session = Len(windows)
  /\ secrets \in [Params -> SecretOf(Len(windows))]
  /\ finishing # Vault!None =>
       finishing \in [param : Params, of : Vault!Services, login : 1 .. Len(windows)]
  /\ upgraded \in BOOLEAN /\ crossed \in BOOLEAN /\ misplaced \in BOOLEAN

(* The session's login is the last, and crossed if another is open.        *)
SecretWindowInv ==
  /\ \A i, j \in DOMAIN windows : i < j /\ windows[i].open => crossed
  /\ \A i \in DOMAIN windows : ~upgraded => fields[windows[i].param] = windows[i].service

(* What comes of a login. *)
SecretLoginInv ==
  /\ \A p \in Params :
       secrets[p].of \in Vault!Services => LoginFits(p, secrets[p].of, secrets[p].login)
  /\ finishing # Vault!None => LoginFits(finishing.param, finishing.of, finishing.login)

(* Each secret is of its parameter's kind, but for misplaced texts.        *)
KindsFit(kinds, values) ==
  \A p \in Params : /\ values[p].of \in Vault!Services => kinds[p] = values[p].of
                    /\ values[p].of = Vault!Text /\ kinds[p] # Vault!Text => misplaced

(* The secrets of the step fit its parameters, and those that a fetch has. *)
SecretFetchInv ==
  /\ ~upgraded => KindsFit(fields, secrets)
  /\ \/ fetching = Vault!Idle
     \/ /\ fetching.at = "loaded" /\ fetching.spec \in Kinds
        /\ \A p \in Params : fetching.secrets[p] \in SecretOf(Len(windows))
        /\ ~upgraded => KindsFit(fetching.spec, fetching.secrets)
     \/ /\ fetching.at = "prepared"
        /\ ~upgraded => \A p \in DOMAIN fetching.given :
                          fetching.given[p] \in Vault!Expected(fetching.spec[p])
     \/ /\ fetching.at = "raised"
        /\ ~upgraded => misplaced \/ fetching.by = "garbled"

(* The inductive invariant. *)
SecretInv == SecretTypeOK /\ SecretWindowInv /\ SecretLoginInv /\ SecretFetchInv

(* It says what the runs check. *)
LEMMA SecretInvImplies == SecretInv => SecretsFitTheirParams
<1> SUFFICES ASSUME SecretInv PROVE SecretsFitTheirParams
  OBVIOUS
<1>1. ASSUME NEW p \in Params, secrets[p].of \in Vault!Services
      PROVE  /\ windows[secrets[p].login].param # p => crossed /\ secrets[p].of = Vault!Oauth2
             /\ ~upgraded => fields[p] = secrets[p].of
  BY <1>1 DEF SecretInv, SecretLoginInv, LoginFits
<1>2. fetching.at = "prepared" /\ ~upgraded =>
        \A p \in DOMAIN fetching.given : fetching.given[p] \in Vault!Expected(fetching.spec[p])
  BY DEF SecretInv, SecretFetchInv, Vault!Idle
<1>3. fetching.at = "raised" /\ ~upgraded => misplaced \/ fetching.by = "garbled"
  BY DEF SecretInv, SecretFetchInv, Vault!Idle
<1> QED
  BY <1>1, <1>2, <1>3 DEF SecretsFitTheirParams, Vault!SecretsFitTheirParams

(* It holds at first. *)
LEMMA SecretInvInit == Vault!Init => SecretInv
<1> SUFFICES ASSUME Vault!Init PROVE SecretInv
  OBVIOUS
<1>1. windows = <<>> /\ Len(windows) = 0 /\ DOMAIN windows = {}
  BY DEF Vault!Init
<1>2. SecretTypeOK
  <2>1. /\ configured \in SUBSET Vault!Services /\ live \in BOOLEAN
        /\ upgraded \in BOOLEAN /\ crossed \in BOOLEAN /\ misplaced \in BOOLEAN
    BY Zenon DEF Vault!Init
  <2> QED
    BY <1>1, <2>1 DEF Vault!Init, SecretTypeOK, SecretOf
<1>3. \A p \in Params : secrets[p].of = "none"
  BY DEF Vault!Init, Vault!None
<1>4. SecretWindowInv /\ SecretLoginInv
  BY <1>1, <1>3 DEF Vault!Init, SecretWindowInv, SecretLoginInv, Vault!Services, Vault!Oauth1a,
           Vault!Oauth2
<1>5. SecretFetchInv
  BY <1>3 DEF Vault!Init, SecretFetchInv, KindsFit, Vault!Services, Vault!Text, Vault!Oauth1a,
           Vault!Oauth2
<1> QED
  BY <1>2, <1>4, <1>5 DEF SecretInv

(* What a window leaves as it was. *)
LEMMA FetchKept ==
  ASSUME SecretInv, UNCHANGED <<fields, secrets, fetching, upgraded, misplaced>>,
         Len(windows) \in Nat, Len(windows') \in Nat, Len(windows) <= Len(windows')
  PROVE  SecretFetchInv'
<1>1. \A x \in SecretOf(Len(windows)) : x \in SecretOf(Len(windows'))
  BY DEF SecretOf
<1> QED
  BY <1>1 DEF SecretInv, SecretFetchInv, KindsFit

(* A login begins. *)
LEMMA StartStep ==
  ASSUME SecretInv, NEW p \in Params, Vault!StartAuthorize(p)
  PROVE  SecretInv'
<1> DEFINE n == Len(windows)
<1>1. /\ windows \in Seq([param : Params, service : Vault!Services, open : BOOLEAN])
      /\ Vault!Open(p) \in [param : Params, service : Vault!Services, open : BOOLEAN]
      /\ windows' = Append(windows, Vault!Open(p))
      /\ Vault!Open(p).param = p /\ Vault!Open(p).service = fields[p]
      /\ Vault!Open(p).open
  BY DEF SecretInv, SecretTypeOK, Vault!StartAuthorize, Vault!Open, Vault!IsOauth
<1>2. /\ n \in Nat /\ Len(windows') = n + 1 /\ DOMAIN windows = 1 .. n
      /\ DOMAIN windows' = 1 .. n + 1 /\ windows'[n + 1] = Vault!Open(p)
      /\ \A i \in 1 .. n : windows'[i] = windows[i]
      /\ windows' \in Seq([param : Params, service : Vault!Services, open : BOOLEAN])
  BY <1>1
<1>3. /\ session' = Len(windows')
      /\ crossed' = (crossed \/ \E i \in DOMAIN windows : windows[i].open)
      /\ UNCHANGED <<fields, configured, live, secrets, finishing, fetching, upgraded,
                     misplaced>>
  BY DEF Vault!StartAuthorize
<1>4. crossed' \in BOOLEAN /\ (crossed => crossed')
      /\ \A i \in DOMAIN windows : windows[i].open => crossed'
  BY <1>3, Zenon
<1> HIDE DEF n
<1>5. SecretTypeOK'
  BY <1>2, <1>3, <1>4 DEF SecretInv, SecretTypeOK, SecretOf, n
<1>6. SecretWindowInv'
  <2>1. ASSUME NEW i \in DOMAIN windows', NEW j \in DOMAIN windows', i < j, windows'[i].open
        PROVE  crossed'
    BY <1>2, <1>4, <2>1
  <2>2. ASSUME NEW i \in DOMAIN windows', ~upgraded
        PROVE  fields[windows'[i].param] = windows'[i].service
    BY <1>1, <1>2, <2>2 DEF SecretInv, SecretWindowInv
  <2> QED
    BY <1>3, <2>1, <2>2 DEF SecretWindowInv
<1>7. SecretLoginInv'
  BY <1>2, <1>3, <1>4 DEF SecretInv, SecretLoginInv, LoginFits
<1>8. SecretFetchInv'
  BY <1>2, <1>3, FetchKept DEF n
<1> QED
  BY <1>5, <1>6, <1>7, <1>8 DEF SecretInv

(* It comes back to the session's, and saves its token.                    *)
LEMMA AcquireStep ==
  ASSUME SecretInv, NEW n \in DOMAIN windows, Vault!AcquireToken(n)
  PROVE  SecretInv'
<1> DEFINE flow == windows[session]
<1>1. /\ windows \in Seq([param : Params, service : Vault!Services, open : BOOLEAN])
      /\ DOMAIN windows = 1 .. Len(windows) /\ Len(windows) \in Nat /\ n \in 1 .. Len(windows)
      /\ session = Len(windows) /\ session \in DOMAIN windows
  BY DEF SecretInv, SecretTypeOK
<1>2. /\ windows[n].open /\ windows' = [windows EXCEPT ![n].open = FALSE]
      /\ UNCHANGED <<fields, configured, live, secrets, session, fetching, upgraded, crossed,
                     misplaced>>
  BY DEF Vault!AcquireToken
<1>3. /\ windows' \in Seq([param : Params, service : Vault!Services, open : BOOLEAN])
      /\ Len(windows') = Len(windows) /\ DOMAIN windows' = DOMAIN windows
      /\ \A i \in DOMAIN windows : /\ windows'[i].param = windows[i].param
                                   /\ windows'[i].service = windows[i].service
                                   /\ windows'[i].open => windows[i].open
  <2> DEFINE W    == [param : Params, service : Vault!Services, open : BOOLEAN]
             shut == [windows[n] EXCEPT !.open = FALSE]
  <2>1. windows[n] \in W
    BY <1>1, ElementOfSeq
  <2>2. /\ shut \in W /\ shut.param = windows[n].param /\ shut.service = windows[n].service
        /\ ~shut.open
    BY <2>1
  <2>3. windows' = [windows EXCEPT ![n] = shut]
    BY <1>2
  <2> HIDE DEF W, shut
  <2>4. /\ windows' \in Seq(W) /\ Len(windows') = Len(windows)
        /\ \A i \in 1 .. Len(windows) : windows'[i] = IF i = n THEN shut ELSE windows[i]
    BY <1>1, <2>2, <2>3, ExceptSeq DEF W
  <2>5. DOMAIN windows' = 1 .. Len(windows)
    BY <2>4
  <2> QED
    BY <1>1, <2>2, <2>4, <2>5 DEF W
<1>4. \/ finishing' = Vault!None
      \/ /\ finishing' = [param |-> flow.param, of |-> flow.service, login |-> n]
         /\ flow.service = windows[n].service
         /\ flow.service = Vault!Oauth1a => n = session
  BY DEF Vault!AcquireToken
<1>5. finishing' # Vault!None =>
        /\ finishing' \in [param : Params, of : Vault!Services, login : 1 .. Len(windows)]
        /\ LoginFits(finishing.param, finishing.of, finishing.login)'
  <2> SUFFICES ASSUME finishing' # Vault!None
               PROVE  /\ finishing' \in [param : Params, of : Vault!Services,
                                          login : 1 .. Len(windows)]
                      /\ LoginFits(finishing.param, finishing.of, finishing.login)'
    OBVIOUS
  <2>1. flow \in [param : Params, service : Vault!Services, open : BOOLEAN]
    BY <1>1, ElementOfSeq
  <2>2. finishing'.param = flow.param /\ finishing'.of = flow.service /\ finishing'.login = n
    BY <1>4
  <2>3. n # session => crossed
    BY <1>1, <1>2, <1>1 DEF SecretInv, SecretWindowInv
  <2>4. windows[n].param # flow.param => crossed /\ flow.service = Vault!Oauth2
    BY <1>4, <2>1, <2>3 DEF Vault!Services
  <2>5. ~upgraded => fields[flow.param] = flow.service
    BY <1>1 DEF SecretInv, SecretWindowInv
  <2> QED
    BY <1>1, <1>2, <1>3, <1>4, <2>1, <2>2, <2>4, <2>5 DEF LoginFits
<1>6. SecretTypeOK'
  BY <1>1, <1>2, <1>3, <1>5 DEF SecretInv, SecretTypeOK
<1>7. SecretWindowInv'
  BY <1>1, <1>2, <1>3 DEF SecretInv, SecretWindowInv
<1>8. SecretLoginInv'
  BY <1>2, <1>3, <1>5 DEF SecretInv, SecretLoginInv, LoginFits
<1>9. SecretFetchInv'
  BY <1>1, <1>2, <1>3, FetchKept
<1> QED
  BY <1>6, <1>7, <1>8, <1>9 DEF SecretInv

(* A secret comes or goes. *)
LEMMA SaveStep ==
  ASSUME SecretInv, Vault!SaveToken
  PROVE  SecretInv'
<1> DEFINE q == finishing.param
<1>1. /\ finishing # Vault!None /\ finishing' = Vault!None
      /\ UNCHANGED <<fields, configured, live, windows, session, fetching, upgraded, crossed,
                     misplaced>>
      /\ secrets' = IF Vault!IsOauth(q) THEN [secrets EXCEPT ![q] = Vault!Token] ELSE secrets
  BY DEF Vault!SaveToken
<1>2. finishing \in [param : Params, of : Vault!Services, login : 1 .. Len(windows)]
      /\ Len(windows) \in Nat
  BY <1>1 DEF SecretInv, SecretTypeOK
<1>3. /\ Vault!Token \in SecretOf(Len(windows)) /\ Vault!Token.of = finishing.of
      /\ Vault!Token.login = finishing.login /\ Vault!Token.of \in Vault!Services
  BY <1>2 DEF Vault!Token, SecretOf
<1>4. LoginFits(q, Vault!Token.of, Vault!Token.login)
  BY <1>1, <1>3 DEF SecretInv, SecretLoginInv
<1> HIDE DEF q
<1>5. SecretTypeOK'
  BY <1>1, <1>2, <1>3 DEF SecretInv, SecretTypeOK
<1>6. SecretWindowInv'
  BY <1>1 DEF SecretInv, SecretWindowInv
<1>7. secrets' = secrets \/ (q \in Params /\ secrets' = [secrets EXCEPT ![q] = Vault!Token])
  BY <1>1, <1>2 DEF q
<1>8. \A p \in Params : secrets'[p] = secrets[p] \/ (p = q /\ secrets'[p] = Vault!Token)
  BY <1>7 DEF SecretInv, SecretTypeOK
<1>9. SecretLoginInv'
  BY <1>1, <1>3, <1>4, <1>8 DEF SecretInv, SecretLoginInv, LoginFits
<1>10. SecretFetchInv'
  <2>1. ~upgraded => fields[q] = Vault!Token.of
    BY <1>4 DEF LoginFits
  <2>2. Vault!Token.of # Vault!Text
    BY <1>3 DEF Vault!Services, Vault!Text, Vault!Oauth1a, Vault!Oauth2
  <2>3. ~upgraded => KindsFit(fields, secrets)'
    BY <1>1, <1>8, <2>1, <2>2 DEF SecretInv, SecretFetchInv, KindsFit
  <2> QED
    BY <1>1, <2>3 DEF SecretInv, SecretFetchInv, KindsFit
<1> QED
  BY <1>5, <1>6, <1>9, <1>10 DEF SecretInv

(* A secret is typed, or deleted. *)
LEMMA SetStep ==
  ASSUME SecretInv, NEW q \in Params, Vault!SetSecret(q) \/ Vault!DeleteSecret(q)
  PROVE  SecretInv'
<1>1. PICK value \in {Vault!None, [of |-> Vault!Text, login |-> 0]} :
        /\ secrets' = [secrets EXCEPT ![q] = value]
        /\ value.of = Vault!Text /\ fields[q] # Vault!Text => misplaced'
  BY DEF Vault!SetSecret, Vault!DeleteSecret, Vault!None, Vault!Text
<1>2. /\ misplaced' \in BOOLEAN /\ (misplaced => misplaced')
      /\ UNCHANGED <<fields, configured, live, windows, session, finishing, fetching, upgraded,
                     crossed>>
  BY DEF Vault!SetSecret, Vault!DeleteSecret, SecretInv, SecretTypeOK
<1>3. value \in SecretOf(Len(windows)) /\ value.of \notin Vault!Services
  BY DEF SecretOf, SecretInv, SecretTypeOK, Vault!None, Vault!Text, Vault!Services,
           Vault!Oauth1a, Vault!Oauth2
<1>4. \A p \in Params : secrets'[p] = IF p = q THEN value ELSE secrets[p]
  BY <1>1 DEF SecretInv, SecretTypeOK
<1>5. SecretTypeOK'
  BY <1>1, <1>2, <1>3 DEF SecretInv, SecretTypeOK
<1>6. SecretWindowInv' /\ SecretLoginInv'
  BY <1>2, <1>3, <1>4 DEF SecretInv, SecretWindowInv, SecretLoginInv, LoginFits
<1>7. SecretFetchInv'
  BY <1>1, <1>2, <1>3, <1>4 DEF SecretInv, SecretFetchInv, KindsFit
<1> QED
  BY <1>5, <1>6, <1>7 DEF SecretInv

(* The world changes. *)
LEMMA WorldSteps ==
  ASSUME SecretInv, Vault!Upgrade \/ Vault!Deploy \/ Vault!DeleteOrUndo
  PROVE  SecretInv'
<1>1. CASE Vault!Upgrade
  <2>1. fields' \in Kinds /\ upgraded' = TRUE /\ upgraded' \in BOOLEAN
        /\ UNCHANGED <<configured, live, secrets, windows, session, finishing, fetching, crossed,
                       misplaced>>
    BY <1>1, Zenon DEF Vault!Upgrade
  <2>2. SecretWindowInv' /\ SecretLoginInv' /\ SecretFetchInv'
    BY <2>1 DEF SecretInv, SecretWindowInv, SecretLoginInv, LoginFits, SecretFetchInv
  <2>3. SecretTypeOK'
    BY <2>1 DEF SecretInv, SecretTypeOK
  <2> QED
    BY <2>2, <2>3 DEF SecretInv
<1>2. CASE Vault!Deploy
  <2>1. /\ configured' \in SUBSET Vault!Services
        /\ finishing' = Vault!None /\ fetching' = Vault!Idle
        /\ UNCHANGED <<fields, live, secrets, windows, session, upgraded, crossed, misplaced>>
    BY <1>2 DEF Vault!Deploy, Vault!Services
  <2> QED
    BY <2>1 DEF SecretInv, SecretTypeOK, SecretWindowInv, SecretLoginInv, LoginFits,
             SecretFetchInv, KindsFit
<1>3. CASE Vault!DeleteOrUndo
  <2>1. /\ live' \in BOOLEAN
        /\ UNCHANGED <<fields, configured, secrets, windows, session, finishing, fetching,
                       upgraded, crossed, misplaced>>
    BY <1>3 DEF Vault!DeleteOrUndo
  <2> QED
    BY <2>1 DEF SecretInv, SecretTypeOK, SecretWindowInv, SecretLoginInv, LoginFits,
             SecretFetchInv, KindsFit
<1> QED
  BY <1>1, <1>2, <1>3

(* What a fetch gets for one parameter.                                    *)
LEMMA PrepareSecretFacts ==
  ASSUME SecretInv, NEW kind \in {"twitter", "google", "string"},
         NEW value \in SecretOf(Len(windows)),
         value.of \in Vault!Services => kind = value.of,
         value.of = Vault!Text /\ kind # Vault!Text => misplaced,
         NEW x \in Vault!PrepareSecret(kind, value)
  PROVE  /\ x \notin Vault!Uncaught => x \in Vault!Expected(kind)
         /\ x \in Vault!Uncaught => misplaced \/ x = "garbled"
<1> USE DEF Vault!Services, Vault!Oauth1a, Vault!Oauth2, Vault!Text, Vault!Uncaught,
            Vault!Expected
<1>1. CASE value = Vault!None
  BY <1>1 DEF Vault!PrepareSecret
<1>2. CASE value # Vault!None
  <2>1. value.of \in {"twitter", "google", "string"}
    BY <1>2 DEF SecretOf
  <2>2. CASE kind = Vault!Text
    BY <1>2, <2>1, <2>2 DEF Vault!PrepareSecret, Vault!PrepareString
  <2>3. CASE kind # Vault!Text /\ kind \notin configured
    BY <1>2, <2>3 DEF Vault!PrepareSecret
  <2>4. CASE kind = Vault!Oauth1a /\ kind \in configured
    BY <1>2, <2>1, <2>4 DEF Vault!PrepareSecret, Vault!PrepareOauth1a
  <2>5. CASE kind = Vault!Oauth2 /\ kind \in configured
    BY <1>2, <2>1, <2>5 DEF Vault!PrepareSecret, Vault!PrepareOauth2, Vault!RefreshOauth2Token
  <2> QED
    BY <2>2, <2>3, <2>4, <2>5
<1> QED
  BY <1>1, <1>2

(* A fetch. *)
LEMMA FetchSteps ==
  ASSUME SecretInv, Vault!BeginFetch \/ Vault!PrepareSecrets \/ Vault!EndFetch
  PROVE  SecretInv'
<1>1. UNCHANGED <<fields, configured, live, secrets, windows, session, finishing, upgraded,
                  crossed, misplaced>>
  BY DEF Vault!BeginFetch, Vault!PrepareSecrets, Vault!EndFetch
<1>2. SecretTypeOK' /\ SecretWindowInv' /\ SecretLoginInv'
  BY <1>1 DEF SecretInv, SecretTypeOK, SecretWindowInv, SecretLoginInv, LoginFits
<1>3. ~upgraded' => KindsFit(fields, secrets)'
  BY <1>1 DEF SecretInv, SecretFetchInv, KindsFit
<1>4. SecretFetchInv'
  <2>1. CASE Vault!BeginFetch
    BY <1>1, <1>3, <2>1 DEF Vault!BeginFetch, SecretFetchInv, SecretInv, SecretTypeOK, KindsFit
  <2>2. CASE Vault!EndFetch
    BY <1>3, <2>2 DEF Vault!EndFetch, SecretFetchInv
  <2>3. CASE Vault!PrepareSecrets
    <3>1. /\ fetching.at = "loaded" /\ fetching.spec \in Kinds
          /\ \A p \in Params : fetching.secrets[p] \in SecretOf(Len(windows))
          /\ ~upgraded => KindsFit(fetching.spec, fetching.secrets)
      BY <2>3 DEF Vault!PrepareSecrets, SecretInv, SecretFetchInv, Vault!Idle
    <3> DEFINE kinds   == fetching.spec
               values  == fetching.secrets
               results == [p \in Vault!SecretParams(kinds) |->
                             Vault!PrepareSecret(kinds[p], values[p])]
    <3>2. PICK given \in [DOMAIN results -> UNION {results[p] : p \in DOMAIN results}] :
            /\ \A p \in DOMAIN given : given[p] \in results[p]
            /\ \/ /\ \A p \in DOMAIN given : given[p] \notin Vault!Uncaught
                  /\ fetching' = [at |-> "prepared", spec |-> kinds, given |-> given]
               \/ \E p \in DOMAIN given :
                    /\ given[p] \in Vault!Uncaught
                    /\ fetching' = [at |-> "raised", by |-> given[p]]
      BY <2>3 DEF Vault!PrepareSecrets
    <3>3. DOMAIN given = Vault!SecretParams(kinds)
      OBVIOUS
    <3>4. ASSUME ~upgraded, NEW p \in DOMAIN given
          PROVE  /\ given[p] \notin Vault!Uncaught => given[p] \in Vault!Expected(kinds[p])
                 /\ given[p] \in Vault!Uncaught => misplaced \/ given[p] = "garbled"
      <4>1. p \in Params /\ kinds[p] \in {"twitter", "google", "string"}
        BY <3>1, <3>3, KindsOfParams DEF Vault!SecretParams
      <4>2. given[p] \in Vault!PrepareSecret(kinds[p], values[p])
        BY <3>2, <3>3
      <4> QED
        BY <3>1, <3>4, <4>1, <4>2, PrepareSecretFacts DEF KindsFit
    <3> HIDE DEF kinds, values, results
    <3>5. CASE /\ \A p \in DOMAIN given : given[p] \notin Vault!Uncaught
               /\ fetching' = [at |-> "prepared", spec |-> kinds, given |-> given]
      BY <1>1, <1>3, <3>4, <3>5 DEF SecretFetchInv
    <3>6. ASSUME NEW p \in DOMAIN given, given[p] \in Vault!Uncaught,
                 fetching' = [at |-> "raised", by |-> given[p]]
          PROVE  SecretFetchInv'
      BY <1>1, <1>3, <3>4, <3>6 DEF SecretFetchInv
    <3> QED
      BY <3>2, <3>5, <3>6
  <2> QED
    BY <2>1, <2>2, <2>3
<1> QED
  BY <1>2, <1>4 DEF SecretInv

(* Every step keeps the invariant. *)
THEOREM SecretInvariance == Vault!Spec => []SecretInv
<1>1. SecretInv /\ [Vault!Next]_(Vault!vars) => SecretInv'
  <2>1. SecretInv /\ UNCHANGED Vault!vars => SecretInv'
    BY DEF SecretInv, SecretTypeOK, SecretWindowInv, SecretLoginInv, LoginFits, SecretFetchInv,
             KindsFit, Vault!vars
  <2> QED
    BY <2>1, StartStep, AcquireStep, SaveStep, SetStep, WorldSteps, FetchSteps DEF Vault!Next
<1> QED
  BY <1>1, SecretInvInit, PTL DEF Vault!Spec

(* Each login's token is where it belongs; a fetch gets for each parameter *)
(* what its kind may give, and its preparation raises only for a text that *)
(* was made a login's secret or a garbled answer of a service; but for     *)
(* what the property excepts.                                              *)
THEOREM SecretsAreWhereTheyBelong == Vault!Spec => []SecretsFitTheirParams
  BY SecretInvariance, SecretInvImplies, PTL

-----------------------------------------------------------------------------
(***************************************************************************)
(* ModuleVersions: any versions, broken or not, any number of imports and  *)
(* of edits.                                                               *)
(*                                                                         *)
(* The argument: a version gets its row when its file is there, and no     *)
(* file goes (VersionZipInv); what get_migrated_params() returns for a     *)
(* version is by that version, and of the row's params if the row's cache  *)
(* is right (VersionResultFacts); and whatever changes the params or the   *)
(* cache leaves the cache right, but embed(), which knows when it does not.*)
(***************************************************************************)

(* The types. *)
VersionTypeOK ==
  /\ versionRows \in Seq(Versions) /\ staleCache \in BOOLEAN
  /\ importer = Version!Idle \/ (importer # Version!Idle /\ importer.version \in Versions)

(* Whatever has a row, or gets one, is in S3.                              *)
VersionZipInv ==
  /\ Version!Latest \in zips \cup {Version!None}
  /\ importer # Version!Idle => importer.version \in zips

(* A render's version is one whose file is there, and its params are what  *)
(* that version made of the step's.                                        *)
VersionRenderInv ==
  /\ render.pc \in {"loading", "loaded"} => render.version \in zips \cup {Version!None}
  /\ Version!RenderedParamsFit

(* The inductive invariant. *)
VersionInv ==
  /\ VersionTypeOK /\ VersionZipInv
  /\ VersionRenderInv /\ Version!CachedParamsAreOfTheParams

(* It holds at first. *)
LEMMA VersionInvInit == Version!Init => VersionInv
<1> SUFFICES ASSUME Version!Init PROVE VersionInv
  OBVIOUS
<1>1. staleCache \in BOOLEAN /\ versionRows \in Seq(Versions)
  <2>1. staleCache \in BOOLEAN
    BY Zenon DEF Version!Init
  <2>2. versionRows \in Seq(Versions)
    BY DEF Version!Init
  <2> QED
    BY <2>1, <2>2
<1>2. VersionTypeOK /\ VersionZipInv
  BY <1>1 DEF Version!Init, VersionTypeOK, VersionZipInv, Version!Latest
<1>3. VersionRenderInv
  BY DEF Version!Init, VersionRenderInv, Version!RenderedParamsFit, Version!Idle
<1>4. Version!CachedParamsAreOfTheParams
  BY DEF Version!Init, Version!CachedParamsAreOfTheParams, Version!NotCached
<1> QED
  BY <1>2, <1>3, <1>4 DEF VersionInv

(* What get_migrated_params() returns for a version: nothing, or what the  *)
(* version has made of the row's params, as far as the cache is right.     *)
LEMMA VersionResultFacts ==
  ASSUME NEW version, NEW row
  PROVE  LET result == Version!Result(version, row) IN
         /\ result # Version!NotCached => result.by = version
         /\ \/ result = Version!NotCached \/ result.of = row.params
            \/ version # Version!None /\ row.cached.by = version /\ result = row.cached
         /\ version \notin Broken \cup {Version!None} /\ row.cached.by # version =>
              result = [by |-> version, of |-> row.params]
  BY DEF Version!Result, Version!NotCached, Version!Migrated

(* The list of versions without one of them, and with a last one.          *)
LEMMA VersionRowFacts ==
  ASSUME VersionTypeOK, NEW v \in Versions, versionRows' = Append(Version!Others(v), v)
  PROVE  versionRows' \in Seq(Versions) /\ Version!Latest' = v
<1>1. Version!Others(v) \in Seq(Versions)
  <2>1. ASSUME NEW i \in DOMAIN versionRows
        PROVE  Version!RemoveAt(versionRows, i) \in Seq(Versions)
    <3>1. /\ SubSeq(versionRows, 1, i - 1) \in Seq(Versions)
          /\ SubSeq(versionRows, i + 1, Len(versionRows)) \in Seq(Versions)
      BY <2>1, SubSeqProperties DEF VersionTypeOK
    <3> QED
      BY <3>1, ConcatProperties DEF Version!RemoveAt
  <2> QED
    BY <2>1 DEF Version!Others, VersionTypeOK
<1>2. /\ versionRows' \in Seq(Versions) /\ Len(versionRows') = Len(Version!Others(v)) + 1
      /\ versionRows'[Len(Version!Others(v)) + 1] = v /\ Len(Version!Others(v)) \in Nat
  BY <1>1, AppendProperties
<1> QED
  BY <1>2 DEF Version!Latest, Version!Last

(* Versions come. *)
LEMMA VersionImportSteps ==
  ASSUME VersionInv,
         \/ Version!SaveRow \/ Version!ImportFails
         \/ \E v \in Versions : Version!PutZip(v)
  PROVE  VersionInv'
<1>1. UNCHANGED <<params, cached, render, staleCache>>
  BY DEF Version!SaveRow, Version!ImportFails, Version!PutZip
<1>2. zips \subseteq zips'
  BY DEF Version!SaveRow, Version!ImportFails, Version!PutZip
<1>3. VersionTypeOK' /\ VersionZipInv'
  <2>1. CASE Version!SaveRow
    <3>1. importer # Version!Idle /\ importer.version \in Versions /\ importer.version \in zips
      BY <2>1 DEF Version!SaveRow, VersionInv, VersionTypeOK, VersionZipInv
    <3> QED
      BY <2>1, <3>1, VersionRowFacts
         DEF Version!SaveRow, VersionInv, VersionTypeOK, VersionZipInv
  <2>2. CASE Version!ImportFails
    BY <2>2 DEF Version!ImportFails, VersionInv, VersionTypeOK, VersionZipInv, Version!Latest
  <2>3. ASSUME NEW v \in Versions, Version!PutZip(v) PROVE VersionTypeOK' /\ VersionZipInv'
    <3>1. /\ importer'.version = v /\ Version!Latest' = Version!Latest
          /\ UNCHANGED <<versionRows, staleCache>>
          /\ zips' = zips \cup {v}
      BY <2>3 DEF Version!PutZip, Version!Latest
    <3> QED
      BY <3>1 DEF VersionInv, VersionTypeOK, VersionZipInv
  <2> QED
    BY <2>1, <2>2, <2>3
<1>4. VersionRenderInv' /\ Version!CachedParamsAreOfTheParams'
  BY <1>1, <1>2 DEF VersionInv, VersionRenderInv, Version!RenderedParamsFit,
           Version!CachedParamsAreOfTheParams
<1> QED
  BY <1>3, <1>4 DEF VersionInv

(* The step's params change. *)
LEMMA VersionEditSteps ==
  ASSUME VersionInv, Version!SetStepParams \/ Version!Undo
  PROVE  VersionInv'
<1>1. /\ UNCHANGED <<zips, versionRows, importer, render>> /\ staleCache' \in BOOLEAN
      /\ cached' =
           Version!Result(Version!Latest, [params |-> params', cached |-> Version!NotCached])
  BY DEF Version!SetStepParams, Version!Undo
<1>2. Version!CachedParamsAreOfTheParams'
  BY <1>1, VersionResultFacts DEF Version!CachedParamsAreOfTheParams, Version!NotCached
<1> QED
  BY <1>1, <1>2 DEF VersionInv, VersionTypeOK, VersionZipInv, VersionRenderInv,
           Version!RenderedParamsFit, Version!Latest

(* What migrating the row does to the cache. *)
LEMMA VersionCacheFacts ==
  ASSUME VersionInv, NEW v, UNCHANGED <<params, staleCache>>,
         cached' = IF Version!IsStale(v, Version!Row)
                   THEN Version!Result(v, Version!Row) ELSE cached
  PROVE  Version!CachedParamsAreOfTheParams'
  BY VersionResultFacts DEF VersionInv, Version!CachedParamsAreOfTheParams, Version!IsStale,
           Version!Row

(* They are read. *)
LEMMA VersionReadSteps ==
  ASSUME VersionInv, Version!LoadModules \/ Version!LoadParams \/ Version!ReadParams
  PROVE  VersionInv'
<1>1. /\ UNCHANGED <<zips, versionRows, importer, params, staleCache>>
  BY DEF Version!LoadModules, Version!LoadParams, Version!ReadParams
<1>2. VersionTypeOK' /\ VersionZipInv'
  BY <1>1 DEF VersionInv, VersionTypeOK, VersionZipInv, Version!Latest
<1>3. CASE Version!LoadModules
  BY <1>1, <1>2, <1>3 DEF Version!LoadModules, VersionInv, VersionZipInv, VersionRenderInv,
           Version!RenderedParamsFit, Version!CachedParamsAreOfTheParams
<1>4. CASE Version!ReadParams
  <2>1. UNCHANGED render /\ Version!CachedParamsAreOfTheParams'
    BY <1>4, VersionCacheFacts DEF Version!ReadParams
  <2> QED
    BY <1>1, <1>2, <2>1 DEF VersionInv, VersionRenderInv, Version!RenderedParamsFit
<1>5. CASE Version!LoadParams
  <2> DEFINE v == render.version
  <2>1. /\ v \in zips \cup {Version!None}
        /\ render' = [pc |-> "loaded", version |-> v, params |-> Version!Result(v, Version!Row),
                      of |-> params, raced |-> staleCache]
        /\ cached' = IF Version!IsStale(v, Version!Row)
                     THEN Version!Result(v, Version!Row) ELSE cached
    BY <1>5 DEF Version!LoadParams, VersionInv, VersionRenderInv
  <2> HIDE DEF v
  <2>2. Version!CachedParamsAreOfTheParams'
    BY <1>1, <2>1, VersionCacheFacts
  <2>3. /\ render'.pc = "loaded" /\ render'.version = v
        /\ render'.params = Version!Result(v, Version!Row)
        /\ render'.of = params /\ render'.raced = staleCache
    BY <2>1
  <2>4. Version!Result(v, Version!Row) # Version!NotCached =>
          /\ Version!Result(v, Version!Row).by = v
          /\ staleCache \/ Version!Result(v, Version!Row).of = params
    BY VersionResultFacts DEF VersionInv, Version!CachedParamsAreOfTheParams, Version!Row
  <2>5. VersionRenderInv'
    BY <1>1, <2>1, <2>3, <2>4 DEF VersionRenderInv, Version!RenderedParamsFit
  <2> QED
    BY <1>2, <2>2, <2>5 DEF VersionInv
<1> QED
  BY <1>3, <1>4, <1>5

(* embed() reads them and saves what it has made of them.                  *)
LEMMA VersionEmbedSteps ==
  ASSUME VersionInv, Version!EmbedReads \/ Version!EmbedSaves
  PROVE  VersionInv'
<1>1. UNCHANGED <<zips, versionRows, importer, params, render>>
  BY DEF Version!EmbedReads, Version!EmbedSaves
<1>2. staleCache' \in BOOLEAN /\ Version!CachedParamsAreOfTheParams'
  <2>1. CASE UNCHANGED <<cached, staleCache>>
    BY <1>1, <2>1 DEF VersionInv, VersionTypeOK, Version!CachedParamsAreOfTheParams
  <2>2. CASE ~UNCHANGED <<cached, staleCache>>
    <3>1. /\ Version!IsStale(Version!Latest, embed.row)
          /\ cached' = Version!Result(Version!Latest, embed.row)
          /\ staleCache' = (embed.row.params # params)
      BY <2>2 DEF Version!EmbedReads, Version!EmbedSaves
    <3>2. staleCache' \in BOOLEAN /\ (~staleCache' => embed.row.params = params)
      BY <3>1, Zenon
    <3>3. cached' = [by |-> Version!Latest, of |-> embed.row.params]
      BY <3>1, VersionResultFacts DEF Version!IsStale
    <3> QED
      BY <1>1, <3>2, <3>3 DEF Version!CachedParamsAreOfTheParams
  <2> QED
    BY <2>1, <2>2
<1> QED
  BY <1>1, <1>2 DEF VersionInv, VersionTypeOK, VersionZipInv, VersionRenderInv,
           Version!RenderedParamsFit, Version!Latest

(* Every step keeps the invariant. *)
THEOREM VersionInvariance == Version!Spec => []VersionInv
<1>1. VersionInv /\ [Version!Next]_(Version!vars) => VersionInv'
  <2>1. VersionInv /\ UNCHANGED Version!vars => VersionInv'
    BY DEF VersionInv, VersionTypeOK, VersionZipInv, VersionRenderInv, Version!RenderedParamsFit,
             Version!CachedParamsAreOfTheParams, Version!Latest, Version!vars
  <2> QED
    BY <2>1, VersionImportSteps, VersionEditSteps, VersionReadSteps, VersionEmbedSteps DEF
             Version!Next
<1> QED
  BY <1>1, VersionInvInit, PTL DEF Version!Spec

(* A render runs a version that is there, with params that this version    *)
(* has made of the step's, and so are those in the cache.                  *)
THEOREM ParamsFit == Version!Spec => []ParamsFitTheirVersion
<1>1. VersionInv => ParamsFitTheirVersion
  BY DEF VersionInv, VersionRenderInv, ParamsFitTheirVersion
<1> QED
  BY <1>1, VersionInvariance, PTL

-----------------------------------------------------------------------------
(***************************************************************************)
(* ModuleProcess: messages of any length, any limits, and pipes that keep  *)
(* something; a child that writes, closes and hangs as it likes.           *)
(*                                                                         *)
(* The argument: what has left a pipe is what its reader has got, up to    *)
(* the limit (BytesInv), so a call that waits, its readers done with closed*)
(* and empty pipes, knows what was written.  A child that is blocked on a  *)
(* full pipe has not closed it, so its reader has something to read and    *)
(* time does not run out (KillSteps): only a child that hangs is killed.   *)
(***************************************************************************)

(* What the child may be about to do. *)
Doings == {"runs", "out", "log", "close_out", "close_log", "exit", "hang", "ended"}

(* What the reader of a pipe has: all that left the pipe, up to the limit. *)
Kept(p) == IF wrote[p] - pipe[p].n <= Limit[p] THEN wrote[p] - pipe[p].n ELSE Limit[p]

(* The types. *)
ProcessTypeOK ==
  /\ length \in Nat
  /\ child \in [does : Doings, code : Int]
  /\ wrote \in [Process!Pipes -> Nat]
  /\ pipe \in [Process!Pipes -> [n : Nat, open : BOOLEAN]]
  /\ reader \in [Process!Pipes -> [got : Nat, overflowed : BOOLEAN, eof : BOOLEAN]]
  /\ process \in [pc : {"select", "wait", "result", "exited", "raised", "timed_out"},
                  timedOut : BOOLEAN, waits : Nat]

(* No byte is lost but those past the limit, and a reader is done with a   *)
(* pipe that is closed and empty.                                          *)
BytesInv ==
  \A p \in Process!Pipes : /\ pipe[p].n <= wrote[p] /\ reader[p].got = Kept(p)
                           /\ reader[p].eof => ~pipe[p].open /\ pipe[p].n = 0

(* A child writes to what it has not closed; one that hangs is known to.   *)
ChildInv ==
  /\ child.does \in Process!Pipes => pipe[child.does].open
  /\ child.does = "hang" => hung
  /\ child.does = "ended" => \A p \in Process!Pipes : ~pipe[p].open

(* A call waits once it has read all, and returns once the child has ended.*)
CallInv ==
  /\ process.pc # "select" => \A p \in Process!Pipes : reader[p].eof
  /\ process.pc \notin {"select", "wait"} => child.does = "ended"
  /\ process.timedOut => hung /\ child = Process!Ended(-9)

(* The inductive invariant. *)
ProcessInv == ProcessTypeOK /\ BytesInv /\ ChildInv /\ CallInv /\ Process!ResultsAreWholeMessages

(* It says what the runs check. *)
LEMMA ProcessInvImplies == ProcessInv => ChildrenAreHeardOut
  BY DEF ProcessInv, CallInv, ChildrenAreHeardOut, Process!OnlyHungChildrenAreKilled

(* It holds at first. *)
LEMMA ProcessInvInit == Process!Init => ProcessInv
<1> SUFFICES ASSUME Process!Init PROVE ProcessInv
  OBVIOUS
<1> USE ProcessNumbers
<1>1. ProcessTypeOK
  BY DEF Process!Init, ProcessTypeOK, Process!Reader, Process!Child, Doings, Process!Pipes
<1>2. BytesInv /\ ChildInv /\ CallInv /\ Process!ResultsAreWholeMessages
  BY DEF Process!Init, BytesInv, ChildInv, CallInv, Process!ResultsAreWholeMessages, Kept,
           Process!Reader, Process!Child, Process!Pipes, Process!Ended
<1> QED
  BY <1>1, <1>2 DEF ProcessInv

(* The smaller of two numbers. *)
LEMMA MinOfTwo ==
  ASSUME NEW a \in Int, NEW b \in Int
  PROVE  Process!Min({a, b}) = IF a <= b THEN a ELSE b
  BY DEF Process!Min

(* Pipes that are closed all at once. *)
LEMMA ClosedPipes ==
  ASSUME ProcessTypeOK, pipe' = [p \in Process!Pipes |-> [pipe[p] EXCEPT !.open = FALSE]]
  PROVE  /\ pipe' \in [Process!Pipes -> [n : Nat, open : BOOLEAN]]
         /\ \A p \in Process!Pipes : pipe'[p].n = pipe[p].n /\ pipe'[p].open = FALSE
<1>1. ASSUME NEW p \in Process!Pipes
      PROVE  /\ [pipe[p] EXCEPT !.open = FALSE] \in [n : Nat, open : BOOLEAN]
             /\ [pipe[p] EXCEPT !.open = FALSE].n = pipe[p].n
             /\ [pipe[p] EXCEPT !.open = FALSE].open = FALSE
  BY DEF ProcessTypeOK
<1> QED
  BY <1>1

(* The child's steps. *)
LEMMA ChildSteps ==
  ASSUME ProcessInv,
         \/ Process!ChildDecides \/ Process!ChildWrites \/ Process!ChildExits
         \/ \E p \in Process!Pipes : Process!ChildCloses(p)
  PROVE  ProcessInv'
<1> USE ProcessNumbers
<1>1. /\ child.does # "ended" /\ UNCHANGED <<length, sense, reader, process>>
      /\ \A p \in Process!Pipes : pipe[p].n <= pipe'[p].n
  BY DEF Process!ChildDecides, Process!ChildWrites, Process!ChildExits, Process!ChildCloses,
           Process!Closing, ProcessInv, ProcessTypeOK, Process!Pipes
<1>2. process.pc \in {"select", "wait"} /\ ~process.timedOut
  BY <1>1 DEF ProcessInv, ProcessTypeOK, CallInv, Process!Ended
<1>3. CallInv' /\ Process!ResultsAreWholeMessages'
  BY <1>1, <1>2 DEF ProcessInv, CallInv, Process!ResultsAreWholeMessages
<1>4. CASE Process!ChildDecides
  <2>1. ProcessTypeOK'
    BY <1>4 DEF Process!ChildDecides, ProcessInv, ProcessTypeOK, Doings, Process!Child,
             Process!Pipes, Process!Closing
  <2>2. BytesInv'
    BY <1>4 DEF Process!ChildDecides, ProcessInv, BytesInv, Kept
  <2>3. ChildInv'
    <3> PICK does : /\ does \in Process!Pipes => pipe[does].open
                    /\ child' = Process!Child(does) /\ hung' = (does = "hang")
                    /\ does # "ended" /\ UNCHANGED pipe
      BY <1>4 DEF Process!ChildDecides, Process!Pipes, Process!Closing
    <3>1. does = "hang" => hung'
      BY Zenon
    <3> QED
      BY <3>1 DEF ChildInv, Process!Child
  <2> QED
    BY <1>3, <2>1, <2>2, <2>3 DEF ProcessInv
<1>5. CASE Process!ChildWrites
  <2>1. ProcessTypeOK'
    BY <1>5 DEF Process!ChildWrites, ProcessInv, ProcessTypeOK, Doings, Process!Child,
             Process!Pipes
  <2>2. BytesInv'
    <3>1. ASSUME NEW p \in Process!Pipes
          PROVE  /\ pipe'[p].n - pipe[p].n = wrote'[p] - wrote[p]
                 /\ pipe'[p].n \in Nat /\ wrote'[p] \in Nat
                 /\ wrote'[p] # wrote[p] => pipe[p].open
                 /\ wrote'[p] = wrote[p] => pipe'[p] = pipe[p]
      BY <1>5 DEF Process!ChildWrites, ProcessInv, ProcessTypeOK, ChildInv
    <3> QED
      BY <1>1, <3>1 DEF ProcessInv, ProcessTypeOK, BytesInv, Kept
  <2>3. ChildInv'
    BY <1>5 DEF Process!ChildWrites, ProcessInv, ChildInv, Process!Child, Process!Pipes
  <2> QED
    BY <1>3, <2>1, <2>2, <2>3 DEF ProcessInv
<1>6. CASE Process!ChildExits
  <2>0. /\ pipe' \in [Process!Pipes -> [n : Nat, open : BOOLEAN]]
        /\ \A p \in Process!Pipes : pipe'[p].n = pipe[p].n /\ pipe'[p].open = FALSE
        /\ child' \in {Process!Ended(0), Process!Ended(1)} /\ UNCHANGED wrote
    BY <1>6, ClosedPipes DEF Process!ChildExits, ProcessInv
  <2>1. ProcessTypeOK'
    BY <1>1, <2>0 DEF ProcessInv, ProcessTypeOK, Doings, Process!Ended
  <2>2. BytesInv'
    BY <1>1, <2>0 DEF ProcessInv, BytesInv, Kept
  <2>3. ChildInv'
    BY <2>0 DEF ChildInv, Process!Ended, Process!Pipes
  <2> QED
    BY <1>3, <2>1, <2>2, <2>3 DEF ProcessInv
<1>7. ASSUME NEW p \in Process!Pipes, Process!ChildCloses(p) PROVE ProcessInv'
  <2>1. ProcessTypeOK'
    <3>1. /\ child' \in [does : Doings, code : Int] /\ UNCHANGED wrote
          /\ pipe' = [pipe EXCEPT ![p] = [pipe[p] EXCEPT !.open = FALSE]]
      BY <1>7 DEF Process!ChildCloses, Doings, Process!Child
    <3>2. pipe[p] \in [n : Nat, open : BOOLEAN]
      BY DEF ProcessInv, ProcessTypeOK
    <3>3. [pipe[p] EXCEPT !.open = FALSE] \in [n : Nat, open : BOOLEAN]
      BY <3>2
    <3>4. pipe' \in [Process!Pipes -> [n : Nat, open : BOOLEAN]]
      BY <3>1, <3>3 DEF ProcessInv, ProcessTypeOK
    <3> QED
      BY <1>1, <3>1, <3>4 DEF ProcessInv, ProcessTypeOK
  <2>2. BytesInv'
    BY <1>7 DEF Process!ChildCloses, ProcessInv, ProcessTypeOK, BytesInv, Kept
  <2>3. ChildInv'
    BY <1>7 DEF Process!ChildCloses, ProcessInv, ProcessTypeOK, ChildInv, Process!Child,
             Process!Pipes
  <2> QED
    BY <1>3, <2>1, <2>2, <2>3 DEF ProcessInv
<1> QED
  BY <1>4, <1>5, <1>6, <1>7

(* A reader takes what its pipe has. *)
LEMMA IngestStep ==
  ASSUME ProcessInv, NEW p \in Process!Pipes, Process!Ingest(p)
  PROVE  ProcessInv'
<1> USE ProcessNumbers
<1> DEFINE total == reader[p].got + pipe[p].n
<1>1. /\ total \in Nat /\ Limit[p] \in Nat
      /\ Process!Min({total, Limit[p]}) = IF total <= Limit[p] THEN total ELSE Limit[p]
  BY MinOfTwo DEF ProcessInv, ProcessTypeOK, Process!Pipes
<1>2. /\ process.pc = "select" /\ UNCHANGED <<length, sense, child, hung, wrote, process>>
      /\ reader' = [reader EXCEPT ![p] =
           [got |-> IF total <= Limit[p] THEN total ELSE Limit[p],
            overflowed |-> reader[p].overflowed \/ total > Limit[p], eof |-> ~pipe[p].open]]
      /\ pipe' = [pipe EXCEPT ![p] = [pipe[p] EXCEPT !.n = 0]]
  BY <1>1 DEF Process!Ingest, Process!Ingested, Process!Registered, Process!Reader
<1> HIDE DEF total
<1>3. ProcessTypeOK'
  <2>1. (reader[p].overflowed \/ total > Limit[p]) \in BOOLEAN
    BY Zenon
  <2> QED
    BY <1>1, <1>2, <2>1 DEF ProcessInv, ProcessTypeOK
<1>4. BytesInv'
  <2>1. total = Kept(p) + pipe[p].n
    BY DEF total, ProcessInv, BytesInv
  <2> QED
    BY <1>1, <1>2, <2>1 DEF ProcessInv, ProcessTypeOK, BytesInv, Kept
<1>5. ChildInv' /\ CallInv' /\ Process!ResultsAreWholeMessages'
  BY <1>2 DEF ProcessInv, ProcessTypeOK, ChildInv, CallInv, Process!ResultsAreWholeMessages
<1> QED
  BY <1>3, <1>4, <1>5 DEF ProcessInv

(* A reader that has nothing to read of an open pipe has an empty one.     *)
LEMMA NothingInThePipe ==
  ASSUME ProcessInv, NEW p \in Process!Pipes, Process!NothingToRead(p)
  PROVE  pipe[p].n = 0
  BY DEF ProcessInv, ProcessTypeOK, Process!NothingToRead, Process!Ingested

(* The child is killed for hanging, and for nothing else. *)
LEMMA KillSteps ==
  ASSUME ProcessInv, Process!TimeOut \/ Process!GiveUp
  PROVE  ProcessInv'
<1> USE ProcessNumbers
<1>1. child.does = "hang"
  <2>1. CASE Process!TimeOut /\ Process!Blocked
    <3>1. child.does \in Process!Pipes /\ pipe[child.does].n = PipeSize /\ pipe[child.does].open
      BY <2>1 DEF Process!Blocked, ProcessInv, ChildInv
    <3>2. Process!NothingToRead(child.does)
      BY <2>1, <3>1 DEF Process!TimeOut, Process!Registered, ProcessInv, BytesInv
    <3> QED
      BY <3>1, <3>2, NothingInThePipe
  <2> QED
    BY <2>1 DEF Process!TimeOut, Process!GiveUp
<1>2. /\ child' = Process!Ended(-9) /\ process' = [process EXCEPT !.timedOut = TRUE]
      /\ process.pc \in {"select", "wait"}
      /\ UNCHANGED <<length, sense, hung, wrote, reader>>
      /\ pipe' \in [Process!Pipes -> [n : Nat, open : BOOLEAN]]
      /\ \A p \in Process!Pipes : pipe'[p].n = pipe[p].n /\ pipe'[p].open = FALSE
  BY ClosedPipes DEF Process!TimeOut, Process!GiveUp, Process!Kill, ProcessInv
<1>3. ProcessTypeOK'
  <2>1. -9 \in Int
    OBVIOUS
  <2>2. child' \in [does : Doings, code : Int]
    BY <1>2, <2>1 DEF Process!Ended, Doings
  <2>3. /\ process' \in [pc : {"select", "wait", "result", "exited", "raised", "timed_out"},
                      timedOut : BOOLEAN, waits : Nat]
        /\ length' \in Nat
    BY <1>2 DEF ProcessInv, ProcessTypeOK
  <2> QED
    BY <1>2, <2>2, <2>3 DEF ProcessInv, ProcessTypeOK
<1>4. BytesInv'
  BY <1>2 DEF ProcessInv, ProcessTypeOK, BytesInv, Kept
<1>5. ChildInv' /\ CallInv' /\ Process!ResultsAreWholeMessages'
  BY <1>1, <1>2 DEF ProcessInv, ProcessTypeOK, ChildInv, CallInv,
         Process!ResultsAreWholeMessages, Process!Ended, Process!Pipes
<1> QED
  BY <1>3, <1>4, <1>5 DEF ProcessInv

(* The call waits, and returns what it makes of the message. *)
LEMMA CallSteps ==
  ASSUME ProcessInv, Process!Unregistered \/ Process!Poll \/ Process!Return
  PROVE  ProcessInv'
<1> USE ProcessNumbers
<1>1. UNCHANGED <<length, sense, child, hung, wrote, pipe, reader>>
  BY DEF Process!Unregistered, Process!Poll, Process!Return
<1>2. BytesInv' /\ ChildInv'
  BY <1>1 DEF ProcessInv, BytesInv, ChildInv, Kept
<1>3. CASE Process!Unregistered \/ Process!Poll
  BY <1>1, <1>2, <1>3 DEF Process!Unregistered, Process!Poll, ProcessInv, ProcessTypeOK, CallInv,
           Process!ResultsAreWholeMessages
<1>4. CASE Process!Return
  <2> PICK outcome \in IF process.timedOut THEN {"timed_out"}
                       ELSE IF child.code # 0 THEN {"exited"} ELSE Process!Message :
         process' = [process EXCEPT !.pc = outcome]
    BY <1>4 DEF Process!Return
  <2>1. /\ child.does = "ended" /\ \A p \in Process!Pipes : reader[p].eof
        /\ outcome \in {"timed_out", "exited", "raised", "result"}
    BY <1>4 DEF Process!Return, ProcessInv, CallInv, Process!Message
  <2>2. ProcessTypeOK' /\ CallInv'
    BY <1>1, <2>1 DEF ProcessInv, ProcessTypeOK, CallInv
  <2>3. /\ reader["out"].got = IF wrote["out"] <= Limit["out"]
                               THEN wrote["out"] ELSE Limit["out"]
        /\ wrote["out"] \in Nat /\ Limit["out"] \in Nat /\ length \in Nat
    BY <2>1 DEF ProcessInv, ProcessTypeOK, BytesInv, Kept, Process!Pipes
  <2>4. Process!ResultsAreWholeMessages'
    <3>1. child \in [does : Doings, code : Int]
      BY DEF ProcessInv, ProcessTypeOK
    <3>2. child = Process!Ended(0) <=> child.code = 0
      BY <2>1, <3>1 DEF Process!Ended
    <3>3. process.timedOut => child.code # 0
      BY DEF ProcessInv, CallInv, Process!Ended
    <3>4. process'.pc = outcome
      BY DEF ProcessInv, ProcessTypeOK
    <3>5. outcome = "result" <=> child.code = 0 /\ sense /\ reader["out"].got = length
      BY <3>3 DEF Process!Message
    <3> QED
      BY <1>1, <2>3, <3>2, <3>4, <3>5 DEF Process!ResultsAreWholeMessages
  <2> QED
    BY <1>2, <2>2, <2>4 DEF ProcessInv
<1> QED
  BY <1>3, <1>4

(* Every step keeps the invariant. *)
THEOREM ProcessInvariance == Process!Spec => []ProcessInv
<1>1. ProcessInv /\ [Process!Next]_(Process!vars) => ProcessInv'
  <2>1. ProcessInv /\ UNCHANGED Process!vars => ProcessInv'
    BY DEF ProcessInv, ProcessTypeOK, BytesInv, ChildInv, CallInv,
             Process!ResultsAreWholeMessages, Kept, Process!vars
  <2> QED
    BY <2>1, ChildSteps, IngestStep, KillSteps, CallSteps DEF Process!Next
<1> QED
  BY <1>1, ProcessInvInit, PTL DEF Process!Spec

(* A result is one whole message of a child that ended well, and no child  *)
(* is killed for what its reader did not read.                             *)
THEOREM ChildrenGetTheirSay == Process!Spec => []ChildrenAreHeardOut
  BY ProcessInvariance, ProcessInvImplies, PTL

-----------------------------------------------------------------------------
(***************************************************************************)
(* WorkflowCopies: any requests at once, any number of sessions, workflows,*)
(* changes and deaths.                                                     *)
(*                                                                         *)
(* The argument: workflows are kept and end once, and keys come once       *)
(* (Grows, NewKeys), so whatever a request has found out stays true while  *)
(* others move (RequestStays), and a session that is gone stays gone.  The *)
(* index admits one copy of the example by owner (CopyStep); of lessons    *)
(* there are two only if get_or_create() has raced.                        *)
(***************************************************************************)

(* What a request may be, and a workflow. *)
Ats == {"idle", "get", "create", "again", "queue", "show", "begun", "page", "lost",
        "forbidden", "anonymous", "gone", "second", "twins", "crashed"}

Request == [what : {"page", "duplicate", "lesson"}, at : Ats, owner : Nat, isNew : BOOLEAN,
            shows : Nat]

Workflow == [of : {"original", "lesson"}, owner : Nat,
             status : {"there", "deleted", "expired"}, pending : BOOLEAN]

(* The types. *)
CopyTypeOK ==
  /\ original \in [there : BOOLEAN, public : BOOLEAN, example : BOOLEAN, shared : BOOLEAN,
                   rendered : BOOLEAN]
  /\ nKeys \in Nat /\ DOMAIN sessions \subseteq 1 .. nKeys
  /\ copies \in Seq(Workflow) /\ requests \in [Requests -> Request]
  /\ crashes \in Nat /\ twice \in BOOLEAN
  /\ cron \in [at : {"idle", "cleared", "listed"}, victims : SUBSET DOMAIN copies]

(* Two that are there are of two owners, or a lesson begun twice.          *)
OnlyCopy(i, j) ==
  i # j /\ ~Copy!Ended(i) /\ ~Copy!Ended(j) /\ copies[i].of = copies[j].of
    /\ copies[i].owner = copies[j].owner => copies[i].of = "lesson" /\ twice

(* A workflow expires, or is going to, when its owner's session has gone   *)
(* for good; a lesson with no results has its request.                     *)
WorkflowInv(i) ==
  /\ copies[i].owner <= nKeys
  /\ copies[i].status = "expired" \/ i \in cron.victims =>
       copies[i].owner \notin DOMAIN sessions
  /\ copies[i].of = "lesson" /\ copies[i].pending /\ ~Copy!Ended(i) =>
       crashes > 0 \/ Copy!WillQueue(i)

(* What a request shows is its owner's; and why it ends in an error.       *)
RequestInv(r) ==
  LET q == requests[r] IN
  /\ q.owner <= nKeys
  /\ q.shows # 0 => /\ q.shows \in DOMAIN copies /\ copies[q.shows].owner = q.owner
                    /\ copies[q.shows].of = Copy!Of(q)
  /\ q.at \in {"begun", "queue"} => q.shows # 0
  /\ q.at \in {"get", "again", "show"} => q.what # "duplicate"
  /\ q.at = "page" /\ q.shows # 0 /\ q.what # "lesson" => ~copies[q.shows].pending
  /\ q.at = "again" => \E i \in DOMAIN copies : copies[i].owner = q.owner
                                                    /\ copies[i].of = Copy!Of(q)
  /\ q.at = "gone"  => ~original.there \/ \E i \in DOMAIN copies :
                         Copy!Ended(i) /\ copies[i].owner = q.owner
  /\ q.at = "twins" => twice

(* The inductive invariant. *)
CopyInv ==
  /\ CopyTypeOK
  /\ \A i, j \in DOMAIN copies : OnlyCopy(i, j)
  /\ \A i \in DOMAIN copies : WorkflowInv(i)
  /\ \A r \in Requests : RequestInv(r)

(* It says what the runs check. *)
LEMMA CopyInvImplies == CopyInv => VisitorsGetTheirCopy
<1> SUFFICES ASSUME CopyInv PROVE VisitorsGetTheirCopy
  OBVIOUS
<1>1. ASSUME NEW i \in DOMAIN copies, NEW j \in DOMAIN copies
      PROVE  /\ OnlyCopy(i, j)
             /\ copies[i].status = "expired" => copies[i].owner \notin DOMAIN sessions
  BY DEF CopyInv, WorkflowInv
<1>2. ASSUME NEW r \in Requests
      PROVE  LET q == requests[r] IN
             /\ q.at = "page" /\ q.shows # 0 =>
                  /\ copies[q.shows].owner = q.owner /\ copies[q.shows].of = Copy!Of(q)
                  /\ ~copies[q.shows].pending \/ Copy!Ended(q.shows)
                     \/ (q.what = "lesson" /\ (crashes > 0 \/ Copy!WillQueue(q.shows)))
             /\ q.at = "gone"  => ~original.there \/ \E i \in DOMAIN copies :
                                   Copy!Ended(i) /\ copies[i].owner = q.owner
             /\ q.at = "twins" => twice
  <2> DEFINE q == requests[r]
  <2>1. RequestInv(r) /\ (q.shows # 0 => WorkflowInv(q.shows))
    BY DEF CopyInv, RequestInv
  <2> QED
    BY <2>1 DEF RequestInv, WorkflowInv, Copy!Of
<1> QED
  BY <1>1, <1>2 DEF VisitorsGetTheirCopy, Copy!VisitorsGetTheirCopy, OnlyCopy

(* It holds at first. *)
LEMMA CopyInvInit == Copy!Init => CopyInv
<1> SUFFICES ASSUME Copy!Init PROVE CopyInv
  OBVIOUS
<1>1. copies \in Seq(Workflow) /\ DOMAIN copies = {} /\ DOMAIN sessions = {}
  BY DEF Copy!Init
<1>2. CopyTypeOK
  BY <1>1 DEF Copy!Init, CopyTypeOK, Copy!Idle, Request, Ats, Copy!User
<1>3. \A r \in Requests : RequestInv(r)
  BY DEF Copy!Init, RequestInv, Copy!Idle, Copy!User
<1> QED
  BY <1>1, <1>2, <1>3 DEF CopyInv

-----------------------------------------------------------------------------
(* What only ever grows: workflows are kept, and end once; so are the keys.*)
Grows ==
  /\ DOMAIN copies \subseteq DOMAIN copies'
  /\ \A i \in DOMAIN copies :
       /\ copies'[i].owner = copies[i].owner /\ copies'[i].of = copies[i].of
       /\ copies[i].status # "there" => copies'[i].status # "there"
       /\ copies'[i].pending => copies[i].pending
  /\ nKeys' \in Nat /\ nKeys <= nKeys' /\ (original'.there => original.there)
  /\ twice => twice'

(* Sessions come with new keys only. *)
NewKeys == /\ DOMAIN sessions' \subseteq 1 .. nKeys'
           /\ \A k \in DOMAIN sessions' : k \in DOMAIN sessions \/ k > nKeys

(* A workflow is one. *)
LEMMA WorkflowTypes ==
  ASSUME CopyTypeOK, NEW i \in DOMAIN copies
  PROVE  copies[i] \in Workflow /\ copies[i].owner \in Nat
<1>1. copies[i] \in Workflow
  BY DEF CopyTypeOK
<1> QED
  BY <1>1 DEF Workflow

(* A request that does not move keeps what it knows. *)
LEMMA RequestStays ==
  ASSUME CopyTypeOK, Grows, NEW r \in Requests, RequestInv(r), requests'[r] = requests[r]
  PROVE  RequestInv(r)'
<1> DEFINE q == requests[r]
<1>1. q \in Request /\ requests'[r] = q
  BY DEF CopyTypeOK
<1> HIDE DEF q
<1>2. q.owner <= nKeys' /\ q.owner \in Nat
  BY <1>1 DEF RequestInv, Grows, CopyTypeOK, Request, q
<1>3. q.at = "again" => \E i \in DOMAIN copies' : copies'[i].owner = q.owner
                                                    /\ copies'[i].of = Copy!Of(q)
  BY DEF RequestInv, Grows, q
<1>4. q.at = "gone" => ~original'.there \/ \E i \in DOMAIN copies' :
                         copies'[i].status # "there" /\ copies'[i].owner = q.owner
  BY DEF RequestInv, Grows, Copy!Ended, q
<1> QED
  BY <1>1, <1>2, <1>3, <1>4 DEF RequestInv, Grows, Copy!Of, Copy!Ended, q

(* The same of a workflow that neither ends nor is doomed. *)
LEMMA WorkflowStays ==
  ASSUME CopyTypeOK, Grows, NewKeys, NEW i \in DOMAIN copies, WorkflowInv(i),
         copies'[i].status = "expired" \/ i \in cron'.victims =>
           \/ copies[i].status = "expired" \/ i \in cron.victims
           \/ copies[i].owner \notin DOMAIN sessions,
         crashes' \in Nat, crashes <= crashes', Copy!WillQueue(i) => Copy!WillQueue(i)'
  PROVE  WorkflowInv(i)'
<1>1. copies[i].owner \in Nat
  BY WorkflowTypes
<1> QED
  BY <1>1 DEF CopyTypeOK, Grows, NewKeys, WorkflowInv, Copy!Ended

(* Nobody queues but the requests that do. *)
LEMMA QueuersStay ==
  ASSUME CopyTypeOK, NEW r \in Requests, NEW q, requests' = [requests EXCEPT ![r] = q],
         NEW i, requests[r].at \in {"begun", "queue"} /\ requests[r].shows = i =>
                  q.at \in {"begun", "queue"} /\ q.shows = i
  PROVE  Copy!WillQueue(i) => Copy!WillQueue(i)'
  BY DEF CopyTypeOK, Copy!WillQueue

(* Nothing that is there has come. *)
LEMMA OnlyCopyStays ==
  ASSUME CopyTypeOK, Grows, NEW i \in DOMAIN copies, NEW j \in DOMAIN copies, OnlyCopy(i, j)
  PROVE  OnlyCopy(i, j)'
  BY DEF Grows, OnlyCopy, Copy!Ended

(* A step of a request that changes no workflow, nor cron.                 *)
LEMMA QuietStep ==
  ASSUME CopyInv, NEW r \in Requests, NEW q \in Request,
         requests' = [requests EXCEPT ![r] = q],
         UNCHANGED <<copies, original, cron>>, nKeys' \in Nat, nKeys <= nKeys',
         twice => twice', twice' \in BOOLEAN, NewKeys, crashes' \in Nat, crashes <= crashes',
         requests[r].at \in {"begun", "queue"} =>
           crashes' > 0 \/ (q.at \in {"begun", "queue"} /\ q.shows = requests[r].shows)
             \/ (requests[r].shows \in DOMAIN copies /\ Copy!Ended(requests[r].shows)),
         RequestInv(r)'
  PROVE  CopyInv'
<1>1. Grows
  BY DEF Grows
<1>2. CopyTypeOK'
  BY DEF CopyInv, CopyTypeOK, NewKeys
<1>3. ASSUME NEW i \in DOMAIN copies' PROVE WorkflowInv(i)'
  <2>1. CASE crashes' > 0 \/ Copy!Ended(i)
    <3>1. copies[i].owner \in Nat
      BY WorkflowTypes DEF CopyInv
    <3> QED
      BY <2>1, <3>1 DEF CopyInv, CopyTypeOK, NewKeys, WorkflowInv, Copy!Ended
  <2>2. CASE ~(crashes' > 0) /\ ~Copy!Ended(i)
    BY <1>1, <2>2, QueuersStay, WorkflowStays DEF CopyInv
  <2> QED
    BY <2>1, <2>2
<1>4. ASSUME NEW s \in Requests PROVE RequestInv(s)'
  <2>1. s # r => requests'[s] = requests[s]
    BY DEF CopyInv, CopyTypeOK
  <2> QED
    BY <1>1, <2>1, RequestStays DEF CopyInv
<1>5. \A i, j \in DOMAIN copies' : OnlyCopy(i, j)'
  BY <1>1, OnlyCopyStays DEF CopyInv
<1> QED
  BY <1>2, <1>3, <1>4, <1>5 DEF CopyInv

-----------------------------------------------------------------------------
(* What Begin() makes of a request. *)
LEMMA BeginFacts ==
  ASSUME CopyTypeOK, NEW r \in Requests, Copy!Begin(r)
  PROVE  \E q \in Request :
           /\ requests' = [requests EXCEPT ![r] = q] /\ q.shows = 0 /\ q.owner <= nKeys'
           /\ q.at \in {"get", "lost", "forbidden", "show", "anonymous", "create"}
           /\ q.at \in {"get", "show"} => q.what # "duplicate"
           /\ nKeys' \in Nat /\ nKeys <= nKeys' /\ NewKeys
<1>1. /\ Copy!Idle \in Request /\ Copy!Idle.shows = 0 /\ Copy!Idle.owner = 0
      /\ nKeys \in Nat /\ DOMAIN sessions \subseteq 1 .. nKeys
  BY DEF Copy!Idle, Request, Ats, Copy!User, CopyTypeOK
<1>2. ASSUME NEW q \in Request, q.shows = 0, Copy!InSession(r, q)
      PROVE  \E n \in Request :
               /\ requests' = [requests EXCEPT ![r] = n] /\ n.shows = 0 /\ n.owner <= nKeys'
               /\ n.at = "get" /\ n.what = q.what /\ nKeys' \in Nat /\ nKeys <= nKeys' /\ NewKeys
  <2> DEFINE key == IF Copy!Session # 0 THEN Copy!Session ELSE nKeys + 1
             n == [q EXCEPT !.at = "get", !.owner = key, !.isNew = (Copy!Session = 0)]
  <2>1. key \in Nat /\ key <= (IF Copy!Session = 0 THEN nKeys + 1 ELSE nKeys)
    BY <1>1 DEF Copy!Session
  <2>2. (Copy!Session = 0) \in BOOLEAN
    BY Zenon
  <2>3. n \in Request /\ n.shows = 0 /\ n.owner = key /\ n.at = "get" /\ n.what = q.what
    BY <1>2, <2>1, <2>2 DEF Request, Ats
  <2>4. requests' = [requests EXCEPT ![r] = n]
    <3>1. [[q EXCEPT !.isNew = (Copy!Session = 0), !.owner = key] EXCEPT !.at = "get"] = n
      BY DEF Request
    <3> QED
      BY <1>2, <3>1 DEF Copy!InSession, Copy!Go
  <2>5. nKeys' = (IF Copy!Session = 0 THEN nKeys + 1 ELSE nKeys) /\ NewKeys
    BY <1>1, <1>2 DEF Copy!InSession, Copy!With, NewKeys, Copy!Session
  <2>6. nKeys' \in Nat /\ nKeys <= nKeys' /\ key <= nKeys'
    BY <1>1, <2>1, <2>5
  <2> HIDE DEF n
  <2> QED
    BY <2>3, <2>4, <2>5, <2>6
<1>3. ASSUME NEW q \in Request, q.shows = 0, q.owner = 0, UNCHANGED <<sessions, nKeys>>,
             NEW at \in {"get", "lost", "forbidden", "show", "anonymous", "create"},
             Copy!Go(r, q, at)
      PROVE  \E n \in Request :
               /\ requests' = [requests EXCEPT ![r] = n] /\ n.shows = 0 /\ n.owner <= nKeys'
               /\ n.at = at /\ n.what = q.what /\ nKeys' \in Nat /\ nKeys <= nKeys' /\ NewKeys
  <2> DEFINE n == [q EXCEPT !.at = at]
  <2>1. n \in Request /\ n.shows = 0 /\ n.owner = 0 /\ n.at = at /\ n.what = q.what
    BY <1>3 DEF Request, Ats
  <2>2. requests' = [requests EXCEPT ![r] = n]
    BY <1>3 DEF Copy!Go
  <2>3. nKeys' \in Nat /\ nKeys <= nKeys' /\ 0 <= nKeys' /\ NewKeys
    BY <1>1, <1>3 DEF NewKeys
  <2> HIDE DEF n
  <2> QED
    BY <2>1, <2>2, <2>3
<1>4. \A what \in {"page", "duplicate", "lesson"} :
        /\ [Copy!Idle EXCEPT !.what = what] \in Request
        /\ [Copy!Idle EXCEPT !.what = what].what = what
        /\ [Copy!Idle EXCEPT !.what = what].shows = 0
        /\ [Copy!Idle EXCEPT !.what = what].owner = 0
  BY DEF Copy!Idle, Request, Ats, Copy!User
<1>5. CASE Copy!OpenPage(r)
  BY <1>2, <1>3, <1>4, <1>5 DEF Copy!OpenPage
<1>6. CASE Copy!Duplicate(r)
  BY <1>3, <1>4, <1>6 DEF Copy!Duplicate
<1>7. CASE Copy!OpenLesson(r)
  BY <1>2, <1>3, <1>4, <1>7 DEF Copy!OpenLesson
<1> QED
  BY <1>5, <1>6, <1>7 DEF Copy!Begin

(* A request begins. *)
LEMMA BeginStep == ASSUME CopyInv, NEW r \in Requests, Copy!Begin(r) PROVE CopyInv'
<1> PICK q \in Request :
      /\ requests' = [requests EXCEPT ![r] = q] /\ q.shows = 0 /\ q.owner <= nKeys'
      /\ q.at \in {"get", "lost", "forbidden", "show", "anonymous", "create"}
      /\ q.at \in {"get", "show"} => q.what # "duplicate"
      /\ nKeys' \in Nat /\ nKeys <= nKeys' /\ NewKeys
  BY BeginFacts DEF CopyInv
<1>1. /\ UNCHANGED <<copies, original, cron, twice, crashes>>
      /\ requests[r].at \notin {"begun", "queue"}
  BY DEF Copy!Begin, Copy!Underway
<1>2. twice' \in BOOLEAN /\ crashes' \in Nat /\ crashes <= crashes'
  BY <1>1 DEF CopyInv, CopyTypeOK
<1>3. RequestInv(r)'
  BY DEF RequestInv, CopyInv, CopyTypeOK
<1> QED
  BY <1>1, <1>2, <1>3, QuietStep

-----------------------------------------------------------------------------
(* What get() finds. *)
LEMMA MineFacts ==
  ASSUME NEW q
  PROVE  /\ \A i \in Copy!Mine(q) :
              /\ i \in DOMAIN copies /\ ~Copy!Ended(i)
              /\ copies[i].of = Copy!Of(q) /\ copies[i].owner = q.owner
         /\ \A i \in DOMAIN copies :
              ~Copy!Ended(i) /\ copies[i].of = Copy!Of(q) /\ copies[i].owner = q.owner =>
                i \in Copy!Mine(q)
         /\ Copy!Mine(q) # {} => Copy!Found(q) \in Copy!Mine(q)
  BY DEF Copy!Mine, Copy!Found, Copy!Ended

(* More than one, if a lesson was begun twice. *)
LEMMA TwinsAreRaced ==
  ASSUME CopyInv, NEW q, ~\A i, j \in Copy!Mine(q) : i = j
  PROVE  twice
  BY MineFacts DEF CopyInv, OnlyCopy

(* A request's record, with another place. *)
LEMMA GoFacts ==
  ASSUME CopyTypeOK, NEW r \in Requests, NEW at \in Ats
  PROVE  LET n == [requests[r] EXCEPT !.at = at] IN
         /\ n \in Request /\ n.at = at /\ n.shows = requests[r].shows
         /\ n.what = requests[r].what /\ n.owner = requests[r].owner
         /\ Copy!Of(n) = Copy!Of(requests[r])
<1>1. requests[r] \in Request
  BY DEF CopyTypeOK
<1> QED
  BY <1>1 DEF Request, Copy!Of

(* A quiet step of a request that shows what it has shown.                 *)
LEMMA QuietGo ==
  ASSUME CopyInv, NEW r \in Requests, NEW n \in Request,
         requests' = [requests EXCEPT ![r] = n],
         UNCHANGED <<copies, original, cron, nKeys, sessions, twice>>,
         crashes' \in Nat, crashes <= crashes',
         requests[r].at \in {"begun", "queue"} =>
           crashes' > 0 \/ (n.at \in {"begun", "queue"} /\ n.shows = requests[r].shows)
             \/ (requests[r].shows \in DOMAIN copies /\ Copy!Ended(requests[r].shows)),
         n.owner = requests[r].owner, n.what = requests[r].what,
         n.at \in {"begun", "queue"} => n.shows # 0,
         n.at \in {"get", "again", "show"} => n.what # "duplicate",
         n.shows # 0 => n.shows \in DOMAIN copies /\ copies[n.shows].owner = n.owner
                        /\ copies[n.shows].of = Copy!Of(n),
         n.at = "page" /\ n.shows # 0 /\ n.what # "lesson" => ~copies[n.shows].pending,
         n.at = "again" => \E i \in DOMAIN copies : copies[i].owner = n.owner
                                                       /\ copies[i].of = Copy!Of(n),
         n.at = "gone"  => ~original.there \/ \E i \in DOMAIN copies :
                             Copy!Ended(i) /\ copies[i].owner = n.owner,
         n.at = "twins" => twice
  PROVE  CopyInv'
<1>1. requests'[r] = n /\ requests[r].owner <= nKeys
  BY DEF CopyInv, CopyTypeOK, RequestInv
<1>2. RequestInv(r)'
  BY <1>1 DEF RequestInv, Copy!Of, Copy!Ended
<1>3. NewKeys /\ twice' \in BOOLEAN /\ nKeys' \in Nat /\ nKeys <= nKeys'
  BY DEF NewKeys, CopyInv, CopyTypeOK
<1> QED
  BY <1>2, <1>3, QuietStep

(* The same of one that goes elsewhere, and shows what it has shown.       *)
LEMMA GoStep ==
  ASSUME CopyInv, NEW r \in Requests, NEW at \in Ats,
         requests' = [requests EXCEPT ![r] = [requests[r] EXCEPT !.at = at]],
         UNCHANGED <<copies, original, cron, nKeys, sessions, twice>>,
         crashes' \in Nat, crashes <= crashes',
         requests[r].at \in {"begun", "queue"} => crashes' > 0 \/ at \in {"begun", "queue"}
                                                  \/ Copy!Ended(requests[r].shows),
         at \in {"begun", "queue"} => requests[r].shows # 0,
         at \in {"get", "again", "show"} => requests[r].what # "duplicate",
         at = "page" => requests[r].shows = 0 \/ requests[r].what = "lesson",
         at = "again" => \E i \in DOMAIN copies : copies[i].owner = requests[r].owner
                                                     /\ copies[i].of = Copy!Of(requests[r]),
         at = "gone" => ~original.there \/ \E i \in DOMAIN copies :
                          Copy!Ended(i) /\ copies[i].owner = requests[r].owner,
         at = "twins" => twice
  PROVE  CopyInv'
<1> DEFINE q == requests[r]
           n == [requests[r] EXCEPT !.at = at]
<1>1. /\ n \in Request /\ n.at = at /\ n.shows = q.shows /\ n.what = q.what
      /\ n.owner = q.owner /\ Copy!Of(n) = Copy!Of(q) /\ requests' = [requests EXCEPT ![r] = n]
  BY GoFacts DEF CopyInv
<1>2. /\ q.shows # 0 => q.shows \in DOMAIN copies /\ copies[q.shows].owner = q.owner
                        /\ copies[q.shows].of = Copy!Of(q)
      /\ q.at \in {"begun", "queue"} => q.shows # 0
  BY DEF CopyInv, RequestInv
<1> HIDE DEF n
<1>3. q.at \in {"begun", "queue"} =>
        crashes' > 0 \/ (n.at \in {"begun", "queue"} /\ n.shows = q.shows)
          \/ (q.shows \in DOMAIN copies /\ Copy!Ended(q.shows))
  BY <1>1, <1>2
<1>4. /\ n.at = "again" => \E i \in DOMAIN copies :
                              copies[i].owner = n.owner /\ copies[i].of = Copy!Of(n)
      /\ n.at = "gone"  => ~original.there \/ \E i \in DOMAIN copies :
                              Copy!Ended(i) /\ copies[i].owner = n.owner
  BY <1>1
<1>5. /\ n.at \in {"begun", "queue"} => n.shows # 0
      /\ n.at \in {"get", "again", "show"} => n.what # "duplicate"
      /\ n.at = "page" /\ n.shows # 0 /\ n.what # "lesson" => ~copies[n.shows].pending
      /\ n.shows # 0 => n.shows \in DOMAIN copies /\ copies[n.shows].owner = n.owner
                         /\ copies[n.shows].of = Copy!Of(n)
      /\ n.at = "twins" => twice
  BY <1>1, <1>2
<1> QED
  BY <1>1, <1>3, <1>4, <1>5, QuietGo

(* get() finds one, none or too many. *)
LEMMA GetSteps ==
  ASSUME CopyInv, NEW r \in Requests, Copy!Get(r) \/ Copy!GetAgain(r)
  PROVE  CopyInv'
<1> DEFINE q == requests[r]
<1>1. /\ UNCHANGED <<copies, original, cron, nKeys, sessions, twice, crashes>>
      /\ q.at \in {"get", "again"} /\ crashes \in Nat /\ crashes <= crashes'
      /\ {"create", "twins", "gone", "show"} \subseteq Ats
  BY DEF Copy!Get, Copy!GetAgain, CopyInv, CopyTypeOK, Ats
<1>2. CASE Copy!Get(r) /\ Copy!Mine(q) = {}
  <2>1. requests' = [requests EXCEPT ![r] = [requests[r] EXCEPT !.at = "create"]]
    BY <1>2 DEF Copy!Get
  <2> QED
    BY <1>1, <2>1, GoStep
<1>3. CASE /\ Copy!Mine(q) # {}
           /\ requests' = [requests EXCEPT ![r] =
                            [q EXCEPT !.at = "show", !.shows = Copy!Found(q)]]
  <2> PICK f \in DOMAIN copies :
        f = Copy!Found(q) /\ copies[f].owner = q.owner /\ copies[f].of = Copy!Of(q)
    BY <1>3, MineFacts
  <2>1. f \in Nat /\ CopyTypeOK /\ "show" \in Ats /\ q.what # "duplicate"
    BY <1>1 DEF CopyInv, CopyTypeOK, RequestInv
  <2> DEFINE n == [q EXCEPT !.at = "show", !.shows = f]
  <2>2. requests' = [requests EXCEPT ![r] = n]
    BY <1>3
  <2>3. /\ n \in Request /\ n.at = "show" /\ n.shows = f /\ n.what = q.what
        /\ n.owner = q.owner /\ Copy!Of(n) = Copy!Of(q)
    <3>1. requests[r] \in Request
      BY <2>1 DEF CopyTypeOK
    <3> QED
      BY ONLY <2>1, <3>1 DEF Request, Copy!Of
  <2> HIDE DEF n
  <2> QED
    BY <1>1, <2>1, <2>2, <2>3, QuietGo
<1>4. CASE Copy!Get(r) /\ Copy!Mine(q) # {} /\ ~\A i, j \in Copy!Mine(q) : i = j
  <2>1. requests' = [requests EXCEPT ![r] = [requests[r] EXCEPT !.at = "twins"]]
    BY <1>4 DEF Copy!Get
  <2>2. twice
    BY <1>4, TwinsAreRaced
  <2> QED
    BY <1>1, <2>1, <2>2, GoStep
<1>5. CASE Copy!GetAgain(r) /\ Copy!Mine(q) = {}
  <2>1. \E i \in DOMAIN copies : Copy!Ended(i) /\ copies[i].owner = q.owner
    BY <1>5, MineFacts DEF Copy!GetAgain, CopyInv, RequestInv
  <2>2. requests' = [requests EXCEPT ![r] = [requests[r] EXCEPT !.at = "gone"]]
    BY <1>5 DEF Copy!GetAgain
  <2> QED
    BY <1>1, <2>1, <2>2, GoStep
<1> QED
  BY <1>2, <1>3, <1>4, <1>5 DEF Copy!Get, Copy!GetAgain

-----------------------------------------------------------------------------
(* A workflow comes. *)
LEMMA CopyFacts ==
  ASSUME CopyTypeOK, NEW r \in Requests, NEW w,
         w = IF Copy!Of(requests[r]) = "lesson"
             THEN Copy!Begun(requests[r]) ELSE Copy!Copied(requests[r]),
         copies' = Append(copies, w)
  PROVE  LET k == Len(copies) + 1 IN
         /\ copies' \in Seq(Workflow) /\ Len(copies') = k /\ Len(copies) \in Nat
         /\ DOMAIN copies' = DOMAIN copies \cup {k} /\ k \in Nat /\ k # 0
         /\ k \notin DOMAIN copies
         /\ \A i \in DOMAIN copies : copies'[i] = copies[i]
         /\ copies'[k].owner = requests[r].owner /\ copies'[k].of = Copy!Of(requests[r])
         /\ copies'[k].status = "there"
<1>1. requests[r] \in Request
  BY DEF CopyTypeOK
<1>2. w \in Workflow /\ w.owner = requests[r].owner /\ w.of = Copy!Of(requests[r])
      /\ w.status = "there"
  <2>1. Copy!Of(requests[r]) = "lesson" \/ Copy!Of(requests[r]) = "original"
    BY DEF Copy!Of
  <2>2. (~original.rendered) \in BOOLEAN /\ requests[r].owner \in Nat
    BY <1>1 DEF CopyTypeOK, Request
  <2> QED
    BY <2>1, <2>2 DEF Copy!Begun, Copy!Copied, Workflow
<1>3. /\ copies' \in Seq(Workflow) /\ Len(copies') = Len(copies) + 1
      /\ Len(copies) \in Nat /\ copies'[Len(copies) + 1] = w
      /\ \A i \in 1 .. Len(copies) : copies'[i] = copies[i]
      /\ DOMAIN copies = 1 .. Len(copies) /\ DOMAIN copies' = 1 .. Len(copies')
  BY <1>2, AppendProperties DEF CopyTypeOK
<1> QED
  BY <1>2, <1>3

(* The step that makes it. *)
LEMMA CopyStep ==
  ASSUME CopyInv, NEW r \in Requests, NEW n \in Request, NEW w, requests[r].at = "create",
         w = IF Copy!Of(requests[r]) = "lesson"
             THEN Copy!Begun(requests[r]) ELSE Copy!Copied(requests[r]),
         copies' = Append(copies, w), Copy!IsUnique(requests[r]),
         requests' = [requests EXCEPT ![r] = n], n.shows = Len(copies'),
         n.at = IF n.what = "lesson" THEN "begun" ELSE "queue",
         n.owner = requests[r].owner, n.what = requests[r].what,
         twice' = (twice \/ Copy!Mine(requests[r]) # {}),
         UNCHANGED <<original, sessions, nKeys, cron, crashes>>
  PROVE  CopyInv'
<1> DEFINE q == requests[r]
<1> PICK k : k = Len(copies) + 1
  OBVIOUS
<1>1. /\ copies' \in Seq(Workflow) /\ n.shows = k
      /\ DOMAIN copies' = DOMAIN copies \cup {k} /\ k # 0 /\ k \notin DOMAIN copies
      /\ \A i \in DOMAIN copies : copies'[i] = copies[i]
      /\ copies'[k].owner = q.owner /\ copies'[k].of = Copy!Of(q)
      /\ copies'[k].status = "there"
  BY CopyFacts DEF CopyInv
<1>2. twice' \in BOOLEAN /\ (twice => twice') /\ (Copy!Mine(q) # {} => twice')
  BY Zenon
<1>3. /\ requests'[r] = n /\ nKeys \in Nat /\ cron.victims \subseteq DOMAIN copies
      /\ crashes \in Nat /\ Copy!Of(n) = Copy!Of(q) /\ q.owner <= nKeys
  BY DEF CopyInv, CopyTypeOK, RequestInv, Copy!Of
<1> HIDE DEF q
<1>4. Grows /\ NewKeys
  BY <1>1, <1>2, <1>3 DEF Grows, NewKeys, CopyInv, CopyTypeOK
<1>5. CopyTypeOK'
  BY <1>1, <1>2 DEF CopyInv, CopyTypeOK
<1>6. \A i, j \in DOMAIN copies' : OnlyCopy(i, j)'
  <2>1. ASSUME NEW i \in DOMAIN copies, ~Copy!Ended(i), copies[i].of = Copy!Of(q),
               copies[i].owner = q.owner
        PROVE  Copy!Of(q) = "lesson" /\ twice'
    BY <1>2, <2>1, MineFacts DEF Copy!IsUnique, q, Copy!Of
  <2>2. \A i, j \in DOMAIN copies : OnlyCopy(i, j)'
    BY <1>4, OnlyCopyStays DEF CopyInv
  <2>3. ASSUME NEW i \in DOMAIN copies PROVE OnlyCopy(i, k)' /\ OnlyCopy(k, i)'
    BY <1>1, <2>1 DEF OnlyCopy, Copy!Ended
  <2> QED
    BY <1>1, <2>2, <2>3 DEF OnlyCopy
<1>7. ASSUME NEW i \in DOMAIN copies' PROVE WorkflowInv(i)'
  <2>1. CASE i \in DOMAIN copies
    <3>1. Copy!WillQueue(i) => Copy!WillQueue(i)'
      BY QueuersStay DEF CopyInv
    <3>2. copies'[i].status = "expired" => copies[i].status = "expired"
      BY <1>1, <2>1
    <3>3. WorkflowInv(i) /\ CopyTypeOK /\ crashes <= crashes' /\ crashes' \in Nat
      BY <1>3, <2>1 DEF CopyInv
    <3> QED
      BY <1>4, <2>1, <3>1, <3>2, <3>3, WorkflowStays
  <2>2. CASE i = k
    <3>1. copies'[k].of = "lesson" => Copy!WillQueue(k)'
      BY <1>1, <1>3 DEF Copy!WillQueue, Copy!Of, q
    <3> QED
      BY <1>1, <1>3, <2>2, <3>1 DEF WorkflowInv
  <2> QED
    BY <1>1, <2>1, <2>2
<1>8. ASSUME NEW s \in Requests PROVE RequestInv(s)'
  <2>1. CASE s = r
    BY <1>1, <1>3, <2>1 DEF RequestInv, Copy!Of, q
  <2>2. CASE s # r
    BY <1>4, <2>2, RequestStays DEF CopyInv, CopyTypeOK
  <2> QED
    BY <2>1, <2>2
<1> QED
  BY <1>5, <1>6, <1>7, <1>8 DEF CopyInv

(* Its refusals too. *)
LEMMA CreateStep == ASSUME CopyInv, NEW r \in Requests, Copy!Create(r) PROVE CopyInv'
<1> DEFINE q == requests[r]
<1>1. /\ UNCHANGED <<original, cron, nKeys, sessions, crashes>> /\ q.at = "create"
      /\ crashes \in Nat /\ crashes <= crashes' /\ q \in Request
      /\ "gone" \in Ats /\ "again" \in Ats /\ "second" \in Ats
  BY DEF Copy!Create, CopyInv, CopyTypeOK, Ats
<1>2. CASE Copy!Of(q) = "original" /\ ~original.there
  BY <1>1, <1>2, GoStep DEF Copy!Create, Copy!Go
<1>3. CASE ~(Copy!Of(q) = "original" /\ ~original.there) /\ ~Copy!IsUnique(q)
  <2>1. UNCHANGED <<copies, twice>>
    BY <1>3 DEF Copy!Create
  <2>2. \E i \in DOMAIN copies : copies[i].owner = q.owner /\ copies[i].of = Copy!Of(q)
    BY <1>3, MineFacts DEF Copy!IsUnique
  <2>3. CASE q.what = "page"
    <3>1. requests' = [requests EXCEPT ![r] = [requests[r] EXCEPT !.at = "again"]]
      BY <1>3, <2>3 DEF Copy!Create, Copy!Go
    <3> QED
      BY <1>1, <2>1, <2>2, <2>3, <3>1, GoStep
  <2>4. CASE q.what # "page"
    <3>1. requests' = [requests EXCEPT ![r] = [requests[r] EXCEPT !.at = "second"]]
      BY <1>3, <2>4 DEF Copy!Create, Copy!Go
    <3> QED
      BY <1>1, <2>1, <3>1, GoStep
  <2> QED
    BY <2>3, <2>4
<1>4. CASE ~(Copy!Of(q) = "original" /\ ~original.there) /\ Copy!IsUnique(q)
  <2> DEFINE w  == IF Copy!Of(q) = "lesson" THEN Copy!Begun(q) ELSE Copy!Copied(q)
             k  == Len(copies')
             at == IF q.what = "lesson" THEN "begun" ELSE "queue"
             n  == [[q EXCEPT !.shows = k] EXCEPT !.at = at]
  <2>1. /\ copies' = Append(copies, w) /\ requests' = [requests EXCEPT ![r] = n]
        /\ twice' = (twice \/ Copy!Mine(q) # {})
    <3>1. at = IF Copy!Of(q) = "lesson" THEN "begun" ELSE "queue"
      BY DEF Copy!Of
    <3> QED
      BY <1>4, <3>1 DEF Copy!Create, Copy!Go, Copy!Of
  <2>2. k \in Nat
    BY <2>1, CopyFacts DEF CopyInv
  <2>3. n \in Request /\ n.shows = k /\ n.at = at /\ n.owner = q.owner /\ n.what = q.what
    <3> HIDE DEF k, q
    <3> QED
      BY <1>1, <2>2 DEF Request, Ats
  <2> HIDE DEF n, w
  <2>4. n.shows = Len(copies') /\ n.at = IF n.what = "lesson" THEN "begun" ELSE "queue"
    BY <2>3
  <2> QED
    BY <1>1, <1>4, <2>1, <2>3, <2>4, CopyStep DEF w
<1> QED
  BY <1>2, <1>3, <1>4

-----------------------------------------------------------------------------
(* A workflow's render is queued, and its request goes on. *)
LEMMA PendingStep ==
  ASSUME CopyInv, NEW r \in Requests, NEW n \in Request, NEW i \in DOMAIN copies, i # 0,
         requests' = [requests EXCEPT ![r] = n],
         copies' = [copies EXCEPT ![i].pending = FALSE],
         requests[r].shows = i, n.shows = i, n.owner = requests[r].owner,
         n.what = requests[r].what, n.at \in {"page", "show"},
         n.at = "show" => n.what # "duplicate",
         UNCHANGED <<original, sessions, nKeys, cron, twice, crashes>>
  PROVE  CopyInv'
<1>1. /\ copies' \in Seq(Workflow) /\ DOMAIN copies' = DOMAIN copies
      /\ \A j \in DOMAIN copies :
           /\ copies'[j].owner = copies[j].owner /\ copies'[j].of = copies[j].of
           /\ copies'[j].status = copies[j].status
           /\ copies'[j].pending = IF j = i THEN FALSE ELSE copies[j].pending
  <2>1. copies[i] \in Workflow
    BY WorkflowTypes DEF CopyInv
  <2>2. [copies[i] EXCEPT !.pending = FALSE] \in Workflow
    BY <2>1 DEF Workflow
  <2>3. copies' \in Seq(Workflow) /\ DOMAIN copies' = DOMAIN copies
    BY <2>2, ExceptSeq DEF CopyInv, CopyTypeOK
  <2>4. /\ [copies[i] EXCEPT !.pending = FALSE].owner = copies[i].owner
        /\ [copies[i] EXCEPT !.pending = FALSE].of = copies[i].of
        /\ [copies[i] EXCEPT !.pending = FALSE].status = copies[i].status
        /\ [copies[i] EXCEPT !.pending = FALSE].pending = FALSE
    BY <2>1 DEF Workflow
  <2> QED
    BY <2>3, <2>4 DEF CopyInv, CopyTypeOK
<1>2. /\ requests'[r] = n /\ nKeys \in Nat /\ crashes \in Nat /\ crashes <= crashes'
      /\ Copy!Of(n) = Copy!Of(requests[r]) /\ CopyTypeOK
  BY DEF CopyInv, CopyTypeOK, Copy!Of
<1>3. Grows /\ NewKeys
  BY <1>1, <1>2 DEF Grows, NewKeys, CopyTypeOK
<1>4. CopyTypeOK'
  BY <1>1 DEF CopyInv, CopyTypeOK
<1>5. \A j, k \in DOMAIN copies' : OnlyCopy(j, k)'
  BY <1>1, <1>2, <1>3, OnlyCopyStays DEF CopyInv
<1>6. ASSUME NEW j \in DOMAIN copies' PROVE WorkflowInv(j)'
  <2>1. CASE j = i
    BY <1>1, <2>1, ZenonT(60) DEF CopyInv, WorkflowInv
  <2>2. CASE j # i
    <3>1. Copy!WillQueue(j) => Copy!WillQueue(j)'
      BY <2>2, QueuersStay DEF CopyInv
    <3> QED
      BY <1>1, <1>2, <1>3, <3>1, WorkflowStays DEF CopyInv
  <2> QED
    BY <2>1, <2>2
<1>7. ASSUME NEW s \in Requests PROVE RequestInv(s)'
  <2>1. CASE s = r
    BY <1>1, <1>2, <2>1 DEF CopyInv, RequestInv, Copy!Of
  <2>2. CASE s # r
    <3>1. requests'[s] = requests[s]
      BY <2>2 DEF CopyInv, CopyTypeOK
    <3> QED
      BY <1>2, <1>3, <3>1, RequestStays DEF CopyInv
  <2> QED
    BY <2>1, <2>2
<1> QED
  BY <1>4, <1>5, <1>6, <1>7 DEF CopyInv

(* A page is shown, or found lost. *)
LEMMA ShowStep == ASSUME CopyInv, NEW r \in Requests, Copy!Show(r) PROVE CopyInv'
<1> DEFINE q == requests[r]
<1>1. /\ UNCHANGED <<original, sessions, nKeys, cron, twice, crashes>>
      /\ q.at \in {"show", "begun"} /\ crashes \in Nat /\ crashes <= crashes'
      /\ "lost" \in Ats /\ "queue" \in Ats /\ "page" \in Ats /\ q \in Request
  BY DEF Copy!Show, CopyInv, CopyTypeOK, Ats
<1>2. /\ q.at = "show" => q.what # "duplicate"
      /\ q.at = "begun" => q.shows # 0
      /\ q.shows # 0 => q.shows \in DOMAIN copies
  BY DEF CopyInv, RequestInv
<1>3. CASE ~Copy!IsThere(q)
  <2>1. /\ requests' = [requests EXCEPT ![r] = [requests[r] EXCEPT !.at = "lost"]]
        /\ UNCHANGED copies
    BY <1>3 DEF Copy!Show, Copy!Go
  <2>2. q.at = "begun" => Copy!Ended(q.shows)
    BY <1>2, <1>3 DEF Copy!IsThere, Copy!Ended
  <2> QED
    BY <1>1, <2>1, <2>2, GoStep
<1>4. CASE Copy!IsThere(q) /\ q.at = "begun"
  <2>1. /\ requests' = [requests EXCEPT ![r] = [requests[r] EXCEPT !.at = "queue"]]
        /\ UNCHANGED copies
    BY <1>4 DEF Copy!Show, Copy!Go
  <2> QED
    BY <1>1, <1>2, <1>4, <2>1, GoStep
<1>5. CASE Copy!IsThere(q) /\ q.at = "show"
  <2>1. /\ requests' = [requests EXCEPT ![r] = [requests[r] EXCEPT !.at = "page"]]
        /\ Copy!QueueStale(q)
    BY <1>5 DEF Copy!Show, Copy!Go
  <2>2. CASE q.what = "page" /\ q.shows # 0
    <3> DEFINE n == [requests[r] EXCEPT !.at = "page"]
    <3>1. /\ n \in Request /\ n.at = "page" /\ n.shows = q.shows /\ n.what = q.what
          /\ n.owner = q.owner /\ requests' = [requests EXCEPT ![r] = n]
      BY <1>1, <2>1, GoFacts DEF CopyInv
    <3>2. copies' = [copies EXCEPT ![q.shows].pending = FALSE]
      BY <2>1, <2>2 DEF Copy!QueueStale
    <3>3. PICK i : i = q.shows
      OBVIOUS
    <3> HIDE DEF n
    <3> QED
      BY <1>1, <1>2, <2>2, <3>1, <3>2, <3>3, PendingStep
  <2>3. CASE ~(q.what = "page" /\ q.shows # 0)
    <3>1. UNCHANGED copies
      BY <2>1, <2>3 DEF Copy!QueueStale
    <3>2. q.shows = 0 \/ q.what = "lesson"
      BY <1>1, <1>2, <1>5, <2>3 DEF Request
    <3> QED
      BY <1>1, <1>5, <2>1, <3>1, <3>2, GoStep
  <2> QED
    BY <2>2, <2>3
<1> QED
  BY <1>1, <1>3, <1>4, <1>5

(* The render is queued. *)
LEMMA QueueStep == ASSUME CopyInv, NEW r \in Requests, Copy!Queue(r) PROVE CopyInv'
<1> DEFINE q  == requests[r]
           at == IF q.what = "page" THEN "show" ELSE "page"
           n  == [requests[r] EXCEPT !.at = at]
<1>1. /\ UNCHANGED <<original, sessions, nKeys, cron, twice, crashes>> /\ q.at = "queue"
      /\ requests' = [requests EXCEPT ![r] = n] /\ at \in Ats
      /\ copies' = [copies EXCEPT ![q.shows].pending = FALSE]
  BY DEF Copy!Queue, Copy!Go, Ats
<1>2. /\ n \in Request /\ n.at = at /\ n.shows = q.shows /\ n.what = q.what
      /\ n.owner = q.owner
  BY <1>1, GoFacts DEF CopyInv
<1>3. PICK i : i = q.shows /\ i \in DOMAIN copies /\ i # 0
  BY <1>1 DEF CopyInv, RequestInv
<1>4. n.at \in {"page", "show"} /\ (n.at = "show" => n.what # "duplicate")
  BY <1>2
<1> HIDE DEF n
<1> QED
  BY <1>1, <1>2, <1>3, <1>4, PendingStep

(* A server dies. *)
LEMMA CrashStep == ASSUME CopyInv, NEW r \in Requests, Copy!Crash(r) PROVE CopyInv'
<1>1. /\ requests' = [requests EXCEPT ![r] = [requests[r] EXCEPT !.at = "crashed"]]
      /\ UNCHANGED <<copies, original, cron, nKeys, sessions, twice>>
      /\ crashes' = crashes + 1 /\ "crashed" \in Ats
  BY DEF Copy!Crash, Copy!Go, Ats
<1>2. crashes' \in Nat /\ crashes <= crashes' /\ crashes' > 0
  BY <1>1 DEF CopyInv, CopyTypeOK
<1> QED
  BY <1>1, <1>2, GoStep

-----------------------------------------------------------------------------
(* A step of others that changes no workflow. *)
LEMMA WorldStep ==
  ASSUME CopyInv, UNCHANGED <<requests, copies, twice, crashes>>,
         original' \in [there : BOOLEAN, public : BOOLEAN, example : BOOLEAN,
                        shared : BOOLEAN, rendered : BOOLEAN],
         original'.there => original.there, nKeys' \in Nat, nKeys <= nKeys', NewKeys,
         cron' \in [at : {"idle", "cleared", "listed"}, victims : SUBSET DOMAIN copies],
         \A i \in cron'.victims :
           i \in cron.victims \/ copies[i].owner \notin DOMAIN sessions
  PROVE  CopyInv'
<1>1. Grows /\ crashes \in Nat /\ crashes <= crashes' /\ CopyTypeOK
  BY DEF Grows, CopyInv, CopyTypeOK
<1>2. CopyTypeOK'
  BY DEF CopyInv, CopyTypeOK, NewKeys
<1>3. \A i, j \in DOMAIN copies' : OnlyCopy(i, j)'
  BY <1>1, OnlyCopyStays DEF CopyInv
<1>4. ASSUME NEW i \in DOMAIN copies' PROVE WorkflowInv(i)'
  <2>1. Copy!WillQueue(i) => Copy!WillQueue(i)'
    BY DEF Copy!WillQueue
  <2> QED
    BY <1>1, <2>1, WorkflowStays DEF CopyInv
<1>5. ASSUME NEW r \in Requests PROVE RequestInv(r)'
  BY <1>1, RequestStays DEF CopyInv
<1> QED
  BY <1>2, <1>3, <1>4, <1>5 DEF CopyInv

(* A workflow ends: deleted, or expired after its session. *)
LEMMA EndStep ==
  ASSUME CopyInv, NEW i \in DOMAIN copies, NEW how \in {"deleted", "expired"},
         copies' = [copies EXCEPT ![i].status = how],
         how = "expired" => copies[i].owner \notin DOMAIN sessions,
         UNCHANGED <<requests, twice, crashes, original, nKeys, sessions>>,
         cron' \in [at : {"idle", "cleared", "listed"}, victims : SUBSET DOMAIN copies],
         cron'.victims \subseteq cron.victims
  PROVE  CopyInv'
<1>1. /\ copies' \in Seq(Workflow) /\ DOMAIN copies' = DOMAIN copies
      /\ \A j \in DOMAIN copies :
           /\ copies'[j].owner = copies[j].owner /\ copies'[j].of = copies[j].of
           /\ copies'[j].status = IF j = i THEN how ELSE copies[j].status
           /\ copies'[j].pending = copies[j].pending
  <2>1. copies[i] \in Workflow
    BY WorkflowTypes DEF CopyInv
  <2>2. [copies[i] EXCEPT !.status = how] \in Workflow
    BY <2>1 DEF Workflow
  <2>3. copies' \in Seq(Workflow) /\ DOMAIN copies' = DOMAIN copies
    BY <2>2, ExceptSeq DEF CopyInv, CopyTypeOK
  <2>4. /\ [copies[i] EXCEPT !.status = how].owner = copies[i].owner
        /\ [copies[i] EXCEPT !.status = how].of = copies[i].of
        /\ [copies[i] EXCEPT !.status = how].pending = copies[i].pending
        /\ [copies[i] EXCEPT !.status = how].status = how
    BY <2>1 DEF Workflow
  <2> QED
    BY <2>3, <2>4 DEF CopyInv, CopyTypeOK
<1>2. Grows /\ NewKeys /\ crashes \in Nat /\ crashes <= crashes' /\ CopyTypeOK
  BY <1>1 DEF Grows, NewKeys, CopyInv, CopyTypeOK
<1>3. CopyTypeOK'
  BY <1>1 DEF CopyInv, CopyTypeOK
<1>4. \A j, k \in DOMAIN copies' : OnlyCopy(j, k)'
  BY <1>1, <1>2, OnlyCopyStays DEF CopyInv
<1>5. ASSUME NEW j \in DOMAIN copies' PROVE WorkflowInv(j)'
  <2>1. Copy!WillQueue(j) => Copy!WillQueue(j)'
    BY DEF Copy!WillQueue
  <2>2. copies'[j].status = "expired" \/ j \in cron'.victims =>
          \/ copies[j].status = "expired" \/ j \in cron.victims
          \/ copies[j].owner \notin DOMAIN sessions
    BY <1>1
  <2> QED
    BY <1>1, <1>2, <2>1, <2>2, WorkflowStays DEF CopyInv
<1>6. ASSUME NEW r \in Requests PROVE RequestInv(r)'
  BY <1>2, RequestStays DEF CopyInv
<1> QED
  BY <1>3, <1>4, <1>5, <1>6 DEF CopyInv

(* The example's owner changes it. *)
LEMMA OwnerSteps ==
  ASSUME CopyInv, Copy!Share \/ Copy!EditOrRender \/ Copy!DeleteOriginal
  PROVE  CopyInv'
<1>1. UNCHANGED <<requests, copies, twice, crashes, nKeys, sessions, cron>>
  BY DEF Copy!Share, Copy!EditOrRender, Copy!DeleteOriginal
<1>2. /\ original' \in [there : BOOLEAN, public : BOOLEAN, example : BOOLEAN,
                        shared : BOOLEAN, rendered : BOOLEAN]
      /\ original'.there => original.there
  <2>1. CASE Copy!Share
    BY <2>1 DEF Copy!Share, CopyInv, CopyTypeOK
  <2>2. CASE Copy!EditOrRender
    BY <2>2 DEF Copy!EditOrRender, CopyInv, CopyTypeOK
  <2>3. CASE Copy!DeleteOriginal
    BY <2>3 DEF Copy!DeleteOriginal, CopyInv, CopyTypeOK
  <2> QED
    BY <2>1, <2>2, <2>3
<1>3. NewKeys /\ nKeys' \in Nat /\ nKeys <= nKeys'
  BY <1>1 DEF NewKeys, CopyInv, CopyTypeOK
<1>4. cron' \in [at : {"idle", "cleared", "listed"}, victims : SUBSET DOMAIN copies]
  BY <1>1 DEF CopyInv, CopyTypeOK
<1> QED
  BY <1>1, <1>2, <1>3, <1>4, WorldStep

(* The visitor logs in and out, and sessions expire. *)
LEMMA SessionSteps ==
  ASSUME CopyInv, Copy!Login \/ Copy!Logout \/ Copy!ClearExpired
  PROVE  CopyInv'
<1>1. UNCHANGED <<requests, copies, twice, crashes, original>>
  BY DEF Copy!Login, Copy!Logout, Copy!ClearExpired
<1>2. NewKeys /\ nKeys' \in Nat /\ nKeys <= nKeys'
  <2>1. CASE Copy!Login
    BY <2>1 DEF Copy!Login, NewKeys, CopyInv, CopyTypeOK
  <2>2. CASE Copy!Logout
    BY <2>2 DEF Copy!Logout, Copy!Without, NewKeys, CopyInv, CopyTypeOK
  <2>3. CASE Copy!ClearExpired
    BY <2>3 DEF Copy!ClearExpired, Copy!Without, NewKeys, CopyInv, CopyTypeOK
  <2> QED
    BY <2>1, <2>2, <2>3
<1>3. /\ cron' \in [at : {"idle", "cleared", "listed"}, victims : SUBSET DOMAIN copies]
      /\ cron'.victims = cron.victims
  BY DEF Copy!Login, Copy!Logout, Copy!ClearExpired, CopyInv, CopyTypeOK
<1>4. original \in [there : BOOLEAN, public : BOOLEAN, example : BOOLEAN,
                    shared : BOOLEAN, rendered : BOOLEAN]
  BY DEF CopyInv, CopyTypeOK
<1> QED
  BY <1>1, <1>2, <1>3, <1>4, WorldStep

(* cron finds the copies of sessions that have gone, and deletes them; the *)
(* visitor deletes one.                                                    *)
LEMMA DeleteSteps ==
  ASSUME CopyInv,
         \/ Copy!ListExpired \/ Copy!DeleteExpired
         \/ \E i \in DOMAIN copies : Copy!Delete(i)
  PROVE  CopyInv'
<1>1. /\ UNCHANGED <<requests, twice, crashes, original, nKeys, sessions>> /\ NewKeys
      /\ nKeys' \in Nat /\ nKeys <= nKeys'
  BY DEF Copy!ListExpired, Copy!DeleteExpired, Copy!Delete, NewKeys, CopyInv, CopyTypeOK
<1>2. /\ original \in [there : BOOLEAN, public : BOOLEAN, example : BOOLEAN,
                       shared : BOOLEAN, rendered : BOOLEAN]
      /\ cron \in [at : {"idle", "cleared", "listed"}, victims : SUBSET DOMAIN copies]
  BY DEF CopyInv, CopyTypeOK
<1>3. CASE Copy!ListExpired
  <2>1. /\ cron' \in [at : {"idle", "cleared", "listed"}, victims : SUBSET DOMAIN copies]
        /\ \A i \in cron'.victims : copies[i].owner \notin DOMAIN sessions
        /\ UNCHANGED copies
    BY <1>3 DEF Copy!ListExpired
  <2> QED
    BY <1>1, <1>2, <2>1, WorldStep
<1>4. CASE Copy!DeleteExpired
  <2>1. CASE cron' = [cron EXCEPT !.at = "idle"] /\ UNCHANGED copies
    <3>1. /\ cron'.victims = cron.victims
          /\ cron' \in [at : {"idle", "cleared", "listed"}, victims : SUBSET DOMAIN copies]
      BY <1>2, <2>1
    <3> QED
      BY <1>1, <1>2, <2>1, <3>1, WorldStep
  <2>2. CASE \E i \in cron.victims :
               /\ copies' = [copies EXCEPT ![i].status = "expired"]
               /\ cron' = [cron EXCEPT !.victims = @ \ {i}]
    <3> PICK i \in cron.victims :
               /\ copies' = [copies EXCEPT ![i].status = "expired"]
               /\ cron' = [cron EXCEPT !.victims = @ \ {i}]
      BY <2>2
    <3>1. /\ cron'.victims \subseteq cron.victims
          /\ cron' \in [at : {"idle", "cleared", "listed"}, victims : SUBSET DOMAIN copies]
      BY <1>2
    <3>2. i \in DOMAIN copies /\ copies[i].owner \notin DOMAIN sessions
      BY <1>2 DEF CopyInv, WorkflowInv
    <3> QED
      BY <1>1, <3>1, <3>2, EndStep
  <2> QED
    BY <1>4, <2>1, <2>2 DEF Copy!DeleteExpired
<1>5. ASSUME NEW i \in DOMAIN copies, Copy!Delete(i) PROVE CopyInv'
  <2>1. copies' = [copies EXCEPT ![i].status = "deleted"] /\ UNCHANGED cron
    BY <1>5 DEF Copy!Delete
  <2> QED
    BY <1>1, <1>2, <2>1, EndStep
<1> QED
  BY <1>3, <1>4, <1>5

(* Every step keeps the invariant. *)
THEOREM CopyInvariance == Copy!Spec => []CopyInv
<1>1. CopyInv /\ [Copy!Next]_(Copy!vars) => CopyInv'
  <2>1. ASSUME CopyInv, NEW r \in Requests,
               \/ Copy!Begin(r) \/ Copy!Get(r) \/ Copy!Create(r) \/ Copy!GetAgain(r) \/ Copy!Show(r)
               \/ Copy!Queue(r) \/ Copy!Crash(r)
        PROVE  CopyInv'
    BY <2>1, BeginStep, GetSteps, CreateStep, ShowStep, QueueStep, CrashStep
  <2>2. ASSUME CopyInv, UNCHANGED Copy!vars PROVE CopyInv'
    <3>1. NewKeys /\ nKeys' \in Nat /\ nKeys <= nKeys'
      BY <2>2 DEF Copy!vars, NewKeys, CopyInv, CopyTypeOK
    <3>2. /\ UNCHANGED <<requests, copies, twice, crashes, original, cron>>
          /\ original \in [there : BOOLEAN, public : BOOLEAN, example : BOOLEAN,
                           shared : BOOLEAN, rendered : BOOLEAN]
          /\ cron \in [at : {"idle", "cleared", "listed"}, victims : SUBSET DOMAIN copies]
      BY <2>2 DEF Copy!vars, CopyInv, CopyTypeOK
    <3> QED
      BY <2>2, <3>1, <3>2, WorldStep
  <2> QED
    BY <2>1, <2>2, OwnerSteps, SessionSteps, DeleteSteps DEF Copy!Next
<1> QED
  BY <1>1, CopyInvInit, PTL DEF Copy!Spec

(* Each visitor opens one's own copy, and what that has no result of is    *)
(* queued, but for what the property excepts.                              *)
THEOREM CopiesAreTheirVisitors == Copy!Spec => []VisitorsGetTheirCopy
  BY CopyInvariance, CopyInvImplies, PTL


-----------------------------------------------------------------------------
(***************************************************************************)
(* Uploads: any sizes, any limits, any number of changes and deaths.       *)
(*                                                                         *)
(* The argument: a row is made at the end of a hook that has filed the     *)
(* object (HookInv), and what is deleted to make room is counted from the  *)
(* newest, so an upload whose row is made is never itself too many         *)
(* (NewestStays) and the newest stays until a newer comes (NewestInv).     *)
(* The param is the newest, or a hook has yet to make it so (ParamInv).    *)
(***************************************************************************)

(* The types. *)
UploadTypeOK ==
  /\ state \in [DOMAIN Size -> {"none", "sent", "filed", "over"}]
  /\ fileRows \in Seq(DOMAIN Size) /\ status \in {"live", "deleted", "purged"}
  /\ newest \in DOMAIN Size \cup {Upload!None}
  /\ faults \in Nat

(* A row is made at the end of its hook, which begins with the file.       *)
HookInv ==
  /\ \A f \in Upload!Range(fileRows) : state[f] \in {"filed", "over"}
  /\ ~Upload!Unlocked => /\ hook.of \in (DOMAIN Size \cap files) \ hook.old
                         /\ state[hook.of] = "sent" /\ status = "live"

(* The newest row is there, and its file, unless there is to be a newer.   *)
NewestInv ==
  faults = 0 /\ newest # Upload!None /\ status # "purged" =>
    /\ newest \in Upload!Range(fileRows)
    /\ newest \in files \/ (~Upload!Unlocked /\ newest \in hook.old)

(* The param is the newest file, or one is going to be. *)
ParamInv ==
  /\ status = "purged" => param = Upload!None
  /\ faults = 0 /\ ~chosen /\ ~raced /\ param # Upload!None =>
       param = newest \/ \E u \in DOMAIN state : state[u] = "filed"

(* The inductive invariant. *)
UploadInv == UploadTypeOK /\ HookInv /\ NewestInv /\ ParamInv

(* It says what the runs check. *)
LEMMA UploadInvImplies == UploadInv => ChosenFileExists
  BY DEF UploadInv, NewestInv, ParamInv, ChosenFileExists, Upload!ChosenFileExists

(* It holds at first. *)
LEMMA UploadInvInit == Upload!Init => UploadInv
<1> SUFFICES ASSUME Upload!Init PROVE UploadInv
  OBVIOUS
<1>1. fileRows \in Seq(DOMAIN Size) /\ DOMAIN fileRows = {} /\ raced = FALSE
  BY DEF Upload!Init
<1>2. Upload!Range(fileRows) = {}
  BY <1>1 DEF Upload!Range
<1>3. UploadTypeOK
  BY <1>1 DEF Upload!Init, UploadTypeOK
<1>4. HookInv /\ NewestInv /\ ParamInv
  BY <1>2 DEF Upload!Init, HookInv, NewestInv, ParamInv, Upload!Unlocked
<1> QED
  BY <1>3, <1>4 DEF UploadInv

(* The pairs of natural numbers, smaller first. *)
Smaller == {mn \in Nat \X Nat : mn[1] < mn[2]}

(* There is a least one of any numbers. *)
LEMMA SmallestNumber ==
  ASSUME NEW T \in SUBSET Nat, T # {}
  PROVE  Upload!Min(T) \in T
<1>1. IsWellFoundedOn(Smaller, Nat)
  BY NatLessThanWellFounded DEF OpToRel, Smaller
<1>2. PICK x \in T : \A y \in T : <<y, x>> \notin Smaller
  BY <1>1, WFMin
<1>3. \A y \in T : ~(y < x)
  BY <1>2 DEF Smaller
<1>4. \A y \in T : y \in Nat /\ x \in Nat
  OBVIOUS
<1>5. \A y \in T : x <= y
  BY <1>3, <1>4
<1> QED
  BY <1>5 DEF Upload!Min

(* The rows, with another. *)
LEMMA AppendFacts ==
  ASSUME UploadTypeOK, NEW u \in DOMAIN Size
  PROVE  LET list == Append(fileRows, u) IN
         /\ list \in Seq(DOMAIN Size) /\ DOMAIN list = 1 .. Len(fileRows) + 1
         /\ Len(fileRows) \in Nat /\ Len(list) = Len(fileRows) + 1 /\ list[Len(fileRows) + 1] = u
         /\ \A i \in 1 .. Len(fileRows) : list[i] \in Upload!Range(fileRows)
<1>1. fileRows \in Seq(DOMAIN Size)
  BY DEF UploadTypeOK
<1> QED
  BY <1>1, AppendProperties DEF Upload!Range

(* No upload that makes a row is too many itself. *)
LEMMA NewestStays ==
  ASSUME UploadTypeOK, NEW u \in DOMAIN Size, u \notin Upload!Range(fileRows)
  PROVE  u \notin Upload!TooMany(Append(fileRows, u))
<1> DEFINE list == Append(fileRows, u)
<1>1. ASSUME NEW i \in Upload!Deletable(Upload!SizeByAge(list))
      PROVE  list[i] \in Upload!Range(fileRows)
  <2>1. /\ DOMAIN Upload!SizeByAge(list) = 1 .. Len(fileRows) + 1 /\ Len(fileRows) \in Nat
        /\ \A j \in 1 .. Len(fileRows) : list[j] \in Upload!Range(fileRows)
    BY AppendFacts DEF Upload!SizeByAge
  <2>2. i \in DOMAIN Upload!SizeByAge(list) /\ \E w \in DOMAIN Upload!SizeByAge(list) : w > i
    BY DEF Upload!Deletable
  <2> HIDE DEF list
  <2> QED
    BY <2>1, <2>2
<1> QED
  BY <1>1 DEF Upload!TooMany

(* The hook. *)
LEMMA HookSteps ==
  ASSUME UploadInv,
         Upload!EndHook \/ \E u \in DOMAIN Size : Upload!BeginHook(u) \/ Upload!DeleteFile(u)
  PROVE  UploadInv'
<1>1. ASSUME NEW u \in DOMAIN Size, Upload!BeginHook(u) PROVE UploadInv'
  <2>1. /\ UNCHANGED <<fileRows, param, status, faults, chosen, newest, raced>>
        /\ state[u] = "sent" /\ Upload!Unlocked
    BY <1>1 DEF Upload!BeginHook
  <2>2. CASE UNCHANGED state
    <3>1. /\ status = "live" /\ files' = files \cup {u} /\ hook'.of = u
          /\ hook'.old = Upload!TooMany(Append(fileRows, u))
      BY <1>1, <2>1, <2>2 DEF Upload!BeginHook, UploadInv, UploadTypeOK
    <3>2. u \notin Upload!Range(fileRows)
      BY <2>1 DEF UploadInv, HookInv
    <3>3. u \notin hook'.old
      BY <3>1, <3>2, NewestStays DEF UploadInv
    <3>4. UploadTypeOK' /\ ParamInv'
      BY <2>1, <2>2 DEF UploadInv, UploadTypeOK, ParamInv
    <3>5. HookInv'
      BY <2>1, <2>2, <3>1, <3>3 DEF UploadInv, HookInv, Upload!Unlocked
    <3>6. NewestInv'
      BY <2>1, <2>2, <3>1 DEF UploadInv, NewestInv
    <3> QED
      BY <3>4, <3>5, <3>6 DEF UploadInv
  <2>3. CASE state' = [state EXCEPT ![u] = "over"] /\ UNCHANGED <<files, hook>>
    <3>1. UploadTypeOK'
      BY <2>1, <2>3 DEF UploadInv, UploadTypeOK
    <3>2. HookInv' /\ NewestInv' /\ ParamInv'
      BY <2>1, <2>3 DEF UploadInv, UploadTypeOK, HookInv, NewestInv, ParamInv, Upload!Unlocked
    <3> QED
      BY <3>1, <3>2 DEF UploadInv
  <2> QED
    BY <1>1, <2>2, <2>3 DEF Upload!BeginHook
<1>2. ASSUME NEW f \in DOMAIN Size, Upload!DeleteFile(f) PROVE UploadInv'
  BY <1>2 DEF Upload!DeleteFile, UploadInv, UploadTypeOK, HookInv, NewestInv, ParamInv,
           Upload!Unlocked
<1>3. CASE Upload!EndHook
  <2> PICK u : u = hook.of
    OBVIOUS
  <2>1. /\ u \in DOMAIN Size /\ u \in files /\ u \notin hook.old /\ state[u] = "sent"
        /\ status = "live" /\ fileRows' = Upload!Newest(Append(fileRows, u))
        /\ Upload!Unlocked' /\ newest' = u
        /\ state' = [state EXCEPT ![u] = "filed"]
        /\ UNCHANGED <<files, param, status, faults, chosen, raced>>
    BY <1>3 DEF Upload!EndHook, UploadInv, HookInv, Upload!Unlocked
  <2>2. /\ fileRows' \in Seq(DOMAIN Size) /\ u \in Upload!Range(fileRows')
        /\ Upload!Range(fileRows') \subseteq Upload!Range(fileRows) \cup {u}
    <3> DEFINE list == Append(fileRows, u)
               kept == {i \in DOMAIN list : list[i] \notin hook.old}
    <3>1. /\ list \in Seq(DOMAIN Size) /\ DOMAIN list = 1 .. Len(fileRows) + 1
          /\ Len(fileRows) \in Nat /\ Len(list) = Len(fileRows) + 1 /\ list[Len(fileRows) + 1] = u
          /\ \A i \in 1 .. Len(fileRows) : list[i] \in Upload!Range(fileRows)
      BY <2>1, AppendFacts DEF UploadInv
    <3> HIDE DEF list
    <3>2. Upload!Min(kept) \in kept
      <4>1. Len(fileRows) + 1 \in kept
        BY <2>1, <3>1
      <4>2. kept \in SUBSET Nat
        BY <3>1
      <4> QED
        BY <4>1, <4>2, SmallestNumber
    <3> PICK n \in 1 .. Len(list) : fileRows' = SubSeq(list, n, Len(list))
      BY <2>1, <3>1, <3>2 DEF Upload!Newest, list
    <3>3. /\ fileRows' \in Seq(DOMAIN Size) /\ Len(fileRows') = Len(list) - n + 1
          /\ \A i \in 1 .. Len(fileRows') : fileRows'[i] = list[n + i - 1]
          /\ DOMAIN fileRows' = 1 .. Len(fileRows')
      BY <3>1, SubSeqProperties
    <3>4. fileRows'[Len(list) - n + 1] = u /\ Len(list) - n + 1 \in DOMAIN fileRows'
      BY <3>1, <3>3
    <3>5. ASSUME NEW i \in DOMAIN fileRows' PROVE fileRows'[i] \in Upload!Range(fileRows) \cup {u}
      BY <3>1, <3>3
    <3> QED
      BY <3>3, <3>4, <3>5 DEF Upload!Range
  <2>3. UploadTypeOK'
    BY <2>1, <2>2 DEF UploadInv, UploadTypeOK
  <2>4. HookInv'
    BY <2>1, <2>2 DEF UploadInv, UploadTypeOK, HookInv
  <2>5. NewestInv' /\ ParamInv'
    BY <2>1, <2>2 DEF UploadInv, UploadTypeOK, NewestInv, ParamInv
  <2> QED
    BY <2>3, <2>4, <2>5 DEF UploadInv
<1> QED
  BY <1>1, <1>2, <1>3

(* An upload is created, becomes the param, or is lost with its process.   *)
LEMMA UploadSteps ==
  ASSUME UploadInv,
         Upload!Crash \/ \E u \in DOMAIN Size : Upload!CreateUpload(u) \/ Upload!SelectFile(u)
  PROVE  UploadInv'
<1>1. ASSUME NEW u \in DOMAIN Size, Upload!CreateUpload(u) PROVE UploadInv'
  <2>1. UploadTypeOK'
    BY <1>1 DEF Upload!CreateUpload, UploadInv, UploadTypeOK
  <2>2. HookInv'
    BY <1>1 DEF Upload!CreateUpload, UploadInv, UploadTypeOK, HookInv, Upload!Unlocked
  <2>3. NewestInv' /\ ParamInv'
    BY <1>1 DEF Upload!CreateUpload, UploadInv, UploadTypeOK, NewestInv, ParamInv, Upload!Unlocked
  <2> QED
    BY <2>1, <2>2, <2>3 DEF UploadInv
<1>2. ASSUME NEW u \in DOMAIN Size, Upload!SelectFile(u) PROVE UploadInv'
  <2>1. /\ state[u] = "filed" /\ Upload!Unlocked /\ state' = [state EXCEPT ![u] = "over"]
        /\ UNCHANGED <<fileRows, files, status, hook, faults, chosen, newest>>
    BY <1>2 DEF Upload!SelectFile
  <2>2. UploadTypeOK' /\ HookInv' /\ NewestInv'
    BY <2>1 DEF UploadInv, UploadTypeOK, HookInv, NewestInv, Upload!Unlocked
  <2>3. \/ status = "live" /\ param' = u /\ (~raced' => newest = u)
        \/ raced' /\ UNCHANGED param
    <3>1. raced' = (newest # u) => (~raced' => newest = u)
      BY Zenon
    <3> QED
      BY <1>2, <3>1 DEF Upload!SelectFile
  <2>4. ParamInv'
    BY <2>1, <2>3 DEF UploadInv, ParamInv
  <2> QED
    BY <2>2, <2>4 DEF UploadInv
<1>3. CASE Upload!Crash
  <2>1. /\ faults' \in Nat /\ faults' # 0
        /\ UNCHANGED <<fileRows, files, param, status, newest>>
    BY <1>3 DEF Upload!Crash, UploadInv, UploadTypeOK
  <2>2. \/ \E u \in DOMAIN Size : state' = [state EXCEPT ![u] = "over"] /\ Upload!Unlocked'
        \/ \E u \in DOMAIN Size : /\ state[u] = "filed" /\ UNCHANGED hook
                                  /\ state' = [state EXCEPT ![u] = "over"]
    BY <1>3 DEF Upload!Crash, UploadInv, UploadTypeOK, HookInv, Upload!Unlocked
  <2>3. UploadTypeOK'
    BY <2>1, <2>2 DEF UploadInv, UploadTypeOK
  <2>4. HookInv'
    <3>1. CASE \E u \in DOMAIN Size : state' = [state EXCEPT ![u] = "over"] /\ Upload!Unlocked'
      BY <2>1, <3>1 DEF UploadInv, UploadTypeOK, HookInv
    <3>2. ASSUME NEW u \in DOMAIN Size, state[u] = "filed", UNCHANGED hook,
                 state' = [state EXCEPT ![u] = "over"]
          PROVE  HookInv'
      BY <2>1, <3>2 DEF UploadInv, UploadTypeOK, HookInv, Upload!Unlocked
    <3> QED
      BY <2>2, <3>1, <3>2
  <2>5. NewestInv' /\ ParamInv'
    BY <2>1 DEF UploadInv, NewestInv, ParamInv
  <2> QED
    BY <2>3, <2>4, <2>5 DEF UploadInv
<1> QED
  BY <1>1, <1>2, <1>3

(* What users do. *)
LEMMA UserSteps ==
  ASSUME UploadInv,
         \/ Upload!ChooseFile \/ Upload!Undo \/ Upload!ResetToken
         \/ Upload!DeleteStep \/ Upload!Purge
  PROVE  UploadInv'
<1>1. CASE Upload!ChooseFile \/ Upload!Undo
  <2>1. /\ UNCHANGED <<state, fileRows, files, status, hook, faults, newest>>
        /\ chosen' /\ status = "live"
    BY <1>1 DEF Upload!ChooseFile, Upload!Undo
  <2> QED
    BY <2>1 DEF UploadInv, UploadTypeOK, HookInv, NewestInv, ParamInv, Upload!Unlocked
<1>2. CASE Upload!ResetToken
  BY <1>2 DEF Upload!ResetToken, UploadInv, UploadTypeOK, HookInv, NewestInv, ParamInv,
           Upload!Unlocked
<1>3. CASE Upload!DeleteStep
  BY <1>3 DEF Upload!DeleteStep, Upload!Changes, UploadInv, UploadTypeOK, HookInv, NewestInv,
           ParamInv, Upload!Unlocked
<1>4. CASE Upload!Purge
  <2>1. /\ fileRows' \in Seq(DOMAIN Size) /\ DOMAIN fileRows' = {} /\ status' = "purged"
        /\ param' = Upload!None /\ Upload!Unlocked /\ UNCHANGED <<state, newest, faults, hook>>
    BY <1>4 DEF Upload!Purge
  <2>2. Upload!Range(fileRows') = {}
    BY <2>1 DEF Upload!Range
  <2> QED
    BY <2>1, <2>2 DEF UploadInv, UploadTypeOK, HookInv, NewestInv, ParamInv, Upload!Unlocked
<1> QED
  BY <1>1, <1>2, <1>3, <1>4

(* Every step keeps the invariant. *)
THEOREM UploadInvariance == Upload!Spec => []UploadInv
<1>1. UploadInv /\ [Upload!Next]_(Upload!vars) => UploadInv'
  <2>1. UploadInv /\ UNCHANGED Upload!vars => UploadInv'
    BY DEF UploadInv, UploadTypeOK, HookInv, NewestInv, ParamInv, Upload!Unlocked, Upload!vars
  <2> QED
    BY <2>1, HookSteps, UploadSteps, UserSteps DEF Upload!Next
<1> QED
  BY <1>1, UploadInvInit, PTL DEF Upload!Spec

(* The step's file is there, row and object, however many came since, but  *)
(* for what the property excepts.                                          *)
THEOREM FilesAreThere == Upload!Spec => []ChosenFileExists
  BY UploadInvariance, UploadInvImplies, PTL

=============================================================================
