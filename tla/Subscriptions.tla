--------------------------- MODULE Subscriptions ----------------------------
(***************************************************************************)
(* One user's payments: cjworkbench/models/stripe.py and its views.  Stripe*)
(* is external: it makes customers and, when a checkout is paid, a         *)
(* subscription, and it posts events to webhook() at least once, in any    *)
(* order, until the answer is not an error.                                *)
(*                                                                         *)
(* What a subscription is at Stripe is a number that grows: another status *)
(* or period each; LastStage, when it is deleted.  A row of table          *)
(* "subscription" holds, as status and renewed_at, those of some number.   *)
(***************************************************************************)
EXTENDS Integers

CONSTANTS Checkouts,   \* each may become one subscription
          ActivePlans, \* how many Plans have stripe_active
          LastStage,   \* bound: a subscription's last number
          MaxFaults    \* bound: errors, crashes and duplicates

None == 0

VARIABLES
  customer,     \* UserProfile.stripe_customer_id
  customers,    \* how many Stripe has made for this user
  lock,         \* the checkout that has the UserProfile SELECTed FOR UPDATE
  checkout,     \* checkout[c]: [at, customer], the profile that was read being part of it;
                \* at: "new", "locked", "ready", "open" at Stripe, "paid" or "failed"
  subscription, \* subscription[c]: what it is at Stripe; None before it is paid
  events,       \* what Stripe has yet to tell: [type, of, is]
  handlers,     \* calls of handle_checkout_session_completed() that know Stripe's answer
  row,          \* row[c]: NoRow, or [status, renewed]
  told,         \* told[c]: the newest that a handled call has told (auxiliary)
  late,         \* late[c]: was the call handled last older than that? (auxiliary)
  faults

vars == <<customer, customers, lock, checkout, subscription, events, handlers, row, told, late,
          faults>>

NoRow == [status |-> None, renewed |-> None]

Init ==
  /\ customer = None /\ customers = 0 /\ lock = None
  /\ checkout = [c \in Checkouts |-> [at |-> "new", customer |-> None]]
  /\ subscription = [c \in Checkouts |-> None] /\ events = {} /\ handlers = {}
  /\ row = [c \in Checkouts |-> NoRow] /\ faults = 0
  /\ told = [c \in Checkouts |-> None] /\ late = [c \in Checkouts |-> FALSE]

Fault == faults < MaxFaults /\ faults' = faults + 1

-----------------------------------------------------------------------------
(* create_checkout_session(), the view and the function it calls           *)

LookUp(c) ==
  checkout' = [checkout EXCEPT ![c] =
    [at |-> IF customer = None THEN "locked" ELSE "ready", customer |-> customer]]

(* Mutant: the UserProfile is read without its lock.                       *)
BeginCheckoutUnlocked(c) ==
  /\ checkout[c].at = "new" /\ ActivePlans = 1
  /\ LookUp(c) /\ UNCHANGED lock
  /\ UNCHANGED <<customer, customers, subscription, events, handlers, row, told, late, faults>>

(* Http404 if there is no plan; RuntimeError if there are several.         *)
BeginCheckout(c) ==
  /\ checkout[c].at = "new" /\ ActivePlans = 1 /\ lock = None
  /\ LookUp(c) /\ lock' = IF customer = None THEN c ELSE None
  /\ UNCHANGED <<customer, customers, subscription, events, handlers, row, told, late, faults>>

CreateCustomer(c) ==
  /\ checkout[c].at = "locked" /\ customers' = customers + 1
  /\ customer' = customers' /\ lock' = None
  /\ checkout' = [checkout EXCEPT ![c] = [at |-> "ready", customer |-> customers']]
  /\ UNCHANGED <<subscription, events, handlers, row, told, late, faults>>

(* Stripe refuses or, when it has made the customer, the process dies.     *)
CustomerFails(c) ==
  /\ checkout[c].at = "locked" /\ Fault /\ lock' = None
  /\ customers' \in {customers, customers + 1}
  /\ checkout' = [checkout EXCEPT ![c].at = "failed"]
  /\ UNCHANGED <<customer, subscription, events, handlers, row, told, late>>

(* stripe.checkout.Session.create(), after the COMMIT.                     *)
CreateSession(c) ==
  /\ checkout[c].at = "ready"
  /\ \/ checkout' = [checkout EXCEPT ![c].at = "open"]   /\ UNCHANGED faults
     \/ checkout' = [checkout EXCEPT ![c].at = "failed"] /\ Fault
  /\ UNCHANGED <<customer, customers, lock, subscription, events, handlers, row, told, late>>

-----------------------------------------------------------------------------
(* What happens at Stripe (external).                                      *)

Pay(c) ==
  /\ checkout[c].at = "open" /\ checkout' = [checkout EXCEPT ![c].at = "paid"]
  /\ subscription' = [subscription EXCEPT ![c] = 1]
  /\ events' = events \cup {[type |-> "completed", of |-> c, is |-> 1]}
  /\ UNCHANGED <<customer, customers, lock, handlers, row, told, late, faults>>

Change(c) ==
  /\ subscription[c] \in 1 .. LastStage - 1
  /\ subscription' = [subscription EXCEPT ![c] = @ + 1]
  /\ events' = events \cup {[type |-> IF subscription'[c] = LastStage THEN "deleted"
                                       ELSE "updated",
                             of |-> c, is |-> subscription'[c]]}
  /\ UNCHANGED <<customer, customers, lock, checkout, handlers, row, told, late, faults>>

-----------------------------------------------------------------------------
(* webhook(): Stripe takes an event for told when the call succeeds, or,   *)
(* the answer being lost, does not.                                        *)

Answered(e) ==
  \/ events' = events \ {e} /\ UNCHANGED faults
  \/ UNCHANGED events       /\ Fault

(* A call that says what the subscription of checkout c was at i.          *)
Tells(c, i) ==
  /\ told' = [told EXCEPT ![c] = IF i > @ THEN i ELSE @]
  /\ late' = [late EXCEPT ![c] = i < told[c] \/ (told[c] = LastStage /\ row'[c] # NoRow)]

(* stripe.Subscription.retrieve(), before the lock: what it is now.        *)
Retrieve(e) ==
  /\ e.type = "completed"
  /\ handlers' = handlers \cup {[event |-> e, is |-> subscription[e.of]]}
  /\ UNCHANGED <<customer, customers, lock, checkout, subscription, events, row, told, late,
                 faults>>

(* UserProfile.DoesNotExist, an error, if this is not its customer's.      *)
HandleCompleted(h) ==
  LET c == h.event.of IN
  /\ lock = None /\ customer = checkout[c].customer
  /\ handlers' = handlers \ {h} /\ Answered(h.event)
  /\ row' = [row EXCEPT ![c] = [status |-> h.is, renewed |-> h.is]]
  /\ Tells(c, h.is)
  /\ UNCHANGED <<customer, customers, lock, checkout, subscription>>

HandleFails(h) ==
  /\ Fault /\ handlers' = handlers \ {h}
  /\ UNCHANGED <<customer, customers, lock, checkout, subscription, events, row, told, late>>

(* What the event says, to the row if there is one.                        *)
HandleUpdated(e) ==
  /\ e.type = "updated" /\ Answered(e)
  /\ row' = IF row[e.of] = NoRow THEN row
            ELSE [row EXCEPT ![e.of] = [status |-> e.is, renewed |-> e.is]]
  /\ Tells(e.of, e.is)
  /\ UNCHANGED <<customer, customers, lock, checkout, subscription, handlers>>

HandleDeleted(e) ==
  /\ e.type = "deleted" /\ Answered(e)
  /\ row' = [row EXCEPT ![e.of] = NoRow] /\ Tells(e.of, e.is)
  /\ UNCHANGED <<customer, customers, lock, checkout, subscription, handlers>>

Next ==
  \/ \E c \in Checkouts :
       BeginCheckout(c) \/ CreateCustomer(c) \/ CustomerFails(c) \/ CreateSession(c) \/ Pay(c)
       \/ Change(c)
  \/ \E e \in events : Retrieve(e) \/ HandleUpdated(e) \/ HandleDeleted(e)
  \/ \E h \in handlers : HandleCompleted(h) \/ HandleFails(h)

Spec == Init /\ [][Next]_vars

-----------------------------------------------------------------------------
Settled(c) == /\ \A e \in events   : e.of # c
              /\ \A h \in handlers : h.event.of # c

(* When every event has been answered: whoever pays has a subscription, in *)
(* whatever order the events came; and the row is what Stripe has, or there*)
(* is none when it has none, unless the call handled last told of something*)
(* older than an earlier one did, or came after the deletion -- nothing    *)
(* compares them, and nothing asks Stripe again.  And all that the user    *)
(* pays is one customer's, which is how the events find the user.          *)
SubscriptionsFollowStripe ==
  \A c \in Checkouts :
    /\ checkout[c].at \in {"open", "paid"} => checkout[c].customer = customer
    /\ subscription[c] \notin {None, LastStage} /\ Settled(c) => row[c] # NoRow
    /\ subscription[c] # None /\ Settled(c) /\ ~late[c] =>
         row[c] = IF subscription[c] = LastStage THEN NoRow
                  ELSE [status |-> subscription[c], renewed |-> subscription[c]]
=============================================================================
