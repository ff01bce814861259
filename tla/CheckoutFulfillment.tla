------------------------- MODULE CheckoutFulfillment ------------------------
(***************************************************************************)
(* What happens once a grouped Stripe payment has succeeded: webhooks and  *)
(* the client both ask for its orders, each store of the basket is served  *)
(* by a task of its own, and the document stripe_processed_checkouts keeps *)
(* what was done.  Every await that reads or writes a document others use  *)
(* is a step of its own; a process forgets its calls and its in-flight map *)
(* when it restarts.                                                       *)
(***************************************************************************)
EXTENDS Naturals, FiniteSets

CONSTANTS
  Stores,         \* the stores of the paid basket
  Calls,          \* deliveries: webhooks and confirmations by the client
  Clients,        \* the calls of the mobile client
  SessionEvents,  \* webhooks keyed by the checkout session; the other calls
                  \* are keyed by the payment intent
  Procs,          \* API processes
  MaxOrders,      \* bound: orders created for the basket
  Gifts,          \* whether the basket may be a gift to somebody else
  Shopping,       \* stores whose cart the customer fills again
  Slow,           \* whether fifteen minutes may pass between two steps
  MaxMoves,       \* bound: orders the vendor moves on
  MaxFailures,    \* bound: database or store errors
  MaxCrashes,     \* bound: restarts of a process
  None

Keys == {"cs", "pi"}

ASSUME ConstantsAssumption ==
  /\ IsFiniteSet(Stores) /\ IsFiniteSet(Calls)
  /\ Clients \subseteq Calls /\ SessionEvents \subseteq Calls \ Clients
  /\ Gifts \subseteq BOOLEAN
  /\ Shopping \subseteq Stores /\ Slow \in BOOLEAN
  /\ MaxOrders \in Nat /\ MaxMoves \in Nat
  /\ MaxFailures \in Nat /\ MaxCrashes \in Nat
  /\ None \notin (1..MaxOrders) \cup Procs \cup Stores /\ None \notin Keys

OrderIds == 1..MaxOrders

(* The stripePaymentId a call is made with.                                *)
Key(c) == IF c \in SessionEvents THEN "cs" ELSE "pi"

VARIABLES
  basket,   \* whether it is a gift; history: the stores whose cart was
            \* filled again
  cart,     \* store -> whether the customer's cart holds items of the store
  orders,   \* the order documents made of those carts
  doc,      \* key -> stripe_processed_checkouts: made, order of each store
  call,     \* call -> the request under way
  slot,     \* call -> store -> fulfillStripeGroupedStore under way
  faults    \* what the bounds count: moves, failures, crashes

vars == <<basket, cart, orders, doc, call, slot, faults>>

Outcomes == {"ok", "error"}
SlotSteps == {"prior", "find_paid", "find_created", "cart", "insert", "clear",
              "mark", "verify"}
Rows == [Stores -> OrderIds \cup {None}]
NoRows == [s \in Stores |-> None]

Idle == [pc |-> "idle", at |-> None, prior |-> NoRows]
NoSlot == [pc |-> "off", order |-> None, again |-> FALSE]

Orders == [status: {"free", "created", "paid", "moved"},
           store: Stores \cup {None}, key: Keys \cup {None}, recent: BOOLEAN]
Requests == [pc: {"idle", "join", "load", "check", "create", "stores", "done"},
             at: Procs \cup {None}, prior: Rows]
Slots == [pc: SlotSteps \cup Outcomes \cup {"off"},
          order: OrderIds \cup {None}, again: BOOLEAN]

TypeOK ==
  /\ basket \in [gift: Gifts, refilled: SUBSET Stores]
  /\ cart \in [Stores -> BOOLEAN]
  /\ orders \in [OrderIds -> Orders]
  /\ doc \in [Keys -> [made: BOOLEAN, rows: Rows]]
  /\ call \in [Calls -> Requests]
  /\ slot \in [Calls -> [Stores -> Slots]]
  /\ faults \in [moves: 0..MaxMoves, failures: 0..MaxFailures,
                 crashes: 0..MaxCrashes]

Init ==
  /\ basket \in [gift: Gifts, refilled: {{}}]
  /\ cart = [s \in Stores |-> TRUE]
  /\ orders = [o \in OrderIds |-> [status |-> "free", store |-> None,
                                   key |-> None, recent |-> TRUE]]
  /\ doc = [k \in Keys |-> [made |-> FALSE, rows |-> NoRows]]
  /\ call = [c \in Calls |-> Idle]
  /\ slot = [c \in Calls |-> [s \in Stores |-> NoSlot]]
  /\ faults = [moves |-> 0, failures |-> 0, crashes |-> 0]

-----------------------------------------------------------------------------
(* Helpers                                                                 *)

Used(o) == orders[o].status # "free"
FreeIds == {o \in OrderIds : ~Used(o)}

(* isOrderPaidForStripePayment: the status is paied, not merely past it.   *)
PaidBy(o, k) == orders[o].status = "paid" /\ orders[o].key = k

(* The calls the fulfilment of a payment is running for in a process.      *)
Working == {"load", "check", "create", "stores"}
InFlight(k, p) ==
  \E c \in Calls : call[c].pc \in Working /\ call[c].at = p /\ Key(c) = k

(* isStripeFulfillmentComplete on the rows the call has read.              *)
Complete(rows, k) ==
  \A s \in Stores : rows[s] # None /\ PaidBy(rows[s], k)

Serving(c, s, label) == call[c].pc = "stores" /\ slot[c][s].pc = label
Step(c, s, r) == slot' = [slot EXCEPT ![c][s] = r]
Go(c, s, label) == slot' = [slot EXCEPT ![c][s].pc = label]
Use(c, s, o) ==
  Step(c, s, [slot[c][s] EXCEPT !.pc = "mark", !.order = o])

(* findRecoverableOrderIdForStorePayment: the first query looks at the     *)
(* payment whatever the status, the second at the recent unpaid orders.    *)
(* Both ask for orders whose user is the payer, and the orders of a gift   *)
(* have the recipient for user.                                            *)
Carrying(s, k) == {o \in OrderIds : /\ ~basket.gift /\ orders[o].store = s
                                    /\ orders[o].key = k}
Unpaid(s) == {o \in OrderIds : /\ ~basket.gift /\ orders[o].store = s
                               /\ orders[o].status = "created"
                               /\ orders[o].recent}

-----------------------------------------------------------------------------
(* The customer, the vendor, time, errors and restarts                     *)

Shop(s) ==
  /\ s \in Shopping /\ ~cart[s]
  /\ cart' = [cart EXCEPT ![s] = TRUE]
  /\ basket' = [basket EXCEPT !.refilled = @ \cup {s}]
  /\ UNCHANGED <<orders, doc, call, slot, faults>>

(* The vendor prepares, ships or rejects a paid order.                     *)
Move(o) ==
  /\ orders[o].status = "paid" /\ faults.moves < MaxMoves
  /\ orders' = [orders EXCEPT ![o].status = "moved"]
  /\ faults' = [faults EXCEPT !.moves = @ + 1]
  /\ UNCHANGED <<cart, doc, call, slot, basket>>

(* An unpaid order leaves the window of fifteen minutes (of a gift's order *)
(* no query asks it).                                                      *)
Age(o) ==
  /\ Slow /\ ~basket.gift /\ orders[o].status = "created" /\ orders[o].recent
  /\ orders' = [orders EXCEPT ![o].recent = FALSE]
  /\ UNCHANGED <<cart, doc, call, slot, faults, basket>>

(* An exception inside one store's task is its result: the other stores go *)
(* on.  An order just inserted is not returned.                            *)
StoreFails(c, s) ==
  /\ call[c].pc = "stores" /\ slot[c][s].pc \in SlotSteps
  /\ faults.failures < MaxFailures
  /\ faults' = [faults EXCEPT !.failures = @ + 1]
  /\ Step(c, s, [NoSlot EXCEPT !.pc = "error"])
  /\ UNCHANGED <<cart, orders, doc, call, basket>>

(* An exception of the call itself is an error status: Stripe delivers the *)
(* event again, the client asks again.                                     *)
CallFails(c) ==
  /\ call[c].pc \in Working
  /\ \A s \in Stores : slot[c][s].pc \in Outcomes \cup {"off"}
  /\ faults.failures < MaxFailures
  /\ faults' = [faults EXCEPT !.failures = @ + 1]
  /\ call' = [d \in Calls |->
       IF d = c \/ (call[d].pc = "join" /\ Key(d) = Key(c) /\ call[d].at = call[c].at)
       THEN Idle ELSE call[d]]
  /\ slot' = [slot EXCEPT ![c] = [s \in Stores |-> NoSlot]]
  /\ UNCHANGED <<cart, orders, doc, basket>>

(* The calls of a restarted process are not answered: they are made again. *)
Crash(p) ==
  /\ faults.crashes < MaxCrashes
  /\ faults' = [faults EXCEPT !.crashes = @ + 1]
  /\ call' = [c \in Calls |-> IF call[c].at = p /\ call[c].pc # "done"
                              THEN Idle ELSE call[c]]
  /\ slot' = [c \in Calls |-> IF call[c].at = p THEN [s \in Stores |-> NoSlot]
                              ELSE slot[c]]
  /\ UNCHANGED <<cart, orders, doc, basket>>

-----------------------------------------------------------------------------
(* fulfillOrdersAfterStripePayment                                         *)

(* Mutant: every delivery runs the fulfilment.                             *)
StartAlways(c, p) ==
  /\ call[c].pc = "idle"
  /\ call' = [call EXCEPT ![c] = [Idle EXCEPT !.pc = "load", !.at = p]]
  /\ UNCHANGED <<cart, orders, doc, slot, faults, basket>>

(* A call that finds the same payment in flight in its process waits for   *)
(* that result.                                                            *)
Start(c, p) ==
  /\ call[c].pc = "idle"
  /\ call' = [call EXCEPT ![c] =
       [Idle EXCEPT !.pc = IF InFlight(Key(c), p) THEN "join" ELSE "load",
                    !.at = p]]
  /\ UNCHANGED <<cart, orders, doc, slot, faults, basket>>

Joined(c) ==
  /\ call[c].pc = "join" /\ ~InFlight(Key(c), call[c].at)
  /\ call' = [call EXCEPT ![c].pc = "done"]
  /\ UNCHANGED <<cart, orders, doc, slot, faults, basket>>

(* Mutant: a payment without a document has no list of orders at all.      *)
LoadUndefined(c) ==
  /\ call[c].pc = "load"
  /\ LET d == doc[Key(c)]
     IN call' = [call EXCEPT ![c].pc = IF d.made THEN "check" ELSE "create",
                             ![c].prior = IF d.made THEN d.rows ELSE None]
  /\ UNCHANGED <<cart, orders, doc, slot, faults, basket>>

Load(c) ==
  /\ call[c].pc = "load"
  /\ LET d == doc[Key(c)]
     IN call' = [call EXCEPT ![c].pc = IF d.made THEN "check" ELSE "create",
                             ![c].prior = d.rows]
  /\ UNCHANGED <<cart, orders, doc, slot, faults, basket>>

BeginStores(c) ==
  /\ call' = [call EXCEPT ![c].pc = "stores"]
  /\ slot' = [slot EXCEPT ![c] =
                [s \in Stores |-> [NoSlot EXCEPT !.pc = "prior"]]]

(* Mutant: an existing document is a fulfilment done.                      *)
CheckMade(c) ==
  /\ call[c].pc = "check"
  /\ call' = [call EXCEPT ![c].pc = "done"]
  /\ UNCHANGED <<cart, orders, doc, slot, faults, basket>>

(* A complete fulfilment is an early return, any other is run again.       *)
Check(c) ==
  /\ call[c].pc = "check"
  /\ IF Complete(call[c].prior, Key(c))
     THEN call' = [call EXCEPT ![c].pc = "done"] /\ UNCHANGED slot
     ELSE BeginStores(c)
  /\ UNCHANGED <<cart, orders, doc, faults, basket>>

(* The unique index on sessionId: the loser reads the document again.      *)
Create(c) ==
  /\ call[c].pc = "create"
  /\ IF doc[Key(c)].made
     THEN call' = [call EXCEPT ![c].pc = "load"] /\ UNCHANGED <<doc, slot>>
     ELSE doc' = [doc EXCEPT ![Key(c)].made = TRUE] /\ BeginStores(c)
  /\ UNCHANGED <<cart, orders, faults, basket>>

(* Promise.all over the stores is over: the document is overwritten.       *)
Save(c) ==
  /\ call[c].pc = "stores"
  /\ \A s \in Stores : slot[c][s].pc \in Outcomes
  /\ doc' = [doc EXCEPT ![Key(c)].rows =
       [s \in Stores |-> IF slot[c][s].pc = "ok" THEN slot[c][s].order ELSE None]]
  /\ call' = [call EXCEPT ![c].pc = "done"]
  /\ slot' = [slot EXCEPT ![c] = [s \in Stores |-> NoSlot]]
  /\ UNCHANGED <<cart, orders, faults, basket>>

-----------------------------------------------------------------------------
(* fulfillStripeGroupedStore                                               *)

Prior(c, s) ==
  /\ Serving(c, s, "prior")
  /\ LET o == call[c].prior[s]
     IN IF o # None /\ PaidBy(o, Key(c))
        THEN Step(c, s, [NoSlot EXCEPT !.pc = "ok", !.order = o])
        ELSE Go(c, s, "find_paid")
  /\ UNCHANGED <<cart, orders, doc, call, faults, basket>>

(* Mutant: only an order still in status paied is recognised.              *)
FindStillPaid(c, s) ==
  /\ Serving(c, s, "find_paid")
  /\ \/ \E o \in Carrying(s, Key(c)) : PaidBy(o, Key(c)) /\ Use(c, s, o)
     \/ /\ \A o \in Carrying(s, Key(c)) : ~PaidBy(o, Key(c))
        /\ Go(c, s, "find_created")
  /\ UNCHANGED <<cart, orders, doc, call, faults, basket>>

FindPaid(c, s) ==
  /\ Serving(c, s, "find_paid")
  /\ \/ \E o \in Carrying(s, Key(c)) : Use(c, s, o)
     \/ Carrying(s, Key(c)) = {} /\ Go(c, s, "find_created")
  /\ UNCHANGED <<cart, orders, doc, call, faults, basket>>

(* The most recent one; none after an empty cart is the task's error.      *)
FindCreated(c, s) ==
  /\ Serving(c, s, "find_created")
  /\ \/ \E o \in Unpaid(s) : /\ \A q \in Unpaid(s) : q <= o
                             /\ Use(c, s, o)
     \/ /\ Unpaid(s) = {}
        /\ Go(c, s, IF slot[c][s].again THEN "error" ELSE "cart")
  /\ UNCHANGED <<cart, orders, doc, call, faults, basket>>

(* createOrderFromCart reads the cart (its first look, before the stocks,  *)
(* and the one of createFromCart are one step); a cart found empty makes   *)
(* the task look for the order once more.                                  *)
Cart(c, s) ==
  /\ Serving(c, s, "cart")
  /\ Step(c, s, [slot[c][s] EXCEPT
       !.pc = IF cart[s] THEN "insert" ELSE "find_paid", !.again = ~cart[s]])
  /\ UNCHANGED <<cart, orders, doc, call, faults, basket>>

Insert(c, s) ==
  /\ Serving(c, s, "insert")
  /\ \E o \in FreeIds :
       /\ \A q \in FreeIds : o <= q
       /\ orders' = [orders EXCEPT ![o] =
            [status |-> "created", store |-> s, key |-> None, recent |-> TRUE]]
       /\ Step(c, s, [slot[c][s] EXCEPT !.pc = "clear", !.order = o])
  /\ UNCHANGED <<cart, doc, call, faults, basket>>

(* Mutant: the order just made is returned before it is marked paid.       *)
ClearReturns(c, s) ==
  /\ Serving(c, s, "clear")
  /\ cart' = [cart EXCEPT ![s] = FALSE]
  /\ Go(c, s, "ok")
  /\ UNCHANGED <<orders, doc, call, faults, basket>>

Clear(c, s) ==
  /\ Serving(c, s, "clear")
  /\ cart' = [cart EXCEPT ![s] = FALSE]
  /\ Go(c, s, "mark")
  /\ UNCHANGED <<orders, doc, call, faults, basket>>

(* markOrderPaidWithShipping: the update has no condition on the status.   *)
Mark(c, s) ==
  /\ Serving(c, s, "mark")
  /\ orders' = [orders EXCEPT ![slot[c][s].order].status = "paid",
                              ![slot[c][s].order].key = Key(c)]
  /\ Go(c, s, "verify")
  /\ UNCHANGED <<cart, doc, call, faults, basket>>

Verify(c, s) ==
  /\ Serving(c, s, "verify")
  /\ Go(c, s, IF PaidBy(slot[c][s].order, Key(c)) THEN "ok" ELSE "error")
  /\ UNCHANGED <<cart, orders, doc, call, faults, basket>>

-----------------------------------------------------------------------------
Serve(c, s) ==
  \/ Prior(c, s) \/ FindPaid(c, s) \/ FindCreated(c, s) \/ Cart(c, s)
  \/ Insert(c, s) \/ Clear(c, s) \/ Mark(c, s) \/ Verify(c, s)

Run(c) == Joined(c) \/ Load(c) \/ Check(c) \/ Create(c) \/ Save(c)

Next ==
  \/ \E s \in Stores : Shop(s)
  \/ \E o \in OrderIds : Move(o) \/ Age(o)
  \/ \E p \in Procs : Crash(p)
  \/ \E c \in Calls : \/ Run(c) \/ CallFails(c)
                      \/ \E p \in Procs : Start(c, p)
                      \/ \E s \in Stores : Serve(c, s) \/ StoreFails(c, s)

Spec == Init /\ [][Next]_vars

(* Stripe delivers its events, and a process goes on with what it began.   *)
FairSpec ==
  /\ Spec
  /\ \A c \in Calls \ Clients : WF_vars(\E p \in Procs : Start(c, p))
  /\ \A c \in Calls : WF_vars(Run(c))
  /\ \A c \in Calls, s \in Stores : WF_vars(Serve(c, s))

-----------------------------------------------------------------------------
(* Properties                                                              *)

(* Stores where a run finds what an earlier one did.  A gift's orders are  *)
(* not found, so once its cart is filled again nothing holds a redelivery  *)
(* back from a second order.                                               *)
Kept(s) == basket.gift => s \notin basket.refilled

(* A payment never pays two orders of one store: deliveries of the same    *)
(* payment to one process, errors, restarts, late redeliveries and a cart  *)
(* filled again included; for a gift, as long as its cart stays empty.     *)
PaidOrdersOf(s) == {o \in OrderIds : orders[o].store = s /\ orders[o].key # None}
OnePaidOrder ==
  \A s \in Stores : Kept(s) => Cardinality(PaidOrdersOf(s)) <= 1

(* stripe_processed_checkouts only ever names orders of the right store    *)
(* that carry the payment.                                                 *)
ReceiptTrue ==
  \A k \in Keys, s \in Stores : LET o == doc[k].rows[s]
    IN o # None => orders[o].store = s /\ orders[o].key = k

(* A paid basket becomes one paid order per store, restarts included, as   *)
(* long as no error is swallowed and no redelivery comes too late to find  *)
(* the order a restart left unpaid; what a restart leaves of a gift is     *)
(* never found.                                                            *)
Recoverable ==
  /\ faults.failures = 0 /\ \A o \in OrderIds : orders[o].recent
  /\ basket.gift => faults.crashes = 0
BasketFulfilled == []Recoverable => \A s \in Stores : <>(PaidOrdersOf(s) # {})

(* The basket implements the abstract promise: one order per store carries *)
(* the payment, it never changes, and the receipt names it or nothing.     *)
Abstract == INSTANCE PaidOrders WITH
  paidFor <- [s \in Stores |-> PaidOrdersOf(s)],
  receipt <- doc["pi"].rows,
  open <- {s \in Stores : ~Kept(s)}
ImplementsPaidOrders == Abstract!Spec
=============================================================================
