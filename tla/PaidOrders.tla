----------------------------- MODULE PaidOrders -----------------------------
(***************************************************************************)
(* What the confirmation of a grouped payment promises the customer: each  *)
(* store of the basket gets one order paid with this payment, no other     *)
(* order ever carries it, and a receipt names an order that does or        *)
(* nothing.  For some stores the promise of a single order may lapse.      *)
(***************************************************************************)
CONSTANTS Stores, OrderIds, None

VARIABLES
  paidFor,  \* store -> the orders that carry the payment
  receipt,  \* store -> the order the confirmation reports
  open      \* stores for which nothing rules out another order

Init ==
  /\ paidFor = [s \in Stores |-> {}]
  /\ receipt = [s \in Stores |-> None]
  /\ open = {}

Pay(s, o) ==
  /\ paidFor[s] = {} \/ s \in open
  /\ \A t \in Stores : o \notin paidFor[t]
  /\ paidFor' = [paidFor EXCEPT ![s] = @ \cup {o}]
  /\ UNCHANGED <<receipt, open>>

(* A confirmation rewrites the receipt; it may withdraw a line it could    *)
(* not verify, never invent one.                                           *)
Report ==
  /\ receipt' \in [Stores -> OrderIds \cup {None}]
  /\ \A s \in Stores : receipt'[s] \in paidFor[s] \cup {None}
  /\ UNCHANGED <<paidFor, open>>

Lapse(s) ==
  /\ open' = open \cup {s}
  /\ UNCHANGED <<paidFor, receipt>>

Next ==
  \/ Report
  \/ \E s \in Stores : Lapse(s) \/ \E o \in OrderIds : Pay(s, o)

Spec == Init /\ [][Next]_<<paidFor, receipt, open>>
=============================================================================
