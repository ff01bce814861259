-------------------------- MODULE StockReservation --------------------------
(***************************************************************************)
(* StoreService.createOrderFromCart: the stocks an order needs are taken   *)
(* one after the other, drinks, then bundles, then the dishes and bundles  *)
(* of the daily menu, each by one conditional decrement; the order is made *)
(* and the cart cleared; a failure anywhere gives the stocks back.         *)
(* Checkouts of several customers, or of one customer twice, interleave.   *)
(***************************************************************************)
EXTENDS Integers, FiniteSets, FiniteSetsExt

CONSTANTS
  Drinks,       \* drinks of the store
  Bundles,      \* its bundles that have a stock of their own (quantite)
  Dishes,       \* dishes with a limited stock in the daily menu
  MenuBundles,  \* bundles with a limited stock in the daily menu
  Customers,
  Calls,        \* requests: the checkout of a cart, by the app or a webhook
  MaxQty,       \* bound: quantity of an article in a cart
  MaxStock,     \* bound: stocks at the beginning and after an edit
  MaxEdits,     \* bound: edits of a stock by the vendor
  MaxFaults,    \* bound: errors and restarts
  None

Articles == Drinks \cup Bundles \cup Dishes \cup MenuBundles

ASSUME ConstantsAssumption ==
  /\ IsFiniteSet(Articles) /\ IsFiniteSet(Calls)
  /\ Drinks \cap (Bundles \cup Dishes \cup MenuBundles) = {}
  /\ Dishes \cap (Bundles \cup MenuBundles) = {}
  /\ MaxQty \in Nat \ {0} /\ MaxStock \in Nat
  /\ MaxEdits \in Nat /\ MaxFaults \in Nat /\ None \notin Customers

(* The stocks, in the order the code takes them.                           *)
Rows == ({1} \X Drinks) \cup ({2} \X Bundles)
          \cup ({3} \X Dishes) \cup ({4} \X MenuBundles)
MenuRows == {r \in Rows : r[1] \in {3, 4}}

VARIABLES
  stock,   \* row -> what the document says is left
  cart,    \* customer -> article -> quantity
  call,    \* call -> the checkout under way
  supply,  \* history: row -> what the vendor ever put on sale
  booked,  \* history: row -> what was taken for orders that exist
  faults   \* kind -> how often it happened

vars == <<stock, cart, call, supply, booked, faults>>

Kinds == {"take", "order", "clear", "restore", "crash", "edit"}
Carts == [Articles -> 0..MaxQty]
Nothing == [a \in Articles |-> 0]
Idle == [pc |-> "idle", by |-> None, want |-> Nothing, taken |-> {},
         back |-> {}, again |-> FALSE, made |-> FALSE]
Done == [Idle EXCEPT !.pc = "done"]

TypeOK ==
  /\ stock \in [Rows -> Nat] /\ booked \in [Rows -> Nat]
  /\ supply \in [Rows -> Int]
  /\ cart \in [Customers -> Carts]
  /\ call \in [Calls ->
       [pc: {"idle", "take", "order", "clear", "undo", "done"},
        by: Customers \cup {None}, want: Carts, taken: SUBSET Rows,
        back: SUBSET Rows, again: BOOLEAN, made: BOOLEAN]]
  /\ faults \in [Kinds -> Nat]

Init ==
  /\ stock \in [Rows -> 0..MaxStock]
  /\ cart \in [Customers -> Carts]
  /\ call = [c \in Calls |-> Idle]
  /\ supply = stock
  /\ booked = [r \in Rows |-> 0]
  /\ faults = [k \in Kinds |-> 0]

-----------------------------------------------------------------------------
At(c, label) == call[c].pc = label
Become(c, j) == call' = [call EXCEPT ![c] = j]
Need(c, r) == call[c].want[r[2]]
Todo(c) == {r \in Rows : Need(c, r) > 0 /\ r \notin call[c].taken}

Happens(kind) ==
  /\ faults["take"] + faults["order"] + faults["clear"] + faults["restore"]
       + faults["crash"] < MaxFaults
  /\ faults' = [faults EXCEPT ![kind] = @ + 1]

(* The catch block: everything taken goes back.                            *)
Undone(c) == [call[c] EXCEPT !.pc = "undo", !.back = call[c].taken,
                             !.again = FALSE]

(* Mutant: every shortage runs a rollback before it throws.                *)
MissingTwice(c, r) == [Undone(c) EXCEPT !.again = TRUE]

(* A missing drink or bundle first runs its own rollback of all that was   *)
(* taken so far, then throws into the catch block.                         *)
Missing(c, r) == [Undone(c) EXCEPT !.again = r \notin MenuRows]

-----------------------------------------------------------------------------
(* The store, its daily menu and the cart are read; an empty cart or a     *)
(* stock already short is refused before anything is taken.  An order for  *)
(* now looks at the daily menu and at the bundles' own stock, an order for *)
(* a later date at the menu of that date or, from the catalogue, at none;  *)
(* nobody looks at the drinks' own stock.                                  *)
Inspected == {MenuRows \cup ({2} \X Bundles), MenuRows, {}}

Start(c, u) ==
  /\ At(c, "idle")
  /\ \E rows \in Inspected :
       LET refused == \/ cart[u] = Nothing
                      \/ \E r \in rows : cart[u][r[2]] > stock[r]
       IN Become(c, IF refused THEN Done
                    ELSE [Idle EXCEPT !.pc = "take", !.by = u, !.want = cart[u]])
  /\ UNCHANGED <<stock, cart, supply, booked, faults>>

(* Mutant: the decrement has no condition.                                 *)
TakeAnyway(c, r) ==
  /\ At(c, "take") /\ r \in Todo(c) /\ \A q \in Todo(c) : r[1] <= q[1]
  /\ stock' = [stock EXCEPT ![r] = @ - Need(c, r)]
  /\ Become(c, [call[c] EXCEPT !.taken = @ \cup {r}])
  /\ UNCHANGED <<cart, supply, booked, faults>>

(* Mutant: a shortage in the daily menu is answered without the rollback.  *)
TakeOrLeave(c, r) ==
  /\ At(c, "take") /\ r \in Todo(c) /\ \A q \in Todo(c) : r[1] <= q[1]
  /\ IF stock[r] >= Need(c, r)
     THEN /\ stock' = [stock EXCEPT ![r] = @ - Need(c, r)]
          /\ Become(c, [call[c] EXCEPT !.taken = @ \cup {r}])
     ELSE Become(c, Done) /\ UNCHANGED stock
  /\ UNCHANGED <<cart, supply, booked, faults>>

(* tryConsumeStock, tryConsumeDailyMenuStock: one update on the condition  *)
(* that enough is left.                                                    *)
Take(c, r) ==
  /\ At(c, "take") /\ r \in Todo(c) /\ \A q \in Todo(c) : r[1] <= q[1]
  /\ IF stock[r] >= Need(c, r)
     THEN /\ stock' = [stock EXCEPT ![r] = @ - Need(c, r)]
          /\ Become(c, [call[c] EXCEPT !.taken = @ \cup {r}])
     ELSE Become(c, Missing(c, r)) /\ UNCHANGED stock
  /\ UNCHANGED <<cart, supply, booked, faults>>

(* An error before the row is listed as taken.  The decrement may have been *)
(* made: its answer is lost, or the update of the article's status that    *)
(* follows it throws.  The catch block does not give this row back.        *)
TakeFails(c, r) ==
  /\ At(c, "take") /\ r \in Todo(c) /\ \A q \in Todo(c) : r[1] <= q[1]
  /\ Happens("take")
  /\ \/ UNCHANGED stock
     \/ /\ stock[r] >= Need(c, r)
        /\ stock' = [stock EXCEPT ![r] = @ - Need(c, r)]
  /\ Become(c, Undone(c))
  /\ UNCHANGED <<cart, supply, booked>>

(* createFromCart reads the cart again: another checkout may have cleared  *)
(* it.                                                                     *)
ReadAgain(c) ==
  /\ At(c, "take") /\ Todo(c) = {}
  /\ Become(c, IF cart[call[c].by] = Nothing THEN Undone(c)
               ELSE [call[c] EXCEPT !.pc = "order"])
  /\ UNCHANGED <<stock, cart, supply, booked, faults>>

Insert(c) ==
  /\ At(c, "order")
  /\ booked' = [r \in Rows |-> IF r \in call[c].taken
                               THEN booked[r] + Need(c, r) ELSE booked[r]]
  /\ Become(c, [call[c] EXCEPT !.pc = "clear", !.made = TRUE])
  /\ UNCHANGED <<stock, cart, supply, faults>>

InsertFails(c) ==
  /\ At(c, "order") /\ Happens("order")
  /\ Become(c, Undone(c))
  /\ UNCHANGED <<stock, cart, supply, booked>>

Clear(c) ==
  /\ At(c, "clear")
  /\ cart' = [cart EXCEPT ![call[c].by] = Nothing]
  /\ Become(c, Done)
  /\ UNCHANGED <<stock, supply, booked, faults>>

(* An error after the order was inserted, before or after the cart was     *)
(* emptied: the catch block runs though the order is there.                *)
ClearFails(c) ==
  /\ At(c, "clear") /\ Happens("clear")
  /\ cart' \in {cart, [cart EXCEPT ![call[c].by] = Nothing]}
  /\ Become(c, Undone(c))
  /\ UNCHANGED <<stock, supply, booked>>

-----------------------------------------------------------------------------
(* Giving back; an error there is swallowed.                               *)
Restore(c, r) ==
  /\ At(c, "undo") /\ r \in call[c].back
  /\ stock' = [stock EXCEPT ![r] = @ + Need(c, r)]
  /\ Become(c, [call[c] EXCEPT !.back = @ \ {r}])
  /\ UNCHANGED <<cart, supply, booked, faults>>

RestoreFails(c, r) ==
  /\ At(c, "undo") /\ r \in call[c].back /\ Happens("restore")
  /\ Become(c, [call[c] EXCEPT !.back = @ \ {r}])
  /\ UNCHANGED <<stock, cart, supply, booked>>

(* The rollbacks do not empty the lists of what was consumed.              *)
RestoreEnds(c) ==
  /\ At(c, "undo") /\ call[c].back = {}
  /\ Become(c, IF call[c].again THEN Undone(c) ELSE Done)
  /\ UNCHANGED <<stock, cart, supply, booked, faults>>

-----------------------------------------------------------------------------
(* A restart in the middle of a checkout.                                  *)
Crash(c) ==
  /\ call[c].pc \notin {"idle", "done"} /\ Happens("crash")
  /\ Become(c, Done)
  /\ UNCHANGED <<stock, cart, supply, booked>>

(* The vendor writes a quantity over whatever is left.                     *)
Edit(r, n) ==
  /\ faults["edit"] < MaxEdits
  /\ faults' = [faults EXCEPT !["edit"] = @ + 1]
  /\ stock' = [stock EXCEPT ![r] = n]
  /\ supply' = [supply EXCEPT ![r] = @ + n - stock[r]]
  /\ UNCHANGED <<cart, call, booked>>

Run(c) ==
  \/ ReadAgain(c) \/ Insert(c) \/ InsertFails(c) \/ Clear(c) \/ ClearFails(c)
  \/ RestoreEnds(c) \/ Crash(c)
  \/ \E u \in Customers : Start(c, u)
  \/ \E r \in Rows : \/ Take(c, r) \/ TakeFails(c, r)
                    \/ Restore(c, r) \/ RestoreFails(c, r)

Next ==
  \/ \E c \in Calls : Run(c)
  \/ \E r \in Rows, n \in 0..MaxStock : Edit(r, n)

Spec == Init /\ [][Next]_vars

-----------------------------------------------------------------------------
(* Properties                                                              *)

(* What checkouts under way have taken and neither sold nor given back.    *)
Holds(c, r) ==
  \/ call[c].pc \in {"take", "order"} /\ r \in call[c].taken
  \/ At(c, "undo") /\ ~call[c].made /\ r \in call[c].back
Held(r) == MapThenSumSet(LAMBDA c : IF Holds(c, r) THEN Need(c, r) ELSE 0, Calls)

(* The failures after which the code gives a stock back to nobody.         *)
Losses == faults["take"] + faults["restore"] + faults["crash"]

(* No checkout loses stock: whatever is refused, fails or overlaps, what   *)
(* was put on sale is left, held or sold; a restart, a failed restore or a *)
(* decrement that throws loses what one cart wanted of an article, never   *)
(* more, and never the stocks another checkout took.                       *)
NothingLost ==
  \A r \in Rows :
    stock[r] + Held(r) + booked[r] + MaxQty * Losses >= supply[r]

(* The daily menu is never sold beyond what the vendor put on sale, two    *)
(* checkouts of the same cart included, unless the cart of an order could  *)
(* not be cleared.                                                         *)
Covered(r) == stock[r] + Held(r) + booked[r] <= supply[r]
MenuNotOversold == faults["clear"] = 0 => \A r \in MenuRows : Covered(r)

(* "Annule une consommation": giving back undoes what was taken, once;     *)
(* drinks and bundles too are never sold beyond what was put on sale.      *)
NotOversold == \A r \in Rows : Covered(r)
=============================================================================
