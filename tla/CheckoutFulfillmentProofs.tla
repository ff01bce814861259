---------------------- MODULE CheckoutFulfillmentProofs ---------------------
(***************************************************************************)
(* Theorems about CheckoutFulfillment for any basket, any number of calls, *)
(* orders, errors and restarts: with one process and deliveries keyed by   *)
(* the payment intent, a payment pays one order of each store.             *)
(***************************************************************************)
EXTENDS CheckoutFulfillment, FiniteSetTheorems, TLAPS

(* The deployment the theorems are about: one API process, no delivery     *)
(* keyed by the checkout session.                                          *)
OneProcess == SessionEvents = {} /\ \A p, q \in Procs : p = q

Carries(o, s) == orders[o].store = s /\ orders[o].key = "pi"
NoPayer(s) == \A o \in OrderIds : ~Carries(o, s)
RowsOK(rows) == \A s \in Stores : rows[s] # None => Carries(rows[s], s)

(* A call that works is alone, and only a call at its stores has slots.    *)
Alone == \A c, d \in Calls :
  call[c].pc \in Working /\ call[d].pc \in Working => c = d
CallOK(c) ==
  /\ call[c].pc \in Working => call[c].at \in Procs
  /\ call[c].pc # "stores" => \A s \in Stores : slot[c][s].pc = "off"
  /\ RowsOK(call[c].prior)

(* What the task of a store knows between two of its queries: its own      *)
(* order, and that no other order of the store carries the payment.        *)
SlotOK(s, r) ==
  /\ r.pc \in {"clear", "mark", "verify", "ok"} =>
       r.order \in OrderIds /\ Used(r.order) /\ orders[r.order].store = s
  /\ r.pc \in {"verify", "ok"} => Carries(r.order, s)
  /\ r.pc \in {"find_created", "cart"} /\ ~basket.gift => NoPayer(s)
  /\ r.pc \in {"insert", "clear"} /\ Kept(s) => NoPayer(s)
  /\ r.pc = "mark" /\ Kept(s) => \A o \in OrderIds : Carries(o, s) => o = r.order
SlotsOK == \A c \in Calls, s \in Stores : SlotOK(s, slot[c][s])

(* A gift is bought once with the cart it was paid for: the order that is  *)
(* or will be paid has emptied it.                                         *)
GiftOK ==
  basket.gift => \A s \in Stores : Kept(s) /\ cart[s] =>
    NoPayer(s) /\ \A c \in Calls : slot[c][s].pc # "mark"

OrderOK(o) ==
  /\ orders[o].key \in {None, "pi"}
  /\ orders[o].status \in {"free", "created"} => orders[o].key = None
  /\ orders[o].status # "free" => orders[o].store \in Stores
  /\ orders[o].status = "paid" => orders[o].key = "pi"
OrdersOK == \A o \in OrderIds : OrderOK(o)
Unique == \A s \in Stores, o, q \in OrderIds :
  Kept(s) /\ Carries(o, s) /\ Carries(q, s) => o = q
ReceiptOK ==
  /\ RowsOK(doc["pi"].rows)
  /\ \A s \in Stores : doc["cs"].rows[s] = None

Inv ==
  /\ TypeOK /\ Alone /\ SlotsOK /\ OrdersOK /\ Unique
  /\ GiftOK /\ ReceiptOK
  /\ \A c \in Calls : CallOK(c)

LEMMA InitInv == Init => Inv
<1> SUFFICES ASSUME Init PROVE Inv
  OBVIOUS
<1>1. TypeOK
  BY ConstantsAssumption DEF Init, TypeOK, Idle, NoSlot, NoRows, Orders,
     Requests, Slots, Rows
<1>2. Alone /\ SlotsOK
  BY DEF Init, Alone, SlotsOK, SlotOK, Idle, NoSlot, Working
<1>4. \A o \in OrderIds : orders[o].status = "free" /\ orders[o].key = None
  BY DEF Init
<1>5. OrdersOK /\ Unique /\ GiftOK
  <2>1. OrdersOK /\ \A s \in Stores : NoPayer(s)
    BY <1>4, ConstantsAssumption DEF OrdersOK, OrderOK, NoPayer, Carries, Keys
  <2>2. \A c \in Calls, s \in Stores : slot[c][s].pc # "mark"
    BY DEF Init, NoSlot
  <2> QED
    BY <2>1, <2>2 DEF Unique, NoPayer, GiftOK
<1>6. ReceiptOK
  BY DEF Init, ReceiptOK, RowsOK, NoRows, Keys
<1>3. \A c \in Calls : CallOK(c)
  BY DEF Init, CallOK, RowsOK, Idle, NoSlot, NoRows, Working
<1> QED
  BY <1>1, <1>2, <1>3, <1>5, <1>6 DEF Inv

-----------------------------------------------------------------------------
(* Steps that leave the orders alone                                       *)

(* One task moves on.                                                      *)
LEMMA SlotStep ==
  ASSUME Inv, NEW c \in Calls, NEW s \in Stores, call[c].pc = "stores",
         NEW r \in Slots, SlotOK(s, r), Step(c, s, r),
         UNCHANGED <<orders, doc, call, basket>>,
         cart' \in [Stores -> BOOLEAN], \A t \in Stores : cart'[t] => cart[t],
         r.pc = "mark" /\ basket.gift => ~cart'[s],
         faults' \in [moves: 0..MaxMoves, failures: 0..MaxFailures,
                      crashes: 0..MaxCrashes]
  PROVE  Inv'
<1>1. slot' \in [Calls -> [Stores -> Slots]]
  BY DEF Inv, TypeOK, Step
<1>2. TypeOK'
  BY <1>1 DEF Inv, TypeOK
<1>3. \A d \in Calls, t \in Stores :
        slot'[d][t] = IF d = c /\ t = s THEN r ELSE slot[d][t]
  BY DEF Inv, TypeOK, Step
<1>4. SlotsOK'
  BY <1>3 DEF Inv, SlotsOK, SlotOK, Carries, Used, NoPayer, Kept
<1>7. GiftOK'
  BY <1>3 DEF Inv, GiftOK, NoPayer, Carries, Kept
<1>5. ASSUME NEW d \in Calls PROVE CallOK(d)'
  BY <1>3 DEF Inv, CallOK, RowsOK, Carries
<1>6. Alone' /\ OrdersOK' /\ Unique' /\ ReceiptOK'
  BY DEF Inv, Alone, OrdersOK, OrderOK, Unique, ReceiptOK, RowsOK, Carries,
         Kept
<1> QED
  BY <1>2, <1>4, <1>5, <1>6, <1>7 DEF Inv

LEMMA GoStep ==
  ASSUME Inv, NEW c \in Calls, NEW s \in Stores, call[c].pc = "stores",
         NEW label \in SlotSteps \cup Outcomes,
         SlotOK(s, [slot[c][s] EXCEPT !.pc = label]), Go(c, s, label),
         UNCHANGED <<orders, doc, call, basket>>,
         cart' \in [Stores -> BOOLEAN], \A t \in Stores : cart'[t] => cart[t],
         label = "mark" /\ basket.gift => ~cart'[s],
         faults' = faults
  PROVE  Inv'
<1> DEFINE r == [slot[c][s] EXCEPT !.pc = label]
<1>0. slot[c][s] \in Slots
  BY DEF Inv, TypeOK
<1>1. r \in Slots /\ r.pc = label
  <2> DEFINE q == slot[c][s]
  <2>1. q \in Slots /\ r = [q EXCEPT !.pc = label]
    BY <1>0
  <2> HIDE DEF q, r
  <2> QED
    BY <2>1 DEF Slots
<1>2. Step(c, s, r)
  BY DEF Inv, TypeOK, Go, Step
<1>3. SlotOK(s, r)
  OBVIOUS
<1>4. faults' \in [moves: 0..MaxMoves, failures: 0..MaxFailures,
                   crashes: 0..MaxCrashes]
  BY DEF Inv, TypeOK
<1> HIDE DEF r
<1> QED
  BY <1>1, <1>2, <1>3, <1>4, SlotStep

(* The calls change, their slots do not, except that slots are cleared.    *)
LEMMA CallStep ==
  ASSUME Inv, UNCHANGED <<orders, cart, basket>>,
         call' \in [Calls -> Requests],
         doc' \in [Keys -> [made: BOOLEAN, rows: Rows]],
         faults' \in [moves: 0..MaxMoves, failures: 0..MaxFailures,
                      crashes: 0..MaxCrashes],
         slot' \in [Calls -> [Stores -> Slots]],
         \A d \in Calls, t \in Stores :
           \/ slot'[d][t] = slot[d][t]
           \/ slot'[d][t].pc \in {"off", "prior", "error"},
         Alone', ReceiptOK',
         \A d \in Calls : CallOK(d)'
  PROVE  Inv'
<1>1. TypeOK'
  BY DEF Inv, TypeOK
<1>2. SlotsOK'
  BY DEF Inv, SlotsOK, SlotOK, Carries, Used, NoPayer, Kept
<1>3. OrdersOK' /\ Unique' /\ GiftOK'
  BY DEF Inv, OrdersOK, OrderOK, Unique, Carries, GiftOK, NoPayer, Kept
<1> QED
  BY <1>1, <1>2, <1>3 DEF Inv

(* An order moves on and keeps its store and its payment.                  *)
LEMMA OrderStep ==
  ASSUME Inv, UNCHANGED <<basket, cart, doc, call, slot>>,
         NEW o \in OrderIds, NEW r \in Orders,
         orders' = [orders EXCEPT ![o] = r],
         r.store = orders[o].store, r.key = orders[o].key,
         (r.status = "free") = (orders[o].status = "free"),
         r.status \in {"free", "created"} => r.key = None,
         r.status = "paid" => r.key = "pi",
         faults' \in [moves: 0..MaxMoves, failures: 0..MaxFailures,
                      crashes: 0..MaxCrashes]
  PROVE  Inv'
<1>1. TypeOK'
  BY DEF Inv, TypeOK
<1>2. \A q \in OrderIds : /\ orders'[q].store = orders[q].store
                          /\ orders'[q].key = orders[q].key
                          /\ Used(q)' = Used(q)
  BY DEF Inv, TypeOK, Used
<1>3. \A q \in OrderIds, s \in Stores : Carries(q, s)' = Carries(q, s)
  BY <1>2 DEF Carries
<1>4. SlotsOK'
  <2> SUFFICES ASSUME NEW c \in Calls, NEW s \in Stores
               PROVE  SlotOK(s, slot[c][s])'
    BY DEF SlotsOK
  <2>1. SlotOK(s, slot[c][s])
    BY DEF Inv, SlotsOK
  <2> QED
    BY <2>1, <1>2, <1>3 DEF SlotOK, NoPayer, Kept
<1>5. OrdersOK'
  BY DEF Inv, TypeOK, OrdersOK, OrderOK
<1>6. Unique' /\ Alone' /\ GiftOK'
  BY <1>3 DEF Inv, Unique, Alone, GiftOK, NoPayer, Kept
<1>7. ASSUME NEW rows \in Rows, RowsOK(rows) PROVE RowsOK(rows)'
  BY <1>7, <1>3 DEF Rows, RowsOK
<1>8. ReceiptOK'
  <2>1. doc["pi"].rows \in Rows
    BY DEF Inv, TypeOK, Keys
  <2> QED
    BY <2>1, <1>7 DEF Inv, ReceiptOK, RowsOK
<1>9. ASSUME NEW c \in Calls PROVE CallOK(c)'
  <2>1. call[c].prior \in Rows
    BY DEF Inv, TypeOK, Requests
  <2> QED
    BY <2>1, <1>7 DEF Inv, CallOK, RowsOK
<1> QED
  BY <1>1, <1>4, <1>5, <1>6, <1>8, <1>9 DEF Inv

-----------------------------------------------------------------------------
(* The customer, the vendor, time, errors and restarts                     *)

LEMMA ShopStep == ASSUME Inv, NEW s \in Stores, Shop(s) PROVE Inv'
<1>1. cart' = [cart EXCEPT ![s] = TRUE] /\ cart' \in [Stores -> BOOLEAN]
  BY DEF Inv, TypeOK, Shop
<1>2. /\ basket' \in [gift: Gifts, refilled: SUBSET Stores]
      /\ basket'.gift = basket.gift
      /\ basket'.refilled = basket.refilled \cup {s}
  BY DEF Inv, TypeOK, Shop
<1>3. TypeOK'
  BY <1>1, <1>2 DEF Inv, TypeOK, Shop
<1>4. \A t \in Stores : Kept(t)' => Kept(t) /\ (basket.gift => t # s)
  BY <1>2 DEF Kept
<1>5. \A t \in Stores : basket.gift /\ Kept(t)' => cart'[t] = cart[t]
  BY <1>1, <1>4 DEF Inv, TypeOK
<1>6. UNCHANGED <<orders, doc, call, slot>>
  BY DEF Shop
<1>7. SlotsOK'
  BY <1>2, <1>4, <1>6 DEF Inv, SlotsOK, SlotOK, Carries, Used, NoPayer
<1>8. OrdersOK' /\ Unique' /\ GiftOK'
  BY <1>2, <1>4, <1>5, <1>6
     DEF Inv, OrdersOK, OrderOK, Unique, Carries, GiftOK, NoPayer
<1>9. Alone' /\ ReceiptOK' /\ \A c \in Calls : CallOK(c)'
  BY <1>6 DEF Inv, Alone, ReceiptOK, RowsOK, Carries, CallOK
<1> QED
  BY <1>3, <1>7, <1>8, <1>9 DEF Inv

LEMMA MoveStep == ASSUME Inv, NEW o \in OrderIds, Move(o) PROVE Inv'
<1> DEFINE q == orders[o]
           r == [q EXCEPT !.status = "moved"]
<1>1. q \in Orders /\ OrderOK(o)
  BY DEF Inv, TypeOK, OrdersOK
<1>2. orders' = [orders EXCEPT ![o] = r]
  BY DEF Inv, TypeOK, Move
<1>3. r \in Orders /\ r.store = q.store /\ r.key = q.key /\ r.status = "moved"
  BY <1>1 DEF Orders
<1>4. q.status = "paid"
  BY DEF Move
<1>5. faults' \in [moves: 0..MaxMoves, failures: 0..MaxFailures,
                   crashes: 0..MaxCrashes]
  BY ConstantsAssumption DEF Inv, TypeOK, Move
<1>6. UNCHANGED <<basket, cart, doc, call, slot>>
  BY DEF Move
<1> HIDE DEF r
<1> QED
  BY <1>1, <1>2, <1>3, <1>4, <1>5, <1>6, OrderStep

LEMMA AgeStep == ASSUME Inv, NEW o \in OrderIds, Age(o) PROVE Inv'
<1> DEFINE q == orders[o]
           r == [q EXCEPT !.recent = FALSE]
<1>1. q \in Orders /\ OrderOK(o)
  BY DEF Inv, TypeOK, OrdersOK
<1>2. orders' = [orders EXCEPT ![o] = r]
  BY DEF Inv, TypeOK, Age
<1>3. r \in Orders /\ r.store = q.store /\ r.key = q.key /\ r.status = q.status
  BY <1>1 DEF Orders
<1>4. q.status = "created" /\ q.key = None
  BY <1>1 DEF Age, OrderOK
<1>5. faults' \in [moves: 0..MaxMoves, failures: 0..MaxFailures,
                   crashes: 0..MaxCrashes]
  BY DEF Inv, TypeOK, Age
<1>6. UNCHANGED <<basket, cart, doc, call, slot>>
  BY DEF Age
<1> HIDE DEF r
<1> QED
  BY <1>1, <1>2, <1>3, <1>4, <1>5, <1>6, OrderStep

LEMMA NoSlotTyped == \A label \in SlotSteps \cup Outcomes \cup {"off"} :
  /\ [NoSlot EXCEPT !.pc = label] \in Slots
  /\ [NoSlot EXCEPT !.pc = label].pc = label
  /\ NoSlot \in Slots /\ NoSlot.pc = "off"
BY DEF NoSlot, Slots

LEMMA StoreFailsStep ==
  ASSUME Inv, NEW c \in Calls, NEW s \in Stores, StoreFails(c, s) PROVE Inv'
<1> DEFINE r == [NoSlot EXCEPT !.pc = "error"]
<1>1. r \in Slots /\ r.pc = "error"
  BY NoSlotTyped DEF Outcomes
<1>2. Step(c, s, r) /\ call[c].pc = "stores"
  BY DEF StoreFails
<1>3. SlotOK(s, r)
  BY <1>1 DEF SlotOK
<1>4. faults' \in [moves: 0..MaxMoves, failures: 0..MaxFailures,
                   crashes: 0..MaxCrashes]
  BY ConstantsAssumption DEF Inv, TypeOK, StoreFails
<1>5. /\ UNCHANGED <<basket, orders, doc, call, cart>>
      /\ cart' \in [Stores -> BOOLEAN]
  BY DEF StoreFails, Inv, TypeOK
<1> HIDE DEF r
<1> QED
  BY <1>1, <1>2, <1>3, <1>4, <1>5, SlotStep

LEMMA IdleTyped == Idle \in Requests /\ Idle.pc = "idle" /\ RowsOK(Idle.prior)
<1>1. NoRows \in Rows
  BY DEF NoRows, Rows
<1>2. Idle \in Requests
  BY <1>1 DEF Idle, Requests
<1> QED
  BY <1>2 DEF Idle, RowsOK, NoRows

(* Calls given up: each is as it was or idle without slots.                *)
LEMMA GiveUpStep ==
  ASSUME Inv, UNCHANGED <<basket, cart, orders, doc>>,
         call' \in [Calls -> Requests],
         slot' \in [Calls -> [Stores -> Slots]],
         \A c \in Calls :
           \/ /\ call'[c] = Idle
              /\ \/ \A s \in Stores : slot'[c][s] = NoSlot
                 \/ slot'[c] = slot[c] /\ call[c].pc # "stores"
           \/ /\ call'[c] = call[c]
              /\ \/ slot'[c] = slot[c]
                 \/ /\ \A s \in Stores : slot'[c][s] = NoSlot
                    /\ call[c].pc # "stores",
         faults' \in [moves: 0..MaxMoves, failures: 0..MaxFailures,
                      crashes: 0..MaxCrashes]
  PROVE  Inv'
<1>1. \A d \in Calls : call'[d] \in {Idle, call[d]}
  OBVIOUS
<1>2. \A d \in Calls, t \in Stores : slot'[d][t] \in {NoSlot, slot[d][t]}
  OBVIOUS
<1>5. \A d \in Calls, t \in Stores :
        slot'[d][t] = slot[d][t] \/ slot'[d][t].pc \in {"off", "prior", "error"}
  BY <1>2, NoSlotTyped
<1>6. Alone'
  BY <1>1, IdleTyped DEF Inv, Alone, Working
<1>7. ReceiptOK'
  BY DEF Inv, ReceiptOK, RowsOK, Carries
<1>8. ASSUME NEW d \in Calls PROVE CallOK(d)'
  <2>1. CallOK(d)
    BY DEF Inv
  <2>2. call'[d].pc \in Working => call'[d].at \in Procs
    BY <2>1, <1>1, IdleTyped DEF CallOK, Working
  <2>3. call'[d].pc # "stores" => \A s \in Stores : slot'[d][s].pc = "off"
    <3>1. call[d].pc # "stores" => \A s \in Stores : slot[d][s].pc = "off"
      BY <2>1 DEF CallOK
    <3> QED
      BY <3>1, NoSlotTyped
  <2>4. RowsOK(call[d].prior)' \/ call'[d] = Idle
    BY <2>1, <1>1 DEF CallOK, RowsOK, Carries
  <2>5. call'[d] = Idle => RowsOK(call[d].prior)'
    BY DEF RowsOK, Idle, NoRows
  <2> QED
    BY <2>2, <2>3, <2>4, <2>5 DEF CallOK
<1>9. doc' \in [Keys -> [made: BOOLEAN, rows: Rows]]
  BY DEF Inv, TypeOK
<1> QED
  BY <1>5, <1>6, <1>7, <1>8, <1>9, CallStep

LEMMA CallFailsStep == ASSUME Inv, NEW c \in Calls, CallFails(c) PROVE Inv'
<1> DEFINE Joins(d) == /\ call[d].pc = "join" /\ Key(d) = Key(c)
                       /\ call[d].at = call[c].at
<1>1. call' = [d \in Calls |-> IF d = c \/ Joins(d) THEN Idle ELSE call[d]]
  BY DEF CallFails
<1>2. slot' = [slot EXCEPT ![c] = [s \in Stores |-> NoSlot]]
  BY DEF CallFails
<1>3. call' \in [Calls -> Requests]
  BY <1>1, IdleTyped DEF Inv, TypeOK
<1>4. slot' \in [Calls -> [Stores -> Slots]]
  BY <1>2, NoSlotTyped DEF Inv, TypeOK
<1>5. \A s \in Stores : slot'[c][s] = NoSlot
  BY <1>2 DEF Inv, TypeOK
<1>6. \A d \in Calls : d # c => slot'[d] = slot[d]
  BY <1>2 DEF Inv, TypeOK
<1>7. \A d \in Calls :
        call'[d] = IF d = c \/ Joins(d) THEN Idle ELSE call[d]
  BY <1>1
<1>8. \A d \in Calls : Joins(d) => call[d].pc # "stores"
  OBVIOUS
<1>9. /\ UNCHANGED <<basket, cart, orders, doc>>
      /\ faults' \in [moves: 0..MaxMoves, failures: 0..MaxFailures,
                       crashes: 0..MaxCrashes]
  BY ConstantsAssumption DEF Inv, TypeOK, CallFails
<1> HIDE DEF Joins
<1> QED
  BY <1>3, <1>4, <1>5, <1>6, <1>7, <1>8, <1>9, GiveUpStep

LEMMA CrashStep == ASSUME Inv, NEW p \in Procs, Crash(p) PROVE Inv'
<1>1. call' = [c \in Calls |-> IF call[c].at = p /\ call[c].pc # "done"
                               THEN Idle ELSE call[c]]
  BY DEF Crash
<1>2. slot' = [c \in Calls |-> IF call[c].at = p
                               THEN [s \in Stores |-> NoSlot] ELSE slot[c]]
  BY DEF Crash
<1>3. call' \in [Calls -> Requests]
  BY <1>1, IdleTyped DEF Inv, TypeOK
<1>4. slot' \in [Calls -> [Stores -> Slots]]
  BY <1>2, NoSlotTyped DEF Inv, TypeOK
<1>5. \A c \in Calls : call[c].at = p => \A s \in Stores : slot'[c][s] = NoSlot
  BY <1>2
<1>6. \A c \in Calls : call[c].at # p => slot'[c] = slot[c] /\ call'[c] = call[c]
  BY <1>1, <1>2
<1>7. \A c \in Calls : call'[c] = IF call[c].at = p /\ call[c].pc # "done"
                                  THEN Idle ELSE call[c]
  BY <1>1
<1>9. /\ UNCHANGED <<basket, cart, orders, doc>>
      /\ faults' \in [moves: 0..MaxMoves, failures: 0..MaxFailures,
                       crashes: 0..MaxCrashes]
  BY ConstantsAssumption DEF Inv, TypeOK, Crash
<1> QED
  BY <1>3, <1>4, <1>5, <1>6, <1>7, <1>9, GiveUpStep

-----------------------------------------------------------------------------
(* The steps of a call                                                     *)

LEMMA KeyIsIntent == ASSUME OneProcess, NEW c \in Calls PROVE Key(c) = "pi"
BY DEF OneProcess, Key

(* A call takes a new value and its slots stay, or are all at their start. *)
LEMMA OneCallStep ==
  ASSUME Inv, UNCHANGED <<basket, orders, cart, faults>>,
         NEW c \in Calls, NEW r \in Requests, call' = [call EXCEPT ![c] = r],
         doc' \in [Keys -> [made: BOOLEAN, rows: Rows]], ReceiptOK',
         r.pc \in Working => r.at \in Procs /\
           \A d \in Calls : call[d].pc \in Working => d = c,
         RowsOK(r.prior),
         \/ slot' = slot /\ (r.pc # "stores" => call[c].pc # "stores")
         \/ slot' = [slot EXCEPT ![c] = [s \in Stores |-> NoSlot]]
         \/ /\ r.pc = "stores"
            /\ slot' = [slot EXCEPT ![c] =
                          [s \in Stores |-> [NoSlot EXCEPT !.pc = "prior"]]]
  PROVE  Inv'
<1>1. \A d \in Calls : call'[d] = IF d = c THEN r ELSE call[d]
  BY DEF Inv, TypeOK
<1>2. call' \in [Calls -> Requests]
  BY DEF Inv, TypeOK
<1>3. [NoSlot EXCEPT !.pc = "prior"] \in Slots
      /\ [NoSlot EXCEPT !.pc = "prior"].pc = "prior"
  BY NoSlotTyped DEF SlotSteps
<1> DEFINE first == [NoSlot EXCEPT !.pc = "prior"]
<1>4. slot' \in [Calls -> [Stores -> Slots]]
  <2>1. /\ [s \in Stores |-> NoSlot] \in [Stores -> Slots]
        /\ [s \in Stores |-> first] \in [Stores -> Slots]
    BY <1>3, NoSlotTyped
  <2>2. slot \in [Calls -> [Stores -> Slots]]
    BY DEF Inv, TypeOK
  <2> HIDE DEF first
  <2>3. \A f \in [Stores -> Slots] :
          [slot EXCEPT ![c] = f] \in [Calls -> [Stores -> Slots]]
    BY <2>2
  <2> QED
    BY <2>1, <2>2, <2>3 DEF first
<1>5. /\ \A d \in Calls : d # c => slot'[d] = slot[d]
      /\ \/ slot' = slot /\ (r.pc # "stores" => call[c].pc # "stores")
         \/ \A s \in Stores : slot'[c][s] = NoSlot
         \/ r.pc = "stores" /\ \A s \in Stores : slot'[c][s] = first
  BY DEF Inv, TypeOK
<1> HIDE DEF first
<1>6. \A d \in Calls, t \in Stores :
        slot'[d][t] = slot[d][t] \/ slot'[d][t].pc \in {"off", "prior", "error"}
  BY <1>3, <1>5, NoSlotTyped DEF first
<1>7. Alone'
  BY <1>1 DEF Inv, Alone
<1>8. ASSUME NEW d \in Calls PROVE CallOK(d)'
  <2>1. CallOK(d)
    BY DEF Inv
  <2>2. call'[d].pc \in Working => call'[d].at \in Procs
    BY <2>1, <1>1 DEF CallOK
  <2>3. call'[d].pc # "stores" => \A s \in Stores : slot'[d][s].pc = "off"
    <3>1. call[d].pc # "stores" => \A s \in Stores : slot[d][s].pc = "off"
      BY <2>1 DEF CallOK
    <3> QED
      BY <3>1, <1>1, <1>5, NoSlotTyped
  <2>4. RowsOK(call[d].prior)'
    BY <2>1, <1>1 DEF CallOK, RowsOK, Carries
  <2> QED
    BY <2>2, <2>3, <2>4 DEF CallOK
<1>9. /\ UNCHANGED <<basket, orders, cart>>
      /\ faults' \in [moves: 0..MaxMoves, failures: 0..MaxFailures,
                       crashes: 0..MaxCrashes]
  BY DEF Inv, TypeOK
<1> QED
  BY <1>2, <1>4, <1>6, <1>7, <1>8, <1>9, CallStep

(* The call changes its step only, the document not at all.                *)
LEMMA KeepDoc ==
  ASSUME Inv, UNCHANGED <<orders, doc>>
  PROVE  /\ doc' \in [Keys -> [made: BOOLEAN, rows: Rows]]
         /\ ReceiptOK'
BY DEF Inv, TypeOK, ReceiptOK, RowsOK, Carries

LEMMA Moves ==
  ASSUME Inv, NEW c \in Calls,
         NEW label \in {"join", "load", "check", "create", "stores", "done"}
  PROVE  LET r == [call[c] EXCEPT !.pc = label]
         IN  /\ r \in Requests /\ r.pc = label /\ r.at = call[c].at
             /\ r.prior = call[c].prior
<1> DEFINE q == call[c]
<1>1. q \in Requests
  BY DEF Inv, TypeOK
<1> HIDE DEF q
<1>2. [q EXCEPT !.pc = label] \in Requests
  BY <1>1 DEF Requests
<1>3. LET r == [q EXCEPT !.pc = label]
      IN r.pc = label /\ r.at = q.at /\ r.prior = q.prior
  BY <1>1 DEF Requests
<1> QED
  BY <1>2, <1>3 DEF q

LEMMA StartStep ==
  ASSUME OneProcess, Inv, NEW c \in Calls, NEW p \in Procs, Start(c, p)
  PROVE  Inv'
<1> DEFINE label == IF InFlight(Key(c), p) THEN "join" ELSE "load"
           r == [Idle EXCEPT !.pc = label, !.at = p]
<1>1. r \in Requests /\ r.pc = label /\ r.at = p /\ r.prior = Idle.prior
  BY DEF Idle, Requests, NoRows, Rows
<1>2. call' = [call EXCEPT ![c] = r] /\ UNCHANGED <<basket, cart, orders, doc, slot, faults>>
  BY DEF Start
<1>3. r.pc \in Working => \A d \in Calls : call[d].pc \in Working => d = c
  <2> SUFFICES ASSUME r.pc \in Working, NEW d \in Calls, call[d].pc \in Working
               PROVE  FALSE
    OBVIOUS
  <2>1. ~InFlight(Key(c), p)
    BY <1>1 DEF Working
  <2>2. call[d].at = p
    BY DEF Inv, CallOK, OneProcess
  <2> QED
    BY <2>1, <2>2, KeyIsIntent DEF InFlight
<1>4. call[c].pc # "stores"
  BY DEF Start
<1>5. RowsOK(r.prior)
  BY <1>1, IdleTyped
<1> HIDE DEF r
<1> QED
  BY <1>1, <1>2, <1>3, <1>4, <1>5, KeepDoc, OneCallStep

LEMMA JoinedStep == ASSUME Inv, NEW c \in Calls, Joined(c) PROVE Inv'
<1> DEFINE r == [call[c] EXCEPT !.pc = "done"]
<1>1. call' = [call EXCEPT ![c] = r] /\ UNCHANGED <<basket, cart, orders, doc, slot, faults>>
  BY DEF Joined
<1>2. r \in Requests /\ r.pc = "done" /\ r.prior = call[c].prior
  BY Moves
<1>3. RowsOK(call[c].prior) /\ call[c].pc # "stores" /\ "done" \notin Working
  BY DEF Inv, CallOK, Joined, Working
<1> HIDE DEF r
<1> QED
  BY <1>1, <1>2, <1>3, KeepDoc, OneCallStep

(* What a working call keeps while it goes on to another step.             *)
LEMMA StillAlone ==
  ASSUME Inv, NEW c \in Calls, call[c].pc \in Working
  PROVE  /\ call[c].at \in Procs /\ RowsOK(call[c].prior)
         /\ \A d \in Calls : call[d].pc \in Working => d = c
BY DEF Inv, Alone, CallOK

LEMMA LoadStep == ASSUME OneProcess, Inv, NEW c \in Calls, Load(c) PROVE Inv'
<1> DEFINE label == IF doc["pi"].made THEN "check" ELSE "create"
           q == [call[c] EXCEPT !.pc = label]
           rows == doc["pi"].rows
           r == [q EXCEPT !.prior = rows]
<1>1. call' = [call EXCEPT ![c] = r] /\ UNCHANGED <<basket, cart, orders, doc, slot, faults>>
  BY KeyIsIntent DEF Load, Inv, TypeOK
<1>2. q \in Requests /\ q.pc = label /\ q.at = call[c].at
  BY Moves
<1>3. rows \in Rows /\ RowsOK(rows)
  BY DEF Inv, TypeOK, Keys, ReceiptOK
<1>4. r \in Requests /\ r.pc = label /\ r.at = call[c].at /\ r.prior = rows
  <2> HIDE DEF q, rows, label
  <2> QED
    BY <1>2, <1>3 DEF Requests
<1>5. call[c].pc \in Working /\ call[c].pc # "stores" /\ label # "stores"
  BY DEF Load, Working
<1> HIDE DEF r, rows, label
<1> QED
  BY <1>1, <1>3, <1>4, <1>5, KeepDoc, StillAlone, OneCallStep

LEMMA BeginStep ==
  ASSUME Inv, NEW c \in Calls, call[c].pc \in Working, BeginStores(c),
         UNCHANGED <<basket, cart, orders, faults>>, ReceiptOK',
         doc' \in [Keys -> [made: BOOLEAN, rows: Rows]]
  PROVE  Inv'
<1> DEFINE r == [call[c] EXCEPT !.pc = "stores"]
<1>1. call' = [call EXCEPT ![c] = r]
  BY DEF BeginStores
<1>2. r \in Requests /\ r.pc = "stores" /\ r.at = call[c].at
      /\ r.prior = call[c].prior
  BY Moves
<1>3. slot' = [slot EXCEPT ![c] =
                 [s \in Stores |-> [NoSlot EXCEPT !.pc = "prior"]]]
  BY DEF BeginStores
<1> HIDE DEF r
<1> QED
  BY <1>1, <1>2, <1>3, StillAlone, OneCallStep

LEMMA CheckStep == ASSUME Inv, NEW c \in Calls, Check(c) PROVE Inv'
<1> DEFINE r == [call[c] EXCEPT !.pc = "done"]
<1>1. call[c].pc \in Working /\ call[c].pc # "stores" /\ "done" \notin Working
  BY DEF Check, Working
<1>2. UNCHANGED <<basket, cart, orders, doc, faults>>
  BY DEF Check
<1>3. CASE BeginStores(c)
  BY <1>1, <1>2, <1>3, KeepDoc, BeginStep
<1>4. CASE call' = [call EXCEPT ![c] = r] /\ UNCHANGED slot
  <2>1. r \in Requests /\ r.pc = "done" /\ r.prior = call[c].prior
    BY Moves
  <2> HIDE DEF r
  <2> QED
    BY <2>1, <1>1, <1>2, <1>4, KeepDoc, StillAlone, OneCallStep
<1> QED
  BY <1>3, <1>4 DEF Check

LEMMA CreateStep == ASSUME OneProcess, Inv, NEW c \in Calls, Create(c) PROVE Inv'
<1> DEFINE r == [call[c] EXCEPT !.pc = "load"]
<1>1. /\ call[c].pc \in Working /\ call[c].pc # "stores"
      /\ UNCHANGED <<basket, cart, orders, faults>>
  BY DEF Create, Working
<1>2. CASE call' = [call EXCEPT ![c] = r] /\ UNCHANGED <<doc, slot>>
  <2>1. r \in Requests /\ r.pc = "load" /\ r.prior = call[c].prior
        /\ r.at = call[c].at
    BY Moves
  <2> HIDE DEF r
  <2> QED
    BY <2>1, <1>1, <1>2, KeepDoc, StillAlone, OneCallStep
<1>3. CASE doc' = [doc EXCEPT ![Key(c)].made = TRUE] /\ BeginStores(c)
  <2>1. doc' \in [Keys -> [made: BOOLEAN, rows: Rows]]
    BY <1>3 DEF Inv, TypeOK
  <2>2. \A k \in Keys : doc'[k].rows = doc[k].rows
    BY <1>3 DEF Inv, TypeOK
  <2>3. ReceiptOK'
    BY <2>2, <1>1 DEF Inv, ReceiptOK, RowsOK, Carries, Keys
  <2> QED
    BY <2>1, <2>3, <1>1, <1>3, BeginStep
<1> QED
  BY <1>2, <1>3 DEF Create

LEMMA SaveStep == ASSUME OneProcess, Inv, NEW c \in Calls, Save(c) PROVE Inv'
<1> DEFINE r == [call[c] EXCEPT !.pc = "done"]
           rows == [s \in Stores |-> IF slot[c][s].pc = "ok"
                                     THEN slot[c][s].order ELSE None]
<1>1. /\ UNCHANGED <<basket, cart, orders, faults>> /\ call' = [call EXCEPT ![c] = r]
      /\ slot' = [slot EXCEPT ![c] = [s \in Stores |-> NoSlot]]
      /\ call[c].pc \in Working /\ "done" \notin Working
  BY DEF Save, Working
<1>2. doc' = [doc EXCEPT !["pi"].rows = rows]
  BY KeyIsIntent DEF Save
<1>3. rows \in Rows /\ RowsOK(rows)
  <2>1. \A s \in Stores : slot[c][s].pc = "ok" =>
          slot[c][s].order \in OrderIds /\ Carries(slot[c][s].order, s)
    BY DEF Inv, SlotsOK, SlotOK
  <2> QED
    BY <2>1 DEF Rows, RowsOK
<1> HIDE DEF rows
<1>4. doc' \in [Keys -> [made: BOOLEAN, rows: Rows]]
  BY <1>2, <1>3 DEF Inv, TypeOK
<1>5. doc'["pi"].rows = rows /\ doc'["cs"].rows = doc["cs"].rows
  BY <1>2 DEF Inv, TypeOK, Keys
<1>6. ReceiptOK'
  BY <1>1, <1>3, <1>5 DEF Inv, ReceiptOK, RowsOK, Carries
<1>7. r \in Requests /\ r.pc = "done" /\ r.prior = call[c].prior
  BY Moves
<1> HIDE DEF r
<1> QED
  BY <1>1, <1>4, <1>6, <1>7, StillAlone, OneCallStep

-----------------------------------------------------------------------------
(* The steps of a store's task                                             *)

(* What a task at work is told by the invariant.                           *)
LEMMA Knows ==
  ASSUME Inv, NEW c \in Calls, NEW s \in Stores
  PROVE  /\ slot[c][s] \in Slots /\ SlotOK(s, slot[c][s])
         /\ call[c].prior \in Rows /\ RowsOK(call[c].prior)
         /\ cart \in [Stores -> BOOLEAN]
BY DEF Inv, TypeOK, Requests, SlotsOK, CallOK

(* A label that asks nothing more of the task than it knows already.       *)
LEMMA Relabel ==
  ASSUME NEW r \in Slots, NEW label \in SlotSteps \cup Outcomes \cup {"off"}
  PROVE  LET q == [r EXCEPT !.pc = label]
         IN q \in Slots /\ q.pc = label /\ q.order = r.order
BY DEF Slots

LEMMA PriorStep ==
  ASSUME OneProcess, Inv, NEW c \in Calls, NEW s \in Stores, Prior(c, s)
  PROVE  Inv'
<1> DEFINE o == call[c].prior[s]
           q == [NoSlot EXCEPT !.pc = "ok"]
           r == [q EXCEPT !.order = o]
<1>1. /\ UNCHANGED <<basket, cart, orders, doc, call, faults>>
      /\ call[c].pc = "stores"
  BY DEF Prior, Serving
<1>2. CASE o # None /\ PaidBy(o, Key(c)) /\ Step(c, s, r)
  <2>1. o \in OrderIds
    BY <1>2, Knows DEF Rows
  <2>2. r \in Slots /\ r.pc = "ok" /\ r.order = o
    <3> HIDE DEF o
    <3> QED
      BY <2>1 DEF NoSlot, Slots, Outcomes
  <2>3. Carries(o, s) /\ Used(o)
    BY <1>2, <2>1, Knows, KeyIsIntent DEF RowsOK, PaidBy, Used
  <2>4. SlotOK(s, r)
    BY <2>1, <2>2, <2>3 DEF SlotOK, Carries
  <2> HIDE DEF r
  <2> QED
    BY <1>1, <1>2, <2>2, <2>4, SlotStep DEF Inv, TypeOK
<1>3. CASE Go(c, s, "find_paid")
  <2>1. SlotOK(s, [slot[c][s] EXCEPT !.pc = "find_paid"])
    BY Knows, Relabel DEF SlotSteps, SlotOK
  <2> QED
    BY <1>1, <1>3, <2>1, Knows, GoStep DEF SlotSteps
<1> QED
  BY <1>2, <1>3 DEF Prior

LEMMA UseStep ==
  ASSUME Inv, NEW c \in Calls, NEW s \in Stores, call[c].pc = "stores",
         NEW o \in OrderIds, Use(c, s, o), Used(o), orders[o].store = s,
         ~basket.gift,
         \A q \in OrderIds : Carries(q, s) => q = o,
         UNCHANGED <<basket, cart, orders, doc, call, faults>>
  PROVE  Inv'
<1> DEFINE q == slot[c][s]
           r == [q EXCEPT !.pc = "mark", !.order = o]
<1>1. q \in Slots
  BY Knows
<1>2. r \in Slots /\ r.pc = "mark" /\ r.order = o
  <2> HIDE DEF q
  <2> QED
    BY <1>1 DEF Slots, SlotSteps
<1>3. Step(c, s, r)
  BY DEF Use
<1>4. SlotOK(s, r)
  BY <1>2 DEF SlotOK
<1> HIDE DEF r
<1> QED
  BY <1>2, <1>3, <1>4, SlotStep DEF Inv, TypeOK

LEMMA FindPaidStep ==
  ASSUME OneProcess, Inv, NEW c \in Calls, NEW s \in Stores, FindPaid(c, s)
  PROVE  Inv'
<1>1. /\ UNCHANGED <<basket, cart, orders, doc, call, faults>>
      /\ call[c].pc = "stores"
  BY DEF FindPaid, Serving
<1>2. \A o \in OrderIds :
        o \in Carrying(s, Key(c)) <=> ~basket.gift /\ Carries(o, s)
  BY KeyIsIntent DEF Carrying, Carries
<1>3. ASSUME NEW o \in Carrying(s, Key(c)), Use(c, s, o) PROVE Inv'
  <2>1. o \in OrderIds /\ Carries(o, s) /\ ~basket.gift
    BY <1>2 DEF Carrying
  <2>2. Used(o) /\ orders[o].store = s
    BY <2>1, ConstantsAssumption DEF Carries, Used, Inv, OrdersOK, OrderOK, Keys
  <2>3. \A q \in OrderIds : Carries(q, s) => q = o
    BY <2>1 DEF Inv, Unique, Kept
  <2> QED
    BY <1>1, <1>3, <2>1, <2>2, <2>3, UseStep
<1>4. CASE Carrying(s, Key(c)) = {} /\ Go(c, s, "find_created")
  <2>1. SlotOK(s, [slot[c][s] EXCEPT !.pc = "find_created"])
    BY <1>2, <1>4, Knows, Relabel DEF SlotSteps, SlotOK, NoPayer
  <2> QED
    BY <1>1, <1>4, <2>1, Knows, GoStep DEF SlotSteps
<1> QED
  BY <1>3, <1>4 DEF FindPaid

LEMMA FindCreatedStep ==
  ASSUME Inv, NEW c \in Calls, NEW s \in Stores, FindCreated(c, s)
  PROVE  Inv'
<1>1. /\ UNCHANGED <<basket, cart, orders, doc, call, faults>>
      /\ call[c].pc = "stores" /\ slot[c][s].pc = "find_created"
  BY DEF FindCreated, Serving
<1>2. ~basket.gift => NoPayer(s)
  BY <1>1, Knows DEF SlotOK
<1>3. ASSUME NEW o \in Unpaid(s), Use(c, s, o) PROVE Inv'
  <2>1. o \in OrderIds /\ Used(o) /\ orders[o].store = s /\ ~basket.gift
    BY DEF Unpaid, Used
  <2> QED
    BY <1>1, <1>2, <1>3, <2>1, UseStep DEF NoPayer
<1>4. ASSUME NEW label \in {"error", "cart"}, Go(c, s, label) PROVE Inv'
  <2>1. label \in SlotSteps \cup Outcomes
    BY DEF SlotSteps, Outcomes
  <2>2. SlotOK(s, [slot[c][s] EXCEPT !.pc = label])
    BY <1>2, <2>1, Knows, Relabel DEF SlotOK
  <2> QED
    BY <1>1, <1>4, <2>1, <2>2, Knows, GoStep
<1> QED
  BY <1>3, <1>4 DEF FindCreated

LEMMA CartStep ==
  ASSUME Inv, NEW c \in Calls, NEW s \in Stores, Cart(c, s)
  PROVE  Inv'
<1> DEFINE q == slot[c][s]
           label == IF cart[s] THEN "insert" ELSE "find_paid"
           full == cart[s]
           r == [q EXCEPT !.pc = label, !.again = ~full]
<1>1. /\ UNCHANGED <<basket, cart, orders, doc, call, faults>>
      /\ call[c].pc = "stores" /\ q.pc = "cart" /\ Step(c, s, r)
  BY DEF Cart, Serving
<1>2. q \in Slots /\ full \in BOOLEAN /\ label \in {"insert", "find_paid"}
  BY Knows
<1>3. r \in Slots /\ r.pc = label /\ r.order = q.order
  <2> HIDE DEF q, label, full
  <2> QED
    BY <1>2 DEF Slots, SlotSteps
<1>4. label = "insert" /\ Kept(s) => NoPayer(s)
  BY <1>1, Knows DEF SlotOK, Inv, GiftOK
<1>5. SlotOK(s, r)
  BY <1>2, <1>3, <1>4 DEF SlotOK
<1> HIDE DEF r
<1> QED
  BY <1>1, <1>3, <1>5, SlotStep DEF Inv, TypeOK

LEMMA ClearStep ==
  ASSUME Inv, NEW c \in Calls, NEW s \in Stores, Clear(c, s)
  PROVE  Inv'
<1>1. /\ UNCHANGED <<basket, orders, doc, call, faults>> /\ Go(c, s, "mark")
      /\ call[c].pc = "stores" /\ slot[c][s].pc = "clear"
      /\ cart' \in [Stores -> BOOLEAN] /\ ~cart'[s]
      /\ \A t \in Stores : cart'[t] => cart[t]
  BY DEF Clear, Serving, Inv, TypeOK
<1>2. SlotOK(s, [slot[c][s] EXCEPT !.pc = "mark"])
  BY <1>1, Knows, Relabel DEF SlotOK, SlotSteps, NoPayer
<1> QED
  BY <1>1, <1>2, GoStep DEF SlotSteps

LEMMA VerifyStep ==
  ASSUME Inv, NEW c \in Calls, NEW s \in Stores, Verify(c, s)
  PROVE  Inv'
<1>1. PICK label \in {"ok", "error"} : Go(c, s, label)
  BY DEF Verify
<1>2. /\ UNCHANGED <<basket, cart, orders, doc, call, faults>>
      /\ call[c].pc = "stores" /\ slot[c][s].pc = "verify"
  BY DEF Verify, Serving
<1>3. label \in SlotSteps \cup Outcomes
  BY DEF Outcomes
<1>4. SlotOK(s, [slot[c][s] EXCEPT !.pc = label])
  BY <1>2, <1>3, Knows, Relabel DEF SlotOK
<1> QED
  BY <1>1, <1>2, <1>3, <1>4, Knows, GoStep

LEMMA OnlyTask ==
  ASSUME Inv, NEW c \in Calls, call[c].pc = "stores"
  PROVE  \A d \in Calls, t \in Stores : d # c => slot[d][t].pc = "off"
BY StillAlone DEF Inv, CallOK, Working

(* An order is written: documents and calls keep what they know of orders. *)
LEMMA WriteOrder ==
  ASSUME Inv, NEW c \in Calls, NEW s \in Stores, NEW o \in OrderIds,
         call[c].pc = "stores", UNCHANGED <<basket, cart, doc, call, faults>>,
         NEW w \in Orders, orders' = [orders EXCEPT ![o] = w],
         NEW r \in Slots, Step(c, s, r), SlotOK(s, r)',
         w.store = s, w.key \in {None, "pi"}, w.status \in {"created", "paid"},
         w.status = "created" <=> w.key = None,
         Used(o) => orders[o].store = s,
         w.key = None => ~Used(o),
         w.key = "pi" /\ Kept(s) => \A q \in OrderIds : Carries(q, s) => q = o,
         basket.gift /\ Kept(s) /\ cart[s] => w.key = None /\ r.pc # "mark"
  PROVE  Inv'
<1>1. TypeOK'
  BY DEF Inv, TypeOK, Step
<1>2. \A q \in OrderIds : orders'[q] = IF q = o THEN w ELSE orders[q]
  BY DEF Inv, TypeOK
<1>3. /\ ~Used(o) => orders[o].key = None /\ \A t \in Stores : ~Carries(o, t)
      /\ None # "pi"
  BY ConstantsAssumption DEF Inv, OrdersOK, OrderOK, Used, Carries, Keys
<1>4. \A q \in OrderIds, t \in Stores : Carries(q, t) => Carries(q, t)'
  BY <1>2, <1>3 DEF Carries, Used, Inv, OrdersOK, OrderOK
<1>5. \A q \in OrderIds, t \in Stores : t # s /\ Carries(q, t)' => Carries(q, t)
  BY <1>2 DEF Carries
<1>6. \A q \in OrderIds : Used(q) => Used(q)' /\ orders'[q].store = orders[q].store
  BY <1>2 DEF Used
<1>7. \A d \in Calls, t \in Stores :
        slot'[d][t] = IF d = c /\ t = s THEN r ELSE slot[d][t]
  BY DEF Inv, TypeOK, Step
<1>8. SlotsOK'
  <2> SUFFICES ASSUME NEW d \in Calls, NEW t \in Stores
               PROVE  SlotOK(t, slot[d][t])'
    BY DEF SlotsOK
  <2>1. CASE d # c
    BY <2>1, <1>7, OnlyTask DEF SlotOK
  <2>2. CASE d = c /\ t = s
    BY <2>2, <1>7 DEF SlotOK
  <2>3. CASE d = c /\ t # s
    <3>1. slot'[d][t] = slot[d][t] /\ SlotOK(t, slot[d][t])
      BY <2>3, <1>7, Knows
    <3> QED
      BY <3>1, <2>3, <1>4, <1>5, <1>6 DEF SlotOK, NoPayer, Kept
  <2> QED
    BY <2>1, <2>2, <2>3
<1>9. OrdersOK'
  BY <1>2, <1>3 DEF Inv, OrdersOK, OrderOK
<1>10. Unique'
  <2> SUFFICES ASSUME NEW t \in Stores, NEW p \in OrderIds, NEW q \in OrderIds,
                      Kept(t), Carries(p, t)', Carries(q, t)'
               PROVE  p = q
    BY DEF Unique, Kept
  <2>1. CASE t # s
    BY <2>1, <1>5 DEF Inv, Unique
  <2>2. CASE t = s
    <3>1. \A x \in OrderIds : x # o /\ Carries(x, s)' => Carries(x, s)
      BY <1>2 DEF Carries
    <3>2. w.key = None => ~Carries(o, s)'
      BY <1>2, <1>3 DEF Carries
    <3> QED
      BY <2>2, <3>1, <3>2 DEF Inv, Unique
  <2> QED
    BY <2>1, <2>2
<1>14. GiftOK'
  <2> SUFFICES ASSUME basket.gift, NEW t \in Stores, Kept(t), cart[t]
               PROVE  NoPayer(t)' /\ \A d \in Calls : slot'[d][t].pc # "mark"
    BY DEF GiftOK, Kept
  <2>1. NoPayer(t) /\ \A d \in Calls : slot[d][t].pc # "mark"
    BY DEF Inv, GiftOK
  <2>2. CASE t # s
    BY <2>1, <2>2, <1>5, <1>7 DEF NoPayer
  <2>3. CASE t = s
    <3>1. \A x \in OrderIds : x # o /\ Carries(x, s)' => Carries(x, s)
      BY <1>2 DEF Carries
    <3>2. ~Carries(o, s)'
      BY <2>3, <1>2, <1>3 DEF Carries
    <3> QED
      BY <2>1, <2>3, <3>1, <3>2, <1>7 DEF NoPayer
  <2> QED
    BY <2>2, <2>3
<1>11. ASSUME NEW rows \in Rows, RowsOK(rows) PROVE RowsOK(rows)'
  BY <1>11, <1>4 DEF Rows, RowsOK
<1>12. ReceiptOK'
  <2>1. doc["pi"].rows \in Rows
    BY DEF Inv, TypeOK, Keys
  <2> QED
    BY <2>1, <1>11 DEF Inv, ReceiptOK, RowsOK
<1>13. ASSUME NEW d \in Calls PROVE CallOK(d)'
  <2>1. RowsOK(call[d].prior)'
    BY Knows, <1>11 DEF RowsOK
  <2>2. call[d].pc # "stores" => \A t \in Stores : slot'[d][t].pc = "off"
    BY <1>7 DEF Inv, CallOK
  <2> QED
    BY <2>1, <2>2 DEF Inv, CallOK
<1> QED
  BY <1>1, <1>8, <1>9, <1>10, <1>12, <1>13, <1>14 DEF Inv, Alone

LEMMA InsertStep ==
  ASSUME Inv, NEW c \in Calls, NEW s \in Stores, Insert(c, s)
  PROVE  Inv'
<1> PICK z : z = slot[c][s]
  OBVIOUS
<1> DEFINE w == [status |-> "created", store |-> s, key |-> None,
                 recent |-> TRUE]
<1>1. PICK o \in FreeIds : /\ orders' = [orders EXCEPT ![o] = w]
                           /\ Step(c, s, [z EXCEPT !.pc = "clear", !.order = o])
  BY DEF Insert
<1> DEFINE r == [z EXCEPT !.pc = "clear", !.order = o]
<1>2. /\ UNCHANGED <<basket, cart, doc, call, faults>>
      /\ call[c].pc = "stores" /\ z.pc = "insert" /\ z \in Slots
  BY Knows DEF Insert, Serving
<1>3. o \in OrderIds /\ ~Used(o)
  BY DEF FreeIds
<1>4. r \in Slots /\ r.pc = "clear" /\ r.order = o
  BY <1>2, <1>3 DEF Slots, SlotSteps
<1>5. w \in Orders
  BY DEF Orders
<1>6. \A q \in OrderIds : orders'[q] = IF q = o THEN w ELSE orders[q]
  BY <1>1 DEF Inv, TypeOK
<1>7. Kept(s) => NoPayer(s)
  BY <1>2, Knows DEF SlotOK
<1> HIDE DEF r
<1>8. SlotOK(s, r)'
  <2>1. Kept(s)' => NoPayer(s)'
    BY <1>2, <1>6, <1>7, ConstantsAssumption DEF NoPayer, Carries, Keys, Kept
  <2>2. Used(o)' /\ orders'[o].store = s
    BY <1>3, <1>6 DEF Used
  <2> QED
    BY <1>3, <1>4, <2>1, <2>2 DEF SlotOK
<1>9. w.store = s /\ w.key = None /\ w.status = "created"
  OBVIOUS
<1>10. None # "pi"
  BY ConstantsAssumption DEF Keys
<1>11. Step(c, s, r)
  BY <1>1 DEF r
<1> HIDE DEF w
<1> QED
  BY <1>1, <1>2, <1>3, <1>4, <1>5, <1>8, <1>9, <1>10, <1>11, WriteOrder

LEMMA MarkStep ==
  ASSUME OneProcess, Inv, NEW c \in Calls, NEW s \in Stores, Mark(c, s)
  PROVE  Inv'
<1> PICK z : z = slot[c][s]
  OBVIOUS
<1> DEFINE o == z.order
<1> PICK a : a = orders[o]
  OBVIOUS
<1> DEFINE w == [a EXCEPT !.status = "paid", !.key = "pi"]
           r == [z EXCEPT !.pc = "verify"]
<1>1. /\ UNCHANGED <<basket, cart, doc, call, faults>>
      /\ call[c].pc = "stores" /\ z.pc = "mark" /\ z \in Slots
  BY Knows DEF Mark, Serving
<1>2. /\ o \in OrderIds /\ Used(o) /\ orders[o].store = s
      /\ Kept(s) => \A q \in OrderIds : Carries(q, s) => q = o
      /\ basket.gift /\ Kept(s) => ~cart[s]
  BY <1>1, Knows DEF SlotOK, Inv, GiftOK
<1>3. a \in Orders
  BY <1>2 DEF Inv, TypeOK
<1>4. orders' = [orders EXCEPT ![o] = w]
  BY <1>2, KeyIsIntent DEF Mark, Inv, TypeOK
<1>5. w \in Orders /\ w.status = "paid" /\ w.key = "pi" /\ w.store = s
  BY <1>2, <1>3 DEF Orders, Keys
<1>6. Step(c, s, r)
  BY DEF Mark, Go, Step, Inv, TypeOK
<1>7. r \in Slots /\ r.pc = "verify" /\ r.order = o
  BY <1>1, Relabel DEF SlotSteps
<1>8. None # "pi"
  BY ConstantsAssumption DEF Keys
<1>9. orders'[o] = w
  BY <1>2, <1>4 DEF Inv, TypeOK
<1> HIDE DEF r, w, o
<1>10. SlotOK(s, r)'
  BY <1>2, <1>5, <1>7, <1>9 DEF SlotOK, Carries, Used
<1> QED
  BY <1>1, <1>2, <1>4, <1>5, <1>6, <1>7, <1>8, <1>10, WriteOrder

-----------------------------------------------------------------------------
(* Every step                                                              *)

LEMMA ServeStep ==
  ASSUME OneProcess, Inv, NEW c \in Calls, NEW s \in Stores, Serve(c, s)
  PROVE  Inv'
BY PriorStep, FindPaidStep, FindCreatedStep, CartStep, InsertStep, ClearStep,
   MarkStep, VerifyStep DEF Serve

LEMMA RunStep ==
  ASSUME OneProcess, Inv, NEW c \in Calls, Run(c)
  PROVE  Inv'
BY JoinedStep, LoadStep, CheckStep, CreateStep, SaveStep DEF Run

LEMMA NextStep ==
  ASSUME OneProcess, Inv, [Next]_vars
  PROVE  Inv'
<1>1. CASE UNCHANGED vars
  <2>1. TypeOK' /\ Alone' /\ ReceiptOK'
    BY <1>1 DEF vars, Inv, TypeOK, Alone, ReceiptOK, RowsOK, Carries
  <2>2. SlotsOK' /\ OrdersOK' /\ Unique' /\ GiftOK'
    BY <1>1 DEF vars, Inv, SlotsOK, SlotOK, OrdersOK, OrderOK, Unique,
                Carries, Used, GiftOK, NoPayer, Kept
  <2>3. \A c \in Calls : CallOK(c)'
    BY <1>1 DEF vars, Inv, CallOK, RowsOK, Carries
  <2> QED
    BY <2>1, <2>2, <2>3 DEF Inv
<1>2. CASE Next
  BY <1>2, ShopStep, MoveStep, AgeStep, CrashStep, RunStep, CallFailsStep,
     StartStep, ServeStep, StoreFailsStep DEF Next
<1> QED
  BY <1>1, <1>2

THEOREM Invariance == ASSUME OneProcess PROVE Spec => []Inv
<1>1. OneProcess
  OBVIOUS
<1>2. Inv /\ [Next]_vars => Inv'
  BY <1>1, NextStep
<1> QED
  BY InitInv, <1>2, PTL DEF Spec

-----------------------------------------------------------------------------
(* What the invariant says                                                 *)

(* Every document, request and task keeps its type.                        *)
THEOREM FulfilmentTypes == ASSUME OneProcess PROVE Spec => []TypeOK
<1>1. Inv => TypeOK
  BY DEF Inv
<1> QED
  BY Invariance, <1>1, PTL

(* The orders of a store that carry the payment, seen by the invariant.    *)
LEMMA Payers ==
  ASSUME Inv, NEW s \in Stores
  PROVE  PaidOrdersOf(s) = {o \in OrderIds : Carries(o, s)}
BY ConstantsAssumption DEF PaidOrdersOf, Inv, OrdersOK, OrderOK, Carries, Keys

(* A payment never pays two orders of one store, whatever the errors, the  *)
(* restarts and the redeliveries, in a deployment of one process; of a     *)
(* gift, until its cart is filled again.                                   *)
THEOREM OnePayment == ASSUME OneProcess PROVE Spec => []OnePaidOrder
<1>1. ASSUME Inv, NEW s \in Stores, Kept(s)
      PROVE  Cardinality({o \in OrderIds : Carries(o, s)}) <= 1
  <2> DEFINE S == {o \in OrderIds : Carries(o, s)}
  <2>1. CASE S = {}
    BY <2>1, FS_EmptySet
  <2>2. CASE S # {}
    <3>1. PICK o \in OrderIds : Carries(o, s)
      BY <2>2
    <3>2. S = {o}
      BY <3>1, <1>1 DEF Inv, Unique
    <3>3. Cardinality(S) = 1
      BY <3>2, FS_Singleton
    <3> QED
      BY <3>3
  <2> QED
    BY <2>1, <2>2
<1>2. Inv => OnePaidOrder
  BY <1>1, Payers DEF OnePaidOrder
<1> QED
  BY Invariance, <1>2, PTL

(* The receipt kept for a payment names orders of the right store that     *)
(* carry the payment, and no other.                                        *)
THEOREM Receipts == ASSUME OneProcess PROVE Spec => []ReceiptTrue
<1>1. Inv => ReceiptTrue
  BY DEF Inv, ReceiptOK, RowsOK, Carries, ReceiptTrue, Keys
<1> QED
  BY Invariance, <1>1, PTL

-----------------------------------------------------------------------------
(* The refinement: a mark is a payment, or the same payment again, a save  *)
(* is a report, and every other step leaves payments and receipt alone.    *)

PaidFor == [s \in Stores |-> PaidOrdersOf(s)]
Receipt == doc["pi"].rows
Lapsed == {s \in Stores : ~Kept(s)}

LEMMA SamePayments ==
  ASSUME \A o \in OrderIds :
           \/ orders'[o].store = orders[o].store /\ orders'[o].key = orders[o].key
           \/ orders'[o].key = None /\ orders[o].key = None
  PROVE  PaidFor' = PaidFor
BY DEF PaidFor, PaidOrdersOf

LEMMA SaveReports ==
  ASSUME OneProcess, Inv, NEW c \in Calls, Save(c)
  PROVE  Abstract!Report
<1>1. PaidFor' = PaidFor
  BY SamePayments DEF Save
<1>2. \A s \in Stores : slot[c][s].pc = "ok" =>
        slot[c][s].order \in OrderIds /\ Carries(slot[c][s].order, s)
  BY DEF Inv, SlotsOK, SlotOK
<1>3. Receipt' = [s \in Stores |-> IF slot[c][s].pc = "ok"
                                   THEN slot[c][s].order ELSE None]
  BY KeyIsIntent DEF Save, Receipt, Inv, TypeOK, Keys
<1>4. Receipt' \in [Stores -> OrderIds \cup {None}]
  BY <1>2, <1>3
<1>5. \A s \in Stores : Receipt'[s] \in PaidFor[s] \cup {None}
  BY <1>2, <1>3, ConstantsAssumption DEF PaidFor, PaidOrdersOf, Carries, Keys
<1>6. UNCHANGED Lapsed
  BY DEF Save, Lapsed, Kept
<1> QED
  BY <1>1, <1>4, <1>5, <1>6 DEF Abstract!Report, PaidFor, Receipt, Lapsed

LEMMA MarkPays ==
  ASSUME OneProcess, Inv, NEW c \in Calls, NEW s \in Stores, Mark(c, s)
  PROVE  Abstract!Next \/ UNCHANGED <<PaidFor, Receipt, Lapsed>>
<1> PICK o : o = slot[c][s].order
  OBVIOUS
<1>1. UNCHANGED <<doc, basket>> /\ slot[c][s].pc = "mark"
  BY DEF Mark, Serving
<1>2. /\ o \in OrderIds /\ orders[o].store = s
      /\ Kept(s) => \A q \in OrderIds : Carries(q, s) => q = o
  BY <1>1, Knows DEF SlotOK
<1>3. orders' = [orders EXCEPT ![o].status = "paid", ![o].key = "pi"]
  BY KeyIsIntent DEF Mark
<1>4. \A q \in OrderIds : /\ orders'[q].store = orders[q].store
                          /\ orders'[q].key = IF q = o THEN "pi"
                                              ELSE orders[q].key
  BY <1>2, <1>3 DEF Inv, TypeOK, Orders
<1>5. UNCHANGED <<Receipt, Lapsed>>
  BY <1>1 DEF Receipt, Lapsed, Kept
<1>6. None # "pi"
  BY ConstantsAssumption DEF Keys
<1>7. CASE orders[o].key = "pi"
  <2>1. PaidFor' = PaidFor
    BY <1>4, <1>7, SamePayments
  <2> QED
    BY <2>1, <1>5
<1>8. CASE orders[o].key # "pi"
  <2>1. PaidFor[s] = {} \/ s \in Lapsed
    <3>1. Kept(s) => \A q \in OrderIds : ~Carries(q, s)
      BY <1>2, <1>8 DEF Carries
    <3> QED
      BY <3>1, Payers DEF PaidFor, Lapsed
  <2>2. \A t \in Stores : o \notin PaidFor[t]
    BY <1>2, <1>8 DEF PaidFor, PaidOrdersOf, Inv, OrdersOK, OrderOK
  <2>3. PaidFor' = [PaidFor EXCEPT ![s] = @ \cup {o}]
    <3>1. ASSUME NEW t \in Stores, t # s
          PROVE  PaidOrdersOf(t)' = PaidOrdersOf(t)
      BY <3>1, <1>2, <1>4 DEF PaidOrdersOf
    <3>2. PaidOrdersOf(s)' = PaidOrdersOf(s) \cup {o}
      BY <1>2, <1>4, <1>6 DEF PaidOrdersOf
    <3> QED
      BY <3>1, <3>2 DEF PaidFor
  <2>5. Abstract!Pay(s, o)
    BY <2>1, <2>2, <2>3, <1>5 DEF Abstract!Pay, PaidFor, Receipt, Lapsed
  <2> QED
    BY <2>5, <1>2 DEF Abstract!Next
<1> QED
  BY <1>7, <1>8

LEMMA CreateKeeps ==
  ASSUME Inv, NEW c \in Calls, Create(c)
  PROVE  UNCHANGED <<PaidFor, Receipt, Lapsed>>
<1>1. Receipt' = Receipt
  BY DEF Create, Receipt, Inv, TypeOK, Keys
<1> QED
  BY <1>1, SamePayments DEF Create, Lapsed, Kept

LEMMA InsertKeeps ==
  ASSUME Inv, NEW c \in Calls, NEW s \in Stores, Insert(c, s)
  PROVE  UNCHANGED <<PaidFor, Receipt, Lapsed>>
<1>1. PICK o \in FreeIds : orders' = [orders EXCEPT ![o] =
        [status |-> "created", store |-> s, key |-> None, recent |-> TRUE]]
  BY DEF Insert
<1>2. o \in OrderIds /\ orders[o].key = None
  BY DEF FreeIds, Used, Inv, OrdersOK, OrderOK
<1>3. \A q \in OrderIds : q # o => orders'[q] = orders[q]
  BY <1>1 DEF Inv, TypeOK
<1>4. orders'[o].key = None
  BY <1>1, <1>2 DEF Inv, TypeOK
<1> QED
  BY <1>2, <1>3, <1>4, SamePayments DEF Insert, Receipt, Lapsed, Kept

LEMMA Simulates ==
  ASSUME OneProcess, Inv, [Next]_vars
  PROVE  Abstract!Next \/ UNCHANGED <<PaidFor, Receipt, Lapsed>>
<1>1. CASE UNCHANGED <<orders, doc, basket>>
  BY <1>1, SamePayments DEF Receipt, Lapsed, Kept
<1>5. ASSUME NEW s \in Stores, Shop(s)
      PROVE  Abstract!Next \/ UNCHANGED <<PaidFor, Receipt, Lapsed>>
  <2>1. UNCHANGED <<PaidFor, Receipt>>
    BY <1>5, SamePayments DEF Shop, Receipt
  <2>2. basket'.gift = basket.gift
        /\ basket'.refilled = basket.refilled \cup {s}
    BY <1>5 DEF Shop, Inv, TypeOK
  <2>3. Lapsed' = Lapsed \cup {s} \/ Lapsed' = Lapsed
    BY <2>2 DEF Lapsed, Kept
  <2>4. CASE Lapsed' = Lapsed
    BY <2>1, <2>4
  <2>5. CASE Lapsed' = Lapsed \cup {s}
    <3>1. Abstract!Lapse(s)
      BY <2>1, <2>5 DEF Abstract!Lapse, PaidFor, Receipt, Lapsed
    <3> QED
      BY <3>1 DEF Abstract!Next
  <2> QED
    BY <2>3, <2>4, <2>5
<1>2. ASSUME NEW o \in OrderIds, Move(o) \/ Age(o)
      PROVE  UNCHANGED <<PaidFor, Receipt, Lapsed>>
  <2>1. \A q \in OrderIds : /\ orders'[q].store = orders[q].store
                            /\ orders'[q].key = orders[q].key
    <3>1. orders \in [OrderIds -> Orders]
      BY DEF Inv, TypeOK
    <3>2. CASE Move(o)
      BY <3>1, <3>2 DEF Move, Orders
    <3>3. CASE Age(o)
      BY <3>1, <3>3 DEF Age, Orders
    <3> QED
      BY <1>2, <3>2, <3>3
  <2> QED
    BY <1>2, <2>1, SamePayments DEF Move, Age, Receipt, Lapsed, Kept
<1>3. ASSUME NEW c \in Calls, Run(c)
      PROVE  Abstract!Next \/ UNCHANGED <<PaidFor, Receipt, Lapsed>>
  BY <1>1, <1>3, SaveReports, CreateKeeps
     DEF Run, Joined, Load, Check, Abstract!Next
<1>4. ASSUME NEW c \in Calls, NEW s \in Stores, Serve(c, s)
      PROVE  Abstract!Next \/ UNCHANGED <<PaidFor, Receipt, Lapsed>>
  BY <1>1, <1>4, MarkPays, InsertKeeps
     DEF Serve, Prior, FindPaid, FindCreated, Cart, Clear, Verify
<1> QED
  BY <1>1, <1>2, <1>3, <1>4, <1>5
     DEF Next, vars, Crash, CallFails, Start, StoreFails

(* With one process the basket implements the promise of PaidOrders: one   *)
(* order per store carries the payment and never changes, a gift whose cart *)
(* is filled again excepted.                                               *)
THEOREM Fulfils == ASSUME OneProcess PROVE Spec => ImplementsPaidOrders
<1>1. Init => Abstract!Init
  BY ConstantsAssumption
     DEF Init, Abstract!Init, NoRows, Keys, PaidOrdersOf, Kept
<1>2. OneProcess
  OBVIOUS
<1>3. Inv /\ [Next]_vars => [Abstract!Next]_<<PaidFor, Receipt, Lapsed>>
  BY <1>2, Simulates
<1>4. Inv /\ [Next]_vars =>
        [Abstract!Next]_<<[s \in Stores |-> PaidOrdersOf(s)], doc["pi"].rows,
                          {s \in Stores : ~Kept(s)}>>
  BY <1>3 DEF PaidFor, Receipt, Lapsed
<1> QED
  BY Invariance, <1>1, <1>4, PTL DEF Spec, ImplementsPaidOrders, Abstract!Spec
=============================================================================
