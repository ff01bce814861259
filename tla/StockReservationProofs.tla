------------------------- MODULE StockReservationProofs -------------------------
(***************************************************************************)
(* Proofs about StockReservation: the types of its state, that a checkout  *)
(* loses no stock (NothingLost) and that the daily menu is never sold      *)
(* beyond what was put on sale (MenuNotOversold), for any number of        *)
(* articles, customers, checkouts, edits and faults.                       *)
(*                                                                         *)
(* Both properties are about a sum over the checkouts under way.  The      *)
(* first part proves what they need of such a sum: it exists, it is a      *)
(* number, and a change of one summand changes it by the difference.       *)
(***************************************************************************)
EXTENDS StockReservation, FiniteSetTheorems, TLAPS

(***************************************************************************)
(* Sums over a finite set                                                  *)
(***************************************************************************)
First(s) == CHOOSE x \in s : TRUE

(* sum[s] is the total of f over s, for every subset s of S.               *)
IsTotal(f, S, sum) ==
  sum = [s \in SUBSET S |-> IF s = {} THEN 0
                            ELSE f[First(s)] + sum[s \ {First(s)}]]

Totals(f, S) == CHOOSE sum : IsTotal(f, S, sum)
Total(f, S) == Totals(f, S)[S]

(* A set that is not empty has a first element.                            *)
LEMMA FirstIn ==
  ASSUME NEW s, s # {}
  PROVE  First(s) \in s
BY DEF First

(* Induction over the subsets of a finite set, in terms of a set of        *)
(* counterexamples: one that is not empty has a member no strict subset of *)
(* which is in it.                                                         *)
LEMMA LeastSubset ==
  ASSUME NEW S, IsFiniteSet(S), NEW Bad \in SUBSET (SUBSET S), Bad # {}
  PROVE  \E s \in Bad : \A u \in SUBSET s : u # s => u \notin Bad
<1>1. IsWellFoundedOn(StrictSubsetOrdering(S), SUBSET S)
  BY FS_StrictSubsetOrderingWellFounded, FS_FiniteSubsetsOfFinite
<1>2. PICK s \in Bad : \A u \in Bad : <<u, s>> \notin StrictSubsetOrdering(S)
  BY <1>1, WFMin
<1>3. ASSUME NEW u \in SUBSET s, u # s
      PROVE  u \notin Bad
  <2>1. u \in SUBSET S /\ s \in SUBSET S
    OBVIOUS
  <2>2. <<u, s>> \in StrictSubsetOrdering(S)
    BY <2>1, <1>3 DEF StrictSubsetOrdering
  <2>. QED  BY <1>2, <2>2
<1>. QED  BY <1>3

(* Two totals of one function agree where both are defined.                *)
LEMMA TotalUnique ==
  ASSUME NEW f, NEW A, NEW B, IsFiniteSet(A),
         NEW g, NEW h, IsTotal(f, A, g), IsTotal(f, B, h),
         NEW s \in SUBSET A, s \in SUBSET B
  PROVE  g[s] = h[s]
<1>. DEFINE Bad == {u \in SUBSET A : u \in SUBSET B /\ g[u] # h[u]}
<1>1. SUFFICES ASSUME Bad # {}
               PROVE  FALSE
  OBVIOUS
<1>2. PICK u \in Bad : \A v \in SUBSET u : v # u => v \notin Bad
  <2>1. Bad \in SUBSET (SUBSET A)
    OBVIOUS
  <2>. HIDE DEF Bad
  <2>. QED  BY <1>1, <2>1, LeastSubset
<1>3. u \in SUBSET A /\ u \in SUBSET B /\ g[u] # h[u]
  OBVIOUS
<1>4. CASE u = {}
  BY <1>3, <1>4 DEF IsTotal
<1>5. CASE u # {}
  <2>. DEFINE v == u \ {First(u)}
  <2>1. First(u) \in u
    BY <1>5, FirstIn
  <2>2. v \in SUBSET u /\ v # u
    BY <2>1
  <2>3. v \in SUBSET A /\ v \in SUBSET B
    BY <1>3, <2>2
  <2>4. g[v] = h[v]
    BY <1>2, <2>2, <2>3
  <2>5. g[u] = f[First(u)] + g[v] /\ h[u] = f[First(u)] + h[v]
    BY <1>3, <1>5 DEF IsTotal
  <2>. QED  BY <1>3, <2>4, <2>5
<1>. QED  BY <1>4, <1>5

(* Every function has a total over a finite set.                           *)
LEMMA TotalExists ==
  ASSUME NEW f, NEW S, IsFiniteSet(S)
  PROVE  \E sum : IsTotal(f, S, sum)
<1>. DEFINE Bad == {u \in SUBSET S : ~ \E sum : IsTotal(f, u, sum)}
<1>1. SUFFICES ASSUME Bad # {}
               PROVE  FALSE
  OBVIOUS
<1>2. PICK T \in Bad : \A u \in SUBSET T : u # T => u \notin Bad
  <2>1. Bad \in SUBSET (SUBSET S)
    OBVIOUS
  <2>. HIDE DEF Bad
  <2>. QED  BY <1>1, <2>1, LeastSubset
<1>3. T \in SUBSET S /\ ~ \E sum : IsTotal(f, T, sum)
  OBVIOUS
<1>. DEFINE below(u) == Totals(f, u)[u]
            sum == [s \in SUBSET T |-> IF s = {} THEN 0
                      ELSE f[First(s)] + below(s \ {First(s)})]
<1>4. ASSUME NEW u \in SUBSET T, u # T
      PROVE  IsTotal(f, u, Totals(f, u))
  <2>1. \E g : IsTotal(f, u, g)
    BY <1>2, <1>3, <1>4
  <2>. QED  BY <2>1 DEF Totals
<1>5. ASSUME NEW u \in SUBSET T, u # T
      PROVE  sum[u] = below(u)
  <2>1. IsTotal(f, u, Totals(f, u)) /\ IsFiniteSet(u)
    BY <1>3, <1>4, <1>5, FS_Subset
  <2>2. CASE u = {}
    BY <2>1, <2>2 DEF IsTotal
  <2>3. CASE u # {}
    <3>. DEFINE v == u \ {First(u)}
    <3>1. First(u) \in u
      BY <2>3, FirstIn
    <3>2. v \in SUBSET u /\ v \in SUBSET T /\ v # T
      BY <1>5, <3>1
    <3>3. IsTotal(f, v, Totals(f, v)) /\ v \in SUBSET v
      BY <1>4, <3>2
    <3>4. Totals(f, u)[v] = Totals(f, v)[v]
      BY <2>1, <3>2, <3>3, TotalUnique
    <3>5. Totals(f, u)[u] = f[First(u)] + Totals(f, u)[v]
      BY <2>1, <2>3 DEF IsTotal
    <3>. QED  BY <2>3, <3>4, <3>5
  <2>. QED  BY <2>2, <2>3
<1>6. ASSUME NEW s \in SUBSET T, s # {}
      PROVE  sum[s] = f[First(s)] + sum[s \ {First(s)}]
  <2>1. First(s) \in s
    BY <1>6, FirstIn
  <2>2. s \ {First(s)} \in SUBSET T /\ s \ {First(s)} # T
    BY <2>1
  <2>3. sum[s \ {First(s)}] = below(s \ {First(s)})
    BY <1>5, <2>2
  <2>4. sum[s] = f[First(s)] + below(s \ {First(s)})
    BY <1>6
  <2>. QED  BY <2>3, <2>4
<1>7. sum = [s \in SUBSET T |-> IF s = {} THEN 0
                                ELSE f[First(s)] + sum[s \ {First(s)}]]
  <2>. DEFINE right == [s \in SUBSET T |-> IF s = {} THEN 0
                                ELSE f[First(s)] + sum[s \ {First(s)}]]
  <2>1. ASSUME NEW s \in SUBSET T
        PROVE  sum[s] = right[s]
    BY <1>6
  <2>. QED  BY <2>1
<1>. QED  BY <1>3, <1>7 DEF IsTotal

(* The totals satisfy their equation.                                      *)
LEMMA TotalsEquation ==
  ASSUME NEW f, NEW S, IsFiniteSet(S), NEW s \in SUBSET S
  PROVE  Totals(f, S)[s] = IF s = {} THEN 0
           ELSE f[First(s)] + Totals(f, S)[s \ {First(s)}]
<1>1. IsTotal(f, S, Totals(f, S))
  BY TotalExists DEF Totals
<1>. QED  BY <1>1 DEF IsTotal

(* The total of integers is an integer.                                    *)
LEMMA TotalInt ==
  ASSUME NEW S, IsFiniteSet(S), NEW f \in [S -> Int]
  PROVE  \A s \in SUBSET S : Totals(f, S)[s] \in Int
<1>. DEFINE Bad == {u \in SUBSET S : Totals(f, S)[u] \notin Int}
<1>1. SUFFICES ASSUME Bad # {}
               PROVE  FALSE
  OBVIOUS
<1>2. PICK u \in Bad : \A v \in SUBSET u : v # u => v \notin Bad
  <2>1. Bad \in SUBSET (SUBSET S)
    OBVIOUS
  <2>. HIDE DEF Bad
  <2>. QED  BY <1>1, <2>1, LeastSubset
<1>3. u # {}
  <2>1. Totals(f, S)[{}] = 0
    BY TotalsEquation
  <2>. QED  BY <2>1
<1>4. First(u) \in u /\ u \in SUBSET S
  BY <1>3, FirstIn
<1>5. Totals(f, S)[u \ {First(u)}] \in Int
  BY <1>2, <1>4
<1>6. Totals(f, S)[u] = f[First(u)] + Totals(f, S)[u \ {First(u)}]
  BY <1>3, <1>4, TotalsEquation
<1>. QED  BY <1>4, <1>5, <1>6

(* The total of zeros is zero.                                             *)
LEMMA TotalZero ==
  ASSUME NEW S, IsFiniteSet(S), NEW f \in [S -> Int], \A d \in S : f[d] = 0
  PROVE  \A s \in SUBSET S : Totals(f, S)[s] = 0
<1>. DEFINE Bad == {u \in SUBSET S : Totals(f, S)[u] # 0}
<1>1. SUFFICES ASSUME Bad # {}
               PROVE  FALSE
  OBVIOUS
<1>2. PICK u \in Bad : \A v \in SUBSET u : v # u => v \notin Bad
  <2>1. Bad \in SUBSET (SUBSET S)
    OBVIOUS
  <2>. HIDE DEF Bad
  <2>. QED  BY <1>1, <2>1, LeastSubset
<1>3. u # {}
  <2>1. Totals(f, S)[{}] = 0
    BY TotalsEquation
  <2>. QED  BY <2>1
<1>4. First(u) \in u /\ u \in SUBSET S
  BY <1>3, FirstIn
<1>5. Totals(f, S)[u \ {First(u)}] = 0
  BY <1>2, <1>4
<1>6. Totals(f, S)[u] = f[First(u)] + Totals(f, S)[u \ {First(u)}]
  BY <1>3, <1>4, TotalsEquation
<1>. QED  BY <1>4, <1>5, <1>6

(* Two functions that differ at c only: the totals differ by as much over  *)
(* the sets that c is in.                                                  *)
LEMMA TotalChanged ==
  ASSUME NEW S, IsFiniteSet(S), NEW f \in [S -> Int], NEW g \in [S -> Int],
         NEW c \in S, \A d \in S : d # c => f[d] = g[d]
  PROVE  \A s \in SUBSET S :
           Totals(g, S)[s] = Totals(f, S)[s] + IF c \in s THEN g[c] - f[c] ELSE 0
<1>. DEFINE F == Totals(f, S)
            G == Totals(g, S)
            Shift(s) == IF c \in s THEN g[c] - f[c] ELSE 0
            Bad == {u \in SUBSET S : G[u] # F[u] + Shift(u)}
<1>1. SUFFICES ASSUME Bad # {}
               PROVE  FALSE
  OBVIOUS
<1>2. PICK u \in Bad : \A v \in SUBSET u : v # u => v \notin Bad
  <2>1. Bad \in SUBSET (SUBSET S)
    OBVIOUS
  <2>. HIDE DEF Bad
  <2>. QED  BY <1>1, <2>1, LeastSubset
<1>3. u # {}
  <2>1. SUFFICES ASSUME u = {}
                 PROVE  FALSE
    OBVIOUS
  <2>2. F[u] = 0 /\ G[u] = 0
    BY <2>1, TotalsEquation
  <2>. QED  BY <2>1, <2>2
<1>. DEFINE x == First(u)
            v == u \ {x}
<1>4. x \in u /\ u \in SUBSET S
  BY <1>3, FirstIn
<1>5. G[v] = F[v] + Shift(v)
  BY <1>2, <1>4
<1>6. F[u] = f[x] + F[v] /\ G[u] = g[x] + G[v]
  BY <1>3, <1>4, TotalsEquation
<1>7. F[v] \in Int /\ G[v] \in Int /\ f[x] \in Int /\ g[x] \in Int
      /\ f[c] \in Int /\ g[c] \in Int
  BY <1>4, TotalInt
<1>8. G[u] # F[u] + Shift(u)
  OBVIOUS
<1>9. x # c => f[x] = g[x] /\ Shift(u) = Shift(v)
  BY <1>4
<1>10. x = c => Shift(v) = 0 /\ Shift(u) = g[c] - f[c]
  BY <1>4
<1>11. Shift(v) \in Int
  BY <1>7
<1>. HIDE DEF F, G, Shift, x, v
<1>12. CASE x = c
  BY <1>5, <1>6, <1>7, <1>8, <1>10, <1>12
<1>13. CASE x # c
  BY <1>5, <1>6, <1>7, <1>8, <1>9, <1>11, <1>13
<1>. QED  BY <1>12, <1>13

-----------------------------------------------------------------------------
(***************************************************************************)
(* What the checkouts hold                                                 *)
(***************************************************************************)
Labels == {"idle", "take", "order", "clear", "undo", "done"}
Jobs == [pc: Labels, by: Customers \cup {None}, want: Carts,
         taken: SUBSET Rows, back: SUBSET Rows, again: BOOLEAN, made: BOOLEAN]

(* What the checkout j holds of row r.                                     *)
Keeps(j, r) == \/ j.pc \in {"take", "order"} /\ r \in j.taken
               \/ j.pc = "undo" /\ ~j.made /\ r \in j.back
Share(j, r) == IF Keeps(j, r) THEN j.want[r[2]] ELSE 0
Shares(r) == [c \in Calls |-> Share(call[c], r)]

(* Rows are taken in their order.                                          *)
InOrder(j) ==
  \A q \in j.taken, r \in Rows :
    j.want[r[2]] > 0 /\ r \notin j.taken => q[1] <= r[1]

(* A checkout before its order is made knows so; one that gives back all   *)
(* it took twice took nothing of the daily menu; one whose order was made  *)
(* gives back only when the cart could not be cleared.                     *)
Sound(j, cleared) ==
  /\ j.pc \in {"take", "order"} => ~j.made
  /\ j.pc = "take" => InOrder(j)
  /\ j.pc = "undo" /\ j.again => j.taken \cap MenuRows = {}
  /\ j.pc = "undo" /\ cleared => ~j.made
AllSound == \A c \in Calls : Sound(call[c], faults["clear"] = 0)

StockInv == TypeOK /\ AllSound /\ NothingLost /\ MenuNotOversold

-----------------------------------------------------------------------------
(***************************************************************************)
(* Types                                                                   *)
(***************************************************************************)
(* A row names its kind of stock and its article.                          *)
LEMMA RowParts ==
  ASSUME NEW r \in Rows
  PROVE  r[1] \in 1..4 /\ r[2] \in Articles
BY DEF Rows, Articles

LEMMA MenuRowIs ==
  ASSUME NEW r
  PROVE  r \in MenuRows <=> r \in Rows /\ r[1] \in {3, 4}
BY DEF MenuRows

LEMMA CallTypes ==
  ASSUME TypeOK, NEW c \in Calls
  PROVE  call[c] \in Jobs
BY DEF TypeOK, Jobs, Labels

LEMMA WantTypes ==
  ASSUME NEW j \in Jobs, NEW r \in Rows
  PROVE  j.want[r[2]] \in Nat
<1>1. j.want \in [Articles -> 0..MaxQty] /\ MaxQty \in Nat
  BY ConstantsAssumption DEF Jobs, Carts
<1>. QED  BY <1>1, RowParts

LEMMA WantBound ==
  ASSUME NEW j \in Jobs, NEW r \in Rows
  PROVE  j.want[r[2]] <= MaxQty
<1>1. j.want \in [Articles -> 0..MaxQty] /\ MaxQty \in Nat
  BY ConstantsAssumption DEF Jobs, Carts
<1>. QED  BY <1>1, RowParts

LEMMA IdleTypes == Idle \in Jobs /\ Done \in Jobs
<1>1. Nothing \in Carts
  BY ConstantsAssumption DEF Nothing, Carts
<1>. QED  BY <1>1 DEF Idle, Done, Jobs, Labels

LEMMA UndoneTypes ==
  ASSUME TypeOK, NEW c \in Calls
  PROVE  /\ Undone(c) \in Jobs
         /\ \A r : Missing(c, r) \in Jobs
<1>1. call[c] \in Jobs
  BY CallTypes
<1>2. Undone(c) \in Jobs
  BY <1>1 DEF Undone, Jobs, Labels
<1>3. ASSUME NEW r
      PROVE  Missing(c, r) \in Jobs
  <2>1. (r \notin MenuRows) \in BOOLEAN
    OBVIOUS
  <2>. HIDE DEF Undone
  <2>. QED  BY <1>2, <2>1 DEF Missing, Jobs
<1>. QED  BY <1>2, <1>3

(* A step of one checkout to a well-typed record keeps the table typed.    *)
LEMMA BecomeTypes ==
  ASSUME TypeOK, NEW c \in Calls, NEW j \in Jobs, Become(c, j)
  PROVE  call' \in [Calls -> Jobs]
BY DEF TypeOK, Become, Jobs, Labels

LEMMA FaultTypes ==
  ASSUME TypeOK, NEW k \in Kinds, Happens(k)
  PROVE  /\ faults' \in [Kinds -> Nat]
         /\ faults'[k] > 0
         /\ \A m \in Kinds : faults[m] <= faults'[m]
<1>1. faults \in [Kinds -> Nat]
  BY DEF TypeOK, Kinds
<1>2. faults' = [faults EXCEPT ![k] = faults[k] + 1]
  BY DEF Happens
<1>. QED  BY <1>1, <1>2

LEMMA TypeInit == Init => TypeOK
<1>. SUFFICES ASSUME Init  PROVE TypeOK
  OBVIOUS
<1>1. 0..MaxStock \subseteq Nat
  BY ConstantsAssumption
<1>2. call \in [Calls -> Jobs]
  BY IdleTypes DEF Init
<1>. QED  BY <1>1, <1>2 DEF Init, TypeOK, Jobs, Labels

LEMMA TypeNext == TypeOK /\ [Next]_vars => TypeOK'
<1>. SUFFICES ASSUME TypeOK, [Next]_vars
              PROVE  TypeOK'
  OBVIOUS
<1>0. /\ stock \in [Rows -> Nat] /\ booked \in [Rows -> Nat]
      /\ supply \in [Rows -> Int] /\ cart \in [Customers -> Carts]
      /\ call \in [Calls -> Jobs] /\ faults \in [Kinds -> Nat]
  BY DEF TypeOK, Jobs, Labels, Kinds
<1>. DEFINE Typed == /\ stock' \in [Rows -> Nat] /\ booked' \in [Rows -> Nat]
                     /\ supply' \in [Rows -> Int]
                     /\ cart' \in [Customers -> Carts]
                     /\ call' \in [Calls -> Jobs] /\ faults' \in [Kinds -> Nat]
<1>. SUFFICES Typed
  BY DEF TypeOK, Jobs, Labels, Kinds
<1>1. ASSUME NEW c \in Calls, Run(c)
      PROVE  Typed
  <2>0. /\ call[c] \in Jobs /\ Idle \in Jobs /\ Done \in Jobs
        /\ Undone(c) \in Jobs /\ \A r : Missing(c, r) \in Jobs
        /\ Nothing \in Carts
    BY CallTypes, IdleTypes, UndoneTypes DEF Idle, Jobs
  <2>1. ASSUME NEW u \in Customers, Start(c, u)
        PROVE  Typed
    <3>1. cart[u] \in Carts
      BY <1>0
    <3>2. [Idle EXCEPT !.pc = "take", !.by = u, !.want = cart[u]] \in Jobs
      BY <2>0, <3>1 DEF Jobs, Labels
    <3>3. \E j \in Jobs : Become(c, j)
      BY <2>0, <2>1, <3>2 DEF Start
    <3>. QED  BY <1>0, <2>1, <3>3, BecomeTypes DEF Start
  <2>2. ASSUME NEW r \in Rows, Take(c, r)
        PROVE  Typed
    <3>1. Need(c, r) \in Nat
      BY <2>0, WantTypes DEF Need
    <3>2. [call[c] EXCEPT !.taken = @ \cup {r}] \in Jobs
      BY <2>0 DEF Jobs
    <3>3. \E j \in Jobs : Become(c, j)
      BY <2>0, <2>2, <3>2 DEF Take
    <3>4. call' \in [Calls -> Jobs]
      BY <3>3, BecomeTypes
    <3>5. stock' \in [Rows -> Nat]
      BY <1>0, <2>2, <3>1 DEF Take
    <3>. QED  BY <1>0, <2>2, <3>4, <3>5 DEF Take
  <2>11. ASSUME NEW r \in Rows, TakeFails(c, r)
         PROVE  Typed
    <3>1. Need(c, r) \in Nat
      BY <2>0, WantTypes DEF Need
    <3>2. call' \in [Calls -> Jobs] /\ faults' \in [Kinds -> Nat]
      BY <2>0, <2>11, BecomeTypes, FaultTypes DEF TakeFails, Kinds
    <3>3. stock' \in [Rows -> Nat]
      BY <1>0, <2>11, <3>1 DEF TakeFails
    <3>. QED  BY <1>0, <2>11, <3>2, <3>3 DEF TakeFails
  <2>3. CASE ReadAgain(c)
    <3>1. [call[c] EXCEPT !.pc = "order"] \in Jobs
      BY <2>0 DEF Jobs, Labels
    <3>2. \E j \in Jobs : Become(c, j)
      BY <2>0, <2>3, <3>1 DEF ReadAgain
    <3>. QED  BY <1>0, <2>3, <3>2, BecomeTypes DEF ReadAgain
  <2>4. CASE Insert(c)
    <3>1. [call[c] EXCEPT !.pc = "clear", !.made = TRUE] \in Jobs
      BY <2>0 DEF Jobs, Labels
    <3>2. \A r \in Rows : Need(c, r) \in Nat
      BY <2>0, WantTypes DEF Need
    <3>3. booked' \in [Rows -> Nat]
      BY <1>0, <2>4, <3>2 DEF Insert
    <3>. QED  BY <1>0, <2>4, <3>1, <3>3, BecomeTypes DEF Insert
  <2>5. CASE InsertFails(c)
    BY <1>0, <2>0, <2>5, BecomeTypes, FaultTypes DEF InsertFails, Kinds
  <2>6. CASE Clear(c)
    <3>1. cart' \in [Customers -> Carts]
      BY <1>0, <2>0, <2>6 DEF Clear
    <3>. QED  BY <1>0, <2>0, <2>6, <3>1, BecomeTypes DEF Clear
  <2>7. CASE ClearFails(c)
    <3>1. cart' \in [Customers -> Carts]
      BY <1>0, <2>0, <2>7 DEF ClearFails
    <3>. QED
      BY <1>0, <2>0, <2>7, <3>1, BecomeTypes, FaultTypes DEF ClearFails, Kinds
  <2>8. ASSUME NEW r \in Rows, Restore(c, r) \/ RestoreFails(c, r)
        PROVE  Typed
    <3>1. Need(c, r) \in Nat
      BY <2>0, WantTypes DEF Need
    <3>2. [call[c] EXCEPT !.back = @ \ {r}] \in Jobs
      BY <2>0 DEF Jobs
    <3>3. CASE Restore(c, r)
      <4>1. stock' \in [Rows -> Nat]
        BY <1>0, <3>1, <3>3 DEF Restore
      <4>. QED  BY <1>0, <3>2, <3>3, <4>1, BecomeTypes DEF Restore
    <3>4. CASE RestoreFails(c, r)
      BY <1>0, <3>2, <3>4, BecomeTypes, FaultTypes DEF RestoreFails, Kinds
    <3>. QED  BY <2>8, <3>3, <3>4
  <2>9. CASE RestoreEnds(c)
    <3>1. \E j \in Jobs : Become(c, j)
      BY <2>0, <2>9 DEF RestoreEnds
    <3>. QED  BY <1>0, <2>9, <3>1, BecomeTypes DEF RestoreEnds
  <2>10. CASE Crash(c)
    BY <1>0, <2>0, <2>10, BecomeTypes, FaultTypes DEF Crash, Kinds
  <2>. HIDE DEF Typed
  <2>. QED
    BY <1>1, <2>1, <2>2, <2>3, <2>4, <2>5, <2>6, <2>7, <2>8, <2>9, <2>10,
       <2>11
       DEF Run
<1>2. ASSUME NEW r \in Rows, NEW n \in 0..MaxStock, Edit(r, n)
      PROVE  Typed
  <2>1. n \in Nat
    BY <1>2, ConstantsAssumption
  <2>2. faults' \in [Kinds -> Nat]
    BY <1>0, <1>2 DEF Edit, Kinds
  <2>3. supply' \in [Rows -> Int] /\ stock' \in [Rows -> Nat]
    BY <1>0, <1>2, <2>1 DEF Edit
  <2>. QED  BY <1>0, <1>2, <2>2, <2>3 DEF Edit
<1>3. CASE UNCHANGED vars
  BY <1>0, <1>3 DEF vars
<1>. HIDE DEF Typed
<1>. QED  BY <1>1, <1>2, <1>3 DEF Next

(* Every step keeps the types: stocks and quantities sold are never        *)
(* negative, however checkouts, edits, failures and restarts interleave.   *)
THEOREM StockTypes == Spec => []TypeOK
BY TypeInit, TypeNext, PTL DEF Spec

-----------------------------------------------------------------------------
(***************************************************************************)
(* What a step of one checkout does to the sum                             *)
(***************************************************************************)
(* What is held of a row is the total of the shares.                       *)
LEMMA HeldIsTotal ==
  ASSUME NEW r
  PROVE  /\ Held(r) = Total(Shares(r), Calls)
         /\ Held(r)' = Total(Shares(r)', Calls)
<1>. DEFINE share == [c \in Calls |-> IF Holds(c, r) THEN Need(c, r) ELSE 0]
<1>1. Held(r) = Total(share, Calls)
  BY DEF Held, MapThenSumSet, MapThenFoldSet, Total, Totals, IsTotal, First
<1>2. share = Shares(r)
  BY DEF Shares, Share, Keeps, Holds, Need, At
<1>3. Held(r)' = Total(share', Calls)
  BY DEF Held, MapThenSumSet, MapThenFoldSet, Total, Totals, IsTotal, First
<1>4. share' = Shares(r)'
  BY DEF Shares, Share, Keeps, Holds, Need, At
<1>. QED  BY <1>1, <1>2, <1>3, <1>4

LEMMA ShareTypes ==
  ASSUME NEW j \in Jobs, NEW r \in Rows
  PROVE  Share(j, r) \in Nat
BY WantTypes DEF Share

LEMMA SharesTypes ==
  ASSUME TypeOK, NEW r \in Rows
  PROVE  Shares(r) \in [Calls -> Int]
<1>1. ASSUME NEW c \in Calls
      PROVE  Share(call[c], r) \in Int
  BY CallTypes, ShareTypes
<1>. QED  BY <1>1 DEF Shares

LEMMA HeldTypes ==
  ASSUME TypeOK, NEW r \in Rows
  PROVE  Held(r) \in Int
<1>1. Total(Shares(r), Calls) \in Int
  BY SharesTypes, TotalInt, ConstantsAssumption DEF Total
<1>. QED  BY <1>1, HeldIsTotal

(* When one checkout moves, what is held of a row changes by the           *)
(* difference of its shares.                                               *)
LEMMA HeldStep ==
  ASSUME TypeOK, NEW c \in Calls, NEW j \in Jobs, Become(c, j), NEW r \in Rows
  PROVE  Held(r)' = Held(r) + (Share(j, r) - Share(call[c], r))
<1>. DEFINE f == Shares(r)
            g == [d \in Calls |-> IF d = c THEN Share(j, r) ELSE f[d]]
<1>1. f \in [Calls -> Int] /\ Share(j, r) \in Int
  BY SharesTypes, ShareTypes
<1>2. g \in [Calls -> Int] /\ g[c] = Share(j, r)
      /\ \A d \in Calls : d # c => f[d] = g[d]
  BY <1>1
<1>3. f[c] = Share(call[c], r)
  BY DEF Shares
<1>4. Shares(r)' = g
  <2>1. call \in [Calls -> Jobs] /\ call' = [call EXCEPT ![c] = j]
    BY DEF TypeOK, Jobs, Labels, Become
  <2>2. ASSUME NEW d \in Calls
        PROVE  Share(call'[d], r) = g[d]
    BY <2>1 DEF Shares
  <2>3. Shares(r)' = [d \in Calls |-> Share(call'[d], r)]
    BY DEF Shares, Share, Keeps
  <2>4. Shares(r)' = [d \in Calls |-> g[d]]
    BY <2>2, <2>3
  <2>. QED  BY <2>4
<1>. HIDE DEF f, g
<1>5. Totals(g, Calls)[Calls] = Totals(f, Calls)[Calls] + (g[c] - f[c])
  <2>1. \A s \in SUBSET Calls :
          Totals(g, Calls)[s] = Totals(f, Calls)[s]
                                  + IF c \in s THEN g[c] - f[c] ELSE 0
    BY <1>1, <1>2, TotalChanged, ConstantsAssumption
  <2>. QED  BY <2>1
<1>6. Held(r) = Total(f, Calls) /\ Held(r)' = Total(g, Calls)
  BY <1>4, HeldIsTotal DEF f
<1>. QED  BY <1>2, <1>3, <1>5, <1>6 DEF Total

(* A step that touches no checkout leaves what they hold.                  *)
LEMMA HeldSame ==
  ASSUME UNCHANGED call, NEW r
  PROVE  Held(r)' = Held(r)
<1>1. Shares(r)' = Shares(r)
  BY DEF Shares, Share, Keeps
<1>. QED  BY <1>1, HeldIsTotal

LEMMA HeldInit ==
  ASSUME Init, NEW r \in Rows
  PROVE  Held(r) = 0
<1>1. TypeOK
  BY TypeInit
<1>2. \A c \in Calls : Shares(r)[c] = 0
  BY DEF Init, Shares, Share, Keeps, Idle
<1>3. Totals(Shares(r), Calls)[Calls] = 0
  BY <1>1, <1>2, SharesTypes, TotalZero, ConstantsAssumption
<1>. QED  BY <1>3, HeldIsTotal DEF Total

(***************************************************************************)
(* The invariant                                                           *)
(***************************************************************************)
(* What a row has on sale, held by the checkout j and sold.                *)
Account(j, r) == stock[r] + Share(j, r) + booked[r]

(* Losses are counted; one more allows one more full quantity.             *)
LEMMA LossTypes ==
  ASSUME TypeOK
  PROVE  /\ Losses \in Nat /\ MaxQty * Losses \in Nat
         /\ MaxQty * (Losses + 1) = MaxQty * Losses + MaxQty
<1>1. faults \in [Kinds -> Nat] /\ MaxQty \in Nat
  BY ConstantsAssumption DEF TypeOK
<1>2. Losses \in Nat
  BY <1>1 DEF Losses, Kinds
<1>3. \A m, n \in Nat : m * n \in Nat /\ m * (n + 1) = m * n + m
  OBVIOUS
<1>. HIDE DEF Losses
<1>. QED  BY <1>1, <1>2, <1>3

LEMMA LossSame ==
  ASSUME faults' = faults
  PROVE  Losses' = Losses
BY DEF Losses

(* A fault of another kind is no loss.                                     *)
LEMMA LossStep ==
  ASSUME TypeOK, NEW k \in Kinds, Happens(k)
  PROVE  Losses' = IF k \in {"take", "restore", "crash"}
                   THEN Losses + 1 ELSE Losses
<1>1. faults \in [Kinds -> Nat] /\ faults' = [faults EXCEPT ![k] = faults[k] + 1]
  BY DEF TypeOK, Happens
<1>. QED  BY <1>1 DEF Losses, Kinds

(* A step of one checkout keeps the invariant when it leaves the checkout  *)
(* sound, loses nothing of a row, or at most one full quantity when it is  *)
(* a loss, and adds nothing to a row of the menu unless the cart could not *)
(* be cleared.                                                             *)
LEMMA AnyStep ==
  ASSUME StockInv, TypeOK', NEW c \in Calls, NEW j \in Jobs, Become(c, j),
         supply' = supply, Sound(j, faults'["clear"] = 0),
         \A k \in Kinds : faults[k] <= faults'[k],
         NEW b \in [Rows -> Nat], booked' = b,
         NEW spill \in {0, 1}, Losses' = Losses + spill,
         \A r \in Rows :
           stock'[r] + Share(j, r) + b[r] + (IF spill = 1 THEN MaxQty ELSE 0)
             >= Account(call[c], r),
         faults'["clear"] = 0 =>
           \A r \in MenuRows :
             stock'[r] + Share(j, r) + b[r] <= Account(call[c], r)
  PROVE  StockInv'
<1>0. /\ stock \in [Rows -> Nat] /\ booked \in [Rows -> Nat]
      /\ stock' \in [Rows -> Nat] /\ booked' \in [Rows -> Nat]
      /\ supply \in [Rows -> Int] /\ call \in [Calls -> Jobs]
      /\ faults \in [Kinds -> Nat] /\ faults' \in [Kinds -> Nat]
      /\ TypeOK
  BY DEF StockInv, TypeOK, Jobs, Labels, Kinds
<1>1. \A k \in Kinds : faults'[k] = 0 => faults[k] = 0
  BY <1>0
<1>2. ASSUME NEW r \in Rows
      PROVE  /\ Held(r)' = Held(r) + (Share(j, r) - Share(call[c], r))
             /\ Held(r) \in Int /\ Share(j, r) \in Nat
             /\ Share(call[c], r) \in Nat
             /\ stock[r] \in Nat /\ stock'[r] \in Nat /\ b[r] \in Nat
             /\ booked[r] \in Nat /\ supply[r] \in Int
             /\ booked'[r] = b[r] /\ supply'[r] = supply[r]
  BY <1>0, HeldStep, HeldTypes, ShareTypes
<1>3. AllSound'
  <2>1. call' = [call EXCEPT ![c] = j]
    BY DEF Become
  <2>2. ASSUME NEW d \in Calls
        PROVE  Sound(call'[d], faults'["clear"] = 0)
    <3>1. CASE d = c
      BY <1>0, <2>1, <3>1
    <3>2. CASE d # c
      <4>1. call'[d] = call[d]
        BY <1>0, <2>1, <3>2
      <4>2. Sound(call[d], faults["clear"] = 0)
        BY DEF StockInv, AllSound
      <4>. QED  BY <1>1, <4>1, <4>2 DEF Sound, Kinds
    <3>. QED  BY <3>1, <3>2
  <2>. QED  BY <2>2 DEF AllSound, Sound, InOrder
<1>4. NothingLost'
  <2>. SUFFICES ASSUME NEW r \in Rows
                PROVE  stock'[r] + Held(r)' + booked'[r] + MaxQty * Losses'
                         >= supply'[r]
    BY DEF NothingLost
  <2>. DEFINE m == MaxQty * Losses
              more == IF spill = 1 THEN MaxQty ELSE 0
  <2>0. m \in Nat /\ MaxQty \in Nat /\ Losses \in Nat
    BY <1>0, LossTypes, ConstantsAssumption
  <2>1. stock[r] + Held(r) + booked[r] + m >= supply[r]
    BY DEF StockInv, NothingLost
  <2>2. stock'[r] + Share(j, r) + b[r] + more
          >= stock[r] + Share(call[c], r) + booked[r]
    BY DEF Account
  <2>3. MaxQty * Losses' = m + more
    <3>1. CASE spill = 0
      BY <2>0, <3>1
    <3>2. CASE spill = 1
      BY <1>0, <3>2, LossTypes
    <3>. QED  BY <3>1, <3>2
  <2>4. more \in Nat
    BY <2>0
  <2>. HIDE DEF m, more
  <2>. QED  BY <1>2, <2>0, <2>1, <2>2, <2>3, <2>4
<1>5. MenuNotOversold'
  <2>. SUFFICES ASSUME faults'["clear"] = 0, NEW r \in MenuRows
                PROVE  stock'[r] + Held(r)' + booked'[r] <= supply'[r]
    BY DEF MenuNotOversold, Covered
  <2>0. r \in Rows
    BY MenuRowIs
  <2>1. stock[r] + Held(r) + booked[r] <= supply[r]
    BY <1>1 DEF StockInv, MenuNotOversold, Covered, Kinds
  <2>2. stock'[r] + Share(j, r) + b[r]
          <= stock[r] + Share(call[c], r) + booked[r]
    BY DEF Account
  <2>. QED  BY <1>2, <2>0, <2>1, <2>2
<1>. QED  BY <1>3, <1>4, <1>5 DEF StockInv

(* The two cases: a step that loses nothing, and one that is a loss.       *)
LEMMA CallStep ==
  ASSUME StockInv, TypeOK', NEW c \in Calls, NEW j \in Jobs, Become(c, j),
         supply' = supply, Sound(j, faults'["clear"] = 0),
         \A k \in Kinds : faults[k] <= faults'[k],
         NEW b \in [Rows -> Nat], booked' = b,
         Losses' = Losses,
         \A r \in Rows :
           stock'[r] + Share(j, r) + b[r] >= Account(call[c], r),
         faults'["clear"] = 0 =>
           \A r \in MenuRows :
             stock'[r] + Share(j, r) + b[r] <= Account(call[c], r)
  PROVE  StockInv'
<1>0. TypeOK /\ TypeOK'
  BY DEF StockInv
<1>1. Losses \in Nat
  BY <1>0, LossTypes
<1>2. ASSUME NEW r \in Rows
      PROVE  stock'[r] + Share(j, r) + b[r] + 0 >= Account(call[c], r)
  <2>1. stock'[r] \in Nat /\ Share(j, r) \in Nat /\ b[r] \in Nat
    BY <1>0, ShareTypes DEF TypeOK
  <2>. QED  BY <2>1
<1>3. Losses' = Losses + 0
  BY <1>1
<1>. QED  BY <1>2, <1>3, AnyStep

LEMMA CallLoses ==
  ASSUME StockInv, TypeOK', NEW c \in Calls, NEW j \in Jobs, Become(c, j),
         supply' = supply, Sound(j, faults'["clear"] = 0),
         \A k \in Kinds : faults[k] <= faults'[k], booked' = booked,
         Losses' = Losses + 1,
         \A r \in Rows :
           /\ stock'[r] + Share(j, r) + booked[r] + MaxQty
                >= Account(call[c], r)
           /\ stock'[r] + Share(j, r) + booked[r] <= Account(call[c], r)
  PROVE  StockInv'
<1>0. booked \in [Rows -> Nat]
  BY DEF StockInv, TypeOK
<1>1. MenuRows \subseteq Rows
  BY MenuRowIs
<1>. QED  BY <1>0, <1>1, AnyStep

(* The shares of the records a step may leave.                             *)
LEMMA ShareOfResults ==
  ASSUME TypeOK, NEW c \in Calls, NEW r \in Rows
  PROVE  /\ Share(Idle, r) = 0 /\ Share(Done, r) = 0
         /\ Share(Undone(c), r) =
              IF ~call[c].made /\ r \in call[c].taken THEN Need(c, r) ELSE 0
         /\ \A q : Share(Missing(c, q), r) = Share(Undone(c), r)
<1>0. call[c] \in Jobs /\ Undone(c) \in Jobs
  BY CallTypes, UndoneTypes
<1>1. Share(Idle, r) = 0 /\ Share(Done, r) = 0
  BY DEF Share, Keeps, Idle, Done
<1>2. /\ Undone(c).pc = "undo" /\ Undone(c).made = call[c].made
      /\ Undone(c).back = call[c].taken /\ Undone(c).want = call[c].want
  BY <1>0 DEF Undone, Jobs
<1>3. Share(Undone(c), r) =
        IF ~call[c].made /\ r \in call[c].taken THEN Need(c, r) ELSE 0
  BY <1>2 DEF Share, Keeps, Need
<1>4. ASSUME NEW q
      PROVE  Share(Missing(c, q), r) = Share(Undone(c), r)
  <2>1. \A again : LET j == [Undone(c) EXCEPT !.again = again]
                   IN  /\ j.pc = Undone(c).pc /\ j.made = Undone(c).made
                       /\ j.back = Undone(c).back /\ j.want = Undone(c).want
    BY <1>0 DEF Jobs
  <2>. QED  BY <1>2, <2>1 DEF Missing, Share, Keeps
<1>. QED  BY <1>1, <1>3, <1>4

LEMMA SoundResults ==
  ASSUME TypeOK, NEW c \in Calls, NEW cleared
  PROVE  /\ Sound(Done, cleared)
         /\ (cleared => ~call[c].made) => Sound(Undone(c), cleared)
         /\ \A r : (cleared => ~call[c].made)
                     /\ (r \notin MenuRows => call[c].taken \cap MenuRows = {})
                     => Sound(Missing(c, r), cleared)
<1>0. call[c] \in Jobs /\ Undone(c) \in Jobs
  BY CallTypes, UndoneTypes
<1>1. Sound(Done, cleared)
  BY DEF Sound, Done, Idle
<1>2. /\ Undone(c).pc = "undo" /\ Undone(c).made = call[c].made
      /\ Undone(c).again = FALSE /\ Undone(c).taken = call[c].taken
  BY <1>0 DEF Undone, Jobs
<1>3. (cleared => ~call[c].made) => Sound(Undone(c), cleared)
  BY <1>2 DEF Sound
<1>4. ASSUME NEW r, cleared => ~call[c].made,
             r \notin MenuRows => call[c].taken \cap MenuRows = {}
      PROVE  Sound(Missing(c, r), cleared)
  <2>1. /\ Missing(c, r).pc = "undo" /\ Missing(c, r).made = call[c].made
        /\ Missing(c, r).again = (r \notin MenuRows)
        /\ Missing(c, r).taken = call[c].taken
    BY <1>0, <1>2 DEF Missing, Jobs
  <2>. QED  BY <1>4, <2>1 DEF Sound
<1>. QED  BY <1>1, <1>3, <1>4

LEMMA StartKeeps ==
  ASSUME StockInv, TypeOK', NEW c \in Calls, NEW u \in Customers, Start(c, u)
  PROVE  StockInv'
<1>0. /\ TypeOK /\ call[c].pc = "idle" /\ cart[u] \in Carts
      /\ booked \in [Rows -> Nat] /\ stock \in [Rows -> Nat]
      /\ faults \in [Kinds -> Nat]
  BY DEF StockInv, TypeOK, Start, At, Kinds
<1>. DEFINE k == [Idle EXCEPT !.pc = "take", !.by = u, !.want = cart[u]]
<1>1. /\ k \in Jobs /\ Done \in Jobs /\ k.pc = "take" /\ k.taken = {}
      /\ ~k.made
  BY <1>0, IdleTypes DEF Idle, Jobs, Labels
<1>2. PICK j \in {k, Done} : Become(c, j)
  BY DEF Start
<1>3. Sound(j, faults["clear"] = 0)
  <2>1. Sound(k, faults["clear"] = 0)
    BY <1>1 DEF Sound, InOrder
  <2>. QED  BY <1>0, <2>1, SoundResults
<1>4. ASSUME NEW r \in Rows
      PROVE  Share(j, r) = 0 /\ Share(call[c], r) = 0
  <2>1. Share(k, r) = 0
    BY <1>1 DEF Share, Keeps
  <2>2. Share(call[c], r) = 0
    BY <1>0 DEF Share, Keeps
  <2>. QED  BY <1>0, <2>1, <2>2, ShareOfResults
<1>5. \A r \in Rows : stock[r] + Share(j, r) + booked[r] = Account(call[c], r)
                      /\ Account(call[c], r) \in Nat
  BY <1>0, <1>4 DEF Account
<1>. HIDE DEF k
<1>6. /\ supply' = supply /\ faults' = faults /\ stock' = stock
      /\ booked' = booked /\ j \in Jobs /\ MenuRows \subseteq Rows
  BY <1>1, MenuRowIs DEF Start
<1>. QED BY <1>0, <1>2, <1>3, <1>5, <1>6, LossSame,
       CallStep

LEMMA TakeKeeps ==
  ASSUME StockInv, TypeOK', NEW c \in Calls, NEW r \in Rows, Take(c, r)
  PROVE  StockInv'
<1>0. /\ TypeOK /\ call[c].pc = "take" /\ call[c] \in Jobs
      /\ booked \in [Rows -> Nat] /\ stock \in [Rows -> Nat]
      /\ faults \in [Kinds -> Nat]
  BY CallTypes DEF StockInv, TypeOK, Take, At, Kinds
<1>1. /\ ~call[c].made /\ InOrder(call[c])
  BY <1>0 DEF StockInv, AllSound, Sound
<1>2. /\ r \notin call[c].taken /\ call[c].want[r[2]] > 0
      /\ \A q \in Rows : call[c].want[q[2]] > 0 /\ q \notin call[c].taken
                           => r[1] <= q[1]
  BY DEF Take, Todo, Need
<1>3. /\ supply' = supply /\ faults' = faults /\ booked' = booked
      /\ MenuRows \subseteq Rows
      /\ \A q \in Rows : q[1] \in 1..4 /\ Need(c, q) \in Nat
  BY <1>0, MenuRowIs, RowParts, WantTypes DEF Take, Need
<1>4. CASE stock[r] >= Need(c, r)
  <2>. DEFINE j == [call[c] EXCEPT !.taken = @ \cup {r}]
  <2>1. /\ j \in Jobs /\ j.pc = "take" /\ j.made = call[c].made
        /\ j.taken = call[c].taken \cup {r} /\ j.want = call[c].want
    BY <1>0 DEF Jobs
  <2>2. Become(c, j) /\ stock' = [stock EXCEPT ![r] = @ - Need(c, r)]
    BY <1>4 DEF Take
  <2>. HIDE DEF j
  <2>3. Sound(j, faults["clear"] = 0)
    <3>1. InOrder(j)
      <4>. SUFFICES ASSUME NEW q \in j.taken, NEW s \in Rows,
                           j.want[s[2]] > 0, s \notin j.taken
                    PROVE  q[1] <= s[1]
        BY DEF InOrder
      <4>. QED  BY <1>1, <1>2, <2>1 DEF InOrder
    <3>. QED  BY <1>1, <2>1, <3>1 DEF Sound
  <2>4. ASSUME NEW q \in Rows
        PROVE  /\ stock'[q] + Share(j, q) + booked[q] = Account(call[c], q)
               /\ Account(call[c], q) \in Nat
    <3>1. CASE q = r
      <4>1. Share(call[c], q) = 0 /\ Share(j, q) = Need(c, q)
        BY <1>0, <1>2, <2>1, <3>1 DEF Share, Keeps, Need
      <4>2. stock'[q] = stock[q] - Need(c, q)
        BY <1>0, <2>2, <3>1
      <4>. QED  BY <1>0, <1>3, <4>1, <4>2 DEF Account
    <3>2. CASE q # r
      <4>1. Share(call[c], q) = Share(j, q)
        BY <1>0, <2>1, <3>2 DEF Share, Keeps
      <4>2. stock'[q] = stock[q]
        BY <1>0, <2>2, <3>2
      <4>3. Share(j, q) \in Nat
        BY <2>1, ShareTypes
      <4>. QED  BY <1>0, <4>1, <4>2, <4>3 DEF Account
    <3>. QED  BY <3>1, <3>2
  <2>. QED BY <1>0, <1>3, <2>1, <2>2, <2>3, <2>4, LossSame,
       CallStep
<1>5. CASE ~(stock[r] >= Need(c, r))
  <2>. DEFINE j == Missing(c, r)
  <2>1. j \in Jobs /\ Become(c, j) /\ stock' = stock
    BY <1>0, <1>5, UndoneTypes DEF Take
  <2>2. r \notin MenuRows => call[c].taken \cap MenuRows = {}
    <3>. SUFFICES ASSUME r \notin MenuRows, NEW q \in call[c].taken,
                         q \in MenuRows
                  PROVE  FALSE
      OBVIOUS
    <3>1. q[1] <= r[1] /\ q[1] \in {3, 4} /\ r[1] \in {1, 2}
      BY <1>1, <1>2, <1>3, MenuRowIs DEF InOrder
    <3>. QED  BY <3>1
  <2>3. Sound(j, faults["clear"] = 0)
    BY <1>0, <1>1, <2>2, SoundResults
  <2>4. ASSUME NEW q \in Rows
        PROVE  /\ stock[q] + Share(j, q) + booked[q] = Account(call[c], q)
               /\ Account(call[c], q) \in Nat
    <3>1. Share(j, q) = Share(call[c], q)
      BY <1>0, <1>1, ShareOfResults DEF Share, Keeps, Need
    <3>2. Share(call[c], q) \in Nat
      BY <1>0, ShareTypes
    <3>. QED  BY <1>0, <3>1, <3>2 DEF Account
  <2>. HIDE DEF j
  <2>. QED BY <1>0, <1>3, <2>1, <2>3, <2>4, LossSame,
       CallStep
<1>. QED  BY <1>4, <1>5

(* A decrement that throws: what the checkout holds is given back, the row  *)
(* it was about to list is at most one full quantity short.                *)
LEMMA TakeFailsKeeps ==
  ASSUME StockInv, TypeOK', NEW c \in Calls, NEW r \in Rows, TakeFails(c, r)
  PROVE  StockInv'
<1>0. /\ TypeOK /\ call[c].pc = "take" /\ call[c] \in Jobs
      /\ booked \in [Rows -> Nat] /\ stock \in [Rows -> Nat]
  BY CallTypes DEF StockInv, TypeOK, TakeFails, At
<1>1. ~call[c].made
  BY <1>0 DEF StockInv, AllSound, Sound
<1>2. /\ Become(c, Undone(c)) /\ Undone(c) \in Jobs
      /\ Sound(Undone(c), faults'["clear"] = 0)
  BY <1>0, <1>1, UndoneTypes, SoundResults DEF TakeFails
<1>3. ASSUME NEW q \in Rows
      PROVE  /\ stock[q] - stock'[q] \in 0..MaxQty
             /\ stock'[q] \in Nat /\ MaxQty \in Nat
  <2>1. Need(c, r) \in 0..MaxQty /\ MaxQty \in Nat
    BY <1>0, WantTypes, WantBound, ConstantsAssumption DEF Need
  <2>2. \/ stock'[q] = stock[q]
        \/ stock[q] >= Need(c, r) /\ stock'[q] = stock[q] - Need(c, r)
    BY <1>0 DEF TakeFails
  <2>3. stock[q] \in Nat
    BY <1>0
  <2>. QED  BY <2>1, <2>2, <2>3
<1>4. ASSUME NEW q \in Rows
      PROVE  /\ stock'[q] + Share(Undone(c), q) + booked[q] + MaxQty
                  >= Account(call[c], q)
             /\ stock'[q] + Share(Undone(c), q) + booked[q]
                  <= Account(call[c], q)
  <2>1. Share(Undone(c), q) = Share(call[c], q)
    BY <1>0, <1>1, ShareOfResults DEF Share, Keeps, Need
  <2>2. Share(call[c], q) \in Nat /\ stock[q] \in Nat /\ booked[q] \in Nat
    BY <1>0, ShareTypes
  <2>. QED  BY <1>3, <2>1, <2>2 DEF Account
<1>5. /\ supply' = supply /\ booked' = booked /\ Losses' = Losses + 1
      /\ \A k \in Kinds : faults[k] <= faults'[k]
  BY <1>0, LossStep, FaultTypes DEF TakeFails, Kinds
<1>. QED  BY <1>2, <1>4, <1>5, CallLoses

LEMMA ReadAgainKeeps ==
  ASSUME StockInv, TypeOK', NEW c \in Calls, ReadAgain(c)
  PROVE  StockInv'
<1>0. /\ TypeOK /\ call[c].pc = "take" /\ call[c] \in Jobs
      /\ booked \in [Rows -> Nat] /\ stock \in [Rows -> Nat]
      /\ faults \in [Kinds -> Nat]
  BY CallTypes DEF StockInv, TypeOK, ReadAgain, At, Kinds
<1>1. ~call[c].made
  BY <1>0 DEF StockInv, AllSound, Sound
<1>. DEFINE k == [call[c] EXCEPT !.pc = "order"]
<1>2. /\ k \in Jobs /\ k.pc = "order" /\ k.made = call[c].made
      /\ k.taken = call[c].taken /\ k.want = call[c].want
  BY <1>0 DEF Jobs, Labels
<1>3. PICK j \in {k, Undone(c)} : Become(c, j)
  BY DEF ReadAgain
<1>. HIDE DEF k
<1>4. Sound(j, faults["clear"] = 0)
  <2>1. Sound(k, faults["clear"] = 0)
    BY <1>1, <1>2 DEF Sound
  <2>2. Sound(Undone(c), faults["clear"] = 0)
    BY <1>0, <1>1, SoundResults
  <2>. QED  BY <2>1, <2>2
<1>5. ASSUME NEW q \in Rows
      PROVE  /\ stock[q] + Share(j, q) + booked[q] = Account(call[c], q)
             /\ Account(call[c], q) \in Nat
  <2>1. Share(k, q) = Share(call[c], q)
    BY <1>0, <1>2 DEF Share, Keeps
  <2>2. Share(Undone(c), q) = Share(call[c], q)
    BY <1>0, <1>1, ShareOfResults DEF Share, Keeps, Need
  <2>3. Share(call[c], q) \in Nat
    BY <1>0, ShareTypes
  <2>. QED  BY <1>0, <2>1, <2>2, <2>3 DEF Account
<1>6. /\ supply' = supply /\ faults' = faults /\ stock' = stock
      /\ booked' = booked /\ j \in Jobs /\ MenuRows \subseteq Rows
  BY <1>0, <1>2, MenuRowIs, UndoneTypes DEF ReadAgain
<1>. QED BY <1>0, <1>3, <1>4, <1>5, <1>6, LossSame,
       CallStep

LEMMA InsertKeeps ==
  ASSUME StockInv, TypeOK', NEW c \in Calls, Insert(c)
  PROVE  StockInv'
<1>0. /\ TypeOK /\ call[c].pc = "order" /\ call[c] \in Jobs
      /\ booked \in [Rows -> Nat] /\ booked' \in [Rows -> Nat]
      /\ stock \in [Rows -> Nat] /\ faults \in [Kinds -> Nat]
  BY CallTypes DEF StockInv, TypeOK, Insert, At, Kinds
<1>. DEFINE j == [call[c] EXCEPT !.pc = "clear", !.made = TRUE]
<1>1. Become(c, j) /\ j \in Jobs /\ j.pc = "clear"
  BY <1>0 DEF Insert, Jobs, Labels
<1>. HIDE DEF j
<1>2. Sound(j, faults["clear"] = 0)
  BY <1>1 DEF Sound
<1>3. ASSUME NEW q \in Rows
      PROVE  /\ stock[q] + Share(j, q) + booked'[q] = Account(call[c], q)
             /\ Account(call[c], q) \in Nat
  <2>1. Share(j, q) = 0
    BY <1>1 DEF Share, Keeps
  <2>2. booked'[q] = booked[q] + Share(call[c], q)
    <3>1. booked'[q] = IF q \in call[c].taken
                       THEN booked[q] + Need(c, q) ELSE booked[q]
      BY DEF Insert
    <3>2. Share(call[c], q) = IF q \in call[c].taken THEN Need(c, q) ELSE 0
      BY <1>0 DEF Share, Keeps, Need
    <3>3. booked[q] \in Nat
      BY <1>0
    <3>. QED  BY <3>1, <3>2, <3>3
  <2>3. Share(call[c], q) \in Nat /\ booked[q] \in Nat /\ stock[q] \in Nat
    BY <1>0, ShareTypes
  <2>. QED  BY <2>1, <2>2, <2>3 DEF Account
<1>4. /\ supply' = supply /\ faults' = faults /\ stock' = stock
      /\ MenuRows \subseteq Rows
  BY MenuRowIs DEF Insert
<1>5. PICK b \in [Rows -> Nat] : b = booked'
  BY <1>0
<1>. QED BY <1>0, <1>1, <1>2, <1>3, <1>4, <1>5, LossSame,
       CallStep

LEMMA InsertFailsKeeps ==
  ASSUME StockInv, TypeOK', NEW c \in Calls, InsertFails(c)
  PROVE  StockInv'
<1>0. /\ TypeOK /\ call[c].pc = "order" /\ call[c] \in Jobs
      /\ booked \in [Rows -> Nat] /\ stock \in [Rows -> Nat]
  BY CallTypes DEF StockInv, TypeOK, InsertFails, At
<1>1. ~call[c].made
  BY <1>0 DEF StockInv, AllSound, Sound
<1>2. /\ Become(c, Undone(c)) /\ Undone(c) \in Jobs
      /\ Sound(Undone(c), faults'["clear"] = 0)
  BY <1>0, <1>1, UndoneTypes, SoundResults DEF InsertFails
<1>3. ASSUME NEW q \in Rows
      PROVE  /\ stock[q] + Share(Undone(c), q) + booked[q] = Account(call[c], q)
             /\ Account(call[c], q) \in Nat
  <2>1. Share(Undone(c), q) = Share(call[c], q)
    BY <1>0, <1>1, ShareOfResults DEF Share, Keeps, Need
  <2>2. Share(call[c], q) \in Nat
    BY <1>0, ShareTypes
  <2>. QED  BY <1>0, <2>1, <2>2 DEF Account
<1>4. /\ supply' = supply /\ stock' = stock /\ booked' = booked
      /\ MenuRows \subseteq Rows /\ \A k \in Kinds : faults[k] <= faults'[k]
  BY <1>0, MenuRowIs, FaultTypes DEF InsertFails, Kinds
<1>5. Losses' = Losses
  BY <1>0, LossStep DEF InsertFails, Kinds
<1>. QED  BY <1>0, <1>2, <1>3, <1>4, <1>5, CallStep

LEMMA ClearKeeps ==
  ASSUME StockInv, TypeOK', NEW c \in Calls, Clear(c)
  PROVE  StockInv'
<1>0. /\ TypeOK /\ call[c].pc = "clear" /\ call[c] \in Jobs
      /\ booked \in [Rows -> Nat] /\ stock \in [Rows -> Nat]
      /\ faults \in [Kinds -> Nat]
  BY CallTypes DEF StockInv, TypeOK, Clear, At, Kinds
<1>1. Become(c, Done) /\ Done \in Jobs /\ Sound(Done, faults["clear"] = 0)
  BY <1>0, IdleTypes, SoundResults DEF Clear
<1>2. ASSUME NEW q \in Rows
      PROVE  /\ stock[q] + Share(Done, q) + booked[q] = Account(call[c], q)
             /\ Account(call[c], q) \in Nat
  <2>1. Share(Done, q) = 0 /\ Share(call[c], q) = 0
    BY <1>0, ShareOfResults DEF Share, Keeps
  <2>. QED  BY <1>0, <2>1 DEF Account
<1>3. /\ supply' = supply /\ faults' = faults /\ stock' = stock
      /\ booked' = booked /\ MenuRows \subseteq Rows
  BY MenuRowIs DEF Clear
<1>. QED BY <1>0, <1>1, <1>2, <1>3, LossSame,
       CallStep

LEMMA ClearFailsKeeps ==
  ASSUME StockInv, TypeOK', NEW c \in Calls, ClearFails(c)
  PROVE  StockInv'
<1>0. /\ TypeOK /\ call[c].pc = "clear" /\ call[c] \in Jobs
      /\ booked \in [Rows -> Nat] /\ stock \in [Rows -> Nat]
  BY CallTypes DEF StockInv, TypeOK, ClearFails, At
<1>1. /\ faults' \in [Kinds -> Nat] /\ faults'["clear"] > 0
      /\ \A k \in Kinds : faults[k] <= faults'[k]
  BY <1>0, FaultTypes DEF ClearFails, Kinds
<1>2. /\ Become(c, Undone(c)) /\ Undone(c) \in Jobs
      /\ Sound(Undone(c), faults'["clear"] = 0)
  <2>1. ~(faults'["clear"] = 0)
    BY <1>1 DEF Kinds
  <2>. DEFINE cleared == faults'["clear"] = 0
  <2>2. ~cleared
    BY <2>1
  <2>. HIDE DEF cleared
  <2>3. Sound(Undone(c), cleared)
    BY <1>0, <2>2, SoundResults
  <2>. QED  BY <1>0, <2>3, UndoneTypes DEF ClearFails, cleared
<1>3. ASSUME NEW q \in Rows
      PROVE  stock[q] + Share(Undone(c), q) + booked[q] >= Account(call[c], q)
  <2>1. Share(call[c], q) = 0 /\ Share(Undone(c), q) \in Nat
    BY <1>0, <1>2, ShareTypes DEF Share, Keeps
  <2>. QED  BY <1>0, <2>1 DEF Account
<1>4. /\ supply' = supply /\ stock' = stock /\ booked' = booked
      /\ Losses' = Losses
  BY <1>0, LossStep DEF ClearFails, Kinds
<1>. QED  BY <1>0, <1>1, <1>2, <1>3, <1>4, CallStep

(* Giving a row back moves it from what is held to what is left.           *)
LEMMA RestoreKeeps ==
  ASSUME StockInv, TypeOK', NEW c \in Calls, NEW r \in Rows,
         Restore(c, r) \/ RestoreFails(c, r)
  PROVE  StockInv'
<1>0. /\ TypeOK /\ call[c].pc = "undo" /\ call[c] \in Jobs
      /\ booked \in [Rows -> Nat] /\ stock \in [Rows -> Nat]
      /\ faults \in [Kinds -> Nat] /\ r \in call[c].back
  BY CallTypes DEF StockInv, TypeOK, Restore, RestoreFails, At, Kinds
<1>. DEFINE j == [call[c] EXCEPT !.back = @ \ {r}]
<1>1. /\ j \in Jobs /\ j.pc = "undo" /\ j.made = call[c].made
      /\ j.back = call[c].back \ {r} /\ j.want = call[c].want
      /\ j.again = call[c].again /\ j.taken = call[c].taken
  BY <1>0 DEF Jobs
<1>2. Become(c, j) /\ supply' = supply /\ booked' = booked
  BY DEF Restore, RestoreFails
<1>. HIDE DEF j
<1>3. \A k \in Kinds : faults[k] <= faults'[k]
  BY <1>0, FaultTypes DEF Restore, RestoreFails, Kinds
<1>4. Sound(j, faults'["clear"] = 0)
  <2>1. Sound(call[c], faults["clear"] = 0)
    BY DEF StockInv, AllSound
  <2>2. faults'["clear"] = 0 => faults["clear"] = 0
    <3>1. faults' \in [Kinds -> Nat]
      BY DEF TypeOK, Kinds
    <3>. QED  BY <1>0, <1>3, <3>1 DEF Kinds
  <2>. QED  BY <1>0, <1>1, <2>1, <2>2 DEF Sound
<1>5. faults'["clear"] = 0 => ~call[c].made
  BY <1>1, <1>4 DEF Sound
<1>6. ASSUME NEW q \in Rows
      PROVE  /\ q # r => Share(j, q) = Share(call[c], q)
             /\ Share(j, r) = 0
             /\ Share(call[c], r) = IF call[c].made THEN 0 ELSE Need(c, r)
             /\ Share(call[c], q) \in Nat /\ Need(c, q) \in Nat
             /\ stock[q] \in Nat /\ booked[q] \in Nat
  BY <1>0, <1>1, ShareTypes, WantTypes DEF Share, Keeps, Need
<1>7. MenuRows \subseteq Rows
  BY MenuRowIs
<1>8. CASE Restore(c, r)
  <2>1. ASSUME NEW q \in Rows
        PROVE  stock'[q] = IF q = r THEN stock[q] + Need(c, q) ELSE stock[q]
    BY <1>0, <1>8 DEF Restore
  <2>2. ASSUME NEW q \in Rows
        PROVE  /\ stock'[q] + Share(j, q) + booked[q] >= Account(call[c], q)
               /\ ~call[c].made =>
                    stock'[q] + Share(j, q) + booked[q] <= Account(call[c], q)
    <3>1. CASE q = r
      BY <1>6, <2>1, <3>1 DEF Account
    <3>2. CASE q # r
      BY <1>6, <2>1, <3>2 DEF Account
    <3>. QED  BY <3>1, <3>2
  <2>3. Losses' = Losses
    BY <1>8, LossSame DEF Restore
  <2>. QED  BY <1>0, <1>1, <1>2, <1>3, <1>4, <1>5, <1>7, <2>2, <2>3, CallStep
<1>9. CASE RestoreFails(c, r)
  <2>1. stock' = stock /\ Losses' = Losses + 1
    BY <1>0, <1>9, LossStep DEF RestoreFails, Kinds
  <2>2. Need(c, r) <= MaxQty /\ MaxQty \in Nat
    BY <1>0, WantBound, ConstantsAssumption DEF Need
  <2>3. ASSUME NEW q \in Rows
        PROVE  /\ stock[q] + Share(j, q) + booked[q] + MaxQty
                    >= Account(call[c], q)
               /\ stock[q] + Share(j, q) + booked[q] <= Account(call[c], q)
    <3>1. CASE q = r
      BY <1>6, <2>2, <3>1 DEF Account
    <3>2. CASE q # r
      BY <1>6, <2>2, <3>2 DEF Account
    <3>. QED  BY <3>1, <3>2
  <2>. QED  BY <1>1, <1>2, <1>3, <1>4, <2>1, <2>3, CallLoses
<1>. QED  BY <1>8, <1>9

(* The second rollback holds again what the first gave back: no row of the *)
(* menu is among it.                                                       *)
LEMMA RestoreEndsKeeps ==
  ASSUME StockInv, TypeOK', NEW c \in Calls, RestoreEnds(c)
  PROVE  StockInv'
<1>0. /\ TypeOK /\ call[c].pc = "undo" /\ call[c] \in Jobs
      /\ booked \in [Rows -> Nat] /\ stock \in [Rows -> Nat]
      /\ faults \in [Kinds -> Nat] /\ call[c].back = {}
  BY CallTypes DEF StockInv, TypeOK, RestoreEnds, At, Kinds
<1>1. /\ call[c].again => call[c].taken \cap MenuRows = {}
      /\ faults["clear"] = 0 => ~call[c].made
  BY <1>0 DEF StockInv, AllSound, Sound
<1>2. PICK j \in {Undone(c), Done} :
        Become(c, j) /\ (j = Done \/ call[c].again)
  BY DEF RestoreEnds
<1>3. j \in Jobs /\ Sound(j, faults["clear"] = 0)
  BY <1>0, <1>1, <1>2, UndoneTypes, IdleTypes, SoundResults
<1>4. ASSUME NEW q \in Rows
      PROVE  /\ stock[q] + Share(j, q) + booked[q] >= Account(call[c], q)
             /\ q \in MenuRows =>
                  stock[q] + Share(j, q) + booked[q] <= Account(call[c], q)
  <2>1. Share(call[c], q) = 0 /\ Share(j, q) \in Nat
    BY <1>0, <1>3, ShareTypes DEF Share, Keeps
  <2>2. q \in MenuRows => Share(j, q) = 0
    BY <1>0, <1>1, <1>2, ShareOfResults
  <2>3. stock[q] \in Nat /\ booked[q] \in Nat
    BY <1>0
  <2>. QED  BY <2>1, <2>2, <2>3 DEF Account
<1>5. /\ supply' = supply /\ faults' = faults /\ stock' = stock
      /\ booked' = booked /\ MenuRows \subseteq Rows
  BY MenuRowIs DEF RestoreEnds
<1>. QED  BY <1>0, <1>2, <1>3, <1>4, <1>5, LossSame, CallStep

LEMMA CrashKeeps ==
  ASSUME StockInv, TypeOK', NEW c \in Calls, Crash(c)
  PROVE  StockInv'
<1>0. /\ TypeOK /\ call[c] \in Jobs
      /\ booked \in [Rows -> Nat] /\ stock \in [Rows -> Nat]
  BY CallTypes DEF StockInv, TypeOK
<1>1. /\ faults' \in [Kinds -> Nat] /\ faults'["crash"] > 0
      /\ \A k \in Kinds : faults[k] <= faults'[k]
  BY <1>0, FaultTypes DEF Crash, Kinds
<1>2. /\ Become(c, Done) /\ Done \in Jobs
      /\ Sound(Done, faults'["clear"] = 0)
  BY <1>0, IdleTypes, SoundResults DEF Crash
<1>3. ASSUME NEW q \in Rows
      PROVE  /\ stock[q] + Share(Done, q) + booked[q] + MaxQty
                  >= Account(call[c], q)
             /\ stock[q] + Share(Done, q) + booked[q] <= Account(call[c], q)
  <2>1. /\ Share(Done, q) = 0 /\ Share(call[c], q) \in Nat
        /\ Share(call[c], q) <= MaxQty /\ MaxQty \in Nat
    BY <1>0, ShareTypes, ShareOfResults, WantBound, ConstantsAssumption
       DEF Share
  <2>2. stock[q] \in Nat /\ booked[q] \in Nat
    BY <1>0
  <2>. QED  BY <2>1, <2>2 DEF Account
<1>4. /\ supply' = supply /\ stock' = stock /\ booked' = booked
      /\ Losses' = Losses + 1
  BY <1>0, LossStep DEF Crash, Kinds
<1>. QED  BY <1>1, <1>2, <1>3, <1>4, CallLoses

(* The vendor's edit moves what is left and what was put on sale alike.    *)
LEMMA EditKeeps ==
  ASSUME StockInv, NEW r \in Rows, NEW n \in 0..MaxStock, Edit(r, n)
  PROVE  StockInv'
<1>0. /\ TypeOK /\ TypeOK' /\ stock \in [Rows -> Nat] /\ n \in Int
      /\ supply \in [Rows -> Int] /\ booked \in [Rows -> Nat]
      /\ faults \in [Kinds -> Nat]
  <2>1. [Next]_vars
    BY DEF Next
  <2>. QED  BY <2>1, TypeNext, ConstantsAssumption DEF StockInv, TypeOK, Kinds
<1>1. \A k \in Kinds : k # "edit" => faults'[k] = faults[k]
  BY <1>0 DEF Edit
<1>2. AllSound'
  <2>1. call' = call /\ faults'["clear"] = faults["clear"]
    BY <1>1 DEF Edit, Kinds
  <2>. QED  BY <2>1 DEF StockInv, AllSound, Sound, InOrder
<1>3. ASSUME NEW q \in Rows
      PROVE  /\ stock'[q] - stock[q] = supply'[q] - supply[q]
             /\ stock[q] \in Int /\ stock'[q] \in Int /\ supply[q] \in Int
             /\ supply'[q] \in Int /\ booked[q] \in Int /\ Held(q) \in Int
             /\ booked'[q] = booked[q] /\ Held(q)' = Held(q)
  <2>1. stock' = [stock EXCEPT ![r] = n]
        /\ supply' = [supply EXCEPT ![r] = supply[r] + n - stock[r]]
        /\ booked' = booked /\ UNCHANGED call
    BY DEF Edit
  <2>2. Held(q) \in Int /\ Held(q)' = Held(q)
    BY <1>0, <2>1, HeldTypes, HeldSame
  <2>. QED  BY <1>0, <2>1, <2>2
<1>4. NothingLost'
  <2>. SUFFICES ASSUME NEW q \in Rows
                PROVE  stock'[q] + Held(q)' + booked'[q] + MaxQty * Losses'
                         >= supply'[q]
    BY DEF NothingLost
  <2>. DEFINE m == MaxQty * Losses
  <2>1. stock[q] + Held(q) + booked[q] + m >= supply[q]
    BY DEF StockInv, NothingLost
  <2>2. m \in Nat /\ MaxQty * Losses' = m
    BY <1>0, <1>1, LossTypes DEF Losses, Kinds
  <2>. HIDE DEF m
  <2>. QED  BY <1>3, <2>1, <2>2
<1>5. MenuNotOversold'
  <2>. SUFFICES ASSUME faults'["clear"] = 0, NEW q \in MenuRows
                PROVE  stock'[q] + Held(q)' + booked'[q] <= supply'[q]
    BY DEF MenuNotOversold, Covered
  <2>1. stock[q] + Held(q) + booked[q] <= supply[q] /\ q \in Rows
    BY <1>1, MenuRowIs DEF StockInv, MenuNotOversold, Covered, Kinds
  <2>. QED  BY <1>3, <2>1
<1>. QED  BY <1>0, <1>2, <1>4, <1>5 DEF StockInv

LEMMA StockInit == Init => StockInv
<1>. SUFFICES ASSUME Init  PROVE StockInv
  OBVIOUS
<1>1. TypeOK
  BY TypeInit
<1>2. AllSound
  BY DEF Init, AllSound, Sound, Idle
<1>3. ASSUME NEW r \in Rows
      PROVE  stock[r] + Held(r) + booked[r] = supply[r] /\ supply[r] \in Int
  <2>1. Held(r) = 0 /\ booked[r] = 0 /\ supply[r] = stock[r]
        /\ stock[r] \in Nat
    BY <1>1, HeldInit DEF Init, TypeOK
  <2>. QED  BY <2>1
<1>4. NothingLost
  <2>1. MaxQty * Losses \in Nat
    BY <1>1, LossTypes
  <2>2. ASSUME NEW r \in Rows
        PROVE  stock[r] + Held(r) + booked[r] + MaxQty * Losses >= supply[r]
    <3>1. \A m \in Nat : supply[r] + m >= supply[r]
      BY <1>3
    <3>. QED  BY <1>3, <2>1, <3>1
  <2>. QED  BY <2>2 DEF NothingLost
<1>5. MenuNotOversold
  BY <1>3, MenuRowIs DEF MenuNotOversold, Covered
<1>. QED  BY <1>1, <1>2, <1>4, <1>5 DEF StockInv

LEMMA StockNext == StockInv /\ [Next]_vars => StockInv'
<1>. SUFFICES ASSUME StockInv, [Next]_vars
              PROVE  StockInv'
  OBVIOUS
<1>0. TypeOK'
  BY TypeNext DEF StockInv
<1>1. ASSUME NEW c \in Calls, Run(c)
      PROVE  StockInv'
  BY <1>0, <1>1, StartKeeps, TakeKeeps, TakeFailsKeeps, ReadAgainKeeps, InsertKeeps,
     InsertFailsKeeps, ClearKeeps, ClearFailsKeeps, RestoreKeeps,
     RestoreEndsKeeps, CrashKeeps
     DEF Run
<1>2. ASSUME NEW r \in Rows, NEW n \in 0..MaxStock, Edit(r, n)
      PROVE  StockInv'
  BY <1>2, EditKeeps
<1>3. CASE UNCHANGED vars
  <2>1. UNCHANGED <<stock, supply, booked, faults, call>>
    BY <1>3 DEF vars
  <2>2. \A r : Held(r)' = Held(r)
    BY <2>1, HeldSame
  <2>3. Losses' = Losses
    BY <2>1, LossSame
  <2>. QED
    BY <1>0, <2>1, <2>2, <2>3
       DEF StockInv, AllSound, Sound, InOrder, NothingLost, MenuNotOversold,
           Covered
<1>. QED  BY <1>1, <1>2, <1>3 DEF Next

(* No checkout loses stock, however many overlap and whatever is refused;  *)
(* each restart, failed restore and decrement that throws loses at most    *)
(* what one cart may hold of an article.                                   *)
THEOREM NoStockLost == Spec => []NothingLost
<1>1. StockInv => NothingLost
  BY DEF StockInv
<1>. QED  BY StockInit, StockNext, <1>1, PTL DEF Spec

(* The daily menu is never sold beyond what the vendor put on sale, the    *)
(* double rollback of a missing drink or bundle included, as long as no    *)
(* order's cart failed to be cleared.                                      *)
THEOREM MenuCovered == Spec => []MenuNotOversold
<1>1. StockInv => MenuNotOversold
  BY DEF StockInv
<1>. QED  BY StockInit, StockNext, <1>1, PTL DEF Spec
=============================================================================
