--------------------------- MODULE TimeHeapProofs ---------------------------
(***************************************************************************)
(* Proofs about TimeHeap, for any timers, capacities and delays.           *)
(*                                                                         *)
(* The loops are proved hole by hole: between two of their steps the array *)
(* with the moving timer put into the hole holds every allocated timer     *)
(* once, and is in order everywhere but at the hole.                       *)
(***************************************************************************)
EXTENDS TimeHeap, WellFoundedInduction, TLAPS

(***************************************************************************)
(* The inductive invariant.                                                *)
(***************************************************************************)

InLoop == pc \in {"up", "down"}

\* What the heap holds at place k: the hole counts as filled.
Entry(k) == IF InLoop /\ k = hole THEN moving ELSE array[k]

\* The places that hold a timer already.
Loaded == {k \in Used : pc = "load" => k < i}

\* Where the program is in its loops, and which of its variables mean something there.
Control ==
  /\ pc = "load" => cur_size > 0 /\ i \in 0 .. capacity - 1
  /\ ~(pc \in {"load", "build"} \/ ret = "build") => i = 0
  /\ pc = "build" => i < cur_size
  /\ ~InLoop => ret = "idle" /\ hole = 0
  /\ pc = "up" => ret \in {"idle", "callback"} /\ hole \in Used
  /\ pc = "down" => ret \in {"build", "idle", "scan"} /\ (hole \in Used \/ cur_size = 0)
  /\ ret = "build" => i < hole /\ hole \in Used
  /\ fired # Null <=> pc = "callback" \/ ret = "callback"

\* The places in use hold the allocated timers, each once; and while a hole moves down
\* the hole itself still holds the timer that was there.
Placed ==
  /\ \A k \in Loaded : Entry(k) \in live
  /\ \A t \in live : \E k \in Loaded : Entry(k) = t
  /\ \A j, k \in Loaded : Entry(j) = Entry(k) => j = k
  /\ pc = "down" => \A k \in Used : array[k] \in live

\* Below this place the constructor has not come yet.
Low == IF pc = "build" \/ ret = "build" THEN i + 1 ELSE 0

\* The pairs of a place and its parent that may be out of order.
Unordered(k) ==
  \/ pc = "load"
  \/ pc = "up" /\ k = hole
  \/ pc = "down" /\ Parent(k) = hole

\* Everywhere else the parent does not expire later, and around a hole its parent does
\* not expire later than its children.
Ordered ==
  /\ \A k \in Used \ {0} :
        Parent(k) >= Low /\ ~Unordered(k) => expire[Entry(Parent(k))] <= expire[Entry(k)]
  /\ InLoop /\ hole > 0 /\ Parent(hole) >= Low =>
        \A k \in Used \ {0} : Parent(k) = hole => expire[Entry(Parent(hole))] <= expire[Entry(k)]

\* While its callback runs, and while a timer that the callback added moves up, the timer
\* that fired is at the top: what is added expires later and stops below it.
FiredOnTop ==
  /\ fired # Null => cur_size > 0 /\ array[0] = fired /\ expire[fired] <= cur
  /\ pc = "up" => expire[moving] >= 0
  /\ ret = "callback" => hole > 0

IndInv == TypeOK /\ Control /\ Placed /\ Ordered /\ FiredOnTop

-----------------------------------------------------------------------------
(***************************************************************************)
(* The tree in the array.                                                  *)
(***************************************************************************)

\* A place other than the top is one of the two children of its parent.
LEMMA ParentFacts ==
  ASSUME NEW k \in Nat \ {0}
  PROVE  /\ Parent(k) \in Nat /\ Parent(k) < k
         /\ \A p \in Nat : Parent(k) = p <=> k = 2 * p + 1 \/ k = 2 * p + 2
BY DEF Parent

\* The child that percolate_down looks at is one of the two, is in use if the left one
\* is, and does not expire later than the other.
LEMMA ChildFacts ==
  ASSUME TypeOK, NEW h \in Used, Left(h) <= cur_size - 1,
         \A k \in Used : array[k] \in Timers
  PROVE  /\ Child(h) \in Used \ {0} /\ Parent(Child(h)) = h
         /\ \A k \in Used \ {0} : Parent(k) = h => expire[array[Child(h)]] <= expire[array[k]]
<1>1. h \in Nat /\ cur_size \in Nat /\ Left(h) = 2 * h + 1
  BY DEF TypeOK, Used, Left
<1>2. Child(h) \in {2 * h + 1, 2 * h + 2} /\ Child(h) \in Used
  BY <1>1 DEF Child, Used
<1>3. \A k \in Used \ {0} : k \in Nat \ {0}
  BY <1>1 DEF Used
<1>4. \A k \in Used \ {0} : Parent(k) = h => k \in {2 * h + 1, 2 * h + 2}
  BY <1>1, <1>3, ParentFacts
<1>5. Parent(Child(h)) = h /\ Child(h) # 0
  BY <1>1, <1>2, <1>3, ParentFacts
<1>6. \A k \in Used : expire[array[k]] \in Int
  BY DEF TypeOK
<1>7. \A k \in {2 * h + 1, 2 * h + 2} \cap Used : expire[array[Child(h)]] <= expire[array[k]]
  BY <1>1, <1>6 DEF Child, Used
<1> QED BY <1>2, <1>4, <1>5, <1>7

-----------------------------------------------------------------------------
(***************************************************************************)
(* One move of a hole, seen as the exchange of two values of an array E    *)
(* that is in order but for the hole h.                                    *)
(***************************************************************************)

\* A value that is less than its parent's changes places with it.
LEMMA SwapUp ==
  ASSUME NEW N \in Nat, NEW E \in [0 .. N - 1 -> Int], NEW F \in [0 .. N - 1 -> Int],
         NEW h \in 1 .. N - 1, NEW p \in 0 .. N - 1, p = Parent(h), E[h] < E[p],
         \A k \in 0 .. N - 1 : F[k] = IF k = p THEN E[h] ELSE IF k = h THEN E[p] ELSE E[k],
         \A k \in 1 .. N - 1 : k # h => E[Parent(k)] <= E[k],
         \A k \in 1 .. N - 1 : Parent(k) = h => E[p] <= E[k]
  PROVE  /\ \A k \in 1 .. N - 1 : k # p => F[Parent(k)] <= F[k]
         /\ p > 0 => \A k \in 1 .. N - 1 : Parent(k) = p => F[Parent(p)] <= F[k]
<1>1. \A k \in 1 .. N - 1 : Parent(k) \in 0 .. N - 1 /\ Parent(k) < k
  BY ParentFacts
<1>2. \A k \in 0 .. N - 1 : E[k] \in Int
  OBVIOUS
<1>3. p < h
  BY <1>1
<1>4. ASSUME NEW k \in 1 .. N - 1, k # p PROVE F[Parent(k)] <= F[k]
  <2>1. CASE k = h
    <3>1. F[Parent(k)] = E[h] /\ F[k] = E[p]
      BY <1>3, <2>1
    <3> QED BY <1>2, <3>1
  <2>2. CASE k # h /\ Parent(k) = h
    <3>1. F[Parent(k)] = E[p] /\ F[k] = E[k] /\ E[p] <= E[k]
      BY <1>3, <1>4, <2>2
    <3> QED BY <3>1
  <2>3. CASE k # h /\ Parent(k) = p
    <3>1. F[Parent(k)] = E[h] /\ F[k] = E[k]
      BY <1>3, <1>4, <2>3
    <3>2. E[p] <= E[k]
      BY <2>3
    <3> QED BY <1>2, <3>1, <3>2
  <2>4. CASE k # h /\ Parent(k) # h /\ Parent(k) # p
    <3>1. F[Parent(k)] = E[Parent(k)]
      BY <1>1, <2>4
    <3>2. F[k] = E[k]
      BY <1>4, <2>4
    <3>3. E[Parent(k)] <= E[k]
      BY <2>4
    <3> QED BY <3>1, <3>2, <3>3
  <2> QED BY <2>1, <2>2, <2>3, <2>4
<1>5. ASSUME p > 0, NEW k \in 1 .. N - 1, Parent(k) = p PROVE F[Parent(p)] <= F[k]
  <2>0. p \in 1 .. N - 1
    BY <1>5
  <2> PICK q : q = Parent(p)
    OBVIOUS
  <2>a. q \in 0 .. N - 1 /\ q < p
    BY <1>1, <2>0
  <2>1. p \in 1 .. N - 1 /\ Parent(p) \in 0 .. N - 1 /\ Parent(p) < p /\ Parent(p) < h
    BY <1>3, <2>0, <2>a
  <2>2. F[Parent(p)] = E[Parent(p)] /\ E[Parent(p)] <= E[p]
    BY <1>3, <2>1
  <2>3. k # p
    BY <1>1, <1>5
  <2>4. E[p] <= F[k]
    BY <1>2, <1>5, <2>3
  <2>5. F[k] \in Int
    OBVIOUS
  <2> QED BY <1>2, <2>1, <2>2, <2>4, <2>5
<1> QED BY <1>4, <1>5

\* F is E with the value at h, which is greater than its least child's, exchanged for
\* that of this child c; E is in order from low on but between h and its children.
SinksTo(E, F, N, low, h, c) ==
  /\ N \in Nat /\ E \in [0 .. N - 1 -> Int] /\ F \in [0 .. N - 1 -> Int]
  /\ low \in Int /\ h \in 0 .. N - 1 /\ c \in 1 .. N - 1 /\ Parent(c) = h /\ h >= low
  /\ E[c] < E[h]
  /\ \A k \in 0 .. N - 1 : F[k] = IF k = c THEN E[h] ELSE IF k = h THEN E[c] ELSE E[k]
  /\ \A k \in 1 .. N - 1 : Parent(k) = h => E[c] <= E[k]
  /\ \A k \in 1 .. N - 1 : Parent(k) >= low /\ Parent(k) # h => E[Parent(k)] <= E[k]
  /\ h > 0 /\ Parent(h) >= low => \A k \in 1 .. N - 1 : Parent(k) = h => E[Parent(h)] <= E[k]

\* Then F is in order from low on but between c and its children, and theirs are not less
\* than that at h.
LEMMA SwapDown ==
  ASSUME NEW E, NEW F, NEW N, NEW low, NEW h, NEW c, SinksTo(E, F, N, low, h, c)
  PROVE  /\ \A k \in 1 .. N - 1 : Parent(k) >= low /\ Parent(k) # c => F[Parent(k)] <= F[k]
         /\ \A k \in 1 .. N - 1 : Parent(k) = c => F[h] <= F[k]
<1> USE DEF SinksTo
<1>1. \A k \in 1 .. N - 1 : Parent(k) \in 0 .. N - 1 /\ Parent(k) < k
  BY ParentFacts
<1>2. \A k \in 0 .. N - 1 : E[k] \in Int
  OBVIOUS
<1>3. h < c
  BY <1>1
<1>4. ASSUME NEW k \in 1 .. N - 1, Parent(k) >= low, Parent(k) # c PROVE F[Parent(k)] <= F[k]
  <2>1. CASE k = c
    BY <1>1, <1>2, <1>3, <2>1
  <2>2. CASE k # c /\ Parent(k) = h
    <3>1. k # h /\ F[k] = E[k] /\ F[Parent(k)] = E[c] /\ E[c] <= E[k]
      BY <1>1, <1>3, <2>2
    <3> QED BY <3>1
  <2>3. CASE k = h
    <3>1. h > 0 /\ Parent(h) >= low /\ Parent(h) \in 0 .. N - 1 /\ Parent(h) # h
      BY <1>1, <1>4, <2>3
    <3>2. F[k] = E[c] /\ Parent(k) # k
      BY <1>1, <1>3, <2>3
    <3>3. F[Parent(k)] = E[Parent(k)]
      BY <1>1, <1>4, <2>3, <3>1
    <3>4. E[Parent(k)] <= E[c]
      BY <2>3, <3>1
    <3> QED BY <3>2, <3>3, <3>4
  <2>4. CASE k # c /\ k # h /\ Parent(k) # h
    <3>1. F[Parent(k)] = E[Parent(k)]
      BY <1>1, <1>4, <2>4
    <3>2. F[k] = E[k]
      BY <2>4
    <3>3. E[Parent(k)] <= E[k]
      BY <1>4, <2>4
    <3> QED BY <3>1, <3>2, <3>3
  <2> QED BY <2>1, <2>2, <2>3, <2>4
<1>5. ASSUME NEW k \in 1 .. N - 1, Parent(k) = c PROVE F[h] <= F[k]
  <2>1. k # c /\ k # h /\ c # h /\ c >= low
    BY <1>1, <1>3, <1>5
  <2>2. F[h] = E[c] /\ F[k] = E[k]
    BY <2>1
  <2>3. E[Parent(k)] <= E[k]
    BY <1>5, <2>1
  <2> QED BY <1>5, <2>2, <2>3
<1> QED BY <1>4, <1>5

-----------------------------------------------------------------------------
(***************************************************************************)
(* The loops.                                                              *)
(***************************************************************************)

\* What the places hold, seen from a loop.
LEMMA LoopEntries ==
  ASSUME IndInv, InLoop
  PROVE  /\ Used \subseteq Nat /\ Used \subseteq DOMAIN array /\ Loaded = Used
         /\ \A k \in Used : Entry(k) \in live /\ Entry(k) \in Timers
         /\ \A k \in Used : k # hole => Entry(k) = array[k]
         /\ Entry(hole) = moving
         /\ cur_size \in Nat /\ hole \in Nat /\ i \in Int
         /\ expire \in [Timers -> Int] /\ live \subseteq Timers
<1>1. /\ cur_size \in Nat /\ capacity \in Nat /\ cur_size <= capacity
      /\ DOMAIN array = 0 .. capacity - 1 /\ hole \in Nat /\ i \in Int
      /\ expire \in [Timers -> Int] /\ live \subseteq Timers
  BY DEF IndInv, TypeOK
<1>2. Used \subseteq Nat /\ Used \subseteq DOMAIN array
  BY <1>1 DEF Used
<1>3. Loaded = Used
  BY DEF Loaded, InLoop
<1>4. \A k \in Used : Entry(k) \in live /\ Entry(k) \in Timers
  BY <1>1, <1>3 DEF IndInv, Placed
<1> QED BY <1>1, <1>2, <1>3, <1>4 DEF Entry

\* A hole that moves takes its timer along and leaves behind the one it meets.
LEMMA MoveKeepsPlaced ==
  ASSUME IndInv, InLoop, hole \in Used, NEW q \in Used, q # hole,
         array' = [array EXCEPT ![hole] = array[q]], hole' = q,
         UNCHANGED <<pc, moving, live, cur_size>>
  PROVE  /\ Placed'
         /\ \A k \in Used : Entry(k)' = IF k = q THEN moving
                                        ELSE IF k = hole THEN Entry(q) ELSE Entry(k)
<1>1. Used' = Used /\ Loaded' = Used /\ InLoop'
  BY DEF Used, Loaded, InLoop
<1>2. \A k \in Used : array'[k] = IF k = hole THEN array[q] ELSE array[k]
  BY LoopEntries
<1>3. \A k \in Used : Entry(k)' = IF k = q THEN moving
                                  ELSE IF k = hole THEN Entry(q) ELSE Entry(k)
  BY <1>1, <1>2 DEF Entry
<1>4. \A k \in Used : Entry(k)' \in live'
  BY <1>3, LoopEntries
<1>5. \A t \in live' : \E k \in Used : Entry(k)' = t
  <2> SUFFICES ASSUME NEW t \in live PROVE \E k \in Used : Entry(k)' = t
    OBVIOUS
  <2>1. PICK k \in Used : Entry(k) = t
    BY LoopEntries DEF IndInv, Placed
  <2>2. CASE k = hole
    BY <2>1, <2>2, <1>3, LoopEntries
  <2>3. CASE k = q
    BY <2>1, <2>3, <1>3
  <2>4. CASE k # hole /\ k # q
    BY <2>1, <2>4, <1>3
  <2> QED BY <2>2, <2>3, <2>4
<1>6. \A j, k \in Used : Entry(j)' = Entry(k)' => j = k
  <2>1. \A j, k \in Used : Entry(j) = Entry(k) => j = k
    BY LoopEntries DEF IndInv, Placed
  <2> QED BY <2>1, <1>3, LoopEntries
<1>7. pc' = "down" => \A k \in Used : array'[k] \in live'
  BY <1>2 DEF IndInv, Placed
<1> QED BY <1>1, <1>3, <1>4, <1>5, <1>6, <1>7 DEF Placed

\* A loop that returns has put its timer where the order wants it.
LEMMA FillKeepsInd ==
  ASSUME IndInv, InLoop, Fill,
         UNCHANGED <<capacity, cur_size, live, armed, expire, i, cur, fired>>,
         \A k \in Used \ {0} : Parent(k) >= Low =>
           expire[Entry(Parent(k))] <= expire[Entry(k)]
  PROVE  IndInv'
<1>1. Used' = Used /\ Loaded' = Used /\ ~InLoop' /\ pc' = ret /\ ret' = "idle"
      /\ ret \in {"build", "idle", "scan", "callback"}
  BY DEF Used, Loaded, InLoop, Fill, IndInv, Control
<1>2. \A k \in Used : Entry(k)' = Entry(k)
  BY <1>1, LoopEntries DEF Entry, Fill
<1>3. TypeOK'
  BY DEF IndInv, TypeOK, Fill, Entries
<1>4. Control'
  BY <1>1, LoopEntries DEF IndInv, Control, Fill, InLoop, Used
<1>5. Placed'
  BY <1>1, <1>2, LoopEntries DEF IndInv, Placed, InLoop
<1>6. Ordered'
  <2>1. Low' = Low
    BY <1>1 DEF Low, IndInv, Control, InLoop
  <2>2. \A k \in Used \ {0} : Parent(k) \in Used
    BY LoopEntries, ParentFacts DEF Used
  <2> QED BY <1>1, <1>2, <2>1, <2>2 DEF Ordered
<1>7. FiredOnTop'
  <2>1. fired # Null => 0 \in Used /\ hole # 0
    BY <1>1 DEF IndInv, FiredOnTop, Control, Used, InLoop, TypeOK
  <2>2. fired # Null => array'[0] = array[0]
    BY <2>1, LoopEntries DEF Fill
  <2> QED BY <1>1, <2>2 DEF IndInv, FiredOnTop
<1> QED BY <1>3, <1>4, <1>5, <1>6, <1>7 DEF IndInv

\* add_timer's loop.
LEMMA UpKeepsInd ==
  ASSUME IndInv, Up
  PROVE  IndInv'
<1>1. InLoop /\ hole \in Used /\ pc = "up" /\ Low = 0
      /\ ret \in {"idle", "callback"}
  BY DEF Up, InLoop, IndInv, Control, Low
<1>2. \A k \in Used \ {0} : k \in Nat \ {0} /\ Parent(k) \in Used /\ Parent(k) < k
  BY <1>1, LoopEntries, ParentFacts DEF Used
<1>3. CASE hole = 0 \/ StopsBelow(Parent(hole))
  <2>1. \A k \in Used \ {0} : expire[Entry(Parent(k))] <= expire[Entry(k)]
    <3> SUFFICES ASSUME NEW k \in Used \ {0} PROVE expire[Entry(Parent(k))] <= expire[Entry(k)]
      OBVIOUS
    <3>1. CASE k = hole
      BY <1>1, <1>2, <1>3, <3>1, LoopEntries DEF StopsBelow
    <3>2. CASE k # hole
      BY <1>1, <1>2, <3>2, LoopEntries DEF IndInv, Ordered, Unordered
    <3> QED BY <3>1, <3>2
  <2>2. Fill /\ UNCHANGED <<capacity, cur_size, live, armed, expire, i, cur, fired>>
    BY <1>3 DEF Up
  <2> QED BY <1>1, <2>1, <2>2, FillKeepsInd
<1>4. CASE hole # 0 /\ ~StopsBelow(Parent(hole))
  <2>0. PICK p : p = Parent(hole)
    OBVIOUS
  <2>1. /\ array' = [array EXCEPT ![hole] = array[p]] /\ hole' = p
        /\ UNCHANGED <<pc, ret, moving, capacity, cur_size, live, armed, expire, i, cur, fired>>
    BY <1>4, <2>0 DEF Up
  <2>2. p \in Used /\ p < hole /\ p \in Nat /\ Entry(p) = array[p]
        /\ expire[moving] < expire[Entry(p)]
    BY <1>1, <1>2, <1>4, <2>0, LoopEntries DEF StopsBelow
  <2>3. /\ Placed'
        /\ \A k \in Used : Entry(k)' = IF k = p THEN moving
                                       ELSE IF k = hole THEN Entry(p) ELSE Entry(k)
    <3>1. p # hole
      BY <1>4, <2>2, LoopEntries, <1>1
    <3>2. UNCHANGED <<pc, moving, live, cur_size>>
      BY <2>1
    <3> QED BY <1>1, <2>1, <2>2, <3>1, <3>2, MoveKeepsPlaced
  <2>4. TypeOK'
    BY <1>1, <2>1, <2>2, LoopEntries DEF IndInv, TypeOK, Entries
  <2>5. Control'
    BY <1>1, <2>1, <2>2 DEF IndInv, Control, InLoop, Used
  <2>6. Ordered'
    <3>1. PICK E : E = [k \in 0 .. cur_size - 1 |-> expire[Entry(k)]]
      OBVIOUS
    <3>2. PICK F : F = [k \in 0 .. cur_size - 1 |-> expire'[Entry(k)']]
      OBVIOUS
    <3>3. Used = 0 .. cur_size - 1 /\ Used \ {0} = 1 .. cur_size - 1
      BY LoopEntries, <1>1 DEF Used
    <3>4. E \in [0 .. cur_size - 1 -> Int]
      BY <1>1, <3>1, <3>3, LoopEntries
    <3>5. \A k \in 0 .. cur_size - 1 : F[k] = IF k = p THEN E[hole] ELSE IF k = hole THEN E[p] ELSE E[k]
      BY <1>1, <2>1, <2>2, <2>3, <3>1, <3>2, <3>3, LoopEntries
    <3>6. F \in [0 .. cur_size - 1 -> Int]
      BY <1>1, <2>2, <3>2, <3>3, <3>4, <3>5
    <3>7. \A k \in 1 .. cur_size - 1 : k # hole => E[Parent(k)] <= E[k]
      BY <1>1, <1>2, <3>1, <3>3 DEF IndInv, Ordered, Unordered
    <3>8. \A k \in 1 .. cur_size - 1 : Parent(k) = hole => E[p] <= E[k]
      BY <1>1, <1>2, <1>4, <2>2, <2>0, <3>1, <3>3, LoopEntries DEF IndInv, Ordered
    <3>9. hole \in 1 .. cur_size - 1 /\ E[hole] < E[p] /\ p \in 0 .. cur_size - 1 /\ cur_size \in Nat
      BY <1>1, <1>4, <2>2, <3>1, <3>3, LoopEntries
    <3>10. /\ \A k \in 1 .. cur_size - 1 : k # p => F[Parent(k)] <= F[k]
           /\ p > 0 => \A k \in 1 .. cur_size - 1 : Parent(k) = p => F[Parent(p)] <= F[k]
      BY <2>0, <3>4, <3>5, <3>6, <3>7, <3>8, <3>9, SwapUp
    <3>11. Used' = Used /\ pc' = "up" /\ Low' = 0 /\ InLoop' /\ hole' = p
      BY <1>1, <2>1 DEF Used, Low, InLoop
    <3>12. \A k \in 0 .. cur_size - 1 : F[k] = expire'[Entry(k)']
      BY <3>2
    <3>13. \A k \in 1 .. cur_size - 1 : Parent(k) \in 0 .. cur_size - 1
      BY <1>2, <3>3
    <3>14. \A k \in Used \ {0} : k # p => (expire[Entry(Parent(k))] <= expire[Entry(k)])'
      BY <3>3, <3>10, <3>12, <3>13
    <3>15. p > 0 => \A k \in Used \ {0} : Parent(k) = p => (expire[Entry(Parent(p))] <= expire[Entry(k)])'
      BY <2>2, <3>3, <3>10, <3>12, <3>13
    <3> QED BY <3>11, <3>14, <3>15 DEF Ordered, Unordered, Parent
  <2>7. FiredOnTop'
    <3>1. fired # Null => p # 0
      BY <1>1, <2>2, LoopEntries DEF IndInv, FiredOnTop, TypeOK, Control
    <3>2. fired # Null => array'[0] = array[0]
      BY <1>1, <2>1, <2>2, LoopEntries DEF IndInv, FiredOnTop, Control
    <3> QED BY <1>1, <2>1, <2>2, <3>1, <3>2, LoopEntries DEF IndInv, FiredOnTop, Control, InLoop
  <2> QED BY <2>3, <2>4, <2>5, <2>6, <2>7 DEF IndInv
<1> QED BY <1>3, <1>4

\* percolate_down's loop.
LEMMA DownKeepsInd ==
  ASSUME IndInv, Down
  PROVE  IndInv'
<1>1. /\ InLoop /\ pc = "down" /\ ret \in {"build", "idle", "scan"} /\ fired = Null
      /\ hole \in Used \/ cur_size = 0
      /\ Low \in Int /\ hole >= Low
  BY LoopEntries DEF Down, InLoop, IndInv, Control, Low, TypeOK
<1>2. \A k \in Used \ {0} : k \in Nat \ {0} /\ Parent(k) \in Used /\ Parent(k) < k
  BY <1>1, LoopEntries, ParentFacts DEF Used
<1>3. \A k \in Used : array[k] \in live /\ array[k] \in Timers
  BY <1>1, LoopEntries DEF IndInv, Placed
<1>4. \A k \in Used \ {0} : Parent(k) >= Low /\ Parent(k) # hole =>
        expire[Entry(Parent(k))] <= expire[Entry(k)]
  BY <1>1 DEF IndInv, Ordered, Unordered
<1>5. \A k \in Used \ {0} : Parent(k) = hole =>
        hole \in Used /\ k # hole /\ Entry(k) = array[k] /\ Left(hole) <= cur_size - 1
  <2> SUFFICES ASSUME NEW k \in Used \ {0}, Parent(k) = hole
               PROVE  hole \in Used /\ k # hole /\ Entry(k) = array[k] /\ Left(hole) <= cur_size - 1
    OBVIOUS
  <2>1. hole \in Used /\ hole < k
    BY <1>2
  <2>2. k = 2 * hole + 1 \/ k = 2 * hole + 2
    BY <1>1, <1>2, LoopEntries, ParentFacts
  <2>3. k <= cur_size - 1
    BY DEF Used
  <2> QED BY <1>1, <1>2, <2>1, <2>2, <2>3, LoopEntries DEF Left
<1>6. Left(hole) <= cur_size - 1 => hole \in Used
  BY <1>1, LoopEntries DEF Left, Used
<1>7. ASSUME Left(hole) <= cur_size - 1
      PROVE  /\ Child(hole) \in Used \ {0} /\ Parent(Child(hole)) = hole
             /\ \A k \in Used \ {0} : Parent(k) = hole =>
                  expire[array[Child(hole)]] <= expire[array[k]]
  BY <1>3, <1>6, <1>7, ChildFacts DEF IndInv
<1>8. CASE ~(Left(hole) <= cur_size - 1 /\ expire[array[Child(hole)]] < expire[moving])
  <2>1. \A k \in Used \ {0} : Parent(k) >= Low => expire[Entry(Parent(k))] <= expire[Entry(k)]
    <3> SUFFICES ASSUME NEW k \in Used \ {0}, Parent(k) = hole
                 PROVE  expire[Entry(Parent(k))] <= expire[Entry(k)]
      BY <1>4
    <3>1. /\ Child(hole) \in Used /\ expire[array[Child(hole)]] <= expire[array[k]]
          /\ Entry(k) = array[k] /\ ~(expire[array[Child(hole)]] < expire[moving])
      BY <1>5, <1>7, <1>8
    <3>2. /\ expire[array[Child(hole)]] \in Int /\ expire[array[k]] \in Int
          /\ expire[moving] \in Int /\ Entry(hole) = moving
      BY <1>1, <1>3, <1>5, <3>1, LoopEntries
    <3> QED BY <3>1, <3>2
  <2>2. Fill /\ UNCHANGED <<capacity, cur_size, live, armed, expire, i, cur, fired>>
    BY <1>8 DEF Down
  <2> QED BY <1>1, <2>1, <2>2, FillKeepsInd
<1>9. CASE Left(hole) <= cur_size - 1 /\ expire[array[Child(hole)]] < expire[moving]
  <2>0. PICK c : c = Child(hole)
    OBVIOUS
  <2>1. /\ array' = [array EXCEPT ![hole] = array[c]] /\ hole' = c
        /\ UNCHANGED <<pc, ret, moving, capacity, cur_size, live, armed, expire, i, cur, fired>>
    BY <1>9, <2>0 DEF Down
  <2>2. /\ hole \in Used /\ c \in Used /\ c \in Used \ {0} /\ Parent(c) = hole /\ hole < c /\ c # hole
        /\ Entry(c) = array[c] /\ expire[Entry(c)] < expire[moving]
    BY <1>1, <1>2, <1>5, <1>6, <1>7, <1>9, <2>0, LoopEntries
  <2>3. /\ Placed'
        /\ \A k \in Used : Entry(k)' = IF k = c THEN moving
                                       ELSE IF k = hole THEN Entry(c) ELSE Entry(k)
    <3>1. UNCHANGED <<pc, moving, live, cur_size>>
      BY <2>1
    <3> QED BY <1>1, <2>1, <2>2, <3>1, MoveKeepsPlaced
  <2>4. TypeOK'
    BY <1>1, <1>3, <2>1, <2>2, LoopEntries DEF IndInv, TypeOK, Entries
  <2>5. Control'
    BY <1>1, <2>1, <2>2, LoopEntries DEF IndInv, Control, InLoop, Used
  <2>6. Ordered'
    <3>1. PICK E : E = [k \in 0 .. cur_size - 1 |-> expire[Entry(k)]]
      OBVIOUS
    <3>2. PICK F : F = [k \in 0 .. cur_size - 1 |-> expire'[Entry(k)']]
      OBVIOUS
    <3>3. Used = 0 .. cur_size - 1 /\ Used \ {0} = 1 .. cur_size - 1
      BY LoopEntries, <1>1 DEF Used
    <3>4. E \in [0 .. cur_size - 1 -> Int]
      BY <1>1, <3>1, <3>3, LoopEntries
    <3>5. \A k \in 0 .. cur_size - 1 : F[k] = IF k = c THEN E[hole] ELSE IF k = hole THEN E[c] ELSE E[k]
      BY <1>1, <2>1, <2>2, <2>3, <3>1, <3>2, <3>3, LoopEntries
    <3>6. F \in [0 .. cur_size - 1 -> Int]
      BY <1>1, <2>2, <3>2, <3>3, <3>4, <3>5
    <3>7. \A k \in 1 .. cur_size - 1 : Parent(k) >= Low /\ Parent(k) # hole => E[Parent(k)] <= E[k]
      BY <1>2, <1>4, <3>1, <3>3
    <3>8. \A k \in 1 .. cur_size - 1 : Parent(k) = hole => E[c] <= E[k]
      BY <1>5, <1>7, <1>9, <2>0, <2>2, <3>1, <3>3
    <3>9. hole > 0 /\ Parent(hole) >= Low =>
            \A k \in 1 .. cur_size - 1 : Parent(k) = hole => E[Parent(hole)] <= E[k]
      <4>1. hole > 0 => Parent(hole) \in Used
        BY <1>2, <2>2
      <4> QED BY <1>1, <4>1, <3>1, <3>3 DEF IndInv, Ordered
    <3>10. /\ hole \in 0 .. cur_size - 1 /\ c \in 1 .. cur_size - 1 /\ cur_size \in Nat
           /\ E[c] < E[hole] /\ Parent(c) = hole /\ Low \in Int /\ hole >= Low
      BY <1>1, <2>2, <3>1, <3>3, LoopEntries
    <3>11. /\ \A k \in 1 .. cur_size - 1 : Parent(k) >= Low /\ Parent(k) # c => F[Parent(k)] <= F[k]
           /\ \A k \in 1 .. cur_size - 1 : Parent(k) = c => F[hole] <= F[k]
      <4>1. SinksTo(E, F, cur_size, Low, hole, c)
        BY <3>4, <3>5, <3>6, <3>7, <3>8, <3>9, <3>10 DEF SinksTo
      <4> QED BY <4>1, SwapDown
    <3>12. Used' = Used /\ pc' = "down" /\ Low' = Low /\ InLoop' /\ hole' = c
      BY <1>1, <2>1 DEF Used, Low, InLoop
    <3>13. \A k \in 0 .. cur_size - 1 : F[k] = expire'[Entry(k)']
      BY <3>2
    <3>14. \A k \in 1 .. cur_size - 1 : Parent(k) \in 0 .. cur_size - 1
      BY <1>2, <3>3
    <3>15. \A k \in Used \ {0} : Parent(k) >= Low /\ Parent(k) # c =>
             (expire[Entry(Parent(k))] <= expire[Entry(k)])'
      BY <3>3, <3>11, <3>13, <3>14
    <3>16. PICK p : p = Parent(c)
      OBVIOUS
    <3>17. \A k \in Used \ {0} : Parent(k) = c => (expire[Entry(p)] <= expire[Entry(k)])'
      BY <2>2, <3>3, <3>10, <3>11, <3>13, <3>16
    <3> QED BY <3>12, <3>15, <3>16, <3>17 DEF Ordered, Unordered, Parent
  <2>7. FiredOnTop'
    BY <1>1, <2>1 DEF IndInv, FiredOnTop
  <2> QED BY <2>3, <2>4, <2>5, <2>6, <2>7 DEF IndInv
<1> QED BY <1>8, <1>9

-----------------------------------------------------------------------------
(***************************************************************************)
(* The constructors, the calls of the owner and tick().                    *)
(***************************************************************************)

\* What the places hold while no loop runs.
LEMMA RestEntries ==
  ASSUME IndInv, AtRest
  PROVE  /\ ~InLoop /\ Loaded = Used /\ ret = "idle" /\ hole = 0 /\ Low = 0 /\ i = 0
         /\ Used = 0 .. cur_size - 1 /\ cur_size \in Nat /\ capacity \in Nat /\ capacity > 0
         /\ cur_size <= capacity
         /\ \A k \in Nat : Entry(k) = array[k]
         /\ \A k \in Used : array[k] \in live /\ array[k] \in Timers
         /\ \A t \in live : \E k \in Used : array[k] = t
         /\ \A j, k \in Used : array[j] = array[k] => j = k
         /\ \A k \in Used \ {0} : Parent(k) \in Used /\ Parent(k) < k
         /\ \A k \in Used \ {0} : expire[array[Parent(k)]] <= expire[array[k]]
<1>1. /\ ~InLoop /\ Loaded = Used /\ ret = "idle" /\ hole = 0 /\ i = 0
      /\ pc \in {"idle", "scan", "callback"}
  BY DEF AtRest, IndInv, Control, InLoop, Loaded
<1>2. Low = 0
  BY <1>1 DEF Low
<1>3. /\ Used = 0 .. cur_size - 1 /\ cur_size \in Nat /\ capacity \in Nat /\ capacity > 0
      /\ cur_size <= capacity
  BY DEF Used, IndInv, TypeOK
<1>4. \A k \in Nat : Entry(k) = array[k]
  BY <1>1 DEF Entry
<1>5. /\ \A k \in Used : array[k] \in live /\ array[k] \in Timers
      /\ \A t \in live : \E k \in Used : array[k] = t
      /\ \A j, k \in Used : array[j] = array[k] => j = k
  <2>1. live \subseteq Timers
    BY DEF IndInv, TypeOK
  <2> QED BY <1>1, <1>3, <1>4, <2>1 DEF IndInv, Placed
<1>6. \A k \in Used \ {0} : Parent(k) \in Used /\ Parent(k) < k /\ Parent(k) \in Nat
  BY <1>3, ParentFacts
<1>7. \A k \in Used \ {0} : expire[array[Parent(k)]] <= expire[array[k]]
  BY <1>1, <1>2, <1>3, <1>4, <1>6 DEF IndInv, Ordered, Unordered
<1> QED BY <1>1, <1>2, <1>3, <1>4, <1>5, <1>6, <1>7

\* Everything that IndInv asks for when no loop runs.
LEMMA RestInd ==
  ASSUME TypeOK, AtRest, ret = "idle", hole = 0, i = 0,
         \A k \in Used : array[k] \in live,
         \A t \in live : \E k \in Used : array[k] = t,
         \A j, k \in Used : array[j] = array[k] => j = k,
         \A k \in Used \ {0} : expire[array[Parent(k)]] <= expire[array[k]],
         fired # Null <=> pc = "callback",
         fired # Null => cur_size > 0 /\ array[0] = fired /\ expire[fired] <= cur
  PROVE  IndInv
<1>1. ~InLoop /\ Loaded = Used /\ pc \in {"idle", "scan", "callback"}
  BY DEF AtRest, InLoop, Loaded
<1>2. \A k : Entry(k) = array[k]
  BY <1>1 DEF Entry
<1>3. Control
  BY <1>1 DEF Control, InLoop
<1>4. Placed
  BY <1>1, <1>2 DEF Placed
<1>5. Ordered
  BY <1>1, <1>2 DEF Ordered
<1>6. FiredOnTop
  BY <1>1 DEF FiredOnTop
<1> QED BY <1>3, <1>4, <1>5, <1>6 DEF IndInv

LEMMA LoadKeepsInd ==
  ASSUME IndInv, Load
  PROVE  IndInv'
<1>1. /\ pc = "load" /\ ret = "idle" /\ hole = 0 /\ fired = Null /\ i \in 0 .. capacity - 1 /\ ~InLoop
      /\ cur_size \in Nat /\ cur_size > 0 /\ capacity \in Nat /\ cur_size <= capacity
      /\ cur_size' = cur_size /\ capacity' = capacity /\ pc' \in {"load", "build"}
      /\ UNCHANGED <<ret, hole, moving, cur, fired>>
  BY DEF IndInv, Control, TypeOK, Load, InLoop, loop
<1>2. /\ Used = 0 .. cur_size - 1 /\ Used' = Used /\ ~InLoop'
      /\ Loaded = {k \in Used : k < i}
      /\ \A k : Entry(k) = array[k] /\ Entry(k)' = array'[k]
  BY <1>1 DEF Used, InLoop, Loaded, Entry
<1>3. /\ pc' = "load" => i' = i + 1 /\ i' < capacity
      /\ pc' = "build" => i' = (cur_size - 1) \div 2 /\ i + 1 >= capacity
  BY <1>1 DEF Load
<1>4. (i' \in -1 .. capacity /\ i' < cur_size) \/ (pc' = "load" /\ i' \in 0 .. capacity - 1)
  BY <1>1, <1>3
<1>5. Loaded' = IF i < cur_size THEN Loaded \cup {i} ELSE Loaded
  BY <1>1, <1>2, <1>3 DEF Loaded
<1>6. TypeOK' /\ Placed'
  <2>1. /\ \A k \in Loaded : array[k] \in live
        /\ \A t \in live : \E k \in Loaded : array[k] = t
        /\ \A j, k \in Loaded : array[j] = array[k] => j = k
    BY <1>2 DEF IndInv, Placed
  <2>2. CASE i < cur_size
    <3>1. PICK t \in Timers \ live, d \in Delays :
            /\ array' = [array EXCEPT ![i] = t]
            /\ live' = live \cup {t} /\ armed' = armed \cup {t}
            /\ expire' = [expire EXCEPT ![t] = d]
      BY <2>2 DEF Load
    <3>2. TypeOK'
      BY <1>1, <1>3, <1>4, <3>1, DelaysAssumption DEF IndInv, TypeOK, Entries
    <3>3. /\ array'[i] = t /\ i \notin Loaded
          /\ \A k \in Loaded : array'[k] = array[k]
      BY <1>1, <1>2, <3>1 DEF IndInv, TypeOK
    <3>4. Placed'
      BY <1>1, <1>2, <1>5, <2>1, <2>2, <3>1, <3>3 DEF Placed
    <3> QED BY <3>2, <3>4
  <2>3. CASE ~(i < cur_size)
    <3>1. array' = [array EXCEPT ![i] = Garbage] /\ UNCHANGED <<live, armed, expire>>
      BY <2>3 DEF Load
    <3>2. TypeOK'
      BY <1>1, <1>3, <1>4, <3>1 DEF IndInv, TypeOK, Entries
    <3>3. \A k \in Loaded : array'[k] = array[k]
      BY <1>1, <1>2, <2>3, <3>1 DEF IndInv, TypeOK
    <3>4. Placed'
      BY <1>1, <1>2, <1>5, <2>1, <2>3, <3>1, <3>3 DEF Placed
    <3> QED BY <3>2, <3>4
  <2> QED BY <2>2, <2>3
<1>7. Control'
  BY <1>1, <1>2, <1>3, <1>4 DEF Control, InLoop
<1>8. Ordered'
  <2>1. pc' = "build" => \A k \in Used \ {0} : ~(Parent(k) >= Low')
    BY <1>1, <1>2, <1>3 DEF Parent, Low
  <2> QED BY <1>1, <1>2, <2>1 DEF Ordered, Unordered, Parent
<1>9. FiredOnTop'
  BY <1>1 DEF FiredOnTop
<1> QED BY <1>6, <1>7, <1>8, <1>9 DEF IndInv

LEMMA BuildKeepsInd ==
  ASSUME IndInv, Build
  PROVE  IndInv'
<1>1. /\ pc = "build" /\ ret = "idle" /\ hole = 0 /\ fired = Null /\ ~InLoop /\ Loaded = Used
      /\ i \in -1 .. capacity /\ i < cur_size /\ Low = i + 1
      /\ Used = 0 .. cur_size - 1 /\ cur_size \in Nat /\ cur_size <= capacity
      /\ capacity \in Nat
  BY DEF IndInv, Control, TypeOK, Build, InLoop, Loaded, Low, Used
<1>2. \A k : Entry(k) = array[k]
  BY <1>1 DEF Entry
<1>3. /\ \A k \in Used : array[k] \in live
      /\ \A t \in live : \E k \in Used : array[k] = t
      /\ \A j, k \in Used : array[j] = array[k] => j = k
  BY <1>1, <1>2 DEF IndInv, Placed
<1>4. \A k \in Used \ {0} : Parent(k) >= i + 1 => expire[array[Parent(k)]] <= expire[array[k]]
  BY <1>1, <1>2 DEF IndInv, Ordered, Unordered
<1>5. \A k \in Used \ {0} : Parent(k) \in Nat /\ Parent(k) < k
  BY <1>1, ParentFacts
<1>6. UNCHANGED <<array, capacity, cur_size, live, armed, expire, cur, fired>>
  BY DEF Build
<1>7. CASE i >= 0
  <2>1. pc' = "down" /\ ret' = "build" /\ hole' = i /\ moving' = array[i] /\ i' = i - 1
    BY <1>7 DEF Build
  <2>2. /\ Used' = Used /\ InLoop' /\ Loaded' = Used /\ Low' = i
        /\ \A k : Entry(k)' = array[k]
    BY <1>1, <1>6, <2>1 DEF Used, InLoop, Loaded, Low, Entry
  <2>3. TypeOK'
    BY <1>1, <1>3, <1>6, <1>7, <2>1 DEF IndInv, TypeOK, Entries
  <2>4. Control'
    BY <1>1, <1>6, <1>7, <2>1, <2>2 DEF Control, InLoop
  <2>5. Placed'
    BY <1>3, <1>6, <2>2 DEF Placed
  <2>6. Ordered'
    <3>1. \A k \in Used \ {0} : Parent(k) >= i /\ Parent(k) # i => Parent(k) >= i + 1
      BY <1>1, <1>5
    <3>2. i > 0 => ~(Parent(i) >= i)
      BY <1>1, ParentFacts
    <3>3. expire' = expire /\ hole' = i /\ pc' = "down"
      BY <1>6, <2>1
    <3>4. \A k \in Used \ {0} : Parent(k) >= i /\ Parent(k) # i =>
            (expire[Entry(Parent(k))] <= expire[Entry(k)])'
      BY <1>4, <2>2, <3>1, <3>3
    <3> QED BY <2>2, <3>2, <3>3, <3>4 DEF Ordered, Unordered, Parent
  <2>7. FiredOnTop'
    BY <1>1, <1>6, <2>1 DEF FiredOnTop
  <2> QED BY <2>3, <2>4, <2>5, <2>6, <2>7 DEF IndInv
<1>8. CASE ~(i >= 0)
  <2>1. pc' = "idle" /\ i' = 0 /\ UNCHANGED <<ret, hole, moving>>
    BY <1>8 DEF Build, loop
  <2>2. Used' = Used /\ AtRest' /\ i + 1 = 0
    BY <1>1, <1>6, <1>8, <2>1 DEF Used, AtRest
  <2>3. TypeOK'
    BY <1>1, <1>6, <2>1 DEF IndInv, TypeOK
  <2>4. \A k \in Used \ {0} : (expire[array[Parent(k)]] <= expire[array[k]])'
    BY <1>4, <1>5, <1>6, <2>2 DEF Parent
  <2> QED
    <3>1. (\A k \in Used : array[k] \in live)'
      BY <1>3, <1>6, <2>2
    <3>2. (\A t \in live : \E k \in Used : array[k] = t)'
      BY <1>3, <1>6, <2>2
    <3>3. (\A j, k \in Used : array[j] = array[k] => j = k)'
      BY <1>3, <1>6, <2>2
    <3>4. (\A k \in Used \ {0} : expire[array[Parent(k)]] <= expire[array[k]])'
      BY <2>2, <2>4
    <3>5. (fired # Null <=> pc = "callback")'
      BY <1>1, <1>6, <2>1
    <3>6. (ret = "idle" /\ hole = 0 /\ i = 0)' /\ (fired # Null => cur_size > 0 /\ array[0] = fired /\ expire[fired] <= cur)'
      BY <1>1, <1>6, <2>1
    <3> QED BY <2>2, <2>3, <3>1, <3>2, <3>3, <3>4, <3>5, <3>6, RestInd, PTL
<1> QED BY <1>7, <1>8

\* add_timer puts the hole behind the last place in use, where it has no children.
LEMMA AddKeepsInd ==
  ASSUME IndInv, pc \in {"idle", "callback"}, NEW t \in Timers, NEW d \in Delays, Add(t, d)
  PROVE  IndInv'
<1>1. AtRest
  BY DEF AtRest
<1>2. /\ t \notin live /\ live' = live \cup {t} /\ armed' = armed \cup {t}
      /\ expire' = [expire EXCEPT ![t] = d]
      /\ hole' = cur_size /\ cur_size' = cur_size + 1 /\ moving' = t
      /\ ret' = pc /\ pc' = "up" /\ UNCHANGED <<i, cur, fired>>
  BY DEF Add
<1>3. /\ \A k \in Used : array'[k] = array[k]
      /\ capacity' \in Nat \ {0} /\ capacity' >= capacity /\ cur_size' <= capacity'
      /\ array' \in [0 .. capacity' - 1 -> Entries]
  <2>1. CASE cur_size >= capacity
    BY <1>1, <1>2, <2>1, RestEntries DEF Add, Grown, IndInv, TypeOK, Entries
  <2>2. CASE ~(cur_size >= capacity)
    BY <1>1, <1>2, <2>2, RestEntries DEF Add, IndInv, TypeOK
  <2> QED BY <2>1, <2>2
<1>4. /\ Used' = Used \cup {cur_size} /\ cur_size \notin Used
      /\ InLoop' /\ Loaded' = Used' /\ Low' = 0 /\ d \in Nat
  BY <1>1, <1>2, RestEntries, DelaysAssumption DEF Used, InLoop, Loaded, Low
<1>5. \A k \in Used' : Entry(k)' = IF k = cur_size THEN t ELSE array[k]
  BY <1>2, <1>3, <1>4 DEF Entry
<1>6. TypeOK'
  <2>1. /\ live' \subseteq Timers /\ armed' \subseteq live' /\ moving' \in Entries
        /\ expire' \in [Timers -> Int]
    BY <1>2, <1>4 DEF IndInv, TypeOK, Entries
  <2>2. /\ cur_size' \in 0 .. capacity' /\ i' \in -1 .. capacity'
        /\ hole' \in 0 .. capacity' - 1
    BY <1>1, <1>2, <1>3, RestEntries
  <2>3. cur' \in -MaxLag .. 0 /\ fired' \in Timers \cup {Null}
    BY <1>2 DEF IndInv, TypeOK
  <2> QED BY <1>2, <1>3, <2>1, <2>2, <2>3 DEF TypeOK
<1>7. Control'
  <2>1. fired # Null <=> pc = "callback"
    BY <1>1, RestEntries DEF IndInv, Control
  <2>2. i = 0 /\ hole' \in Used'
    BY <1>1, <1>2, <1>4, RestEntries
  <2> QED BY <1>2, <2>1, <2>2 DEF Control, InLoop
<1>8. Placed'
  <2>1. /\ \A k \in Used : array[k] \in live
        /\ \A u \in live : \E k \in Used : array[k] = u
        /\ \A j, k \in Used : array[j] = array[k] => j = k
    BY <1>1, RestEntries
  <2> QED BY <1>2, <1>4, <1>5, <2>1 DEF Placed
<1>9. Ordered'
  <2>1. \A k \in Used' \ {0} : Parent(k) # cur_size /\ (k # cur_size => Parent(k) \in Used /\ k \in Used)
    BY <1>1, <1>4, RestEntries, ParentFacts
  <2>2. \A k \in Used : expire'[array[k]] = expire[array[k]]
    BY <1>1, <1>2, RestEntries DEF IndInv, TypeOK
  <2>3. \A k \in Used' \ {0} : k # cur_size => (expire[Entry(Parent(k))] <= expire[Entry(k)])'
    BY <1>1, <1>4, <1>5, <2>1, <2>2, RestEntries DEF Parent
  <2> QED BY <1>2, <2>1, <2>3 DEF Ordered, Unordered, Parent
<1>10. FiredOnTop'
  <2>1. fired # Null => array[0] = fired /\ 0 \in Used /\ expire[fired] <= cur
    BY <1>1, RestEntries DEF IndInv, FiredOnTop
  <2>2. fired # Null => fired # t /\ fired \in Timers /\ array'[0] = fired
    <3>1. 0 \in Used => array[0] \in live /\ array[0] \in Timers
      BY <1>1, RestEntries
    <3>2. 0 \in Used => array'[0] = array[0]
      BY <1>3
    <3> QED BY <1>2, <2>1, <3>1, <3>2
  <2>5. fired # Null => expire'[fired] = expire[fired]
    BY <1>2, <2>2 DEF IndInv, TypeOK
  <2>3. pc = "callback" => fired # Null
    BY <1>1, RestEntries DEF IndInv, Control
  <2>4. expire'[t] >= 0
    BY <1>2, <1>4 DEF IndInv, TypeOK
  <2> QED BY <1>1, <1>2, <2>1, <2>2, <2>3, <2>4, <2>5, RestEntries DEF IndInv, FiredOnTop
<1> QED BY <1>6, <1>7, <1>8, <1>9, <1>10 DEF IndInv

LEMMA DeleteKeepsInd ==
  ASSUME IndInv, pc \in {"idle", "callback"}, NEW t \in Timers, Delete(t)
  PROVE  IndInv'
<1>1. /\ armed' = armed \ {t}
      /\ UNCHANGED <<array, capacity, cur_size, live, expire, pc, i, ret, hole, moving, cur, fired>>
  BY DEF Delete, loop
<1>2. TypeOK'
  BY <1>1 DEF IndInv, TypeOK
<1>3. Used' = Used /\ InLoop' = InLoop /\ Loaded' = Loaded /\ Low' = Low
  BY <1>1 DEF Used, InLoop, Loaded, Low
<1>4. \A k : Entry(k)' = Entry(k)
  BY <1>1, <1>3 DEF Entry
<1>5. Control' /\ Placed' /\ FiredOnTop'
  BY <1>1, <1>3, <1>4 DEF IndInv, Control, Placed, FiredOnTop
<1>6. Ordered'
  BY <1>1, <1>3, <1>4 DEF IndInv, Ordered, Unordered, Parent
<1> QED BY <1>2, <1>5, <1>6 DEF IndInv

\* pop_timer leaves a hole at the top, for the last timer.
LEMMA PopKeepsInd ==
  ASSUME IndInv, AtRest, cur_size > 0, NEW next \in {"idle", "scan"}, Pop(next)
  PROVE  IndInv'
<1> DEFINE last == cur_size - 1
<1>1. /\ live' = live \ {array[0]} /\ armed' = armed \ {array[0]}
      /\ expire' = [expire EXCEPT ![array[0]] = 0]
      /\ array' = [[array EXCEPT ![0] = array[last]] EXCEPT ![last] = Garbage]
      /\ cur_size' = last /\ hole' = 0 /\ moving' = array'[0]
      /\ pc' = "down" /\ ret' = next /\ fired' = Null
      /\ UNCHANGED <<capacity, i, cur>>
  BY DEF Pop
<1>2. /\ Used = 0 .. last /\ Used' = 0 .. last - 1 /\ last \in Nat
      /\ 0 \in Used /\ last \in Used /\ InLoop' /\ Loaded' = Used' /\ Low' = 0
      /\ DOMAIN array = 0 .. capacity - 1 /\ last < capacity /\ capacity \in Nat
  BY <1>1, RestEntries DEF Used, InLoop, Loaded, Low, IndInv, TypeOK
<1> HIDE DEF last
<1>3. \A k \in Used' : array'[k] = IF k = 0 THEN array[last] ELSE array[k]
  BY <1>1, <1>2
<1>4. \A k \in Used' : Entry(k)' = IF k = 0 THEN array[last] ELSE array[k]
  BY <1>1, <1>2, <1>3 DEF Entry
<1>5. Used' = Used \ {last} /\ \A k \in Used' : k # last
  BY <1>2
<1>6. TypeOK'
  <2>1. array' \in [0 .. capacity - 1 -> Entries]
    BY <1>1, <1>2 DEF IndInv, TypeOK, Entries
  <2>2. moving' \in Entries
    BY <1>1, <1>2, <2>1
  <2>3. live' \subseteq Timers /\ armed' \subseteq live'
    BY <1>1 DEF IndInv, TypeOK
  <2>5. expire' \in [Timers -> Int]
    <3>1. expire \in [Timers -> Int]
      BY DEF IndInv, TypeOK
    <3>2. expire' = [expire EXCEPT ![array[0]] = 0]
      BY <1>1
    <3>3. array[0] \in Timers
      BY <1>2, RestEntries
    <3> QED BY <3>1, <3>2, <3>3
  <2>6. cur' \in -MaxLag .. 0 /\ i' \in -1 .. capacity /\ capacity \in Nat \ {0}
    BY <1>1 DEF IndInv, TypeOK
  <2>4. cur_size' \in 0 .. capacity /\ hole' \in 0 .. capacity - 1
    BY <1>1, <1>2, RestEntries
  <2> QED BY <1>1, <2>1, <2>2, <2>3, <2>4, <2>5, <2>6 DEF TypeOK
<1>7. Control'
  BY <1>1, <1>2, RestEntries DEF Control, InLoop
<1>8. Placed'
  <2>1. \A k \in Used' : Entry(k)' \in live' /\ array'[k] \in live'
    <3> SUFFICES ASSUME NEW k \in Used' PROVE Entry(k)' \in live' /\ array'[k] \in live'
      OBVIOUS
    <3>1. CASE k = 0
      BY <1>1, <1>2, <1>3, <1>4, <1>5, <3>1, RestEntries
    <3>2. CASE k # 0
      BY <1>1, <1>2, <1>3, <1>4, <1>5, <3>2, RestEntries
    <3> QED BY <3>1, <3>2
  <2>2. \A t \in live' : \E k \in Used' : Entry(k)' = t
    <3> SUFFICES ASSUME NEW t \in live' PROVE \E k \in Used' : Entry(k)' = t
      OBVIOUS
    <3>1. PICK k \in Used : array[k] = t /\ k # 0
      BY <1>1, <1>2, RestEntries
    <3>2. CASE k = last
      BY <1>2, <1>4, <3>1, <3>2
    <3>3. CASE k # last
      BY <1>2, <1>4, <1>5, <3>1, <3>3
    <3> QED BY <3>2, <3>3
  <2>3. \A j, k \in Used' : Entry(j)' = Entry(k)' => j = k
    BY <1>2, <1>4, <1>5, RestEntries
  <2> QED BY <1>2, <2>1, <2>2, <2>3 DEF Placed
<1>9. Ordered'
  <2>1. \A k \in Used' \ {0} : Parent(k) \in Used'
    BY <1>2, ParentFacts
  <2>2. \A k \in Used' \ {0} : Entry(k)' = array[k] /\ expire'[array[k]] = expire[array[k]]
    BY <1>1, <1>2, <1>4, <1>5, RestEntries DEF IndInv, TypeOK
  <2>3. \A k \in Used' \ {0} : Parent(k) # 0 => (expire[Entry(Parent(k))] <= expire[Entry(k)])'
    <3> SUFFICES ASSUME NEW k \in Used' \ {0}, Parent(k) # 0
                 PROVE  (expire[Entry(Parent(k))])' <= (expire[Entry(k)])'
      BY DEF Parent
    <3>1. PICK p : p = Parent(k)
      OBVIOUS
    <3>2. p \in Used' \ {0} /\ k \in Used \ {0}
      BY <1>5, <2>1, <3>1
    <3>3. expire[array[p]] <= expire[array[k]]
      BY <3>1, <3>2, RestEntries
    <3>4. expire'[Entry(p)'] <= expire'[Entry(k)']
      BY <2>2, <3>2, <3>3
    <3> QED BY <3>1, <3>4 DEF Parent
  <2> QED BY <1>1, <2>3 DEF Ordered, Unordered, Parent
<1>10. FiredOnTop'
  BY <1>1 DEF FiredOnTop
<1> QED BY <1>6, <1>7, <1>8, <1>9, <1>10 DEF IndInv

LEMMA DestroyKeepsInd ==
  ASSUME IndInv, Destroy
  PROVE  IndInv'
<1>1. AtRest /\ pc = "idle"
  BY DEF Destroy, AtRest
<1>2. live' = {}
  BY <1>1, RestEntries DEF Destroy
<1>3. PICK cap \in Caps, size \in InitSizes :
        /\ size <= cap
        /\ capacity' = cap /\ cur_size' = size
        /\ array' = [k \in 0 .. cap - 1 |-> Null]
        /\ pc' = IF size = 0 THEN "idle" ELSE "load"
  BY DEF Destroy
<1>4. cap \in Nat \ {0} /\ size \in Nat
  BY CapsAssumption
<1>5. /\ armed' = {} /\ expire' = [t \in Timers |-> 0] /\ fired = Null /\ ret = "idle" /\ hole = 0 /\ i = 0
      /\ UNCHANGED <<i, ret, hole, moving, cur, fired>>
  BY <1>1, RestEntries DEF Destroy, loop, IndInv, Control
<1>6. TypeOK'
  BY <1>2, <1>3, <1>4, <1>5 DEF IndInv, TypeOK, Entries
<1>7. Control' /\ FiredOnTop'
  BY <1>3, <1>4, <1>5 DEF Control, InLoop, FiredOnTop
<1>8. Loaded' = {} /\ ~InLoop'
  BY <1>3, <1>4, <1>5 DEF Loaded, Used, InLoop
<1>9. Placed'
  BY <1>2, <1>3, <1>8 DEF Placed
<1>10. Ordered'
  BY <1>3, <1>4, <1>8 DEF Ordered, Unordered, Used, InLoop
<1> QED BY <1>6, <1>7, <1>9, <1>10 DEF IndInv

\* A callback starts: the timer at the top fires and stays there.
LEMMA TickFireKeepsInd ==
  ASSUME IndInv, TickFire
  PROVE  IndInv'
<1>1. /\ AtRest /\ pc = "scan" /\ pc' = "callback" /\ fired' = array[0]
      /\ cur_size > 0 /\ expire[array[0]] <= cur
      /\ UNCHANGED <<array, capacity, cur_size, live, armed, expire, i, ret, hole, moving, cur>>
  BY DEF TickFire, TopIsDue, AtRest, loop
<1>2. array[0] \in Timers /\ array[0] # Null
  BY <1>1, RestEntries, PointersAssumption
<1>3. TypeOK'
  BY <1>1, <1>2 DEF IndInv, TypeOK
<1>4. Used' = Used /\ AtRest'
  BY <1>1 DEF Used, AtRest
<1>5. /\ (\A k \in Used : array[k] \in live)'
      /\ (\A t \in live : \E k \in Used : array[k] = t)'
      /\ (\A j, k \in Used : array[j] = array[k] => j = k)'
  BY <1>1, <1>4, RestEntries
<1>6. (\A k \in Used \ {0} : expire[array[Parent(k)]] <= expire[array[k]])'
  BY <1>1, <1>4, RestEntries DEF Parent
<1>7. /\ (fired # Null <=> pc = "callback")'
      /\ (fired # Null => cur_size > 0 /\ array[0] = fired /\ expire[fired] <= cur)'
  BY <1>1, <1>2
<1>8. (ret = "idle" /\ hole = 0 /\ i = 0)'
  BY <1>1, RestEntries
<1> QED BY <1>3, <1>4, <1>5, <1>6, <1>7, <1>8, RestInd, PTL

\* A tick begins or ends.
LEMMA TickEdgeKeepsInd ==
  ASSUME IndInv, TickBegin \/ TickEnd
  PROVE  IndInv'
<1>1. /\ AtRest /\ pc # "callback" /\ pc' \in {"idle", "scan"} /\ cur' = 0
      /\ UNCHANGED <<array, capacity, cur_size, live, armed, expire, i, ret, hole, moving, fired>>
  BY DEF TickBegin, TickEnd, AtRest, loop
<1>2. fired = Null
  BY <1>1, RestEntries DEF IndInv, Control
<1>3. TypeOK'
  BY <1>1, MaxLagAssumption DEF IndInv, TypeOK
<1>4. Used' = Used /\ AtRest'
  BY <1>1 DEF Used, AtRest
<1>5. /\ (\A k \in Used : array[k] \in live)'
      /\ (\A t \in live : \E k \in Used : array[k] = t)'
      /\ (\A j, k \in Used : array[j] = array[k] => j = k)'
  BY <1>1, <1>4, RestEntries
<1>6. (\A k \in Used \ {0} : expire[array[Parent(k)]] <= expire[array[k]])'
  BY <1>1, <1>4, RestEntries DEF Parent
<1>7. /\ (fired # Null <=> pc = "callback")'
      /\ (fired # Null => cur_size > 0 /\ array[0] = fired /\ expire[fired] <= cur)'
  BY <1>1, <1>2
<1>8. (ret = "idle" /\ hole = 0 /\ i = 0)'
  BY <1>1, RestEntries
<1> QED BY <1>3, <1>4, <1>5, <1>6, <1>7, <1>8, RestInd, PTL

\* A second passes for all the timers alike.
LEMMA ElapseKeepsInd ==
  ASSUME IndInv, Elapse
  PROVE  IndInv'
<1>1. /\ AtRest
      /\ pc # "idle" => cur > -MaxLag
      /\ expire' = [t \in Timers |-> IF t \in live THEN expire[t] - 1 ELSE 0]
      /\ cur' = IF pc = "idle" THEN 0 ELSE cur - 1
      /\ UNCHANGED <<array, capacity, cur_size, live, armed, pc, i, ret, hole, moving, fired>>
  BY DEF Elapse, AtRest, loop
<1>2. expire \in [Timers -> Int] /\ cur \in Int /\ cur \in -MaxLag .. 0 /\ MaxLag \in Nat
  BY MaxLagAssumption DEF IndInv, TypeOK
<1>3. TypeOK'
  <2>1. cur' \in -MaxLag .. 0
    BY <1>1, <1>2
  <2>2. expire' \in [Timers -> Int]
    BY <1>1, <1>2
  <2> QED BY <1>1, <2>1, <2>2 DEF IndInv, TypeOK
<1>4. Used' = Used /\ AtRest'
  BY <1>1 DEF Used, AtRest
<1>5. /\ (\A k \in Used : array[k] \in live)'
      /\ (\A t \in live : \E k \in Used : array[k] = t)'
      /\ (\A j, k \in Used : array[j] = array[k] => j = k)'
  BY <1>1, <1>4, RestEntries
<1>6. \A k \in Used : /\ expire'[array[k]] = expire[array[k]] - 1
                      /\ expire[array[k]] \in Int
  BY <1>1, <1>2, RestEntries
<1>7. (\A k \in Used \ {0} : expire[array[Parent(k)]] <= expire[array[k]])'
  <2> SUFFICES ASSUME NEW k \in Used \ {0}
               PROVE  expire'[array[Parent(k)]] <= expire'[array[k]]
    BY <1>1, <1>4 DEF Parent
  <2> QED BY <1>1, <1>6, RestEntries
<1>8. /\ (fired # Null <=> pc = "callback")'
      /\ (fired # Null => cur_size > 0 /\ array[0] = fired /\ expire[fired] <= cur)'
  <2>1. fired # Null <=> pc = "callback"
    BY <1>1, RestEntries DEF IndInv, Control
  <2>2. fired # Null => cur_size > 0 /\ array[0] = fired /\ expire[fired] <= cur
    BY DEF IndInv, FiredOnTop
  <2>3. cur_size > 0 => 0 \in Used
    BY <1>1, RestEntries
  <2> QED BY <1>1, <1>2, <1>6, <2>1, <2>2, <2>3
<1>9. (ret = "idle" /\ hole = 0 /\ i = 0)'
  BY <1>1, RestEntries
<1> QED BY <1>3, <1>4, <1>5, <1>7, <1>8, <1>9, RestInd, PTL

LEMMA InitInd ==
  ASSUME Init
  PROVE  IndInv
<1>1. PICK cap \in Caps, size \in InitSizes :
        /\ size <= cap
        /\ capacity = cap /\ cur_size = size
        /\ array = [k \in 0 .. cap - 1 |-> Null]
        /\ pc = IF size = 0 THEN "idle" ELSE "load"
  BY DEF Init
<1>2. cap \in Nat \ {0} /\ size \in Nat
  BY CapsAssumption
<1>3. /\ live = {} /\ armed = {} /\ expire = [t \in Timers |-> 0]
      /\ i = 0 /\ ret = "idle" /\ hole = 0 /\ moving = Null /\ cur = 0 /\ fired = Null
  BY DEF Init
<1>4. TypeOK
  BY <1>1, <1>2, <1>3, MaxLagAssumption DEF TypeOK, Entries
<1>5. Control /\ FiredOnTop
  BY <1>1, <1>2, <1>3 DEF Control, InLoop, FiredOnTop
<1>6. Loaded = {} /\ ~InLoop
  BY <1>1, <1>2, <1>3 DEF Loaded, Used, InLoop
<1>7. Placed
  BY <1>1, <1>3, <1>6 DEF Placed
<1>8. Ordered
  BY <1>1, <1>2, <1>6 DEF Ordered, Unordered, Used
<1> QED BY <1>4, <1>5, <1>7, <1>8 DEF IndInv

LEMMA StepKeepsInd ==
  ASSUME IndInv, [Next]_vars
  PROVE  IndInv'
<1>1. CASE Load \/ Build
  BY <1>1, LoadKeepsInd, BuildKeepsInd
<1>2. CASE Up \/ Down
  BY <1>2, UpKeepsInd, DownKeepsInd
<1>3. CASE TickFire
  BY <1>3, TickFireKeepsInd
<1>4. CASE TickSkip
  <2>1. AtRest /\ cur_size > 0 /\ Pop("scan")
    BY <1>4 DEF TickSkip, TopIsDue, AtRest
  <2> QED BY <2>1, PopKeepsInd
<1>5. CASE TickPop
  <2>1. AtRest /\ Pop("scan") /\ fired # Null
    BY <1>5, RestEntries DEF TickPop, AtRest, IndInv, Control
  <2> QED BY <2>1, PopKeepsInd DEF IndInv, FiredOnTop
<1>6. CASE OwnerPops
  <2>1. AtRest /\ cur_size > 0 /\ Pop("idle")
    BY <1>6 DEF OwnerPops, AtRest
  <2> QED BY <2>1, PopKeepsInd
<1>7. CASE TickBegin \/ TickEnd
  BY <1>7, TickEdgeKeepsInd
<1>8. CASE Call
  BY <1>8, AddKeepsInd, DeleteKeepsInd DEF Call
<1>9. CASE Destroy
  BY <1>9, DestroyKeepsInd
<1>10. CASE Elapse
  BY <1>10, ElapseKeepsInd
<1>11. CASE UNCHANGED vars
  <2>1. UNCHANGED <<array, capacity, cur_size, live, armed, expire, pc, i, ret, hole, moving, cur, fired>>
    BY <1>11 DEF vars, loop
  <2>2. Used' = Used /\ InLoop' = InLoop /\ Loaded' = Loaded /\ Low' = Low
    BY <2>1 DEF Used, InLoop, Loaded, Low
  <2>3. \A k : Entry(k)' = Entry(k)
    BY <2>1, <2>2 DEF Entry
  <2>4. TypeOK' /\ Control' /\ Placed' /\ FiredOnTop'
    BY <2>1, <2>2, <2>3 DEF IndInv, TypeOK, Control, Placed, FiredOnTop
  <2>5. Ordered'
    BY <2>1, <2>2, <2>3 DEF IndInv, Ordered, Unordered, Parent
  <2> QED BY <2>4, <2>5 DEF IndInv
<1> QED
  BY <1>1, <1>2, <1>3, <1>4, <1>5, <1>6, <1>7, <1>8, <1>9, <1>10, <1>11 DEF Next, Step

\* The heap's array stays what the proofs above need, whatever the owner and the callbacks
\* call and wherever a loop or a tick is.
THEOREM InductiveInvariant == Spec => []IndInv
BY InitInd, StepKeepsInd, PTL DEF Spec

-----------------------------------------------------------------------------
(***************************************************************************)
(* The theorems.                                                           *)
(***************************************************************************)

\* All variables stay in their ranges; the hole never leaves the array, also when it
\* starts at the place that add_timer has just made by growing the array.
THEOREM TypeCorrect == Spec => []TypeOK
BY InductiveInvariant, PTL DEF IndInv

\* add_timer, pop_timer and the constructors lose no timer, keep none twice and keep none
\* that is freed.
THEOREM TimersHeldOnce == Spec => []HoldsEachOnce
<1>1. IndInv => HoldsEachOnce
  BY RestEntries DEF HoldsEachOnce
<1> QED BY <1>1, InductiveInvariant, PTL

\* percolate_down and add_timer's loop follow no pointer but those of allocated timers.
THEOREM NoGarbageCompared == Spec => []ComparesTimersOnly
<1>1. IndInv => ComparesTimersOnly
  <2> SUFFICES ASSUME IndInv PROVE ComparesTimersOnly
    OBVIOUS
  <2>1. InLoop /\ cur_size > 0 => hole \in Used /\ moving \in live
    BY LoopEntries DEF IndInv, Control, InLoop
  <2>2. \A k \in Used : pc # "load" /\ ~(pc = "up" /\ k = hole) => array[k] \in live
    <3>1. CASE pc = "down"
      BY <3>1 DEF IndInv, Placed
    <3>2. CASE pc = "up"
      BY <3>2, LoopEntries DEF InLoop
    <3>3. CASE pc = "build"
      BY <3>3 DEF IndInv, Placed, Entry, Loaded, InLoop
    <3>4. CASE AtRest
      BY <3>4, RestEntries
    <3> QED BY <3>1, <3>2, <3>3, <3>4 DEF AtRest, IndInv, TypeOK
  <2> QED BY <2>1, <2>2 DEF ComparesTimersOnly, InLoop
<1> QED BY <1>1, InductiveInvariant, PTL

\* Whenever add_timer, pop_timer or the constructor has returned the array is a heap.
THEOREM OrderRestored == Spec => []HeapOrder
<1>1. IndInv => HeapOrder
  BY RestEntries DEF HeapOrder
<1> QED BY <1>1, InductiveInvariant, PTL

\* tick() pops the timer whose callback it called and no other, although the callback may
\* have added timers in between.
THEOREM PopsWhatFired == Spec => []PopsTheFired
<1>1. IndInv => PopsTheFired
  BY DEF IndInv, Control, FiredOnTop, PopsTheFired
<1> QED BY <1>1, InductiveInvariant, PTL

-----------------------------------------------------------------------------
(***************************************************************************)
(* The heap is a TimerService.                                             *)
(***************************************************************************)

Due == [t \in armed \ {fired} |-> IF ticking THEN expire[t] - cur ELSE expire[t]]
Phase == IF ticking THEN "ticking" ELSE "idle"

\* A set of places that is not empty has a least one.
LEMMA LeastPlace ==
  ASSUME NEW S \in SUBSET Nat, S # {}
  PROVE  \E x \in S : \A y \in S : x <= y
<1> DEFINE less == {p \in Nat \X Nat : p[1] < p[2]}
<1>1. IsWellFoundedOn(less, Nat)
  <2>1. less = OpToRel(<, Nat)
    BY Zenon DEF OpToRel
  <2> QED BY <2>1, NatLessThanWellFounded
<1>2. PICK x \in S : \A y \in S : ~ (<<y, x>> \in less)
  <2> HIDE DEF less
  <2> QED BY <1>1, WFMin
<1>3. \A a, b \in Nat : a < b => <<a, b>> \in less
  OBVIOUS
<1>4. \A y \in S : x <= y
  <2> HIDE DEF less
  <2> SUFFICES ASSUME NEW y \in S PROVE ~ (y < x)
    OBVIOUS
  <2> QED BY <1>2, <1>3
<1> QED BY <1>4

\* No timer expires before the one at the top: the least place of those that break this
\* would have a parent that does not.
LEMMA TopIsLeast ==
  ASSUME IndInv, AtRest
  PROVE  \A t \in live : 0 \in Used /\ expire[array[0]] <= expire[t]
<1>1. \A k \in Used : expire[array[k]] \in Int
  BY RestEntries DEF IndInv, TypeOK
<1> DEFINE Bad == {k \in Used : expire[array[k]] < expire[array[0]]}
<1>2. Bad = {}
  <2> SUFFICES ASSUME Bad # {} PROVE FALSE
    OBVIOUS
  <2>1. Used \subseteq Nat
    BY RestEntries
  <2>2. PICK x \in Bad : \A y \in Bad : x <= y
    BY <2>1, LeastPlace
  <2>3. x \in Used \ {0}
    BY <1>1, <2>2
  <2>4. Parent(x) \in Used /\ Parent(x) < x /\ expire[array[Parent(x)]] <= expire[array[x]]
    BY <2>3, RestEntries
  <2>5. PICK p : p = Parent(x)
    OBVIOUS
  <2>6. p \in Used /\ p < x /\ expire[array[p]] <= expire[array[x]]
    BY <2>4, <2>5
  <2>7. expire[array[x]] < expire[array[0]] /\ x \in Nat /\ p \in Nat /\ 0 \in Used
    BY <2>1, <2>2, <2>3, <2>6, RestEntries
  <2>8. expire[array[p]] \in Int /\ expire[array[x]] \in Int /\ expire[array[0]] \in Int
    BY <1>1, <2>3, <2>6, <2>7
  <2>9. p \in Bad
    BY <2>6, <2>7, <2>8
  <2> QED BY <2>2, <2>6, <2>7, <2>9
<1>3. \A k \in Used : 0 \in Used /\ ~(expire[array[k]] < expire[array[0]])
  BY <1>2, RestEntries
<1> QED BY <1>1, <1>3, RestEntries

\* The timers that wait are allocated, and what ticking means where no loop runs.
LEMMA WaitingFacts ==
  ASSUME IndInv
  PROVE  /\ armed \subseteq live /\ live \subseteq Timers
         /\ expire \in [Timers -> Int] /\ cur \in Int
         /\ Null \notin Timers
         /\ fired # Null => fired \in live
         /\ AtRest => (ticking <=> pc # "idle")
         /\ pc # "callback" /\ ret # "callback" => fired = Null
<1>1. /\ armed \subseteq live /\ live \subseteq Timers
      /\ expire \in [Timers -> Int] /\ cur \in Int /\ Null \notin Timers
  BY PointersAssumption, MaxLagAssumption DEF IndInv, TypeOK
<1>2. pc # "callback" /\ ret # "callback" => fired = Null
  BY DEF IndInv, Control
<1>3. AtRest => (ticking <=> pc # "idle")
  BY RestEntries DEF AtRest, ticking
<1>4. fired # Null => fired \in live
  <2>0. fired # Null => pc = "callback" \/ (pc = "up" /\ hole > 0)
    <3>1. fired # Null => pc = "callback" \/ ret = "callback"
      BY DEF IndInv, Control
    <3>2. ret = "callback" => pc = "up"
      BY DEF IndInv, Control, InLoop
    <3>3. ret = "callback" => hole > 0
      BY DEF IndInv, FiredOnTop
    <3> QED BY <3>1, <3>2, <3>3
  <2>1. fired # Null => 0 \in Used /\ array[0] = fired
    BY DEF IndInv, FiredOnTop, Used, TypeOK
  <2>2. CASE pc = "callback"
    BY <2>1, <2>2, RestEntries DEF AtRest
  <2>3. CASE pc = "up" /\ hole > 0
    BY <2>1, <2>3, LoopEntries DEF InLoop
  <2> QED BY <2>0, <2>2, <2>3
<1> QED BY <1>1, <1>2, <1>3, <1>4

\* Steps that the owner does not see.
LEMMA Unseen ==
  ASSUME ticking' = ticking, armed' \ {fired'} = armed \ {fired},
         \A t \in armed \ {fired} :
           IF ticking THEN expire'[t] - cur' = expire[t] - cur ELSE expire'[t] = expire[t]
  PROVE  UNCHANGED Service!vars
<1>1. Due' = Due /\ Phase' = Phase
  BY DEF Due, Phase
<1> QED BY <1>1 DEF Service!vars, Due, Phase

LEMMA AddIsArm ==
  ASSUME IndInv, pc \in {"idle", "callback"}, NEW t \in Timers, NEW d \in Delays, Add(t, d)
  PROVE  Service!Arm(t)
<1>1. /\ t \notin live /\ armed' = armed \cup {t} /\ expire' = [expire EXCEPT ![t] = d]
      /\ ret' = pc /\ pc' = "up" /\ cur' = cur /\ fired' = fired /\ d \in Int
  BY DelaysAssumption DEF Add
<1>2. AtRest /\ ret = "idle"
  BY RestEntries DEF AtRest
<1>3. ticking' = ticking
  BY <1>1, <1>2 DEF ticking
<1>4. /\ t \notin armed /\ armed' \ {fired'} = (armed \ {fired}) \cup {t}
      /\ expire'[t] = d /\ \A u \in armed : expire'[u] = expire[u]
  BY <1>1, WaitingFacts
<1>5. /\ DOMAIN Due = armed \ {fired} /\ DOMAIN Due' = (armed \ {fired}) \cup {t}
      /\ Due' = [u \in (armed \ {fired}) \cup {t} |-> IF u = t THEN Due'[t] ELSE Due[u]]
      /\ Due'[t] \in Int
  BY <1>1, <1>3, <1>4, WaitingFacts DEF Due
<1> QED
  BY <1>3, <1>4, <1>5 DEF Service!Arm, Service!pending, Due, Phase

LEMMA LoadIsArm ==
  ASSUME IndInv, Load
  PROVE  (\E t \in Timers : Service!Arm(t)) \/ UNCHANGED Service!vars
<1>1. /\ pc = "load" /\ pc' \in {"load", "build"} /\ ret = "idle" /\ fired = Null
      /\ UNCHANGED <<ret, cur, fired>>
  BY DEF Load, loop, IndInv, Control, InLoop
<1>2. ~ticking /\ ~ticking' /\ ticking' = ticking
  BY <1>1 DEF ticking
<1>3. CASE i < cur_size
  <2>1. PICK t \in Timers \ live, d \in Delays :
          armed' = armed \cup {t} /\ expire' = [expire EXCEPT ![t] = d]
    BY <1>3 DEF Load
  <2>2. /\ d \in Int /\ t \notin armed /\ armed' \ {fired'} = (armed \ {fired}) \cup {t}
        /\ t \notin armed \ {fired}
        /\ expire'[t] = d /\ \A u \in armed : expire'[u] = expire[u]
    BY <1>1, <2>1, DelaysAssumption, WaitingFacts
  <2>3. /\ DOMAIN Due = armed \ {fired} /\ DOMAIN Due' = (armed \ {fired}) \cup {t}
        /\ Due' = [u \in (armed \ {fired}) \cup {t} |-> IF u = t THEN Due'[t] ELSE Due[u]]
        /\ Due'[t] \in Int
    BY <1>2, <2>2 DEF Due
  <2>4. Service!Arm(t)
    BY <1>2, <2>2, <2>3 DEF Service!Arm, Service!pending, Due, Phase
  <2> QED BY <2>4
<1>4. CASE ~(i < cur_size)
  <2>1. UNCHANGED <<armed, expire>>
    BY <1>4 DEF Load
  <2>2. \A t \in armed \ {fired} :
          IF ticking THEN expire'[t] - cur' = expire[t] - cur ELSE expire'[t] = expire[t]
    BY <1>2, <2>1
  <2> QED BY <1>1, <1>2, <2>1, <2>2, Unseen
<1> QED BY <1>3, <1>4

LEMMA DeleteIsCancel ==
  ASSUME IndInv, pc \in {"idle", "callback"}, NEW t \in Timers, Delete(t)
  PROVE  Service!Cancel(t) \/ UNCHANGED Service!vars
<1>1. t \in armed /\ armed' = armed \ {t} /\ UNCHANGED <<expire, pc, ret, cur, fired>>
  BY DEF Delete, loop
<1>2. ticking' = ticking
  BY <1>1 DEF ticking
<1>3. CASE t = fired
  BY <1>1, <1>2, <1>3, Unseen
<1>4. CASE t # fired
  <2>1. t \in armed \ {fired} /\ armed' \ {fired'} = (armed \ {fired}) \ {t}
    BY <1>1, <1>4
  <2>2. /\ DOMAIN Due = armed \ {fired}
        /\ Due' = [u \in (armed \ {fired}) \ {t} |-> Due[u]]
    BY <1>1, <1>2, <2>1 DEF Due
  <2> QED
    BY <1>2, <2>1, <2>2
       DEF Service!Cancel, Service!Drop, Service!pending, Due, Phase
<1> QED BY <1>3, <1>4

\* A pop is seen only if it takes a timer that still waits.
LEMMA PopIsCancel ==
  ASSUME IndInv, AtRest, cur_size > 0, NEW next \in {"idle", "scan"}, Pop(next),
         NEW t \in Timers, t = array[0],
         next = "idle" <=> pc = "idle",
         fired # Null => array[0] = fired
  PROVE  IF t \in armed \ {fired} THEN Service!Cancel(t)
                                        ELSE UNCHANGED Service!vars
<1>1. /\ armed' = armed \ {array[0]} /\ expire' = [expire EXCEPT ![array[0]] = 0]
      /\ pc' = "down" /\ ret' = next /\ fired' = Null /\ cur' = cur
  BY DEF Pop
<1>2. ticking' = ticking
  BY <1>1, WaitingFacts DEF ticking
<1>3. /\ t # Null /\ armed' = armed \ {t}
      /\ \A u \in armed : u # t => expire'[u] = expire[u]
  BY <1>1, RestEntries, WaitingFacts
<1>4. CASE t \in armed \ {fired}
  <2>1. fired = Null /\ armed' \ {fired'} = (armed \ {fired}) \ {t}
    BY <1>1, <1>3, <1>4, WaitingFacts
  <2>2. /\ DOMAIN Due = armed \ {fired}
        /\ Due' = [u \in (armed \ {fired}) \ {t} |-> Due[u]]
    BY <1>1, <1>2, <1>3, <2>1 DEF Due
  <2> QED
    BY <1>2, <1>4, <2>1, <2>2
       DEF Service!Cancel, Service!Drop, Service!pending, Due, Phase
<1>5. CASE t \notin armed \ {fired}
  <2>1. armed' \ {fired'} = armed \ {fired} /\ \A u \in armed \ {fired} : u # t
    BY <1>1, <1>3, <1>5, WaitingFacts
  <2> QED BY <1>1, <1>2, <1>3, <1>5, <2>1, Unseen
<1> QED BY <1>4, <1>5

LEMMA DestroyIsClear ==
  ASSUME IndInv, Destroy
  PROVE  Service!Clear
<1>1. AtRest /\ pc = "idle" /\ armed' = {} /\ UNCHANGED <<ret, fired>> /\ pc' \in {"idle", "load"}
  BY DEF Destroy, AtRest, loop
<1>2. ~ticking /\ ~ticking'
  BY <1>1, RestEntries DEF ticking
<1>3. DOMAIN Due' = {}
  BY <1>1 DEF Due
<1> QED BY <1>2, <1>3 DEF Service!Clear, Service!pending, Due, Phase

LEMMA FireIsFire ==
  ASSUME IndInv, TickFire
  PROVE  \E t \in Timers : Service!Fire(t)
<1>1. /\ AtRest /\ pc = "scan" /\ pc' = "callback" /\ fired' = array[0]
      /\ array[0] \in armed /\ expire[array[0]] <= cur
      /\ UNCHANGED <<armed, expire, cur, ret>>
  BY DEF TickFire, TopIsDue, AtRest, loop
<1>2. PICK t \in Timers : t = array[0]
  BY <1>1, WaitingFacts
<1>3. fired = Null /\ ticking /\ ticking'
  BY <1>1, RestEntries, WaitingFacts DEF ticking
<1>4. armed \ {fired} = armed /\ armed' \ {fired'} = armed \ {t}
  BY <1>1, <1>2, <1>3, WaitingFacts
<1>5. /\ DOMAIN Due = armed /\ Due' = [u \in armed \ {t} |-> Due[u]]
      /\ \A u \in armed : Due[u] = expire[u] - cur
  BY <1>1, <1>3, <1>4 DEF Due
<1>6. Due[t] <= 0 /\ \A u \in armed : Due[t] <= Due[u]
  BY <1>1, <1>2, <1>5, WaitingFacts, TopIsLeast
<1>7. Service!Fire(t)
  BY <1>1, <1>2, <1>3, <1>5, <1>6
     DEF Service!Fire, Service!Drop, Service!pending, Due, Phase
<1> QED BY <1>7

LEMMA EndIsEnd ==
  ASSUME IndInv, TickEnd
  PROVE  Service!EndTick
<1>1. /\ AtRest /\ pc = "scan" /\ ~(cur_size > 0 /\ expire[array[0]] <= cur)
      /\ pc' = "idle" /\ UNCHANGED <<armed, expire, ret, fired>>
  BY DEF TickEnd, TopIsDue, AtRest, loop
<1>2. fired = Null /\ ticking /\ ~ticking' /\ armed \ {fired} = armed
  BY <1>1, RestEntries, WaitingFacts DEF ticking
<1>3. ASSUME NEW t \in armed PROVE expire[t] > cur /\ expire[t] \in Int /\ cur \in Int
  <2>1. 0 \in Used /\ expire[array[0]] <= expire[t]
    BY <1>1, WaitingFacts, TopIsLeast
  <2>2. expire[array[0]] \in Int /\ cur_size > 0
    BY <1>1, <2>1, RestEntries, WaitingFacts
  <2> QED BY <1>1, <2>1, <2>2, WaitingFacts
<1>4. cur <= 0
  BY DEF IndInv, TypeOK
<1>5. /\ DOMAIN Due = armed \ {fired} /\ DOMAIN Due' = armed \ {fired}
      /\ \A t \in armed \ {fired} : Due[t] = expire[t] - cur /\ Due'[t] = expire[t]
  BY <1>1, <1>2 DEF Due
<1>6. \A t \in armed \ {fired} : /\ Due[t] > 0 /\ Due[t] \in Int /\ Due'[t] \in Int
                                 /\ Due'[t] <= Due[t]
  BY <1>3, <1>4, <1>5
<1>7. \A t, u \in armed \ {fired} : Due[t] - Due'[t] = Due[u] - Due'[u]
  BY <1>3, <1>5
<1>8. Service!TimePasses
  BY <1>5, <1>6, <1>7 DEF Service!TimePasses, Service!pending, Due
<1> QED
  BY <1>2, <1>5, <1>6, <1>8 DEF Service!EndTick, Service!pending, Due, Phase

LEMMA ElapseIsElapse ==
  ASSUME IndInv, Elapse
  PROVE  Service!Elapse \/ UNCHANGED Service!vars
<1>1. /\ AtRest
      /\ expire' = [t \in Timers |-> IF t \in live THEN expire[t] - 1 ELSE 0]
      /\ cur' = IF pc = "idle" THEN 0 ELSE cur - 1
      /\ UNCHANGED <<armed, pc, ret, fired>>
  BY DEF Elapse, AtRest, loop
<1>2. ticking' = ticking
  BY <1>1 DEF ticking
<1>3. \A t \in armed : expire'[t] = expire[t] - 1 /\ expire[t] \in Int
  BY <1>1, WaitingFacts
<1>4. CASE ticking
  <2>1. cur' = cur - 1
    BY <1>1, <1>4, WaitingFacts
  <2>2. \A t \in armed \ {fired} : expire'[t] - cur' = expire[t] - cur
    BY <1>3, <2>1, WaitingFacts
  <2> QED BY <1>1, <1>2, <1>4, <2>2, Unseen
<1>5. CASE ~ticking
  <2>1. /\ DOMAIN Due = armed \ {fired} /\ DOMAIN Due' = armed \ {fired}
        /\ \A t \in armed \ {fired} : Due[t] = expire[t] /\ Due'[t] = expire[t] - 1
    BY <1>1, <1>2, <1>3, <1>5 DEF Due
  <2>2. \A t \in armed \ {fired} : /\ Due'[t] \in Int /\ Due'[t] <= Due[t]
                                   /\ Due[t] - Due'[t] = 1
    BY <1>3, <2>1
  <2>3. Service!Elapse
    BY <1>2, <1>5, <2>1, <2>2
       DEF Service!Elapse, Service!TimePasses, Service!pending, Due, Phase
  <2> QED BY <2>3
<1> QED BY <1>4, <1>5

\* Every step of the heap is a step of the abstract service or one that it does not see.
LEMMA StepSimulation ==
  ASSUME IndInv, [Next]_vars
  PROVE  [Service!Next]_(Service!vars)
<1>1. CASE Load
  BY <1>1, LoadIsArm DEF Service!Next
<1>2. CASE Build \/ Up \/ Down
  <2>1. UNCHANGED <<armed, expire, cur, fired>>
    BY <1>2 DEF Build, Up, Down
  <2>2. ticking' = ticking
    <3>1. CASE Build
      BY <3>1 DEF Build, ticking, loop, IndInv, Control, InLoop
    <3>2. CASE Up \/ Down
      BY <3>2 DEF Up, Down, Fill, ticking
    <3> QED BY <1>2, <3>1, <3>2
  <2> QED BY <2>1, <2>2, Unseen
<1>3. CASE TickFire
  BY <1>3, FireIsFire DEF Service!Next
<1>4. CASE TickSkip
  <2>1. AtRest /\ cur_size > 0 /\ Pop("scan") /\ pc # "idle" /\ array[0] \notin armed /\ fired = Null
    BY <1>4, WaitingFacts, RestEntries DEF TickSkip, TopIsDue, AtRest
  <2>2. array[0] \in Timers
    BY <2>1, RestEntries
  <2> QED BY <2>1, <2>2, PopIsCancel
<1>5. CASE TickPop
  <2>1. AtRest /\ Pop("scan") /\ pc # "idle" /\ array[0] = fired /\ cur_size > 0
    BY <1>5 DEF TickPop, AtRest, IndInv, Control, FiredOnTop
  <2>2. array[0] \in Timers
    BY <2>1, RestEntries
  <2> QED BY <2>1, <2>2, PopIsCancel
<1>6. CASE OwnerPops
  <2>1. AtRest /\ cur_size > 0 /\ Pop("idle") /\ fired = Null /\ pc = "idle"
    BY <1>6, WaitingFacts, RestEntries DEF OwnerPops, AtRest
  <2>2. PICK t : t = array[0]
    OBVIOUS
  <2>3. t \in Timers
    BY <2>1, <2>2, RestEntries
  <2>4. Service!Cancel(t) \/ UNCHANGED Service!vars
    BY <2>1, <2>2, <2>3, PopIsCancel
  <2> QED BY <2>3, <2>4 DEF Service!Next
<1>7. CASE TickBegin
  <2>1. /\ AtRest /\ pc = "idle" /\ pc' = "scan" /\ cur' = 0
        /\ UNCHANGED <<armed, expire, fired, ret>>
    BY <1>7 DEF TickBegin, AtRest, loop
  <2>2. ~ticking /\ ticking'
    BY <2>1, RestEntries DEF ticking
  <2>3. \A t \in armed : expire[t] - 0 = expire[t]
    BY WaitingFacts
  <2>4. Due' = Due
    BY <2>1, <2>2, <2>3 DEF Due
  <2> QED BY <2>2, <2>4 DEF Service!BeginTick, Service!Next, Due, Phase
<1>8. CASE TickEnd
  BY <1>8, EndIsEnd DEF Service!Next
<1>9. CASE Call
  BY <1>9, AddIsArm, DeleteIsCancel DEF Call, Service!Next
<1>10. CASE Destroy
  BY <1>10, DestroyIsClear DEF Service!Next
<1>11. CASE Elapse
  BY <1>11, ElapseIsElapse DEF Service!Next
<1>12. CASE UNCHANGED vars
  <2>1. UNCHANGED <<armed, expire, cur, fired, pc, ret>>
    BY <1>12 DEF vars, loop
  <2>2. ticking' = ticking
    BY <2>1 DEF ticking
  <2> QED BY <2>1, <2>2, Unseen
<1> QED
  BY <1>1, <1>2, <1>3, <1>4, <1>5, <1>6, <1>7, <1>8, <1>9, <1>10, <1>11, <1>12 DEF Next, Step

\* The heap is a correct timer service for its owner, without a condition on the delays: a
\* timer that was deleted never fires, any other one fires in the first tick that begins
\* when it has expired, the earliest first, also those that callbacks add.
THEOREM HeapIsService == Spec => ImplementsService
<1>1. Init => Service!Init
  <2> SUFFICES ASSUME Init PROVE Service!Init
    OBVIOUS
  <2>1. armed = {} /\ ~ticking
    BY DEF Init, ticking
  <2>2. Due = [t \in {} |-> 0] /\ Phase = "idle"
    BY <2>1 DEF Due, Phase
  <2> QED BY <2>2 DEF Service!Init, Due, Phase
<1>2. IndInv /\ [Next]_vars => [Service!Next]_(Service!vars)
  BY StepSimulation
<1> QED
  BY <1>1, <1>2, InductiveInvariant, PTL DEF Spec, ImplementsService, Service!Spec

=============================================================================
