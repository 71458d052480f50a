--------------------------- MODULE TimeWheelProofs ---------------------------
(***************************************************************************)
(* Proofs about TimeWheel, for any number of slots, any timers and any     *)
(* timeouts.                                                               *)
(*                                                                         *)
(* The inductive invariant says that some numbering ord of the timers      *)
(* grows along every list.  It replaces induction along the lists: "t is   *)
(* ahead of the cursor" is ord[t] >= ord[tmp], and the successor of t is   *)
(* the timer of its slot with the next greater number.                     *)
(***************************************************************************)
EXTENDS TimeWheel, WellFoundedInduction, TLAPS

\* Two allocated timers never share a number.
Injective(ord) == \A t, u \in live : ord[t] = ord[u] => t = u

\* The head of a slot is the timer of that slot with the least number.
HeadOK(ord, s) ==
  IF slots[s] = Null
  THEN \A t \in live : time_slot[t] # s
  ELSE /\ slots[s] \in live
       /\ time_slot[slots[s]] = s
       /\ \A t \in live : time_slot[t] = s => ord[slots[s]] <= ord[t]

\* The successor of t is the timer of its slot with the next number.
NextOK(ord, t) ==
  IF next[t] = Null
  THEN \A u \in live : time_slot[u] = time_slot[t] => ord[u] <= ord[t]
  ELSE /\ next[t] \in live
       /\ time_slot[next[t]] = time_slot[t]
       /\ prev[next[t]] = t
       /\ ord[t] < ord[next[t]]
       /\ \A u \in live : (time_slot[u] = time_slot[t] /\ ord[t] < ord[u])
                            => ord[next[t]] <= ord[u]

\* prev leads back from every timer but a head.
PrevOK(t) ==
  IF t = slots[time_slot[t]]
  THEN prev[t] = Null
  ELSE prev[t] \in live /\ next[prev[t]] = t

Linked(ord) ==
  /\ Injective(ord)
  /\ \A s \in Slots : HeadOK(ord, s)
  /\ \A t \in live : NextOK(ord, t)
  /\ \A t \in live : PrevOK(t)

\* The ticks before the cursor comes to slot s.
Distance(s) == IF s >= cur_slot THEN s - cur_slot ELSE s - cur_slot + N

\* The running tick has already gone past t.
Passed(ord, t) ==
  /\ pc # "idle"
  /\ time_slot[t] = cur_slot
  /\ tmp = Null \/ ord[t] < ord[tmp]

\* The ticks after which t will in fact fire.
TicksLeft(ord, t) ==
  (IF Passed(ord, t) THEN N ELSE Distance(time_slot[t])) + N * rotation[t]

\* t fires when it is due, or one lap later if a callback added it with whole laps.
OnSchedule(ord, t) == Left(t) = TicksLeft(ord, t)

CallbackOK == pc = "callback" => tmp # Null /\ rotation[tmp] = 0

NoneAstray == NoWholeLapRearm => astray = {}

\* What is said of one numbering ...
IndWith(ord) == Linked(ord) /\ \A t \in live : OnSchedule(ord, t)

\* ... and the inductive invariant.
IndInv ==
  /\ TypeOK
  /\ CursorSafe
  /\ CallbackOK
  /\ NoneAstray
  /\ \E ord \in [Timers -> Nat] : IndWith(ord)

-----------------------------------------------------------------------------
(***************************************************************************)
(* Arithmetic.                                                             *)
(***************************************************************************)

\* Every amount of ticks is so many laps and a rest.
LEMMA LapsAndRest ==
  ASSUME NEW a \in Nat
  PROVE  /\ a % N \in Slots
         /\ a \div N \in Nat
         /\ a = N * (a \div N) + (a % N)
BY NAssumption DEF Slots

\* Below two laps, "modulo" is a subtraction.
LEMMA ModOfTwoLaps ==
  ASSUME NEW x \in 0 .. 2 * N - 1
  PROVE  x % N = IF x < N THEN x ELSE x - N
BY NAssumption

\* A timeout that add_timer accepts is at least one tick.
LEMMA TicksPositive ==
  ASSUME NEW timeout \in Int, timeout >= 0
  PROVE  Ticks(timeout) \in Nat \ {0}
BY SIAssumption DEF Ticks

-----------------------------------------------------------------------------
(***************************************************************************)
(* The lists.                                                              *)
(***************************************************************************)

\* A new head gets number 0; the others move up by one.
Renumber(ord, t) == [u \in Timers |-> IF u = t THEN 0 ELSE ord[u] + 1]

\* add_timer keeps the lists linked.
LEMMA PushKeepsLinked ==
  ASSUME TypeOK,
         NEW ord \in [Timers -> Nat], Linked(ord),
         NEW t \in Timers, t \notin live,
         NEW s \in Slots, Push(t, s),
         live' = live \cup {t},
         time_slot' = [time_slot EXCEPT ![t] = s]
  PROVE  Linked(Renumber(ord, t))'
<1> DEFINE new == Renumber(ord, t)
<1> USE NullAssumption
<1>1. new \in [Timers -> Nat] /\ new[t] = 0
      /\ \A u \in Timers : u # t => new[u] = ord[u] + 1
  BY DEF Renumber
<1>2. \A u \in live : u \in Timers /\ u # t /\ time_slot'[u] = time_slot[u]
  BY DEF TypeOK
<1>3. time_slot'[t] = s /\ slots'[s] = t
  BY DEF TypeOK, Push
<1>4. \A r \in Slots : r # s => slots'[r] = slots[r]
  BY DEF TypeOK, Push
<1>5. next'[t] = slots[s] /\ prev'[t] = Null
      /\ \A u \in live : next'[u] = next[u]
                         /\ prev'[u] = IF u = slots[s] THEN t ELSE prev[u]
  BY <1>2 DEF TypeOK, Push
<1> HIDE DEF new
<1>6. Injective(new)'
  BY <1>1, <1>2 DEF Linked, Injective, TypeOK
<1>7. ASSUME NEW r \in Slots PROVE HeadOK(new, r)'
  <2>1. CASE r = s
    BY <2>1, <1>1, <1>2, <1>3 DEF HeadOK
  <2>2. CASE r # s
    BY <2>2, <1>1, <1>2, <1>3, <1>4 DEF HeadOK, Linked
  <2> QED BY <2>1, <2>2
<1>8. ASSUME NEW u \in live' PROVE NextOK(new, u)'
  <2>1. CASE u = t
    BY <2>1, <1>1, <1>2, <1>3, <1>5 DEF NextOK, HeadOK, Linked, TypeOK
  <2>2. CASE u # t
    <3>1. u \in live /\ NextOK(ord, u) /\ next'[u] = next[u]
      BY <2>2, <1>5 DEF Linked
    <3>2. CASE next[u] = Null
      BY <3>1, <3>2, <2>2, <1>1, <1>2, <1>3 DEF NextOK, TypeOK
    <3>3. CASE next[u] # Null
      <4>1. next[u] \in live /\ next[u] # slots[s]
        BY <3>1, <3>3, <1>2 DEF NextOK, HeadOK, Linked, TypeOK
      <4>2. prev'[next[u]] = u
        BY <4>1, <3>1, <3>3, <1>5 DEF NextOK
      <4> QED
        BY <4>1, <4>2, <3>1, <3>3, <2>2, <1>1, <1>2, <1>3 DEF NextOK, TypeOK
    <3> QED BY <3>2, <3>3
  <2> QED BY <2>1, <2>2
<1>9. ASSUME NEW u \in live' PROVE PrevOK(u)'
  <2>1. CASE u = t
    BY <2>1, <1>3, <1>5 DEF PrevOK
  <2>2. CASE u # t /\ u = slots[s]
    BY <2>2, <1>2, <1>3, <1>4, <1>5 DEF PrevOK, HeadOK, Linked
  <2>3. CASE u # t /\ u # slots[s]
    BY <2>3, <1>2, <1>3, <1>4, <1>5 DEF PrevOK, HeadOK, Linked, TypeOK
  <2> QED BY <2>1, <2>2, <2>3
<1> QED
  BY <1>6, <1>7, <1>8, <1>9 DEF Linked, new

\* Taking a timer out of its slot keeps the lists linked.
LEMMA RemoveKeepsLinked ==
  ASSUME TypeOK,
         NEW ord \in [Timers -> Nat], Linked(ord),
         NEW t \in live, Remove(t, time_slot[t])
  PROVE  Linked(ord)'
<1> DEFINE s == time_slot[t]
<1> USE NullAssumption
<1>1. t \in Timers /\ s \in Slots /\ live' = live \ {t}
  BY DEF TypeOK, Remove
<1>2. \A u \in live' : u \in live /\ u \in Timers /\ u # t
                       /\ time_slot'[u] = time_slot[u] /\ ord[u] \in Nat
  BY <1>1 DEF TypeOK, Remove
<1>3. HeadOK(ord, s) /\ NextOK(ord, t) /\ PrevOK(t)
  BY <1>1 DEF Linked
<1>4. \A r \in Slots : slots'[r] = IF r = s /\ t = slots[s] THEN next[t] ELSE slots[r]
  BY <1>1 DEF TypeOK, Remove
<1>5. \A u \in live' : next'[u] = IF t # slots[s] /\ u = prev[t] THEN next[t] ELSE next[u]
  BY <1>2 DEF Remove
<1>6. \A u \in live' : prev'[u] = IF u # next[t] THEN prev[u]
                                  ELSE IF t = slots[s] THEN Null ELSE prev[t]
  BY <1>2 DEF Remove
<1> HIDE DEF s
<1>7. Injective(ord)'
  BY <1>2 DEF Linked, Injective
<1>8. ASSUME NEW r \in Slots PROVE HeadOK(ord, r)'
  <2>0. HeadOK(ord, r)
    BY DEF Linked
  <2>1. CASE r = s /\ t = slots[s]
    BY <2>1, <2>0, <1>1, <1>2, <1>3, <1>4 DEF HeadOK, NextOK, s, Linked, Injective
  <2>2. CASE ~(r = s /\ t = slots[s])
    BY <2>2, <2>0, <1>1, <1>2, <1>4 DEF HeadOK, s
  <2> QED BY <2>1, <2>2
<1>9. ASSUME NEW u \in live' PROVE NextOK(ord, u)'
  <2>0. NextOK(ord, u) /\ u \in live /\ u # t
    BY <1>2 DEF Linked
  <2>1. CASE t # slots[s] /\ u = prev[t]
    <3>1. next[u] = t /\ next'[u] = next[t] /\ u # next[t]
      BY <2>0, <2>1, <1>3, <1>5, <1>2, <1>1 DEF PrevOK, NextOK, s, TypeOK
    <3>2. \A x \in live' : time_slot[x] = s /\ ord[u] < ord[x] => ord[t] < ord[x]
      BY <3>1, <2>0, <1>1, <1>2 DEF NextOK, Linked, Injective, s, TypeOK
    <3>3. CASE next[t] = Null
      BY <3>1, <3>2, <3>3, <2>0, <1>1, <1>2, <1>3 DEF NextOK, s
    <3>4. CASE next[t] # Null
      <4>1. next[t] \in live' /\ prev'[next[t]] = u
        BY <3>4, <2>1, <1>1, <1>3, <1>6 DEF NextOK
      <4> QED
        BY <4>1, <3>1, <3>2, <3>4, <2>0, <1>1, <1>2, <1>3 DEF NextOK, s
    <3> QED BY <3>3, <3>4
  <2>2. CASE ~(t # slots[s] /\ u = prev[t])
    <3>1. next'[u] = next[u] /\ next[u] # t
      BY <2>0, <2>2, <1>1, <1>3, <1>5 DEF NextOK, PrevOK, HeadOK, s, TypeOK
    <3>2. next[u] # Null => next[u] # next[t]
      BY <2>0, <1>3 DEF NextOK
    <3> QED BY <2>0, <3>1, <3>2, <1>1, <1>2, <1>6 DEF NextOK
  <2> QED BY <2>1, <2>2
<1>10. ASSUME NEW u \in live' PROVE PrevOK(u)'
  <2>0. PrevOK(u) /\ u \in live /\ u # t /\ time_slot[u] \in Slots
    BY <1>2 DEF Linked, TypeOK
  <2>1. CASE u = next[t]
    BY <2>0, <2>1, <1>1, <1>2, <1>3, <1>4, <1>5, <1>6 DEF PrevOK, NextOK, HeadOK, s
  <2>2. CASE u # next[t]
    BY <2>0, <2>2, <1>1, <1>2, <1>3, <1>4, <1>5, <1>6 DEF PrevOK, NextOK, HeadOK, s
  <2> QED BY <2>1, <2>2
<1> QED
  BY <1>7, <1>8, <1>9, <1>10 DEF Linked

-----------------------------------------------------------------------------
(***************************************************************************)
(* Each action preserves the inductive invariant.                          *)
(***************************************************************************)

LEMMA InitInd == Init => IndInv
<1> SUFFICES ASSUME Init PROVE IndInv
  OBVIOUS
<1>1. TypeOK /\ CursorSafe /\ CallbackOK /\ NoneAstray
  BY NAssumption DEF Init, TypeOK, Slots, CursorSafe, CallbackOK, NoneAstray
<1>2. [t \in Timers |-> 0] \in [Timers -> Nat]
  OBVIOUS
<1>3. IndWith([t \in Timers |-> 0])
  BY DEF Init, IndWith, Linked, Injective, HeadOK, NextOK, PrevOK, OnSchedule
<1> QED BY <1>1, <1>2, <1>3 DEF IndInv

LEMMA AddKeepsInd ==
  ASSUME IndInv, NEW t \in Timers, NEW timeout \in Int, AddTimer(t, timeout),
         pc = "idle" \/ (pc = "callback" /\ timeout \in CallbackTimeouts)
  PROVE  IndInv'
<1> DEFINE ticks == Ticks(timeout)
           s == SlotFor(ticks)
           rest == ticks % N
           laps == ticks \div N
<1> USE NullAssumption
<1>1. PICK ord \in [Timers -> Nat] : IndWith(ord)
  BY DEF IndInv
<1> DEFINE new == Renumber(ord, t)
<1>2. /\ t \notin live /\ live' = live \cup {t}
      /\ rotation' = [rotation EXCEPT ![t] = laps]
      /\ time_slot' = [time_slot EXCEPT ![t] = s]
      /\ due' = [due EXCEPT ![t] = ticks]
      /\ astray' = IF pc = "callback" /\ rest = 0 THEN astray \cup {t} ELSE astray
      /\ Push(t, s)
      /\ UNCHANGED <<cur_slot, pc, tmp>>
      /\ timeout >= 0
  BY DEF AddTimer
<1>3. TypeOK /\ CursorSafe /\ CallbackOK
  BY DEF IndInv
<1>4. ticks \in Nat \ {0}
  BY <1>2, TicksPositive
<1>5. rest \in Slots /\ laps \in Nat /\ ticks = N * laps + rest
  BY <1>4, LapsAndRest
<1>5a. rest \in Int /\ 0 <= rest /\ rest < N /\ cur_slot \in Int
       /\ 0 <= cur_slot /\ cur_slot < N /\ N \in Int /\ s = (cur_slot + rest) % N
  BY <1>3, <1>5, NAssumption DEF TypeOK, Slots, SlotFor
<1> HIDE DEF ticks, s, rest, laps
<1>6. s \in Slots /\ s = IF cur_slot + rest < N THEN cur_slot + rest
                         ELSE cur_slot + rest - N
  <2>1. cur_slot + rest \in 0 .. 2 * N - 1
    BY <1>5a
  <2> QED BY <2>1, <1>5a, ModOfTwoLaps DEF Slots
<1>7. TypeOK'
  BY <1>2, <1>3, <1>4, <1>5, <1>6 DEF TypeOK, Push
<1>8a. CursorSafe' /\ CallbackOK'
  BY <1>2, <1>3 DEF CursorSafe, CallbackOK, TypeOK
<1>8b. pc = "callback" /\ rest = 0 => ~NoWholeLapRearm
  BY <1>2 DEF NoWholeLapRearm, ticks, rest
<1>8. CursorSafe' /\ CallbackOK' /\ NoneAstray'
  BY <1>2, <1>8a, <1>8b DEF IndInv, NoneAstray, NoWholeLapRearm
<1>9. new \in [Timers -> Nat] /\ new[t] = 0
      /\ \A u \in Timers : u # t => new[u] = ord[u] + 1
  BY DEF Renumber
<1>10. Linked(new)'
  BY <1>1, <1>2, <1>3, <1>6, PushKeepsLinked DEF IndWith
<1> HIDE DEF new
<1>11. ASSUME NEW u \in live, u # t PROVE OnSchedule(new, u)'
  <2>1. u \in Timers /\ time_slot'[u] = time_slot[u] /\ rotation'[u] = rotation[u]
        /\ Left(u)' = Left(u)
    BY <1>2, <1>3, <1>11 DEF TypeOK, Left
  <2>2. Passed(new, u)' <=> Passed(ord, u)
    <3>1. tmp # Null /\ pc # "idle" => tmp \in live /\ tmp # t
      BY <1>2, <1>3 DEF CursorSafe
    <3>2. tmp # Null /\ pc # "idle" => (ord[u] < ord[tmp] <=> new[u] < new[tmp])
      BY <3>1, <2>1, <1>9, <1>11, <1>3 DEF TypeOK
    <3> QED BY <3>2, <2>1, <1>2 DEF Passed
  <2>3. TicksLeft(new, u)' = TicksLeft(ord, u)
    BY <2>1, <2>2, <1>2 DEF TicksLeft, Distance
  <2> QED BY <2>1, <2>3, <1>1 DEF IndWith, OnSchedule
<1>12. OnSchedule(new, t)'
  <2>1. time_slot'[t] = s /\ rotation'[t] = laps /\ due'[t] = ticks
        /\ t \notin astray /\ ticks \in Int
    BY <1>2, <1>3, <1>4 DEF TypeOK
  <2>2. Distance(time_slot[t])' = rest
    BY <2>1, <1>2, <1>5a, <1>6 DEF Distance
  <2>3. CASE pc = "callback" /\ rest = 0
    <3>1. s = cur_slot
      BY <2>3, <1>5a, <1>6
    <3>2. tmp \in live /\ tmp \in Timers /\ tmp # t
      BY <2>3, <1>2, <1>3 DEF CursorSafe, CallbackOK, TypeOK
    <3>3. new[t] < new[tmp]
      BY <3>2, <1>9
    <3>4. Passed(new, t)'
      BY <2>1, <2>3, <3>1, <3>3, <1>2 DEF Passed
    <3>5. TicksLeft(new, t)' = N + N * laps
      BY <2>1, <3>4 DEF TicksLeft
    <3>6. Left(t)' = ticks + N
      BY <2>1, <2>3, <1>2 DEF Left
    <3>7. N * laps \in Int
      BY <1>5, NAssumption
    <3> QED BY <2>3, <3>5, <3>6, <3>7, <1>5, <1>5a DEF OnSchedule
  <2>4. CASE ~(pc = "callback" /\ rest = 0)
    <3>1. ~Passed(new, t)'
      <4> SUFFICES ASSUME Passed(new, t)' PROVE FALSE
        OBVIOUS
      <4>1. s = cur_slot /\ pc = "callback"
        BY <2>1, <1>2 DEF Passed
      <4> QED BY <2>4, <4>1, <1>5a, <1>6
    <3>2. TicksLeft(new, t)' = rest + N * laps
      BY <2>1, <2>2, <3>1 DEF TicksLeft
    <3>3. Left(t)' = ticks
      BY <2>1, <2>4, <1>2 DEF Left
    <3>4. N * laps \in Int
      BY <1>5, NAssumption
    <3> QED BY <3>2, <3>3, <3>4, <1>5, <1>5a DEF OnSchedule
  <2> QED BY <2>3, <2>4
<1>13. IndWith(new)'
  BY <1>2, <1>10, <1>11, <1>12 DEF IndWith
<1> QED BY <1>7, <1>8, <1>9, <1>13 DEF IndInv

\* Removing a timer changes neither the types nor the others' schedule.
LEMMA RemoveKeepsOthers ==
  ASSUME TypeOK, NEW t \in live, NEW s \in Slots, Remove(t, s)
  PROVE  /\ \A u \in live' : /\ u \in live /\ u \in Timers /\ u # t
                             /\ time_slot'[u] = time_slot[u]
                             /\ rotation'[u] = rotation[u]
                             /\ Left(u)' = Left(u)
         /\ slots' \in [Slots -> Timers \cup {Null}]
         /\ live' \subseteq Timers
         /\ next' \in [Timers -> Timers \cup {Null}]
         /\ prev' \in [Timers -> Timers \cup {Null}]
         /\ rotation' \in [Timers -> Nat]
         /\ time_slot' \in [Timers -> Slots]
         /\ due' \in [Timers -> Int]
         /\ astray' \subseteq live' /\ astray' \subseteq astray
<1>1. 0 \in Slots /\ t \in Timers
  BY NAssumption DEF Slots, TypeOK
<1> QED BY <1>1 DEF TypeOK, Remove, Left

LEMMA DelKeepsInd ==
  ASSUME IndInv, NEW t \in Timers, DelTimer(t),
         pc = "idle" \/ (pc = "callback" /\ t # tmp)
  PROVE  IndInv'
<1>1. PICK ord \in [Timers -> Nat] : IndWith(ord)
  BY DEF IndInv
<1>2. /\ t \in live /\ Remove(t, time_slot[t]) /\ live' = live \ {t}
      /\ UNCHANGED <<cur_slot, pc, tmp>>
  BY DEF DelTimer, Remove
<1>3. TypeOK /\ CursorSafe /\ CallbackOK /\ time_slot[t] \in Slots
  BY DEF IndInv, TypeOK
<1>4. \A u \in live' : u \in live /\ u \in Timers /\ time_slot'[u] = time_slot[u]
                       /\ rotation'[u] = rotation[u] /\ Left(u)' = Left(u)
  BY <1>2, <1>3, RemoveKeepsOthers
<1>5. TypeOK'
  BY <1>2, <1>3, RemoveKeepsOthers DEF TypeOK
<1>6a. CursorSafe' /\ CallbackOK'
  BY <1>2, <1>3, <1>4 DEF CursorSafe, CallbackOK
<1>6b. astray' \subseteq astray
  BY <1>2, <1>3, RemoveKeepsOthers
<1>6. CursorSafe' /\ CallbackOK' /\ NoneAstray'
  BY <1>6a, <1>6b DEF IndInv, NoneAstray, NoWholeLapRearm
<1>7. Linked(ord)'
  BY <1>1, <1>2, <1>3, RemoveKeepsLinked DEF IndWith
<1>8. ASSUME NEW u \in live' PROVE OnSchedule(ord, u)'
  BY <1>1, <1>2, <1>4
     DEF IndWith, OnSchedule, TicksLeft, Distance, Passed
<1> QED BY <1>1, <1>5, <1>6, <1>7, <1>8 DEF IndInv, IndWith

LEMMA BeginKeepsInd == ASSUME IndInv, TickBegin PROVE IndInv'
<1> USE NullAssumption
<1>1. PICK ord \in [Timers -> Nat] : IndWith(ord)
  BY DEF IndInv
<1>0. NoneAstray'
  BY DEF IndInv, NoneAstray, NoWholeLapRearm, TickBegin, wheel, history
<1>2. TypeOK' /\ CursorSafe' /\ CallbackOK' /\ cur_slot \in Slots
  BY <1>1 DEF IndInv, TickBegin, wheel, history, TypeOK, CursorSafe, CallbackOK, IndWith,
              Linked, HeadOK
<1>3. Linked(ord)'
  BY <1>1 DEF IndWith, Linked, TickBegin, wheel, history, Injective, HeadOK, NextOK, PrevOK
<1>4. ASSUME NEW u \in live' PROVE OnSchedule(ord, u)'
  <2>1. u \in live /\ u \in Timers /\ ord[u] \in Nat
    BY DEF TickBegin, wheel, history, IndInv, TypeOK
  <2>2. tmp' # Null => tmp' \in Timers /\ ord[tmp'] \in Nat
    BY <1>2 DEF TypeOK
  <2>3. ~Passed(ord, u)'
    BY <2>1, <2>2, <1>1, <1>2 DEF TickBegin, wheel, history, IndWith, Linked, HeadOK, Passed
  <2>4. ~Passed(ord, u)
    BY DEF TickBegin, Passed
  <2> QED
    BY <2>1, <2>3, <2>4, <1>1 DEF IndWith, OnSchedule, Left, TicksLeft, Distance,
                                  TickBegin, wheel, history
<1> QED BY <1>0, <1>1, <1>2, <1>3, <1>4 DEF IndInv, IndWith

LEMMA FireKeepsInd == ASSUME IndInv, TickFire PROVE IndInv'
<1>1. PICK ord \in [Timers -> Nat] : IndWith(ord)
  BY DEF IndInv
<1>0. NoneAstray'
  BY DEF IndInv, NoneAstray, NoWholeLapRearm, TickFire, wheel, history
<1>2. TypeOK' /\ CursorSafe' /\ CallbackOK'
  BY NullAssumption DEF IndInv, TickFire, wheel, history, TypeOK, CursorSafe, CallbackOK
<1>3. Linked(ord)'
  BY <1>1 DEF IndWith, Linked, TickFire, wheel, history, Injective, HeadOK, NextOK, PrevOK
<1>4. \A u \in live' : OnSchedule(ord, u)'
  BY <1>1 DEF IndWith, OnSchedule, Left, TicksLeft, Distance, Passed, TickFire, wheel, history
<1> QED BY <1>0, <1>1, <1>2, <1>3, <1>4 DEF IndInv, IndWith

LEMMA SkipKeepsInd == ASSUME IndInv, TickSkip PROVE IndInv'
<1> USE NullAssumption
<1>1. PICK ord \in [Timers -> Nat] : IndWith(ord)
  BY DEF IndInv
<1>2. /\ pc = "scan" /\ tmp # Null /\ rotation[tmp] > 0
      /\ rotation' = [rotation EXCEPT ![tmp] = @ - 1] /\ tmp' = next[tmp]
      /\ UNCHANGED <<slots, cur_slot, live, next, prev, time_slot, due, astray, pc>>
  BY DEF TickSkip, history
<1>3. TypeOK /\ tmp \in live /\ tmp \in Timers /\ time_slot[tmp] = cur_slot
  BY <1>2 DEF IndInv, CursorSafe, TypeOK
<1>4. NextOK(ord, tmp) /\ Injective(ord)
  BY <1>1, <1>3 DEF IndWith, Linked
<1>5. TypeOK'
  BY <1>2, <1>3 DEF TypeOK
<1>6a. CursorSafe' /\ CallbackOK'
  BY <1>2, <1>3, <1>4 DEF CursorSafe, CallbackOK, NextOK
<1>6. CursorSafe' /\ CallbackOK' /\ NoneAstray'
  BY <1>2, <1>6a DEF IndInv, NoneAstray, NoWholeLapRearm
<1>7. Linked(ord)'
  BY <1>1, <1>2 DEF IndWith, Linked, Injective, HeadOK, NextOK, PrevOK
<1>8. ASSUME NEW u \in live' PROVE OnSchedule(ord, u)'
  <2>1. u \in live /\ u \in Timers /\ rotation[u] \in Nat /\ N \in Nat /\ cur_slot \in Nat
        /\ OnSchedule(ord, u) /\ Left(u)' = Left(u)
    BY <1>1, <1>2, <1>3, NAssumption DEF TypeOK, IndWith, Slots, Left
  <2>2. CASE u = tmp
    <3>1. ~Passed(ord, u) /\ Passed(ord, u)' /\ rotation'[u] = rotation[u] - 1
      BY <2>1, <2>2, <1>2, <1>3, <1>4 DEF Passed, NextOK, TypeOK
    <3>2. Distance(time_slot[u]) = 0
      BY <2>1, <2>2, <1>3 DEF Distance
    <3>3. TicksLeft(ord, u) = N * rotation[u]
          /\ TicksLeft(ord, u)' = N + N * (rotation[u] - 1)
      BY <2>1, <3>1, <3>2 DEF TicksLeft
    <3>4. TicksLeft(ord, u)' = TicksLeft(ord, u)
      BY <2>1, <3>3
    <3> QED BY <2>1, <3>4 DEF OnSchedule
  <2>3. CASE u # tmp
    <3>1. ord[u] \in Nat /\ ord[tmp] \in Nat /\ ord[u] # ord[tmp]
          /\ (next[tmp] # Null => ord[next[tmp]] \in Nat)
      BY <2>1, <2>3, <1>3, <1>4 DEF Injective, NextOK, TypeOK
    <3>2. Passed(ord, u)' <=> Passed(ord, u)
      BY <2>1, <3>1, <1>2, <1>3, <1>4 DEF Passed, NextOK
    <3>3. TicksLeft(ord, u)' = TicksLeft(ord, u)
      BY <2>1, <2>3, <3>2, <1>2, <1>3 DEF TicksLeft, Distance, TypeOK
    <3> QED BY <2>1, <3>3 DEF OnSchedule
  <2> QED BY <2>2, <2>3
<1> QED BY <1>1, <1>5, <1>6, <1>7, <1>8 DEF IndInv, IndWith

LEMMA TickRemoveKeepsInd == ASSUME IndInv, TickRemove PROVE IndInv'
<1> USE NullAssumption
<1>1. PICK ord \in [Timers -> Nat] : IndWith(ord)
  BY DEF IndInv
<1>2. /\ pc = "callback" /\ Remove(tmp, cur_slot) /\ live' = live \ {tmp}
      /\ tmp' = next[tmp] /\ pc' = "scan" /\ cur_slot' = cur_slot
  BY DEF TickRemove, Remove
<1>3. TypeOK /\ tmp \in live /\ tmp \in Timers /\ time_slot[tmp] = cur_slot
      /\ cur_slot \in Slots
  BY <1>2 DEF IndInv, CursorSafe, CallbackOK, TypeOK
<1>4. NextOK(ord, tmp) /\ Injective(ord)
  BY <1>1, <1>3 DEF IndWith, Linked
<1>5. \A u \in live' : u \in live /\ u \in Timers /\ time_slot'[u] = time_slot[u]
                       /\ rotation'[u] = rotation[u] /\ Left(u)' = Left(u) /\ u # tmp
  BY <1>2, <1>3, RemoveKeepsOthers
<1>6. TypeOK'
  BY <1>2, <1>3, RemoveKeepsOthers DEF TypeOK
<1>7. CursorSafe' /\ CallbackOK' /\ NoneAstray'
  <2>1. next[tmp] # Null => next[tmp] \in live' /\ time_slot'[next[tmp]] = cur_slot
    BY <1>2, <1>3, <1>4, <1>5 DEF NextOK, TypeOK
  <2>2. astray' \subseteq astray
    BY <1>2, <1>3, RemoveKeepsOthers
  <2>3. NoneAstray'
    BY <2>2 DEF IndInv, NoneAstray, NoWholeLapRearm
  <2> QED BY <2>1, <2>3, <1>2 DEF CursorSafe, CallbackOK
<1>8. Linked(ord)'
  BY <1>1, <1>2, <1>3, RemoveKeepsLinked DEF IndWith
<1>9. ASSUME NEW u \in live' PROVE OnSchedule(ord, u)'
  <2>1. ord[u] \in Nat /\ ord[tmp] \in Nat /\ ord[u] # ord[tmp]
        /\ (next[tmp] # Null => ord[next[tmp]] \in Nat)
    BY <1>3, <1>4, <1>5 DEF Injective, NextOK, TypeOK
  <2>2. Passed(ord, u)' <=> Passed(ord, u)
    BY <2>1, <1>2, <1>3, <1>4, <1>5 DEF Passed, NextOK
  <2>3. TicksLeft(ord, u)' = TicksLeft(ord, u)
    BY <2>2, <1>2, <1>5 DEF TicksLeft, Distance
  <2> QED BY <2>3, <1>1, <1>5 DEF OnSchedule, IndWith
<1> QED BY <1>1, <1>6, <1>7, <1>8, <1>9 DEF IndInv, IndWith

LEMMA EndKeepsInd == ASSUME IndInv, TickEnd PROVE IndInv'
<1> USE NullAssumption
<1>1. PICK ord \in [Timers -> Nat] : IndWith(ord)
  BY DEF IndInv
<1>2. /\ pc = "scan" /\ tmp = Null /\ cur_slot' = (cur_slot + 1) % N /\ pc' = "idle"
      /\ due' = [t \in Timers |-> IF t \in live THEN due[t] - 1 ELSE 0]
      /\ UNCHANGED <<slots, live, next, prev, rotation, time_slot, astray, tmp>>
  BY DEF TickEnd
<1>3. TypeOK /\ cur_slot \in Int /\ 0 <= cur_slot /\ cur_slot < N /\ N \in Nat
      /\ cur_slot + 1 \in 0 .. 2 * N - 1
  BY NAssumption DEF IndInv, TypeOK, Slots
<1>4. cur_slot' = IF cur_slot + 1 < N THEN cur_slot + 1 ELSE 0
  BY <1>2, <1>3, ModOfTwoLaps
<1>5. TypeOK'
  BY <1>2, <1>3, <1>4, NAssumption DEF TypeOK, Slots
<1>6a. NoneAstray'
  BY <1>2 DEF IndInv, NoneAstray, NoWholeLapRearm
<1>6. CursorSafe' /\ CallbackOK' /\ NoneAstray'
  BY <1>2, <1>6a DEF CursorSafe, CallbackOK
<1>7. Linked(ord)'
  BY <1>1, <1>2 DEF IndWith, Linked, Injective, HeadOK, NextOK, PrevOK
<1>8. ASSUME NEW u \in live' PROVE OnSchedule(ord, u)'
  <2>1. u \in live /\ u \in Timers /\ rotation'[u] = rotation[u] /\ rotation[u] \in Nat
        /\ time_slot'[u] = time_slot[u] /\ due'[u] = due[u] - 1 /\ OnSchedule(ord, u)
        /\ due[u] \in Int
    BY <1>1, <1>2, <1>3 DEF TypeOK, IndWith
  <2>1a. Left(u)' = Left(u) - 1
    BY <2>1, <1>2, <1>3 DEF Left
  <2>2. time_slot[u] \in Int /\ 0 <= time_slot[u] /\ time_slot[u] < N
    BY <2>1, <1>3 DEF TypeOK, Slots
  <2>3. ~Passed(ord, u)' /\ (Passed(ord, u) <=> time_slot[u] = cur_slot)
    BY <1>2 DEF Passed
  <2>4. Distance(time_slot[u])' =
          (IF Passed(ord, u) THEN N ELSE Distance(time_slot[u])) - 1
    BY <2>1, <2>2, <2>3, <1>3, <1>4 DEF Distance
  <2>5. TicksLeft(ord, u)' = TicksLeft(ord, u) - 1
    <3>1. N * rotation[u] \in Int /\ Distance(time_slot[u]) \in Int
      BY <2>1, <2>2, <1>3 DEF Distance
    <3> QED BY <3>1, <2>1, <2>3, <2>4, <1>3 DEF TicksLeft
  <2>6. TicksLeft(ord, u) \in Int
    BY <2>1, <2>2, <1>3 DEF TicksLeft, Distance
  <2> QED BY <2>1, <2>1a, <2>5, <2>6, <1>3 DEF OnSchedule
<1> QED BY <1>1, <1>5, <1>6, <1>7, <1>8 DEF IndInv, IndWith

\* A non-empty set of timers has one with the least number.
LEMMA LeastNumber ==
  ASSUME NEW ord \in [Timers -> Nat], NEW T \in SUBSET Timers, T # {}
  PROVE  \E t \in T : \A u \in T : ord[t] <= ord[u]
<1> DEFINE less == {p \in Nat \X Nat : p[1] < p[2]}
           image == {ord[t] : t \in T}
<1>1. IsWellFoundedOn(less, Nat)
  <2>1. less = OpToRel(<, Nat)
    BY Zenon DEF OpToRel
  <2> QED BY <2>1, NatLessThanWellFounded
<1>2. image \subseteq Nat /\ image # {}
  OBVIOUS
<1>3. PICK x \in image : \A y \in image : ~ (<<y, x>> \in less)
  <2> HIDE DEF less, image
  <2> QED BY <1>1, <1>2, WFMin
<1>4. \A a, b \in Nat : a < b => <<a, b>> \in less
  OBVIOUS
<1>5. \A y \in image : x <= y
  <2> HIDE DEF less, image
  <2> SUFFICES ASSUME NEW y \in image PROVE ~ (y < x)
    BY <1>2, <1>3
  <2> QED BY <1>2, <1>3, <1>4
<1> QED BY <1>5

\* Linked lists hold exactly the allocated timers of their slot.
LEMMA LinkedListsIntact == IndInv => ListsIntact
<1> SUFFICES ASSUME IndInv PROVE ListsIntact
  OBVIOUS
<1> USE NullAssumption
<1>1. PICK ord \in [Timers -> Nat] : Linked(ord)
  BY DEF IndInv, IndWith
<1>2. TypeOK
  BY DEF IndInv
<1>3. ASSUME NEW s \in Slots PROVE Listed(s) = {t \in live : time_slot[t] = s}
  <2> DEFINE here == {t \in live : time_slot[t] = s}
  <2>1. HeadOK(ord, s)
    BY <1>1 DEF Linked
  <2>2. Listed(s) \subseteq here
    <3>1. here \in SUBSET Timers /\ slots[s] \in here \cup {Null}
      BY <1>2, <2>1 DEF TypeOK, HeadOK
    <3>2. \A u \in here : next[u] \in here \cup {Null}
      BY <1>1 DEF Linked, NextOK
    <3> QED BY <3>1, <3>2 DEF Listed, From
  <2>3. ASSUME NEW S \in SUBSET Timers, slots[s] \in S \cup {Null},
               \A u \in S : next[u] \in S \cup {Null}
        PROVE  here \subseteq S
    <3> SUFFICES ASSUME here \ S # {} PROVE FALSE
      OBVIOUS
    <3>1. PICK t \in here \ S : \A u \in here \ S : ord[t] <= ord[u]
      BY <1>2, LeastNumber DEF TypeOK
    <3>2. t # slots[s]
      BY <3>1, <2>3, <1>2 DEF TypeOK
    <3>3. prev[t] \in live /\ next[prev[t]] = t
      BY <3>1, <3>2, <1>1 DEF Linked, PrevOK
    <3>4. prev[t] \in here /\ ord[prev[t]] < ord[t]
      BY <3>1, <3>3, <1>1, <1>2 DEF Linked, NextOK, TypeOK
    <3>5. ord[t] \in Nat /\ ord[prev[t]] \in Nat
      BY <3>1, <3>3, <1>2 DEF TypeOK
    <3>6. prev[t] \in S
      BY <3>1, <3>4, <3>5
    <3> QED BY <3>1, <3>3, <3>6, <2>3, <1>2 DEF TypeOK
  <2>4. here \subseteq Listed(s)
    BY <2>3, <1>2 DEF Listed, From, TypeOK
  <2> QED BY <2>2, <2>4
<1>4. \A t \in live : prev[t] = Null <=> t = slots[time_slot[t]]
  BY <1>1, <1>2 DEF Linked, PrevOK, TypeOK
<1>5. \A t \in live : next[t] # Null => prev[next[t]] = t
  BY <1>1 DEF Linked, NextOK
<1> QED BY <1>3, <1>4, <1>5 DEF ListsIntact

\* The destructor frees every timer there is, so that the next wheel starts afresh.
LEMMA DestroyKeepsInd ==
  ASSUME IndInv, pc = "idle", Destroy
  PROVE  IndInv' /\ live' = {}
<1>1. live' = {}
  <2>1. \A t \in live : time_slot[t] \in Slots /\ t \in Listed(time_slot[t])
    BY LinkedListsIntact DEF IndInv, TypeOK, ListsIntact
  <2> QED BY <2>1 DEF Destroy
<1>2. Init'
  BY <1>1 DEF Destroy, Init
<1>3. Init' => IndInv'
  BY InitInd, PTL
<1> QED BY <1>1, <1>2, <1>3

\* The invariant holds initially and every step keeps it.
THEOREM InductiveInvariant == Spec => []IndInv
<1>1. IndInv /\ [Next]_vars => IndInv'
  <2> SUFFICES ASSUME IndInv, [Next]_vars PROVE IndInv'
    OBVIOUS
  <2>1. CASE OwnerCall
    BY <2>1, TimeoutsAssumption, AddKeepsInd, DelKeepsInd, DestroyKeepsInd DEF OwnerCall
  <2>2. CASE CallbackCall
    BY <2>2, TimeoutsAssumption, AddKeepsInd, DelKeepsInd DEF CallbackCall
  <2>3. CASE Tick
    BY <2>3, BeginKeepsInd, SkipKeepsInd, FireKeepsInd, TickRemoveKeepsInd, EndKeepsInd
       DEF Tick
  <2>4. CASE UNCHANGED vars
    BY <2>4 DEF vars, wheel, history, IndInv, TypeOK, CursorSafe, CallbackOK, NoneAstray,
                NoWholeLapRearm, IndWith, Linked,
                Injective, HeadOK, NextOK, PrevOK, OnSchedule, Left, TicksLeft, Distance,
                Passed
  <2> QED BY <2>1, <2>2, <2>3, <2>4 DEF Next
<1> QED BY <1>1, InitInd, PTL DEF Spec

-----------------------------------------------------------------------------
(***************************************************************************)
(* The walk of a tick comes to an end.                                     *)
(***************************************************************************)

\* The timers of the slot being walked that are numbered from the cursor on.
Later(ord) == IF tmp = Null THEN {}
              ELSE {t \in live : time_slot[t] = cur_slot /\ ord[tmp] <= ord[t]}

AheadIsLater ==
  \A ord \in [Timers -> Nat] : Linked(ord) /\ pc # "idle" => Ahead = Later(ord)

\* These are the timers that the walk still comes to.
LEMMA AheadFacts == IndInv => AheadIsLater
<1> SUFFICES ASSUME IndInv, pc # "idle", NEW ord \in [Timers -> Nat], Linked(ord)
             PROVE  Ahead = Later(ord)
  BY DEF AheadIsLater
<1> USE NullAssumption
<1>1. TypeOK /\ (tmp # Null => tmp \in live /\ time_slot[tmp] = cur_slot)
  BY DEF IndInv, CursorSafe
<1>2. live \subseteq Timers /\ Later(ord) \in SUBSET Timers
  BY <1>1 DEF TypeOK, Later
<1>3. ASSUME tmp # Null
      PROVE  Ahead = Later(ord)
  <2>1. tmp \in Later(ord) /\ \A t \in Timers : ord[t] \in Nat
    BY <1>1, <1>2, <1>3 DEF Later
  <2>2. \A u \in Later(ord) : next[u] \in Later(ord) \cup {Null}
    <3> SUFFICES ASSUME NEW u \in Later(ord), next[u] # Null PROVE next[u] \in Later(ord)
      OBVIOUS
    <3>1. u \in live /\ time_slot[u] = cur_slot /\ ord[tmp] <= ord[u]
      BY <1>3 DEF Later
    <3>2. next[u] \in live /\ time_slot[next[u]] = time_slot[u] /\ ord[u] < ord[next[u]]
      BY <3>1 DEF Linked, NextOK
    <3>3. ord[tmp] <= ord[next[u]]
      BY <1>1, <1>2, <1>3, <2>1, <3>1, <3>2
    <3> QED BY <1>3, <3>1, <3>2, <3>3 DEF Later
  <2>3. Ahead \subseteq Later(ord)
    BY <1>2, <2>1, <2>2 DEF Ahead, From
  <2>4. ASSUME NEW S \in SUBSET Timers, tmp \in S \cup {Null},
               \A u \in S : next[u] \in S \cup {Null}
        PROVE  Later(ord) \subseteq S
    <3> SUFFICES ASSUME Later(ord) \ S # {} PROVE FALSE
      OBVIOUS
    <3>1. PICK t \in Later(ord) \ S : \A u \in Later(ord) \ S : ord[t] <= ord[u]
      <4>1. Later(ord) \ S \in SUBSET Timers
        BY <1>2
      <4> QED BY <4>1, LeastNumber
    <3>2. /\ t \in live /\ time_slot[t] = cur_slot /\ ord[tmp] <= ord[t] /\ t # tmp
          /\ ord[t] \in Nat /\ ord[tmp] \in Nat
      BY <1>1, <1>2, <1>3, <2>1, <2>4, <3>1 DEF Later
    <3>3. ord[tmp] < ord[t]
      <4>1. ord[tmp] # ord[t]
        BY <1>1, <1>3, <3>2 DEF Linked, Injective
      <4> QED BY <3>2, <4>1
    <3>4. t # slots[cur_slot]
      <4>1. cur_slot \in Slots
        BY <1>1 DEF TypeOK
      <4>2. slots[cur_slot] # Null => ord[slots[cur_slot]] <= ord[tmp]
        BY <1>1, <1>3, <4>1 DEF Linked, HeadOK
      <4> QED BY <1>2, <3>2, <3>3, <4>2
    <3>5. prev[t] \in live /\ next[prev[t]] = t
      BY <3>2, <3>4 DEF Linked, PrevOK
    <3>6. /\ time_slot[prev[t]] = cur_slot /\ ord[prev[t]] < ord[t]
          /\ ord[prev[t]] < ord[tmp] => ord[t] <= ord[tmp]
      <4>1. NextOK(ord, prev[t]) /\ next[prev[t]] # Null
        BY <1>2, <3>2, <3>5 DEF Linked
      <4> QED BY <1>1, <1>3, <3>2, <3>5, <4>1 DEF NextOK
    <3>7. ord[prev[t]] \in Nat
      BY <1>2, <2>1, <3>5
    <3>8. prev[t] \in Later(ord)
      BY <1>3, <3>2, <3>3, <3>5, <3>6, <3>7 DEF Later
    <3>9. prev[t] \in S
      BY <3>1, <3>2, <3>6, <3>7, <3>8
    <3> QED BY <1>2, <2>4, <3>1, <3>2, <3>5, <3>9
  <2>5. Later(ord) \subseteq Ahead
    BY <1>2, <2>4 DEF Ahead, From
  <2> QED BY <2>3, <2>5
<1>4. ASSUME tmp = Null
      PROVE  Ahead = Later(ord)
  <2>1. ASSUME NEW t \in Ahead PROVE FALSE
    <3>1. tmp \in {} \cup {Null} => t \in {}
      <4>1. /\ {} \in SUBSET Timers
            /\ \A u \in {} : next[u] \in {} \cup {Null}
        OBVIOUS
      <4> QED BY <2>1, <4>1 DEF Ahead, From
    <3> QED BY <1>4, <3>1
  <2> QED BY <1>4, <2>1 DEF Later
<1> QED BY <1>3, <1>4

-----------------------------------------------------------------------------
(***************************************************************************)
(* The theorems.                                                           *)
(***************************************************************************)

\* The variables keep their types.
THEOREM TypeCorrect == Spec => []TypeOK
BY InductiveInvariant, PTL DEF IndInv

\* tick()'s cursor never dangles although callbacks add and delete timers while it
\* walks: line 187 reads the successor of the timer that fired after its callback.
THEOREM CursorStaysSafe == Spec => []CursorSafe
BY InductiveInvariant, PTL DEF IndInv

\* What is left to wait is never negative, whatever the numbering.
LEMMA TicksLeftNat ==
  ASSUME TypeOK, NEW ord \in [Timers -> Nat], NEW t \in live
  PROVE  TicksLeft(ord, t) \in Nat
<1>1. rotation[t] \in Nat /\ time_slot[t] \in Nat /\ time_slot[t] < N
      /\ cur_slot \in Nat /\ cur_slot < N /\ N \in Nat
  BY NAssumption DEF TypeOK, Slots
<1>2. N * rotation[t] \in Nat
  BY <1>1
<1>3. Distance(time_slot[t]) \in Nat
  BY <1>1 DEF Distance
<1> QED BY <1>1, <1>2, <1>3 DEF TicksLeft

\* Whatever the callbacks add, only those timers are late that a callback added with a
\* timeout of whole laps, and these by one lap (line 102).
THEOREM OnlyLapsAreLate == Spec => []OnTime
<1>1. IndInv => OnTime
  <2> SUFFICES ASSUME IndInv, NEW t \in live PROVE Left(t) >= 0
    BY DEF OnTime
  <2>1. PICK ord \in [Timers -> Nat] : OnSchedule(ord, t)
    BY DEF IndInv, IndWith
  <2>2. TicksLeft(ord, t) \in Nat
    BY TicksLeftNat DEF IndInv
  <2> QED BY <2>1, <2>2 DEF OnSchedule
<1> QED BY <1>1, InductiveInvariant, PTL

\* No callback runs before its timer is due, whatever the callbacks add.
THEOREM FiresNoEarlier == Spec => NeverEarly
<1>1. IndInv /\ [Next]_vars =>
        [(pc = "scan" /\ pc' = "callback") => due[tmp] <= 0]_vars
  <2> SUFFICES ASSUME IndInv, Next, pc = "scan", pc' = "callback"
               PROVE  due[tmp] <= 0
    OBVIOUS
  <2>1. TickFire
    BY DEF Next, OwnerCall, CallbackCall, Tick, TickBegin, TickSkip, TickFire,
           TickRemove, TickEnd, Destroy, wheel
  <2>2. tmp \in live /\ time_slot[tmp] = cur_slot /\ rotation[tmp] = 0
        /\ N \in Nat /\ cur_slot \in Nat
    BY <2>1, NAssumption DEF TickFire, IndInv, CursorSafe, TypeOK, Slots
  <2>3. PICK ord \in [Timers -> Nat] : OnSchedule(ord, tmp)
    BY <2>2 DEF IndInv, IndWith
  <2>4. TicksLeft(ord, tmp) = 0
    <3>1. ~Passed(ord, tmp)
      BY <2>1, <2>2 DEF Passed, TickFire, IndInv, TypeOK
    <3> QED BY <3>1, <2>2 DEF TicksLeft, Distance
  <2>5. due[tmp] \in Int
    BY <2>2 DEF IndInv, TypeOK
  <2> QED BY <2>2, <2>3, <2>4, <2>5 DEF OnSchedule, Left
<1> QED BY <1>1, InductiveInvariant, PTL DEF Spec, NeverEarly

\* If no callback adds a timeout of whole laps, no timer is ever late.
THEOREM FiresOnTime == ASSUME NoWholeLapRearm PROVE Spec => []NeverLate
<1>1. IndInv => NeverLate
  <2> SUFFICES ASSUME IndInv, NEW t \in live PROVE due[t] >= 0
    BY DEF NeverLate
  <2>1. PICK ord \in [Timers -> Nat] : OnSchedule(ord, t)
    BY DEF IndInv, IndWith
  <2>2. TicksLeft(ord, t) \in Nat
    BY TicksLeftNat DEF IndInv
  <2>3. t \notin astray /\ due[t] \in Int
    BY NoWholeLapRearm DEF IndInv, NoneAstray, TypeOK
  <2> QED BY <2>1, <2>2, <2>3 DEF OnSchedule, Left
<1> QED BY <1>1, InductiveInvariant, PTL

\* The lists hold exactly the allocated timers of their slot, and prev undoes
\* next: no timer is lost and none is left behind when it is freed.
THEOREM ListsStayIntact == Spec => []ListsIntact
BY LinkedListsIntact, InductiveInvariant, PTL

\* The cursor goes on: what is ahead of it afterwards was ahead of it before, and it has
\* left the timer it was on.
LEMMA MoveShrinks ==
  ASSUME IndInv, AheadIsLater, AheadIsLater', pc # "idle", pc' # "idle",
         NEW ord \in [Timers -> Nat], Linked(ord), Linked(ord)',
         tmp # Null, tmp' = next[tmp], cur_slot' = cur_slot, live' \subseteq live,
         \A u \in live' : time_slot'[u] = time_slot[u]
  PROVE  Ahead' \subseteq Ahead /\ tmp \notin Ahead'
<1>1. Ahead = Later(ord) /\ Ahead' = Later(ord)'
  BY DEF AheadIsLater
<1>2. tmp \in live /\ time_slot[tmp] = cur_slot /\ live \subseteq Timers
  BY DEF IndInv, CursorSafe, TypeOK
<1>3. CASE next[tmp] = Null
  BY <1>1, <1>3 DEF Later
<1>4. CASE next[tmp] # Null
  <2> PICK n : n = next[tmp]
    OBVIOUS
  <2>1. n \in live /\ ord[tmp] < ord[n]
    BY <1>2, <1>4 DEF Linked, NextOK
  <2>2. \A u \in live : ord[u] \in Nat
    BY <1>2
  <2>3. \A u \in live : ord[n] <= ord[u] => ord[tmp] <= ord[u] /\ u # tmp
    BY <1>2, <2>1, <2>2
  <2>4. Later(ord)' = {u \in live' : time_slot'[u] = cur_slot /\ ord[n] <= ord[u]}
    BY <1>4 DEF Later
  <2>5. Later(ord) = {u \in live : time_slot[u] = cur_slot /\ ord[tmp] <= ord[u]}
    BY DEF Later
  <2> QED BY <1>1, <2>3, <2>4, <2>5
<1> QED BY <1>3, <1>4

LEMMA CallShrinks ==
  ASSUME IndInv, AheadIsLater, AheadIsLater', CallbackCall
  PROVE  Ahead' \subseteq Ahead /\ tmp' = tmp
<1>1. PICK ord \in [Timers -> Nat] : Linked(ord)
  BY DEF IndInv, IndWith
<1>2. PICK t \in Timers : \/ \E timeout \in CallbackTimeouts : AddTimer(t, timeout)
                          \/ t # tmp /\ DelTimer(t)
  BY DEF CallbackCall
<1>3. /\ tmp' = tmp /\ pc = "callback" /\ pc' = "callback" /\ cur_slot' = cur_slot
      /\ tmp \in live /\ tmp # Null /\ TypeOK /\ live \subseteq Timers
  BY <1>2 DEF CallbackCall, AddTimer, DelTimer, IndInv, CursorSafe, CallbackOK, TypeOK
<1>4. Ahead = {u \in live : time_slot[u] = cur_slot /\ ord[tmp] <= ord[u]}
  BY <1>1, <1>3 DEF AheadIsLater, Later
<1>5. ASSUME NEW timeout \in CallbackTimeouts, AddTimer(t, timeout)
      PROVE  Ahead' \subseteq Ahead
  <2> PICK s : s = SlotFor(Ticks(timeout))
    OBVIOUS
  <2> PICK new : new = Renumber(ord, t)
    OBVIOUS
  <2>1. /\ t \notin live /\ live' = live \cup {t} /\ Push(t, s)
        /\ time_slot' = [time_slot EXCEPT ![t] = s] /\ timeout >= 0
    BY <1>5 DEF AddTimer
  <2>2. s \in Slots
    <3>1. Ticks(timeout) \in Nat /\ cur_slot \in Nat /\ N \in Nat \ {0}
      BY <2>1, <1>3, TicksPositive, TimeoutsAssumption, NAssumption DEF TypeOK, Slots
    <3>2. Ticks(timeout) % N \in Nat
      BY <3>1
    <3>3. cur_slot + (Ticks(timeout) % N) \in Nat
      BY <3>1, <3>2
    <3> QED BY <3>1, <3>3, LapsAndRest DEF SlotFor
  <2>3. Linked(Renumber(ord, t))'
    BY <1>1, <1>3, <2>1, <2>2, PushKeepsLinked
  <2>4. new \in [Timers -> Nat] /\ new[t] = 0 /\ \A u \in live : new[u] = ord[u] + 1
    BY <1>3, <2>1 DEF Renumber
  <2>5. Linked(new)'
    BY <2>3 DEF Linked, Injective, HeadOK, NextOK, PrevOK, Renumber
  <2>6. Ahead' = Later(new)'
    BY <1>3, <2>4, <2>5 DEF AheadIsLater
  <2>7. Ahead' = {u \in live' : time_slot'[u] = cur_slot /\ new[tmp] <= new[u]}
    BY <1>3, <2>6 DEF Later
  <2>8. ASSUME NEW u \in live', new[tmp] <= new[u]
        PROVE  u \in live /\ ord[tmp] <= ord[u] /\ time_slot'[u] = time_slot[u]
    <3>1. ord[tmp] \in Nat /\ new[tmp] = ord[tmp] + 1
      BY <1>3, <2>4
    <3>2. u # t
      BY <2>4, <2>8, <3>1
    <3>3. u \in live /\ ord[u] \in Nat /\ new[u] = ord[u] + 1
      BY <1>3, <2>1, <2>4, <3>2
    <3> QED BY <1>3, <2>1, <2>8, <3>1, <3>2, <3>3 DEF TypeOK
  <2> QED BY <1>4, <2>7, <2>8
<1>6. ASSUME t # tmp, DelTimer(t)
      PROVE  Ahead' \subseteq Ahead
  <2>1. t \in live /\ Remove(t, time_slot[t]) /\ time_slot[t] \in Slots
    BY <1>3, <1>6 DEF DelTimer, TypeOK
  <2>2. Linked(ord)' /\ \A u \in live' : u \in live /\ time_slot'[u] = time_slot[u]
    BY <1>1, <1>3, <2>1, RemoveKeepsLinked, RemoveKeepsOthers
  <2>3. Ahead' = {u \in live' : time_slot'[u] = cur_slot /\ ord[tmp] <= ord[u]}
    BY <1>3, <2>2 DEF AheadIsLater, Later
  <2> QED BY <1>4, <2>2, <2>3
<1> QED BY <1>2, <1>3, <1>5, <1>6

\* The walk of tick() ends for any number of timers, although the callbacks it calls may
\* add any number of them to the very list being walked (whole laps), and delete others:
\* nothing ever joins what is ahead of the cursor, and each of its moves leaves a timer.
THEOREM WalkEnds == Spec => WalkShrinks
<1>1. AheadIsLater /\ AheadIsLater' /\ IndInv /\ [Next]_vars =>
        [pc # "idle" /\ pc' # "idle" =>
           Ahead' \subseteq Ahead /\ (tmp' # tmp => tmp \notin Ahead')]_vars
  <2> SUFFICES ASSUME IndInv, AheadIsLater, AheadIsLater', Next, pc # "idle", pc' # "idle"
               PROVE  Ahead' \subseteq Ahead /\ (tmp' # tmp => tmp \notin Ahead')
    OBVIOUS
  <2>1. PICK ord \in [Timers -> Nat] : Linked(ord)
    BY DEF IndInv, IndWith
  <2>2. CASE CallbackCall
    BY <2>2, CallShrinks
  <2>3. CASE TickSkip
    <3>1. Linked(ord)' /\ tmp # Null /\ tmp' = next[tmp]
          /\ UNCHANGED <<cur_slot, live, time_slot>>
      BY <2>1, <2>3 DEF TickSkip, Linked, Injective, HeadOK, NextOK, PrevOK
    <3> QED BY <2>1, <3>1, MoveShrinks
  <2>4. CASE TickRemove
    <3>1. /\ tmp # Null /\ tmp \in live /\ tmp' = next[tmp] /\ UNCHANGED cur_slot
          /\ Remove(tmp, time_slot[tmp]) /\ TypeOK /\ time_slot[tmp] \in Slots
      BY <2>4 DEF TickRemove, IndInv, CursorSafe, CallbackOK, TypeOK
    <3>2. Linked(ord)' /\ \A u \in live' : u \in live /\ time_slot'[u] = time_slot[u]
      BY <2>1, <3>1, RemoveKeepsLinked, RemoveKeepsOthers
    <3> QED BY <2>1, <3>1, <3>2, MoveShrinks
  <2>5. CASE TickFire
    BY <2>5 DEF TickFire, wheel, history, Ahead, From
  <2>6. ~OwnerCall /\ ~TickBegin /\ ~TickEnd
    BY DEF OwnerCall, TickBegin, TickEnd
  <2> QED BY <2>2, <2>3, <2>4, <2>5, <2>6 DEF Next, Tick
<1>2. Spec => []AheadIsLater
  BY AheadFacts, InductiveInvariant, PTL
<1> QED BY <1>1, <1>2, InductiveInvariant, PTL DEF Spec, WalkShrinks

-----------------------------------------------------------------------------
(***************************************************************************)
(* The wheel implements TimerService.                                      *)
(***************************************************************************)

\* The abstract state.
Waiting == live \ Firing
Remaining == [t \in Waiting |-> Left(t)]
Phase == IF pc = "idle" THEN "idle" ELSE "ticking"

LEMMA AddIsArm ==
  ASSUME IndInv, NEW t \in Timers, NEW timeout \in Int, AddTimer(t, timeout)
  PROVE  Service!Arm(t)
<1>1. /\ live' = live \cup {t} /\ t \notin live /\ pc' = pc /\ tmp' = tmp
      /\ due' = [due EXCEPT ![t] = Ticks(timeout)] /\ timeout >= 0
      /\ (astray' = astray \/ astray' = astray \cup {t})
  BY DEF AddTimer
<1>2. TypeOK /\ CursorSafe /\ CallbackOK
  BY DEF IndInv
<1>3. Ticks(timeout) \in Int /\ N \in Int
  BY <1>1, TicksPositive, NAssumption
<1>4. Waiting' = Waiting \cup {t} /\ t \notin Waiting
  BY <1>1, <1>2 DEF Waiting, Firing, CursorSafe, CallbackOK
<1>5. Left(t)' \in Int /\ \A u \in Waiting : Left(u)' = Left(u)
  BY <1>1, <1>2, <1>3 DEF TypeOK, Waiting, Left
<1>6. Remaining' = [u \in Waiting \cup {t} |-> IF u = t THEN Remaining'[t] ELSE Remaining[u]]
      /\ Remaining'[t] \in Int
  BY <1>4, <1>5 DEF Remaining
<1> QED
  BY <1>1, <1>4, <1>6 DEF Service!Arm, Service!pending, Remaining, Phase, Waiting

\* A timer that leaves the wheel leaves the pending timers.
LEMMA DeleteIsCancel ==
  ASSUME IndInv, NEW t \in Timers, DelTimer(t),
         pc = "idle" \/ (pc = "callback" /\ t # tmp)
  PROVE  Service!Cancel(t)
<1>1. t \in live /\ Remove(t, time_slot[t]) /\ live' = live \ {t} /\ pc' = pc /\ tmp' = tmp
  BY DEF DelTimer, Remove
<1>2. TypeOK /\ time_slot[t] \in Slots
  BY DEF IndInv, TypeOK
<1>3. Waiting' = Waiting \ {t} /\ t \in Waiting
  BY <1>1 DEF Waiting, Firing
<1>4. \A u \in Waiting' : Left(u)' = Left(u)
  BY <1>1, <1>2, RemoveKeepsOthers DEF Waiting
<1>5. Remaining' = [u \in Waiting \ {t} |-> Remaining[u]]
  BY <1>3, <1>4 DEF Remaining
<1> QED
  BY <1>1, <1>3, <1>5
     DEF Service!Cancel, Service!Drop, Service!pending, Remaining, Phase, Waiting

\* No timer outlives the wheel.
LEMMA DestroyIsClear ==
  ASSUME IndInv, pc = "idle", Destroy
  PROVE  Service!Clear
<1>1. live' = {} /\ pc' = "idle"
  BY DestroyKeepsInd DEF Destroy
<1>2. Remaining' = [t \in {} |-> 0] /\ Phase = "idle" /\ Phase' = "idle"
  BY <1>1 DEF Remaining, Phase, Waiting
<1> QED
  BY <1>2 DEF Service!Clear, Service!pending, Remaining, Phase, Waiting

\* Every timer is exactly on schedule.
LEMMA Punctual ==
  ASSUME IndInv
  PROVE  \E ord \in [Timers -> Nat] : \A t \in live : Left(t) = TicksLeft(ord, t)
BY DEF IndInv, IndWith, OnSchedule

LEMMA FireIsFire ==
  ASSUME IndInv, TickFire
  PROVE  \E t \in Timers : Service!Fire(t)
<1>1. PICK ord \in [Timers -> Nat] : \A t \in live : Left(t) = TicksLeft(ord, t)
  BY Punctual
<1>2. /\ tmp \in live /\ tmp \in Timers /\ tmp # Null
      /\ time_slot[tmp] = cur_slot /\ rotation[tmp] = 0 /\ ord[tmp] \in Nat
      /\ N \in Nat /\ cur_slot \in Nat /\ TypeOK
      /\ pc = "scan" /\ pc' = "callback" /\ live' = live /\ tmp' = tmp
      /\ \A t \in live : Left(t)' = Left(t)
  BY NAssumption DEF TickFire, IndInv, CursorSafe, TypeOK, Slots, wheel, history, Left
<1>3. Left(tmp) = 0
  <2>1. ~Passed(ord, tmp)
    BY <1>2 DEF Passed
  <2> QED BY <1>1, <1>2, <2>1 DEF TicksLeft, Distance
<1>4. \A t \in live : Left(t) \in Nat
  BY <1>1, <1>2, TicksLeftNat
<1>5. Waiting = live /\ Waiting' = live \ {tmp}
  BY <1>2 DEF Waiting, Firing
<1>6. Remaining' = [u \in Waiting \ {tmp} |-> Remaining[u]]
  BY <1>2, <1>5 DEF Remaining
<1>7. Remaining[tmp] <= 0 /\ \A u \in Waiting : Remaining[tmp] <= Remaining[u]
  BY <1>2, <1>3, <1>4, <1>5 DEF Remaining
<1>8. PICK t \in Timers : t = tmp
  BY <1>2
<1>9. Service!Fire(t)
  BY <1>2, <1>5, <1>6, <1>7, <1>8
     DEF Service!Fire, Service!Drop, Service!pending, Remaining, Phase, Waiting
<1> QED BY <1>9

LEMMA EndIsEnd ==
  ASSUME IndInv, TickEnd
  PROVE  Service!EndTick
<1>1. PICK ord \in [Timers -> Nat] : \A t \in live : Left(t) = TicksLeft(ord, t)
  BY Punctual
<1>2. /\ pc = "scan" /\ tmp = Null /\ pc' = "idle" /\ live' = live
      /\ due' = [t \in Timers |-> IF t \in live THEN due[t] - 1 ELSE 0] /\ astray' = astray
      /\ TypeOK /\ N \in Nat \ {0}
  BY NAssumption DEF TickEnd, IndInv
<1>3. Waiting = live /\ Waiting' = live
  BY <1>2 DEF Waiting, Firing
<1>4. ASSUME NEW t \in live PROVE Left(t) > 0 /\ Left(t) \in Int /\ Left(t)' = Left(t) - 1
  <2>1. /\ time_slot[t] \in Nat /\ time_slot[t] < N /\ cur_slot \in Nat /\ cur_slot < N
        /\ rotation[t] \in Nat /\ N * rotation[t] \in Nat
    BY <1>2 DEF TypeOK, Slots
  <2>2. (IF Passed(ord, t) THEN N ELSE Distance(time_slot[t])) > 0
    <3>1. Passed(ord, t) <=> time_slot[t] = cur_slot
      BY <1>2 DEF Passed
    <3>2. time_slot[t] # cur_slot => Distance(time_slot[t]) > 0
      BY <2>1, <1>2 DEF Distance
    <3> QED BY <3>1, <3>2, <1>2
  <2>3. Distance(time_slot[t]) \in Int
    BY <2>1, <1>2 DEF Distance
  <2>4. TicksLeft(ord, t) > 0
    BY <2>1, <2>2, <2>3, <1>2 DEF TicksLeft
  <2>5. due[t] \in Int /\ t \in Timers
    BY <1>2 DEF TypeOK
  <2>6. Left(t) \in Int /\ Left(t)' = Left(t) - 1
    BY <2>5, <1>2 DEF Left
  <2> QED BY <2>4, <2>6, <1>1
<1>5. \A t \in live : Remaining[t] = Left(t) /\ Remaining'[t] = Left(t) - 1
  BY <1>3, <1>4 DEF Remaining
<1>6. DOMAIN Remaining = live /\ DOMAIN Remaining' = live
  BY <1>3 DEF Remaining
<1> QED
  BY <1>2, <1>4, <1>5, <1>6
     DEF Service!EndTick, Service!TimePasses, Service!pending, Remaining, Phase, Waiting

\* Every step of the wheel is a step of the abstract service or leaves it alone.
LEMMA StepSimulation ==
  ASSUME IndInv, [Next]_vars
  PROVE  [Service!Next]_(Service!vars)
<1>1. CASE OwnerCall
  BY <1>1, TimeoutsAssumption, AddIsArm, DeleteIsCancel, DestroyIsClear
     DEF OwnerCall, Service!Next
<1>2. CASE CallbackCall
  BY <1>2, TimeoutsAssumption, AddIsArm, DeleteIsCancel DEF CallbackCall, Service!Next
<1>3. CASE TickBegin
  <2>1. Remaining' = Remaining /\ Phase = "idle" /\ Phase' = "ticking"
    BY <1>3 DEF TickBegin, wheel, history, Remaining, Left, Phase, Waiting, Firing
  <2> QED BY <2>1 DEF Service!BeginTick, Service!Next, Remaining, Phase, Waiting
<1>4. CASE TickSkip
  <2>1. Remaining' = Remaining /\ Phase' = Phase
    BY <1>4 DEF TickSkip, history, Remaining, Left, Phase, Waiting, Firing
  <2> QED BY <2>1 DEF Service!vars, Remaining, Phase, Waiting
<1>5. CASE TickFire
  BY <1>5, FireIsFire DEF Service!Next
<1>6. CASE TickRemove
  <2>1. /\ pc = "callback" /\ pc' = "scan" /\ live' = live \ {tmp}
        /\ Remove(tmp, cur_slot) /\ tmp \in live /\ TypeOK
    BY <1>6 DEF TickRemove, Remove, IndInv, CursorSafe, CallbackOK
  <2>2. Waiting' = Waiting
    BY <2>1 DEF Waiting, Firing
  <2>3. \A u \in live' : Left(u)' = Left(u)
    BY <2>1, RemoveKeepsOthers DEF TypeOK
  <2>4. Remaining' = Remaining /\ Phase' = Phase
    BY <2>1, <2>2, <2>3 DEF Remaining, Phase, Waiting, Firing
  <2> QED BY <2>4 DEF Service!vars, Remaining, Phase, Waiting
<1>7. CASE TickEnd
  BY <1>7, EndIsEnd DEF Service!Next
<1>8. CASE UNCHANGED vars
  <2>1. Remaining' = Remaining /\ Phase' = Phase
    BY <1>8 DEF vars, wheel, history, Remaining, Left, Phase, Waiting, Firing
  <2> QED BY <2>1 DEF Service!vars, Remaining, Phase, Waiting
<1> QED
  BY <1>1, <1>2, <1>3, <1>4, <1>5, <1>6, <1>7, <1>8 DEF Next, Tick

\* The wheel is a correct timer service, whatever its callbacks add: every timer fires
\* once, in the tick it is due in, or is deleted; only timers that a callback added with
\* a timeout of whole laps fire a lap later.
THEOREM WheelIsService == Spec => ImplementsService
<1>1. Init => Service!Init
  <2> SUFFICES ASSUME Init PROVE Service!Init
    OBVIOUS
  <2>1. Remaining = [t \in {} |-> 0] /\ Phase = "idle"
    BY DEF Init, Remaining, Phase, Waiting
  <2> QED BY <2>1 DEF Service!Init, Remaining, Phase, Waiting
<1>2. IndInv /\ [Next]_vars => [Service!Next]_(Service!vars)
  BY StepSimulation
<1> QED
  BY <1>1, <1>2, InductiveInvariant, PTL DEF Spec, ImplementsService, Service!Spec
=============================================================================
