------------------------ MODULE TimerListOwnerProofs ------------------------
(***************************************************************************)
(* Proofs about TimerListOwner, for any number of timers and any lag: the  *)
(* list stays intact and ascending, and it is a correct timer service, as  *)
(* long as every timer gets the same delay.  Without that hypothesis, see  *)
(* the run that gives two delays, both fail.                               *)
(***************************************************************************)
EXTENDS TimerListOwner, SortTimerLstProofs

\* The owner lets all timers expire after the same delay, as 11_3.cpp does.
OneDelay == \A d, e \in Delays : d = e

\* A timer expires no later than one that is added or put off now.
NoneLater == \A t \in live, d \in Delays : expire[t] <= d

\* tick() is in the callback of the timer at the front, which has expired.
FiringInFront == pc = "callback" => lst.head \in live /\ cur >= expire[lst.head]

(***************************************************************************)
(* The inductive invariant.                                                *)
(***************************************************************************)
IndInv ==
  /\ TypeOK
  /\ Whole(lst, live)
  /\ Ascending(lst, live, expire)
  /\ NoneLater
  /\ FiringInFront

-----------------------------------------------------------------------------
LEMMA InitIsSound == Init => IndInv
<1> SUFFICES ASSUME Init PROVE IndInv
  OBVIOUS
<1>1. TypeOK
  BY MaxLagAssumption, EmptyIsWhole DEF Init, TypeOK, Whole, Linked, EmptyList
<1>2. Whole(lst, live)
  BY EmptyIsWhole DEF Init
<1>3. Ascending(lst, live, expire) /\ NoneLater /\ FiringInFront
  BY DEF Init, Ascending, NoneLater, FiringInFront
<1> QED BY <1>1, <1>2, <1>3 DEF IndInv

\* What IndInv says of a state, and what it takes to show it of the next.
LEMMA StateFacts ==
  ASSUME IndInv
  PROVE  /\ lst \in Lists /\ live \subseteq Timers /\ expire \in [Timers -> Int]
         /\ cur \in Int /\ cur <= 0 /\ -MaxLag <= cur
         /\ lst.head \in live \cup {Null} /\ Null \notin live
         /\ lst.head = Null <=> live = {}
         /\ Linked(lst, live)
<1>1. Linked(lst, live)
  BY DEF IndInv, Whole
<1>2. lst.head \in live \cup {Null} /\ Null \notin live /\ (lst.head = Null <=> live = {})
  BY <1>1, LinkFacts
<1> QED BY <1>1, <1>2, MaxLagAssumption DEF IndInv, TypeOK

LEMMA DelayFacts == \A d \in Delays : d \in Int /\ d > 0
BY DelaysAssumption

\* A call leaves tick() alone.
LEMMA TypeFromList ==
  ASSUME Whole(lst, live)', expire' \in [Timers -> Int], pc' \in {"idle", "scan", "callback"},
         cur' \in -MaxLag .. 0
  PROVE  TypeOK'
<1>1. lst' \in Lists /\ live' \subseteq Timers /\ lst'.head \in live' \cup {Null}
  <2> PICK l : l = lst'
    OBVIOUS
  <2> PICK now : now = live'
    OBVIOUS
  <2>1. Linked(l, now) /\ l \in Lists /\ now \subseteq Timers
    BY DEF Whole, Linked
  <2>2. l.head \in now \cup {Null}
    BY <2>1, LinkFacts
  <2> QED BY <2>1, <2>2
<1> QED BY <1>1 DEF TypeOK

LEMMA AddKeeps ==
  ASSUME OneDelay, IndInv, NEW t \in Timers, NEW d \in Delays, Add(t, d), pc = "callback" => t # lst.head
  PROVE  IndInv' /\ (lst.head # Null => lst'.head = lst.head)
<1> PICK e : e = expire'
  OBVIOUS
<1>1. /\ t \in Timers \ live /\ live' = live \cup {t} /\ e = [expire EXCEPT ![t] = d]
      /\ lst' = AddTimer(lst, e, t) /\ UNCHANGED <<pc, cur>>
  BY DEF Add
<1>2. d \in Int /\ e \in [Timers -> Int] /\ e[t] = d /\ \A u \in live : e[u] = expire[u]
  BY <1>1, StateFacts, DelayFacts
<1>3. Ascending(lst, live, e)
  BY <1>2, StateFacts, LinkFacts DEF Ascending, IndInv
<1>4. Latest(t, live, e)
  BY <1>2, StateFacts DEF Latest, IndInv, NoneLater
<1>5. /\ Whole(lst', live') /\ Ascending(lst', live', e)
      /\ lst.head # Null => lst'.head = lst.head
  <2>1. Whole(lst, live) /\ t \in Timers \ live /\ e \in [Timers -> Int]
    BY <1>1, <1>2 DEF IndInv
  <2>2. /\ Whole(AddTimer(lst, e, t), live \cup {t})
        /\ Ascending(AddTimer(lst, e, t), live \cup {t}, e)
        /\ lst.head # Null => AddTimer(lst, e, t).head = lst.head
    BY <1>3, <1>4, <2>1, AddKeepsWhole
  <2> QED BY <1>1, <2>2
<1>6. NoneLater'
  <2> SUFFICES ASSUME NEW u \in live \cup {t}, NEW c \in Delays PROVE e[u] <= c
    BY <1>1 DEF NoneLater
  <2> QED BY <1>2 DEF NoneLater, IndInv, OneDelay
<1>7. FiringInFront'
  BY <1>1, <1>2, <1>5, StateFacts DEF FiringInFront, IndInv
<1>8. TypeOK'
  BY <1>1, <1>2, <1>5, TypeFromList DEF IndInv, TypeOK
<1> QED BY <1>5, <1>6, <1>7, <1>8 DEF IndInv

LEMMA AdjustKeeps ==
  ASSUME OneDelay, IndInv, NEW t \in Timers, NEW d \in Delays, Adjust(t, d), pc = "callback" => t # lst.head
  PROVE  IndInv' /\ (t # lst.head => lst'.head = lst.head)
<1> PICK e : e = expire'
  OBVIOUS
<1>1. /\ t \in live /\ live' = live /\ e = [expire EXCEPT ![t] = d]
      /\ lst' = AdjustTimer(lst, e, t) /\ UNCHANGED <<pc, cur>>
  BY DEF Adjust
<1>2. d \in Int /\ e \in [Timers -> Int] /\ e[t] = d /\ \A u \in live \ {t} : e[u] = expire[u]
  BY <1>1, StateFacts, DelayFacts
<1>3. Latest(t, live, e)
  BY <1>2, StateFacts DEF Latest, IndInv, NoneLater
<1>4. /\ Whole(lst', live') /\ Ascending(lst', live', e)
      /\ t # lst.head => lst'.head = lst.head
  <2>1. Whole(lst, live) /\ Ascending(lst, live, expire) /\ expire \in [Timers -> Int]
    BY StateFacts DEF IndInv
  <2>2. t \in live
    BY <1>1
  <2>3. e \in [Timers -> Int] /\ \A u \in live \ {t} : e[u] = expire[u]
    BY <1>2
  <2>4. /\ Whole(AdjustTimer(lst, e, t), live)
        /\ Ascending(AdjustTimer(lst, e, t), live, e)
        /\ t # lst.head => AdjustTimer(lst, e, t).head = lst.head
    BY <1>3, <2>1, <2>2, <2>3, AdjustKeepsWhole
  <2> QED BY <1>1, <2>4
<1>5. NoneLater'
  BY <1>1, <1>2 DEF NoneLater, IndInv, OneDelay
<1>6. FiringInFront'
  BY <1>1, <1>2, <1>4, StateFacts DEF FiringInFront, IndInv
<1>7. TypeOK'
  BY <1>1, <1>2, <1>4, TypeFromList DEF IndInv, TypeOK
<1> QED BY <1>4, <1>5, <1>6, <1>7 DEF IndInv

\* del_timer of a timer, and the step of tick() that takes off the first one.
LEMMA RemovalKeeps ==
  ASSUME IndInv, NEW t \in live, NEW l, Whole(l, live \ {t}), Ascending(l, live \ {t}, expire),
         live' = live \ {t}, expire' = [expire EXCEPT ![t] = 0], lst' = l,
         pc' \in {"idle", "scan", "callback"}, cur' = cur,
         pc' = "callback" => pc = "callback" /\ t # lst.head /\ l.head = lst.head
  PROVE  IndInv'
<1>1. expire' \in [Timers -> Int] /\ \A u \in live' : u \in live /\ expire'[u] = expire[u]
  BY StateFacts
<1>2. Whole(lst', live')
  OBVIOUS
<1>3. Ascending(lst', live', expire')
  <2>1. Linked(l, live \ {t})
    BY DEF Whole
  <2>2. \A u \in live \ {t} : l.next[u] \in (live \ {t}) \cup {Null}
    BY <2>1, LinkFacts
  <2> QED BY <1>1, <2>2 DEF Ascending
<1>4. NoneLater'
  BY <1>1 DEF NoneLater, IndInv
<1>5. FiringInFront'
  BY <1>1 DEF FiringInFront, IndInv
<1>6. TypeOK'
  BY <1>1, <1>2, TypeFromList DEF IndInv, TypeOK
<1> QED BY <1>2, <1>3, <1>4, <1>5, <1>6 DEF IndInv

LEMMA DeleteKeeps ==
  ASSUME IndInv, NEW t \in Timers, Delete(t), pc = "callback" => t # lst.head
  PROVE  IndInv' /\ (t # lst.head => lst'.head = lst.head)
<1> PICK l : l = DelTimer(lst, t)
  OBVIOUS
<1>1. /\ t \in live /\ live' = live \ {t} /\ expire' = [expire EXCEPT ![t] = 0]
      /\ lst' = l /\ UNCHANGED <<pc, cur>>
  BY DEF Delete
<1>2. Whole(lst, live) /\ Ascending(lst, live, expire) /\ expire \in [Timers -> Int]
  BY StateFacts DEF IndInv
<1>3. /\ Whole(l, live \ {t}) /\ Ascending(l, live \ {t}, expire)
      /\ t # lst.head => l.head = lst.head
  BY <1>1, <1>2, DelKeepsWhole
<1>4. pc' \in {"idle", "scan", "callback"}
  BY <1>1 DEF IndInv, TypeOK
<1>5. IndInv'
  BY <1>1, <1>3, <1>4, RemovalKeeps
<1> QED BY <1>1, <1>3, <1>5

LEMMA TickRemoveKeeps ==
  ASSUME IndInv, TickRemove
  PROVE  IndInv'
<1> PICK t : t = lst.head
  OBVIOUS
<1> PICK l : l = PopFront(lst, t)
  OBVIOUS
<1>1. /\ t \in live /\ live' = live \ {t} /\ expire' = [expire EXCEPT ![t] = 0]
      /\ lst' = l /\ cur' = cur /\ pc' = "scan"
  BY DEF TickRemove, IndInv, FiringInFront
<1>2. Whole(lst, live) /\ Ascending(lst, live, expire) /\ expire \in [Timers -> Int]
  BY StateFacts DEF IndInv
<1>3. Whole(l, live \ {t}) /\ Ascending(l, live \ {t}, expire)
  BY <1>1, <1>2, PopKeepsWhole
<1> QED BY <1>1, <1>3, RemovalKeeps

LEMMA DestroyKeeps ==
  ASSUME IndInv, pc = "idle", Destroy
  PROVE  IndInv'
<1>1. live' = {} /\ lst' = EmptyList
  BY StateFacts DEF Destroy, Linked, Intact
<1>2. expire' \in [Timers -> Int] /\ UNCHANGED <<pc, cur>>
  BY DEF Destroy
<1>3. Whole(lst', live')
  BY <1>1, EmptyIsWhole
<1>4. Ascending(lst', live', expire') /\ NoneLater' /\ FiringInFront'
  BY <1>1, <1>2 DEF Ascending, NoneLater, FiringInFront
<1>5. TypeOK'
  BY <1>2, <1>3, TypeFromList DEF IndInv, TypeOK
<1> QED BY <1>3, <1>4, <1>5 DEF IndInv

LEMMA ElapseKeeps ==
  ASSUME IndInv, Elapse
  PROVE  IndInv'
<1>1. /\ expire' = [t \in Timers |-> IF t \in live THEN expire[t] - 1 ELSE 0]
      /\ cur' = IF pc = "idle" THEN 0 ELSE cur - 1
      /\ pc # "idle" => cur > -MaxLag
      /\ UNCHANGED <<lst, live, pc>>
  BY DEF Elapse
<1>2. expire' \in [Timers -> Int] /\ \A u \in live : expire'[u] = expire[u] - 1 /\ expire[u] \in Int
  BY <1>1, StateFacts
<1>3. cur' \in -MaxLag .. 0
  BY <1>1, StateFacts, MaxLagAssumption
<1>4. Ascending(lst', live', expire')
  BY <1>1, <1>2, StateFacts, LinkFacts DEF IndInv, Ascending
<1>5. NoneLater'
  BY <1>1, <1>2, DelayFacts DEF NoneLater, IndInv
<1>6. FiringInFront'
  BY <1>1, <1>2, StateFacts DEF FiringInFront, IndInv
<1>7. Whole(lst', live')
  BY <1>1 DEF IndInv
<1>8. TypeOK'
  BY <1>1, <1>2, <1>3, <1>7, TypeFromList DEF IndInv, TypeOK
<1> QED BY <1>4, <1>5, <1>6, <1>7, <1>8 DEF IndInv

\* The steps of tick() that only look.
LEMMA ScanKeeps ==
  ASSUME IndInv, TickBegin \/ TickFire \/ TickEnd
  PROVE  IndInv'
<1>1. UNCHANGED <<lst, live, expire>> /\ cur' \in -MaxLag .. 0
  BY StateFacts, MaxLagAssumption DEF TickBegin, TickFire, TickEnd
<1>2. pc' \in {"idle", "scan", "callback"} /\ FiringInFront'
  BY StateFacts DEF TickBegin, TickFire, TickEnd, FiringInFront
<1>3. Whole(lst', live') /\ Ascending(lst', live', expire') /\ NoneLater'
  BY <1>1 DEF IndInv, NoneLater
<1>4. TypeOK'
  BY <1>1, <1>2, <1>3, StateFacts, TypeFromList
<1> QED BY <1>2, <1>3, <1>4 DEF IndInv

LEMMA StepKeeps ==
  ASSUME OneDelay, IndInv, [Next]_vars
  PROVE  IndInv'
<1>1. CASE Call
  BY <1>1, AddKeeps, AdjustKeeps, DeleteKeeps DEF Call
<1>2. CASE pc = "idle" /\ Destroy
  BY <1>2, DestroyKeeps
<1>3. CASE Elapse
  BY <1>3, ElapseKeeps
<1>4. CASE Tick
  BY <1>4, ScanKeeps, TickRemoveKeeps DEF Tick
<1>5. CASE UNCHANGED vars
  BY <1>5 DEF vars, IndInv, TypeOK, NoneLater, FiringInFront
<1> QED BY <1>1, <1>2, <1>3, <1>4, <1>5 DEF Next

-----------------------------------------------------------------------------
\* The invariant of the proofs, where all timers get the same delay: whatever is added,
\* adjusted or deleted, between ticks or by a callback, the list is whole and ascending.
THEOREM InductiveInvariant == OneDelay => (Spec => []IndInv)
<1> SUFFICES ASSUME OneDelay PROVE Spec => []IndInv
  OBVIOUS
<1>1. IndInv /\ [Next]_vars => IndInv'
  BY StepKeeps
<1> QED BY <1>1, InitIsSound, PTL DEF Spec

\* The types of the list's links, of the clock and of the expiries, under that hypothesis.
THEOREM TypeCorrect == OneDelay => (Spec => []TypeOK)
<1>1. IndInv => TypeOK
  BY DEF IndInv
<1> QED BY <1>1, InductiveInvariant, PTL

\* The list holds exactly the allocated timers, linked both ways and ascending, whatever
\* the owner does between ticks and the callbacks do inside one.
THEOREM ListStaysIntact == OneDelay => (Spec => []ListIntact)
<1>1. IndInv => ListIntact
  BY DEF IndInv, Whole, Linked, ListIntact
<1> QED BY <1>1, InductiveInvariant, PTL

-----------------------------------------------------------------------------
(***************************************************************************)
(* The list is a timer service.                                            *)
(***************************************************************************)

Due == [t \in live \ Firing |-> IF pc = "idle" THEN expire[t] ELSE expire[t] - cur]
Phase == IF pc = "idle" THEN "idle" ELSE "ticking"

\* Steps that the owner does not see.
LEMMA Unseen ==
  ASSUME pc' = "idle" <=> pc = "idle", live' \ Firing' = live \ Firing,
         \A t \in live \ Firing :
           IF pc = "idle" THEN expire'[t] = expire[t] ELSE expire'[t] - cur' = expire[t] - cur
  PROVE  UNCHANGED Service!vars
<1>1. Due' = Due /\ Phase' = Phase
  BY DEF Due, Phase
<1> QED BY <1>1 DEF Service!vars, Due, Phase

LEMMA AddIsArm ==
  ASSUME OneDelay, IndInv, NEW t \in Timers, NEW d \in Delays, Add(t, d),
         pc = "callback" => t # lst.head
  PROVE  Service!Arm(t)
<1>1. /\ t \notin live /\ live' = live \cup {t} /\ expire' = [expire EXCEPT ![t] = d]
      /\ UNCHANGED <<pc, cur>> /\ d \in Int
  BY DelayFacts DEF Add
<1>2. Firing' = Firing /\ t \notin Firing
  BY <1>1, AddKeeps, StateFacts DEF Firing, IndInv, FiringInFront
<1>3. /\ live' \ Firing' = (live \ Firing) \cup {t}
      /\ expire'[t] = d /\ \A u \in live : expire'[u] = expire[u]
  BY <1>1, <1>2, StateFacts
<1>4. /\ DOMAIN Due = live \ Firing /\ DOMAIN Due' = (live \ Firing) \cup {t}
      /\ Due' = [u \in (live \ Firing) \cup {t} |-> IF u = t THEN Due'[t] ELSE Due[u]]
      /\ Due'[t] \in Int
  BY <1>1, <1>2, <1>3, StateFacts DEF Due
<1> QED
  BY <1>1, <1>3, <1>4 DEF Service!Arm, Service!pending, Due, Phase

LEMMA AdjustIsPostpone ==
  ASSUME OneDelay, IndInv, NEW t \in Timers, NEW d \in Delays, Adjust(t, d),
         pc = "callback" => t # lst.head
  PROVE  Service!Postpone(t)
<1>1. /\ t \in live /\ live' = live /\ expire' = [expire EXCEPT ![t] = d] /\ d >= expire[t]
      /\ UNCHANGED <<pc, cur>> /\ d \in Int
  BY DelayFacts DEF Adjust
<1>2. Firing' = Firing /\ t \notin Firing
  BY <1>1, AdjustKeeps, StateFacts DEF Firing
<1>3. /\ live' \ Firing' = live \ Firing /\ t \in live \ Firing
      /\ expire'[t] = d /\ \A u \in live \ {t} : expire'[u] = expire[u]
  BY <1>1, <1>2, StateFacts
<1>4. /\ DOMAIN Due = live \ Firing /\ DOMAIN Due' = live \ Firing
      /\ Due' = [Due EXCEPT ![t] = Due'[t]]
      /\ Due'[t] \in Int /\ Due'[t] >= Due[t]
  <2>1. DOMAIN Due = live \ Firing /\ DOMAIN Due' = live \ Firing
    BY <1>3 DEF Due
  <2>2. \A u \in live \ Firing : u # t => Due'[u] = Due[u]
    BY <1>1, <1>3 DEF Due
  <2>3. Due'[t] \in Int /\ Due'[t] >= Due[t]
    BY <1>1, <1>3, StateFacts DEF Due
  <2>4. Due' = [u \in live \ Firing |-> IF u = t THEN Due'[t] ELSE Due[u]]
    <3>1. Due' = [u \in live \ Firing |-> Due'[u]]
      BY <1>3 DEF Due
    <3> QED BY <2>2, <3>1
  <2> QED BY <1>3, <2>1, <2>3, <2>4
<1> QED
  BY <1>1, <1>3, <1>4 DEF Service!Postpone, Service!pending, Due, Phase

LEMMA DeleteIsCancel ==
  ASSUME IndInv, NEW t \in Timers, Delete(t), pc = "callback" => t # lst.head
  PROVE  Service!Cancel(t)
<1>1. /\ t \in live /\ live' = live \ {t} /\ expire' = [expire EXCEPT ![t] = 0]
      /\ UNCHANGED <<pc, cur>>
  BY DEF Delete
<1>2. Firing' = Firing /\ t \notin Firing
  BY <1>1, DeleteKeeps, StateFacts DEF Firing
<1>3. /\ live' \ Firing' = (live \ Firing) \ {t} /\ t \in live \ Firing
      /\ \A u \in live \ {t} : expire'[u] = expire[u]
  BY <1>1, <1>2, StateFacts
<1>4. DOMAIN Due = live \ Firing /\ Due' = [u \in (live \ Firing) \ {t} |-> Due[u]]
  BY <1>1, <1>3 DEF Due
<1> QED
  BY <1>1, <1>3, <1>4 DEF Service!Cancel, Service!Drop, Service!pending, Due, Phase

LEMMA DestroyIsClear ==
  ASSUME IndInv, pc = "idle", Destroy
  PROVE  Service!Clear
<1>1. live' = {} /\ pc' = "idle"
  BY StateFacts DEF Destroy, Linked, Intact
<1>2. DOMAIN Due' = {}
  BY <1>1 DEF Due
<1> QED BY <1>1, <1>2 DEF Service!Clear, Service!pending, Due, Phase

LEMMA FireIsFire ==
  ASSUME IndInv, TickFire
  PROVE  \E t \in Timers : Service!Fire(t)
<1>1. /\ pc = "scan" /\ pc' = "callback" /\ lst.head # Null /\ cur >= expire[lst.head]
      /\ UNCHANGED <<lst, live, expire, cur>>
  BY DEF TickFire
<1>2. PICK t \in Timers : t = lst.head /\ t \in live
  BY <1>1, StateFacts
<1>3. Firing = {} /\ Firing' = {t}
  BY <1>1, <1>2 DEF Firing
<1>4. /\ DOMAIN Due = live /\ Due' = [u \in live \ {t} |-> Due[u]]
      /\ \A u \in live : Due[u] = expire[u] - cur
  BY <1>1, <1>3 DEF Due
<1>5. \A u \in live : expire[t] <= expire[u] /\ expire[u] \in Int
  BY <1>2, StateFacts, HeadIsFirst DEF IndInv
<1>6. Due[t] <= 0 /\ \A u \in live : Due[t] <= Due[u]
  BY <1>1, <1>2, <1>4, <1>5, StateFacts
<1>7. Service!Fire(t)
  BY <1>1, <1>2, <1>4, <1>6 DEF Service!Fire, Service!Drop, Service!pending, Due, Phase
<1> QED BY <1>7

LEMMA EndIsEnd ==
  ASSUME IndInv, TickEnd
  PROVE  Service!EndTick
<1>1. /\ pc = "scan" /\ pc' = "idle" /\ (lst.head # Null => cur < expire[lst.head])
      /\ UNCHANGED <<lst, live, expire>>
  BY DEF TickEnd
<1>2. live' \ Firing' = live \ Firing
  BY <1>1 DEF Firing
<1>3. ASSUME NEW t \in live \ Firing PROVE expire[t] > cur /\ expire[t] \in Int
  <2>1. lst.head \in live /\ expire[lst.head] <= expire[t]
    BY StateFacts, HeadIsFirst DEF IndInv
  <2>2. cur < expire[lst.head] /\ expire[lst.head] \in Int /\ expire[t] \in Int /\ cur \in Int
    BY <1>1, <2>1, StateFacts
  <2> QED BY <2>1, <2>2
<1>4. /\ DOMAIN Due = live \ Firing /\ DOMAIN Due' = live \ Firing
      /\ \A t \in live \ Firing : Due[t] = expire[t] - cur /\ Due'[t] = expire[t]
  BY <1>1, <1>2 DEF Due
<1>5. \A t \in live \ Firing : Due[t] > 0 /\ Due'[t] \in Int /\ Due'[t] <= Due[t]
  BY <1>3, <1>4, StateFacts
<1>6. \A t, u \in live \ Firing : Due[t] - Due'[t] = Due[u] - Due'[u]
  BY <1>3, <1>4, StateFacts
<1>7. Service!TimePasses
  BY <1>4, <1>5, <1>6 DEF Service!TimePasses, Service!pending, Due
<1> QED BY <1>1, <1>4, <1>5, <1>7 DEF Service!EndTick, Service!pending, Due, Phase

LEMMA ElapseIsElapse ==
  ASSUME IndInv, Elapse
  PROVE  Service!Elapse \/ UNCHANGED Service!vars
<1>1. /\ expire' = [t \in Timers |-> IF t \in live THEN expire[t] - 1 ELSE 0]
      /\ cur' = IF pc = "idle" THEN 0 ELSE cur - 1
      /\ UNCHANGED <<lst, live, pc>>
  BY DEF Elapse
<1>2. \A t \in live : expire'[t] = expire[t] - 1 /\ expire[t] \in Int
  BY <1>1, StateFacts
<1>3. Firing' = Firing
  BY <1>1 DEF Firing
<1>4. CASE pc # "idle"
  <2>1. \A t \in live \ Firing : expire'[t] - cur' = expire[t] - cur
    BY <1>1, <1>2, <1>4, StateFacts
  <2> QED BY <1>1, <1>3, <1>4, <2>1, Unseen
<1>5. CASE pc = "idle"
  <2>1. /\ DOMAIN Due = live \ Firing /\ DOMAIN Due' = live \ Firing
        /\ \A t \in live \ Firing : Due[t] = expire[t] /\ Due'[t] = expire[t] - 1
    BY <1>1, <1>2, <1>3, <1>5 DEF Due
  <2>2. \A t \in live \ Firing : /\ Due'[t] \in Int /\ Due'[t] <= Due[t]
    BY <1>2, <2>1
  <2>3. \A t, u \in live \ Firing : Due[t] - Due'[t] = Due[u] - Due'[u]
    BY <1>2, <2>1
  <2>4. Service!TimePasses
    BY <2>1, <2>2, <2>3 DEF Service!TimePasses, Service!pending, Due
  <2>5. Service!Elapse
    BY <1>1, <1>5, <2>4 DEF Service!Elapse, Phase
  <2> QED BY <2>5
<1> QED BY <1>4, <1>5

\* Every step of the list and its owner is a step of the service or one that it does not see.
LEMMA StepSimulation ==
  ASSUME OneDelay, IndInv, [Next]_vars
  PROVE  [Service!Next]_(Service!vars)
<1>1. CASE Call
  BY <1>1, AddIsArm, AdjustIsPostpone, DeleteIsCancel DEF Call, Service!Next
<1>2. CASE pc = "idle" /\ Destroy
  BY <1>2, DestroyIsClear DEF Service!Next
<1>3. CASE Elapse
  BY <1>3, ElapseIsElapse DEF Service!Next
<1>4. CASE TickBegin
  <2>1. pc = "idle" /\ pc' = "scan" /\ cur' = 0 /\ UNCHANGED <<lst, live, expire>>
    BY <1>4 DEF TickBegin
  <2>2. Firing = {} /\ Firing' = {}
    BY <2>1 DEF Firing
  <2>3. \A t \in live : expire[t] - 0 = expire[t]
    BY StateFacts
  <2>4. Due' = Due
    BY <2>1, <2>2, <2>3 DEF Due
  <2> QED BY <2>1, <2>4 DEF Service!BeginTick, Service!Next, Due, Phase
<1>5. CASE TickFire
  BY <1>5, FireIsFire DEF Service!Next
<1>6. CASE TickRemove
  <2>1. /\ pc = "callback" /\ pc' = "scan" /\ live' = live \ {lst.head} /\ cur' = cur
        /\ expire' = [expire EXCEPT ![lst.head] = 0]
    BY <1>6 DEF TickRemove
  <2>2. live' \ Firing' = live \ Firing /\ Firing = {lst.head}
    BY <2>1 DEF Firing
  <2>3. \A t \in live \ Firing : expire'[t] = expire[t]
    BY <2>1, <2>2, StateFacts
  <2> QED BY <2>1, <2>2, <2>3, Unseen
<1>7. CASE TickEnd
  BY <1>7, EndIsEnd DEF Service!Next
<1>8. CASE UNCHANGED vars
  <2>1. UNCHANGED <<lst, live, expire, pc, cur>> /\ Firing' = Firing
    BY <1>8 DEF vars, Firing
  <2> QED BY <2>1, Unseen
<1> QED BY <1>1, <1>2, <1>3, <1>4, <1>5, <1>6, <1>7, <1>8 DEF Next, Tick

\* With one delay the list is a correct timer service: a timer that was deleted never fires,
\* any other fires in the first tick that begins when it has expired, the earliest first.
THEOREM ListIsService == OneDelay => (Spec => ImplementsService)
<1> SUFFICES ASSUME OneDelay PROVE Spec => ImplementsService
  OBVIOUS
<1>1. Init => Service!Init
  <2> SUFFICES ASSUME Init PROVE Service!Init
    OBVIOUS
  <2>1. Due = [t \in {} |-> 0] /\ Phase = "idle"
    BY DEF Init, Due, Phase, Firing
  <2> QED BY <2>1 DEF Service!Init, Due, Phase
<1>2. IndInv /\ [Next]_vars => [Service!Next]_(Service!vars)
  BY StepSimulation
<1>3. Spec => []IndInv
  BY InductiveInvariant
<1> QED BY <1>1, <1>2, <1>3, PTL DEF Spec, ImplementsService, Service!Spec
=============================================================================
