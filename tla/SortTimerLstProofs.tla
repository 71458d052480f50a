------------------------- MODULE SortTimerLstProofs -------------------------
(***************************************************************************)
(* Lemmas about the ascending timer list: what each of its operations does *)
(* to a list that is intact, for any number of timers.                     *)
(*                                                                         *)
(* add_timer and adjust_timer are treated for a timer that expires no      *)
(* sooner than all others, as it is where every timer gets the same delay: *)
(* for other timers the list breaks.                                       *)
(***************************************************************************)
EXTENDS SortTimerLst, TLAPS

(***************************************************************************)
(* The list that the proofs carry along: it is intact, its tail is its     *)
(* only end, and timers that are not allocated have no links.              *)
(***************************************************************************)

Linked(l, live) ==
  /\ l \in Lists /\ live \subseteq Timers
  /\ Intact(l, live)
  /\ \A u \in live : l.next[u] = Null => u = l.tail

Unlinked(l, dead) == \A t \in dead : l.next[t] = Null /\ l.prev[t] = Null

Whole(l, live) == Linked(l, live) /\ Unlinked(l, Timers \ live)

\* No timer expires later than t.
Latest(t, live, expire) == \A u \in live : expire[u] <= expire[t]

-----------------------------------------------------------------------------
(***************************************************************************)
(* Chain(l, h), the least set that holds h and is closed under next.       *)
(***************************************************************************)

LEMMA ChainLeast ==
  ASSUME NEW l, NEW h, NEW S \in SUBSET Timers, h \in S \cup {Null},
         \A u \in S : l.next[u] \in S \cup {Null}
  PROVE  Chain(l, h) \subseteq S
BY DEF Chain

LEMMA ChainOfNull ==
  ASSUME NEW l
  PROVE  Chain(l, Null) = {}
<1> PICK S : S = {}
  OBVIOUS
<1>1. S \in SUBSET Timers /\ Null \in S \cup {Null}
      /\ \A u \in S : l.next[u] \in S \cup {Null}
  OBVIOUS
<1> QED BY <1>1, ChainLeast

LEMMA ChainClosed ==
  ASSUME NEW l \in Lists, NEW h \in Timers
  PROVE  /\ h \in Chain(l, h) /\ Chain(l, h) \subseteq Timers
         /\ \A u \in Chain(l, h) : l.next[u] \in Chain(l, h) \cup {Null}
<1>1. h \in Chain(l, h)
  BY NullAssumption DEF Chain
<1>2. ASSUME NEW u \in Chain(l, h), l.next[u] # Null
      PROVE  l.next[u] \in Chain(l, h)
  <2>1. u \in Timers /\ l.next[u] \in Timers
    BY <1>2 DEF Chain, Lists
  <2>2. ASSUME NEW S \in SUBSET Timers, h \in S \cup {Null},
               \A v \in S : l.next[v] \in S \cup {Null}
        PROVE  l.next[u] \in S
    BY <1>2, <2>2 DEF Chain
  <2> QED BY <2>1, <2>2 DEF Chain
<1> QED BY <1>1, <1>2 DEF Chain

-----------------------------------------------------------------------------
(***************************************************************************)
(* Facts of a linked list.                                                 *)
(***************************************************************************)

LEMMA LinkFacts ==
  ASSUME NEW l, NEW live, Linked(l, live)
  PROVE  /\ l.head \in live \cup {Null} /\ (l.head = Null <=> live = {})
         /\ \A u \in live : l.next[u] \in live \cup {Null} /\ u \in Timers
         /\ Null \notin live
         /\ \A S \in SUBSET Timers :
              l.head \in S \cup {Null} /\ (\A u \in S : l.next[u] \in S \cup {Null})
                => live \subseteq S
<1>1. Chain(l, l.head) = live /\ l \in Lists /\ live \subseteq Timers
  BY DEF Linked, Intact
<1>2. l.head \in Timers \cup {Null}
  BY <1>1 DEF Lists
<1>3. CASE l.head = Null
  BY <1>1, <1>3, ChainOfNull, NullAssumption
<1>4. CASE l.head # Null
  BY <1>1, <1>2, <1>4, ChainClosed, ChainLeast, NullAssumption
<1> QED BY <1>3, <1>4

\* Every timer but the head follows another.
LEMMA Predecessor ==
  ASSUME NEW l, NEW live, Linked(l, live), NEW t \in live, t # l.head
  PROVE  l.prev[t] \in live \ {t} /\ l.next[l.prev[t]] = t
<1> DEFINE S == live \ {t}
<1>1. S \in SUBSET Timers /\ l.head \in S \cup {Null} /\ ~(live \subseteq S)
  BY LinkFacts
<1>2. PICK v \in S : l.next[v] \notin S \cup {Null}
  BY <1>1, LinkFacts
<1>3. l.next[v] = t /\ v \in live
  BY <1>2, LinkFacts
<1>4. l.prev[t] = v
  BY <1>3, LinkFacts DEF Linked, Intact
<1> QED BY <1>2, <1>3, <1>4

\* No timer is its own successor, nor does any precede the head.
LEMMA Successor ==
  ASSUME NEW l, NEW live, Linked(l, live), NEW t \in live, l.next[t] # Null
  PROVE  l.next[t] \in live \ {t, l.head} /\ l.prev[l.next[t]] = t
<1>1. l.next[t] \in live /\ l.prev[l.next[t]] = t
  BY LinkFacts DEF Linked, Intact
<1>2. l.next[t] # l.head
  BY <1>1, LinkFacts DEF Linked, Intact
<1>3. l.next[t] # t
  BY <1>1, <1>2, Predecessor
<1> QED BY <1>1, <1>2, <1>3

\* From wherever one starts, one comes to the tail.
LEMMA TailReached ==
  ASSUME NEW l, NEW live, Linked(l, live), NEW h \in live
  PROVE  Chain(l, h) \subseteq live /\ l.tail \in Chain(l, h)
<1>0. l \in Lists /\ live \subseteq Timers /\ l.tail \in live
  BY DEF Linked, Intact
<1>1. \A u \in live : Chain(l, u) \subseteq live
  BY <1>0, LinkFacts, ChainLeast
<1> DEFINE B == {u \in live : l.tail \in Chain(l, u)}
           G == live \ B
<1>2. l.tail \in B
  BY <1>0, ChainClosed
<1>3. ASSUME NEW u \in B
      PROVE  l.next[u] \in B \cup {Null}
  <2> SUFFICES ASSUME l.next[u] # Null PROVE l.tail \in Chain(l, l.next[u])
    BY LinkFacts
  <2> PICK n : n = l.next[u]
    OBVIOUS
  <2>1. n \in Timers /\ n \in live
    BY <1>0, LinkFacts
  <2> PICK S : S = Chain(l, n) \cup {u}
    OBVIOUS
  <2>2. S \in SUBSET Timers /\ u \in S \cup {Null}
        /\ \A v \in S : l.next[v] \in S \cup {Null}
    BY <1>0, <2>1, ChainClosed
  <2>3. Chain(l, u) \subseteq S
    BY <2>2, ChainLeast
  <2>4. u # l.tail
    BY DEF Linked, Intact
  <2> QED BY <2>3, <2>4
<1>4. ASSUME NEW u \in G
      PROVE  l.next[u] \in G
  <2>1. u \in live /\ u # l.tail
    BY <1>2
  <2>2. l.next[u] \in live /\ l.next[u] # Null
    BY <2>1, LinkFacts DEF Linked
  <2> PICK n : n = l.next[u]
    OBVIOUS
  <2>3. n \in Timers /\ u \in Timers
    BY <1>0, <2>1, <2>2
  <2>4. Chain(l, n) \subseteq Chain(l, u)
    BY <1>0, <2>2, <2>3, ChainClosed, ChainLeast
  <2> QED BY <2>2, <2>4
<1>5. l.head \notin G
  <2> SUFFICES ASSUME l.head \in G PROVE FALSE
    OBVIOUS
  <2>1. live \subseteq G
    BY <1>0, <1>4, LinkFacts
  <2> QED BY <1>2, <2>1
<1>6. live \subseteq B
  BY <1>0, <1>3, <1>5, LinkFacts
<1> QED BY <1>1, <1>6

-----------------------------------------------------------------------------
(***************************************************************************)
(* Appending.                                                              *)
(***************************************************************************)

\* l2 is l with t behind its tail.
Appended(l, t, l2) ==
  /\ l2 \in Lists /\ l2.head = l.head /\ l2.tail = t
  /\ \A u \in Timers :
       /\ l2.next[u] = IF u = t THEN Null ELSE IF u = l.tail THEN t ELSE l.next[u]
       /\ l2.prev[u] = IF u = t THEN l.tail ELSE l.prev[u]

LEMMA AppendLinked ==
  ASSUME NEW l, NEW live, Linked(l, live), live # {},
         NEW t \in Timers \ live, NEW l2, Appended(l, t, l2)
  PROVE  Linked(l2, live \cup {t})
<1> PICK now : now = live \cup {t}
  OBVIOUS
<1>1. /\ l \in Lists /\ l2 \in Lists /\ live \subseteq Timers /\ t \in Timers
      /\ l.tail \in live /\ l.next[l.tail] = Null
      /\ l.head \in live /\ l2.head = l.head /\ l2.tail = t
      /\ Null \notin Timers
  BY LinkFacts, NullAssumption DEF Linked, Intact, Appended
<1>2. \A u \in live : l2.next[u] = (IF u = l.tail THEN t ELSE l.next[u])
                      /\ l2.prev[u] = l.prev[u] /\ l.next[u] \in live \cup {Null}
  BY <1>1, LinkFacts DEF Appended
<1>3. l2.next[t] = Null /\ l2.prev[t] = l.tail
  BY <1>1 DEF Appended
<1> PICK C : C = Chain(l2, l2.head)
  OBVIOUS
<1>4. C \subseteq now
  <2>1. now \in SUBSET Timers /\ l2.head \in now \cup {Null}
        /\ \A u \in now : l2.next[u] \in now \cup {Null}
    BY <1>1, <1>2, <1>3
  <2> QED BY <2>1, ChainLeast
<1>5. l2.head \in C /\ \A u \in C : l2.next[u] \in C \cup {Null}
  BY <1>1, ChainClosed
<1>6. live \subseteq C
  <2> PICK S : S = C \cap live
    OBVIOUS
  <2>1. S \in SUBSET Timers /\ l.head \in S \cup {Null}
    BY <1>1, <1>5
  <2>2. ASSUME NEW u \in S
        PROVE  l.next[u] \in S \cup {Null}
    BY <1>1, <1>2, <1>5
  <2>3. live \subseteq S
    BY <2>1, <2>2, LinkFacts
  <2> QED BY <2>3
<1>7. t \in C
  BY <1>1, <1>2, <1>5, <1>6
<1>8. \A u \in now : l2.prev[u] = Null <=> u = l2.head
  BY <1>1, <1>2, <1>3 DEF Linked, Intact
<1>9. \A u \in now : l2.next[u] # Null => l2.prev[l2.next[u]] = u
  BY <1>1, <1>2, <1>3 DEF Linked, Intact
<1>10. \A u \in now : l2.next[u] = Null => u = l2.tail
  BY <1>1, <1>2 DEF Linked
<1> QED BY <1>1, <1>3, <1>4, <1>6, <1>7, <1>8, <1>9, <1>10 DEF Linked, Intact

\* Without a later timer add_timer(timer, lst_head) appends, wherever it starts.
LEMMA InsertAppends ==
  ASSUME NEW l, NEW live, Linked(l, live), NEW h \in live,
         NEW t \in Timers \ live, NEW expire, \A u \in live : ~(expire[t] < expire[u])
  PROVE  Appended(l, t, InsertAfter(l, expire, t, h))
<1> DEFINE walked == Chain(l, h)
           later == {u \in walked \ {h} : expire[t] < expire[u]}
<1>1. walked \subseteq live /\ l.tail \in walked
  BY TailReached
<1>2. later = {}
  BY <1>1
<1>3. \A u \in walked : l.next[u] = Null <=> u = l.tail
  BY <1>1 DEF Linked, Intact
<1>4. (CHOOSE v \in walked : l.next[v] = Null) = l.tail
  BY <1>1, <1>3
<1>5. l \in Lists /\ t \in Timers /\ l.tail \in Timers /\ live \subseteq Timers
  BY <1>1 DEF Linked
<1> PICK nx : nx = [u \in Timers |-> IF u = t THEN Null ELSE IF u = l.tail THEN t ELSE l.next[u]]
  OBVIOUS
<1> PICK pv : pv = [u \in Timers |-> IF u = t THEN l.tail ELSE l.prev[u]]
  OBVIOUS
<1>6. nx \in [Timers -> Timers \cup {Null}] /\ pv \in [Timers -> Timers \cup {Null}]
  BY <1>5 DEF Lists
<1>7. nx = [u \in Timers |->
                  IF u = t THEN Null
                  ELSE IF u \in walked /\ l.next[u] \in later \cup {Null} THEN t
                  ELSE l.next[u]]
  BY <1>1, <1>2, <1>3
<1>8. pv = [u \in Timers |->
                  IF u = t THEN CHOOSE v \in walked : l.next[v] = Null
                  ELSE IF u \in later THEN t
                  ELSE l.prev[u]]
  BY <1>2, <1>4
<1>9. InsertAfter(l, expire, t, h) = [head |-> l.head, tail |-> t, next |-> nx, prev |-> pv]
  BY <1>7, <1>8, Zenon DEF InsertAfter
<1> PICK l2 : l2 = InsertAfter(l, expire, t, h)
  OBVIOUS
<1>10. l2.head = l.head /\ l2.tail = t /\ l2.next = nx /\ l2.prev = pv /\ l2 \in Lists
  BY <1>5, <1>6, <1>9 DEF Lists
<1> QED BY <1>10 DEF Appended

LEMMA AppendAscends ==
  ASSUME NEW l, NEW live, Linked(l, live), NEW expire, Ascending(l, live, expire),
         NEW t \in Timers \ live, NEW l2, Appended(l, t, l2), Latest(t, live, expire)
  PROVE  Ascending(l2, live \cup {t}, expire)
<1>1. \A u \in live : u # t /\ u \in Timers /\ (l.next[u] # Null => expire[u] <= expire[l.next[u]])
                      /\ expire[u] <= expire[t]
  BY LinkFacts DEF Ascending, Latest
<1> QED BY <1>1 DEF Ascending, Appended

-----------------------------------------------------------------------------
(***************************************************************************)
(* Removing.                                                               *)
(***************************************************************************)

\* In l2 the links that led to t lead past it.
Removed(l, live, t, l2) ==
  /\ l2 \in Lists
  /\ l2.head = IF t = l.head THEN l.next[t] ELSE l.head
  /\ live # {t} => l2.tail = IF t = l.tail THEN l.prev[t] ELSE l.tail
  /\ \A u \in live \ {t} :
       /\ l2.next[u] = IF l.next[u] = t THEN l.next[t] ELSE l.next[u]
       /\ l2.prev[u] = IF l.prev[u] = t THEN l.prev[t] ELSE l.prev[u]

\* A timer without neighbours is alone.
LEMMA Alone ==
  ASSUME NEW l, NEW live, Linked(l, live), NEW t \in live, t = l.head, l.next[t] = Null
  PROVE  live = {t}
<1> PICK S : S = {t}
  OBVIOUS
<1>1. S \in SUBSET Timers /\ l.head \in S \cup {Null} /\ \A u \in S : l.next[u] \in S \cup {Null}
  BY LinkFacts
<1> QED BY <1>1, LinkFacts

LEMMA RemoveLinked ==
  ASSUME NEW l, NEW live, Linked(l, live), NEW t \in live, NEW l2, Removed(l, live, t, l2)
  PROVE  Linked(l2, live \ {t})
<1> PICK L : L = live \ {t}
  OBVIOUS
<1>0. l \in Lists /\ l2 \in Lists /\ live \subseteq Timers /\ Null \notin live
      /\ l.head \in live /\ t # Null
  BY LinkFacts DEF Linked, Removed
<1>1. \A u \in L : u \in live /\ u # t /\ u # Null
                   /\ l.next[u] \in live \cup {Null} /\ l.next[u] # u
  BY <1>0, LinkFacts, Successor
<1>2. l.next[t] \in L \cup {Null} /\ (l.next[t] # Null => l.prev[l.next[t]] = t)
  BY <1>0, LinkFacts, Successor
<1>3. t # l.head => l.prev[t] \in L /\ l.next[l.prev[t]] = t
  BY Predecessor
<1>4. l2.head \in L \cup {Null}
  BY <1>0, <1>2 DEF Removed
<1>5. \A u \in L : l2.next[u] \in L \cup {Null}
  BY <1>1, <1>2 DEF Removed
<1> PICK C : C = Chain(l2, l2.head)
  OBVIOUS
<1>6. C \subseteq L
  BY <1>0, <1>4, <1>5, ChainLeast
<1>7. L \subseteq C
  <2>1. CASE l2.head = Null
    BY <1>0, <2>1, Alone DEF Removed
  <2>2. CASE l2.head # Null
    <3>1. l2.head \in C /\ \A u \in C : l2.next[u] \in C \cup {Null}
      BY <1>0, <1>4, <2>2, ChainClosed
    <3>2. \A u \in C : l.next[u] = t \/ l.next[u] \in C \cup {Null}
      BY <1>6, <3>1 DEF Removed
    <3>3. t # l.head => l.prev[t] \in C
      <4> SUFFICES ASSUME t # l.head, l.prev[t] \notin C PROVE FALSE
        OBVIOUS
      <4>1. \A u \in C : l.next[u] # t
        BY <1>0, <1>1, <1>6 DEF Linked, Intact
      <4>2. l.head \in C
        BY <3>1 DEF Removed
      <4>3. live \subseteq C
        BY <1>0, <1>6, <3>2, <4>1, <4>2, LinkFacts
      <4> QED BY <1>6, <4>3
    <3>4. l.next[t] \in C \cup {Null}
      <4>1. CASE t = l.head
        BY <3>1, <4>1 DEF Removed
      <4>2. CASE t # l.head
        BY <1>3, <3>1, <3>3, <4>2 DEF Removed
      <4> QED BY <4>1, <4>2
    <3> PICK Q : Q = C \cup {t}
      OBVIOUS
    <3>5. Q \in SUBSET Timers /\ l.head \in Q \cup {Null}
      BY <1>0, <1>6, <3>1 DEF Removed
    <3>6. \A u \in Q : l.next[u] \in Q \cup {Null}
      BY <3>2, <3>4
    <3>7. live \subseteq Q
      BY <3>5, <3>6, LinkFacts
    <3> QED BY <3>7
  <2> QED BY <2>1, <2>2
<1>8. \A u \in L : l2.prev[u] = Null <=> u = l2.head
  <2> SUFFICES ASSUME NEW u \in L PROVE l2.prev[u] = Null <=> u = l2.head
    OBVIOUS
  <2>1. l2.prev[u] = IF l.prev[u] = t THEN l.prev[t] ELSE l.prev[u]
    BY DEF Removed
  <2>2. (l.prev[u] = Null <=> u = l.head) /\ (l.prev[t] = Null <=> t = l.head)
    BY <1>1 DEF Linked, Intact
  <2>3. l.prev[u] = t <=> u = l.next[t]
    BY <1>0, <1>1, <1>2, <2>2, Predecessor
  <2>4. u = l.next[t] => u # l.head
    BY <1>0, <2>2, <2>3
  <2> QED BY <1>0, <1>1, <2>1, <2>2, <2>3, <2>4 DEF Removed
<1>9. \A u \in L : l2.next[u] # Null => l2.prev[l2.next[u]] = u
  <2> SUFFICES ASSUME NEW u \in L, l2.next[u] # Null PROVE l2.prev[l2.next[u]] = u
    OBVIOUS
  <2>1. l2.next[u] \in L
    BY <1>5
  <2>2. \A v \in live : l.next[v] # Null => l.prev[l.next[v]] = v
    BY DEF Linked, Intact
  <2>3. CASE l.next[u] = t
    <3>1. l2.next[u] = l.next[t] /\ l.prev[t] = u
      BY <1>0, <1>1, <2>2, <2>3 DEF Removed
    <3>2. l.prev[l.next[t]] = t
      BY <1>2, <3>1
    <3> QED BY <2>1, <3>1, <3>2 DEF Removed
  <2>4. CASE l.next[u] # t
    <3>1. l2.next[u] = l.next[u]
      BY <2>4 DEF Removed
    <3>2. l.prev[l.next[u]] = u
      BY <1>1, <2>2, <3>1
    <3> QED BY <1>1, <2>1, <3>1, <3>2 DEF Removed
  <2> QED BY <2>3, <2>4
<1>10. L # {} => l2.tail \in L /\ l2.next[l2.tail] = Null
  <2> SUFFICES ASSUME L # {} PROVE l2.tail \in L /\ l2.next[l2.tail] = Null
    OBVIOUS
  <2>1. live # {t} /\ l.tail \in live /\ l.next[l.tail] = Null
    BY DEF Linked, Intact
  <2>2. CASE t = l.tail
    <3>1. t # l.head
      BY <2>1, <2>2, Alone
    <3> QED BY <1>3, <2>1, <2>2, <3>1 DEF Removed
  <2>3. CASE t # l.tail
    BY <1>0, <2>1, <2>3 DEF Removed
  <2> QED BY <2>2, <2>3
<1>11. \A u \in L : l2.next[u] = Null => u = l2.tail
  <2> SUFFICES ASSUME NEW u \in L, l2.next[u] = Null PROVE u = l2.tail
    OBVIOUS
  <2>1. live # {t} /\ u \in live
    BY <1>1
  <2>2. \A v \in live : l.next[v] = Null => v = l.tail
    BY DEF Linked
  <2>3. CASE l.next[u] = t
    <3>1. l.next[t] = Null /\ l.prev[t] = u
      BY <1>0, <1>1, <2>3 DEF Removed, Linked, Intact
    <3> QED BY <2>1, <2>2, <3>1 DEF Removed
  <2>4. CASE l.next[u] # t
    <3>1. u = l.tail
      BY <2>1, <2>2, <2>4 DEF Removed
    <3> QED BY <1>1, <2>1, <3>1 DEF Removed
  <2> QED BY <2>3, <2>4
<1> QED BY <1>0, <1>6, <1>7, <1>8, <1>9, <1>10, <1>11 DEF Linked, Intact

LEMMA RemoveAscends ==
  ASSUME NEW l, NEW live, Linked(l, live), NEW expire \in [Timers -> Int],
         Ascending(l, live, expire), NEW t \in live, NEW l2, Removed(l, live, t, l2)
  PROVE  Ascending(l2, live \ {t}, expire)
<1> SUFFICES ASSUME NEW u \in live \ {t}, l2.next[u] # Null
             PROVE  expire[u] <= expire[l2.next[u]]
  BY DEF Ascending
<1>1. \A v \in live : /\ v \in Timers /\ l.next[v] \in live \cup {Null}
                      /\ l.next[v] # Null => expire[v] <= expire[l.next[v]]
  BY LinkFacts DEF Ascending
<1>2. CASE l.next[u] = t
  <2>1. l2.next[u] = l.next[t] /\ l.next[t] \in Timers /\ u \in Timers /\ t \in Timers
    BY <1>1, <1>2 DEF Removed
  <2>2. t # Null
    BY NullAssumption, <2>1
  <2>3. expire[u] <= expire[t] /\ expire[t] <= expire[l.next[t]]
    BY <1>1, <1>2, <2>1, <2>2
  <2>4. expire[u] \in Int /\ expire[t] \in Int /\ expire[l.next[t]] \in Int
    BY <2>1
  <2> QED BY <2>1, <2>3, <2>4
<1>3. CASE l.next[u] # t
  BY <1>1, <1>3 DEF Removed
<1> QED BY <1>2, <1>3

-----------------------------------------------------------------------------
(***************************************************************************)
(* The head expires first.                                                 *)
(***************************************************************************)

LEMMA HeadIsFirst ==
  ASSUME NEW l, NEW live, Linked(l, live), NEW expire \in [Timers -> Int],
         Ascending(l, live, expire), NEW t \in live
  PROVE  l.head \in live /\ expire[l.head] <= expire[t]
<1>1. l.head \in live /\ live \subseteq Timers
  BY LinkFacts
<1> PICK S : S = {u \in live : expire[l.head] <= expire[u]}
  OBVIOUS
<1>2. S \in SUBSET Timers /\ l.head \in S \cup {Null}
  BY <1>1
<1>3. ASSUME NEW u \in S, l.next[u] # Null
      PROVE  l.next[u] \in S
  <2>1. l.next[u] \in live /\ u \in live
    BY <1>3, LinkFacts
  <2>2. expire[u] <= expire[l.next[u]]
    BY <1>3, <2>1 DEF Ascending
  <2>3. expire[l.head] \in Int /\ expire[u] \in Int /\ expire[l.next[u]] \in Int
    BY <1>1, <2>1
  <2> QED BY <2>1, <2>2, <2>3
<1>4. live \subseteq S
  BY <1>2, <1>3, LinkFacts
<1> QED BY <1>1, <1>4

-----------------------------------------------------------------------------
(***************************************************************************)
(* The operations of the class.                                            *)
(***************************************************************************)

\* A constructed list is empty.
LEMMA EmptyIsWhole == Whole(EmptyList, {})
<1>1. EmptyList \in Lists /\ EmptyList.head = Null
      /\ \A t \in Timers : EmptyList.next[t] = Null /\ EmptyList.prev[t] = Null
  BY DEF EmptyList, Lists
<1>2. Chain(EmptyList, EmptyList.head) = {}
  BY <1>1, ChainOfNull
<1> QED BY <1>1, <1>2 DEF Whole, Linked, Intact, Unlinked

\* add_timer(timer): a timer that expires last ends up behind all others.
LEMMA AddKeepsWhole ==
  ASSUME NEW l, NEW live, Whole(l, live), NEW t \in Timers \ live,
         NEW expire \in [Timers -> Int], Ascending(l, live, expire), Latest(t, live, expire)
  PROVE  /\ Whole(AddTimer(l, expire, t), live \cup {t})
         /\ Ascending(AddTimer(l, expire, t), live \cup {t}, expire)
         /\ l.head # Null => AddTimer(l, expire, t).head = l.head
<1>1. Linked(l, live) /\ l \in Lists /\ live \subseteq Timers /\ t \in Timers /\ t # Null
  BY NullAssumption DEF Whole, Linked
<1> PICK l2 : l2 = AddTimer(l, expire, t)
  OBVIOUS
<1>2. CASE l.head = Null
  <2>1. l2 = [l EXCEPT !.head = t, !.tail = t] /\ live = {}
    BY <1>1, <1>2, LinkFacts DEF AddTimer
  <2>2. l2 \in Lists /\ l2.head = t /\ l2.tail = t
        /\ \A u \in Timers : l2.next[u] = Null /\ l2.prev[u] = Null
    BY <1>1, <2>1 DEF Lists, Whole, Unlinked
  <2> PICK S : S = {t}
    OBVIOUS
  <2>3. S \in SUBSET Timers /\ t \in S \cup {Null} /\ \A u \in S : l2.next[u] \in S \cup {Null}
    BY <1>1, <2>2
  <2>4. Chain(l2, t) = S
    BY <1>1, <2>2, <2>3, ChainLeast, ChainClosed
  <2> QED BY <1>1, <1>2, <2>1, <2>2, <2>4 DEF Whole, Linked, Intact, Unlinked, Ascending
<1>3. CASE l.head # Null
  <2>1. l.head \in live /\ live # {}
    BY <1>1, <1>3, LinkFacts
  <2>2. \A u \in live : expire[u] <= expire[t] /\ expire[u] \in Int /\ expire[t] \in Int
    BY <1>1 DEF Latest
  <2>3. \A u \in live : ~(expire[t] < expire[u])
    BY <2>2
  <2>4. l2 = InsertAfter(l, expire, t, l.head)
    BY <1>3, <2>1, <2>3 DEF AddTimer
  <2>5. Appended(l, t, l2)
    BY <1>1, <2>1, <2>3, <2>4, InsertAppends
  <2>6. Linked(l2, live \cup {t}) /\ Ascending(l2, live \cup {t}, expire)
    BY <1>1, <2>1, <2>5, AppendLinked, AppendAscends
  <2>7. Unlinked(l2, Timers \ (live \cup {t}))
    BY <1>1, <2>1, <2>5 DEF Appended, Unlinked, Whole, Linked, Intact
  <2>8. l2.head = l.head
    BY <2>5 DEF Appended
  <2> QED BY <2>6, <2>7, <2>8 DEF Whole
<1> QED BY <1>2, <1>3

\* How adjust_timer takes out a timer that has a successor.
Unhooked(l, t) ==
  IF t = l.head
  THEN [l EXCEPT !.head = l.next[t], !.prev[l.next[t]] = Null, !.next[t] = Null]
  ELSE [l EXCEPT !.next[l.prev[t]] = l.next[t], !.prev[l.next[t]] = l.prev[t]]

LEMMA UnhookedLinks ==
  ASSUME NEW l \in Lists, NEW t \in Timers, l.next[t] \in Timers,
         t # l.head => l.prev[t] \in Timers
  PROVE  LET n == l.next[t]
             p == l.prev[t]
             l2 == Unhooked(l, t)
         IN  /\ l2 \in Lists /\ l2.tail = l.tail
             /\ l2.head = IF t = l.head THEN n ELSE l.head
             /\ \A u \in Timers :
                  /\ u # n => l2.prev[u] = l.prev[u]
                  /\ t = l.head => l2.next[u] = IF u = t THEN Null ELSE l.next[u]
                  /\ t # l.head => l2.next[u] = IF u = p THEN n ELSE l.next[u]
             /\ l2.prev[n] = IF t = l.head THEN Null ELSE p
<1> PICK n : n = l.next[t]
  OBVIOUS
<1> PICK p : p = l.prev[t]
  OBVIOUS
<1> PICK l2 : l2 = Unhooked(l, t)
  OBVIOUS
<1> PICK nx : nx = l.next
  OBVIOUS
<1> PICK pv : pv = l.prev
  OBVIOUS
<1>1. nx \in [Timers -> Timers \cup {Null}] /\ pv \in [Timers -> Timers \cup {Null}]
  BY DEF Lists
<1>2. CASE t = l.head
  <2>1. l2 = [head |-> n, tail |-> l.tail, next |-> [nx EXCEPT ![t] = Null],
              prev |-> [pv EXCEPT ![n] = Null]]
    BY <1>2 DEF Unhooked, Lists
  <2>2. [nx EXCEPT ![t] = Null] \in [Timers -> Timers \cup {Null}]
        /\ [pv EXCEPT ![n] = Null] \in [Timers -> Timers \cup {Null}]
    BY <1>1
  <2>3. l2 \in Lists
    BY <2>1, <2>2 DEF Lists
  <2> QED BY <1>1, <1>2, <2>1, <2>3
<1>3. CASE t # l.head
  <2>1. l2 = [head |-> l.head, tail |-> l.tail, next |-> [nx EXCEPT ![p] = n],
              prev |-> [pv EXCEPT ![n] = p]]
    BY <1>3 DEF Unhooked, Lists
  <2>2. [nx EXCEPT ![p] = n] \in [Timers -> Timers \cup {Null}]
        /\ [pv EXCEPT ![n] = p] \in [Timers -> Timers \cup {Null}]
    BY <1>1, <1>3
  <2>3. l2 \in Lists
    BY <2>1, <2>2 DEF Lists
  <2> QED BY <1>1, <1>3, <2>1, <2>3
<1> QED BY <1>2, <1>3

LEMMA UnhookRemoves ==
  ASSUME NEW l, NEW live, Whole(l, live), NEW t \in live, l.next[t] # Null
  PROVE  Removed(l, live, t, Unhooked(l, t)) /\ Unlinked(Unhooked(l, t), Timers \ live)
<1> PICK n : n = l.next[t]
  OBVIOUS
<1> PICK p : p = l.prev[t]
  OBVIOUS
<1> PICK l2 : l2 = Unhooked(l, t)
  OBVIOUS
<1>1. /\ Linked(l, live) /\ l \in Lists /\ live \subseteq Timers /\ t \in Timers /\ t # Null
      /\ Null \notin live
  BY NullAssumption DEF Whole, Linked
<1>2. n \in live /\ n # t /\ n # l.head /\ l.prev[n] = t
  BY <1>1, Successor
<1>3. t # l.head => p \in live /\ p # t /\ l.next[p] = t
  BY <1>1, Predecessor
<1>4. \A u \in live : (l.next[u] = t <=> t # l.head /\ u = p) /\ (l.prev[u] = t <=> u = n)
  BY <1>1, <1>2, <1>3, Predecessor DEF Linked, Intact
<1>5. t # l.tail /\ (t = l.head => p = Null)
  BY <1>1 DEF Linked, Intact
<1>6. /\ l2 \in Lists /\ l2.tail = l.tail
      /\ l2.head = IF t = l.head THEN n ELSE l.head
      /\ \A u \in Timers :
           /\ u # n => l2.prev[u] = l.prev[u]
           /\ t = l.head => l2.next[u] = IF u = t THEN Null ELSE l.next[u]
           /\ t # l.head => l2.next[u] = IF u = p THEN n ELSE l.next[u]
      /\ l2.prev[n] = IF t = l.head THEN Null ELSE p
  BY <1>1, <1>2, <1>3, UnhookedLinks
<1>7. Removed(l, live, t, l2)
  <2>1. l2.head = (IF t = l.head THEN l.next[t] ELSE l.head)
        /\ l2.tail = IF t = l.tail THEN l.prev[t] ELSE l.tail
    BY <1>5, <1>6
  <2>2. ASSUME NEW u \in live \ {t}
        PROVE  /\ l2.next[u] = IF l.next[u] = t THEN l.next[t] ELSE l.next[u]
               /\ l2.prev[u] = IF l.prev[u] = t THEN l.prev[t] ELSE l.prev[u]
    BY <1>1, <1>4, <1>5, <1>6
  <2> QED BY <1>6, <2>1, <2>2 DEF Removed
<1>8. Unlinked(l2, Timers \ live)
  BY <1>1, <1>2, <1>3, <1>6 DEF Whole, Unlinked
<1> QED BY <1>7, <1>8

\* adjust_timer(timer): a timer put off so that it expires last moves to the end.
LEMMA AdjustKeepsWhole ==
  ASSUME NEW l, NEW live, Whole(l, live), NEW t \in live,
         NEW old \in [Timers -> Int], Ascending(l, live, old),
         NEW expire \in [Timers -> Int], \A u \in live \ {t} : expire[u] = old[u],
         Latest(t, live, expire)
  PROVE  /\ Whole(AdjustTimer(l, expire, t), live)
         /\ Ascending(AdjustTimer(l, expire, t), live, expire)
         /\ t # l.head => AdjustTimer(l, expire, t).head = l.head
<1>1. Linked(l, live) /\ live \subseteq Timers /\ t \in Timers
  BY DEF Whole, Linked
<1>2. \A u \in live \ {t} : expire[u] = old[u]
  OBVIOUS
<1>3. \A u \in live : ~(expire[t] < expire[u])
  BY <1>1, <1>2 DEF Latest
<1> PICK n : n = l.next[t]
  OBVIOUS
<1> PICK l3 : l3 = AdjustTimer(l, expire, t)
  OBVIOUS
<1>4. CASE n = Null
  <2>1. l3 = l
    BY <1>4 DEF AdjustTimer
  <2>2. Ascending(l, live, expire)
    BY <1>1, <1>2, <1>4, LinkFacts DEF Ascending, Latest
  <2> QED BY <2>1, <2>2
<1>5. CASE n # Null
  <2> PICK rest : rest = live \ {t}
    OBVIOUS
  <2> PICK l2 : l2 = Unhooked(l, t)
    OBVIOUS
  <2>1. n \in rest
    BY <1>1, <1>5, Successor
  <2>2. l3 = InsertAfter(l2, expire, t, n)
    BY <1>1, <1>3, <1>5, <2>1 DEF AdjustTimer, Unhooked
  <2>3. Removed(l, live, t, l2) /\ Unlinked(l2, Timers \ live)
    BY <1>5, UnhookRemoves
  <2>4. Linked(l2, rest) /\ Ascending(l2, rest, old)
    BY <1>1, <2>3, RemoveLinked, RemoveAscends
  <2>5. Ascending(l2, rest, expire) /\ Latest(t, rest, expire)
    BY <1>1, <1>2, <2>4, LinkFacts DEF Ascending, Latest
  <2>6. t \in Timers \ rest /\ rest # {} /\ rest \cup {t} = live
        /\ \A u \in rest : ~(expire[t] < expire[u])
    BY <1>1, <1>3, <2>1
  <2>7. Appended(l2, t, l3)
    <3>1. t \in Timers \ rest /\ \A u \in rest : ~(expire[t] < expire[u])
      BY <2>6
    <3>2. Appended(l2, t, InsertAfter(l2, expire, t, n))
      BY <2>1, <2>4, <3>1, InsertAppends
    <3> QED BY <2>2, <3>2
  <2>8. Linked(l3, live) /\ Ascending(l3, live, expire)
    BY <2>4, <2>5, <2>6, <2>7, AppendLinked, AppendAscends
  <2>9. Unlinked(l3, Timers \ live)
    <3>1. l2.tail \in live
      BY <2>4, <2>6 DEF Linked, Intact
    <3> QED BY <1>1, <2>3, <2>7, <3>1 DEF Appended, Unlinked
  <2>10. t # l.head => l3.head = l.head
    BY <2>3, <2>7 DEF Appended, Removed
  <2> QED BY <2>8, <2>9, <2>10 DEF Whole
<1> QED BY <1>4, <1>5

\* What Freed does.
LEMMA FreedLinks ==
  ASSUME NEW l \in Lists, NEW t \in Timers
  PROVE  /\ Freed(l, t) \in Lists /\ Freed(l, t).head = l.head /\ Freed(l, t).tail = l.tail
         /\ Freed(l, t).next[t] = Null /\ Freed(l, t).prev[t] = Null
         /\ \A u \in Timers \ {t} : Freed(l, t).next[u] = l.next[u] /\ Freed(l, t).prev[u] = l.prev[u]
BY DEF Freed, Lists

\* A timer taken out and freed leaves a whole list.
LEMMA FreeKeepsWhole ==
  ASSUME NEW l, NEW live, Whole(l, live), NEW t \in live,
         NEW expire \in [Timers -> Int], Ascending(l, live, expire),
         NEW l1 \in Lists, Removed(l, live, t, l1),
         \A u \in Timers \ live : l1.next[u] = l.next[u] /\ l1.prev[u] = l.prev[u]
  PROVE  /\ Whole(Freed(l1, t), live \ {t}) /\ Ascending(Freed(l1, t), live \ {t}, expire)
         /\ t # l.head => Freed(l1, t).head = l.head
<1> PICK l2 : l2 = Freed(l1, t)
  OBVIOUS
<1>1. t \in Timers /\ live \subseteq Timers
  BY DEF Whole, Linked
<1>2. Removed(l, live, t, l2)
  BY <1>1, FreedLinks DEF Removed
<1>3. Linked(l2, live \ {t}) /\ Ascending(l2, live \ {t}, expire)
  BY <1>2, RemoveLinked, RemoveAscends DEF Whole
<1>4. Unlinked(l2, Timers \ (live \ {t}))
  BY <1>1, FreedLinks DEF Unlinked, Whole
<1>5. t # l.head => l2.head = l.head
  BY <1>2 DEF Removed
<1> QED BY <1>3, <1>4, <1>5 DEF Whole

\* del_timer(timer), in each of its four cases.
LEMMA DelKeepsWhole ==
  ASSUME NEW l, NEW live, Whole(l, live), NEW t \in live,
         NEW expire \in [Timers -> Int], Ascending(l, live, expire)
  PROVE  /\ Whole(DelTimer(l, t), live \ {t}) /\ Ascending(DelTimer(l, t), live \ {t}, expire)
         /\ t # l.head => DelTimer(l, t).head = l.head
<1>1. /\ Linked(l, live) /\ l \in Lists /\ live \subseteq Timers /\ t \in Timers /\ t # Null
      /\ Null \notin live
  BY NullAssumption DEF Whole, Linked
<1> PICK n : n = l.next[t]
  OBVIOUS
<1> PICK p : p = l.prev[t]
  OBVIOUS
<1>2. n # Null => n \in live /\ n # t /\ n # l.head /\ l.prev[n] = t
  BY <1>1, Successor
<1>3. t # l.head => p \in live /\ p # t /\ l.next[p] = t
  BY <1>1, Predecessor
<1>4. \A u \in live : (l.next[u] = t <=> t # l.head /\ u = p) /\ (l.prev[u] = t <=> n # Null /\ u = n)
  BY <1>1, <1>2, <1>3, Predecessor DEF Linked, Intact
<1>5. (t = l.tail <=> n = Null) /\ (t = l.head <=> p = Null)
  BY <1>1 DEF Linked, Intact
<1> PICK nx : nx = l.next
  OBVIOUS
<1> PICK pv : pv = l.prev
  OBVIOUS
<1>6. /\ nx \in [Timers -> Timers \cup {Null}] /\ pv \in [Timers -> Timers \cup {Null}]
      /\ l.head \in Timers \cup {Null} /\ l.tail \in Timers \cup {Null}
      /\ n \in Timers \cup {Null} /\ p \in Timers \cup {Null}
  BY <1>1 DEF Lists
<1> PICK l2 : l2 = DelTimer(l, t)
  OBVIOUS
<1> DEFINE Unhooks(l1) ==
             /\ l1 \in Lists /\ Removed(l, live, t, l1) /\ l2 = Freed(l1, t)
             /\ \A u \in Timers \ live : l1.next[u] = l.next[u] /\ l1.prev[u] = l.prev[u]
<1>7. ASSUME t = l.head /\ t = l.tail
      PROVE  \E l1 : Unhooks(l1)
  <2> PICK l1 : l1 = [l EXCEPT !.head = Null, !.tail = Null]
    OBVIOUS
  <2>1. l2 = Freed(l1, t)
    BY <1>7 DEF DelTimer
  <2>2. l1 = [head |-> Null, tail |-> Null, next |-> nx, prev |-> pv]
    BY <1>1 DEF Lists
  <2>3. l1 \in Lists
    BY <1>6, <2>2 DEF Lists
  <2>4. live = {t}
    BY <1>1, <1>5, <1>7, Alone
  <2>5. Removed(l, live, t, l1)
    BY <1>5, <1>7, <2>2, <2>3, <2>4 DEF Removed
  <2>6. \A u \in Timers \ live : l1.next[u] = l.next[u] /\ l1.prev[u] = l.prev[u]
    BY <2>2
  <2> QED BY <2>1, <2>3, <2>5, <2>6
<1>8. ASSUME t = l.head /\ t # l.tail
      PROVE  \E l1 : Unhooks(l1)
  <2> PICK l1 : l1 = [l EXCEPT !.head = n, !.prev[n] = Null]
    OBVIOUS
  <2>1. l2 = Freed(l1, t) /\ n \in Timers
    BY <1>5, <1>6, <1>8 DEF DelTimer
  <2>2. l1 = [head |-> n, tail |-> l.tail, next |-> nx, prev |-> [pv EXCEPT ![n] = Null]]
        /\ [pv EXCEPT ![n] = Null] \in [Timers -> Timers \cup {Null}]
    BY <1>1, <1>6, <2>1 DEF Lists
  <2>3. l1 \in Lists
    BY <1>6, <2>2 DEF Lists
  <2>4. Removed(l, live, t, l1)
    BY <1>1, <1>4, <1>5, <1>6, <1>8, <2>2, <2>3 DEF Removed
  <2>5. \A u \in Timers \ live : l1.next[u] = l.next[u] /\ l1.prev[u] = l.prev[u]
    BY <1>1, <1>2, <1>5, <1>6, <1>8, <2>2
  <2> QED BY <2>1, <2>3, <2>4, <2>5
<1>9. ASSUME t # l.head /\ t = l.tail
      PROVE  \E l1 : Unhooks(l1)
  <2> PICK l1 : l1 = [l EXCEPT !.next[p] = Null, !.tail = p]
    OBVIOUS
  <2>1. l2 = Freed(l1, t) /\ p \in Timers
    BY <1>5, <1>6, <1>9 DEF DelTimer
  <2>2. l1 = [head |-> l.head, tail |-> p, next |-> [nx EXCEPT ![p] = Null], prev |-> pv]
        /\ [nx EXCEPT ![p] = Null] \in [Timers -> Timers \cup {Null}]
    BY <1>1, <1>6, <2>1 DEF Lists
  <2>3. l1 \in Lists
    BY <1>6, <2>2 DEF Lists
  <2>4. Removed(l, live, t, l1)
    BY <1>1, <1>4, <1>5, <1>6, <1>9, <2>2, <2>3 DEF Removed
  <2>5. \A u \in Timers \ live : l1.next[u] = l.next[u] /\ l1.prev[u] = l.prev[u]
    BY <1>1, <1>3, <1>6, <1>9, <2>2
  <2> QED BY <2>1, <2>3, <2>4, <2>5
<1>10. ASSUME t # l.head /\ t # l.tail
       PROVE  \E l1 : Unhooks(l1)
  <2> PICK l1 : l1 = [l EXCEPT !.next[p] = n, !.prev[n] = p]
    OBVIOUS
  <2>1. l2 = Freed(l1, t) /\ p \in Timers /\ n \in Timers
    BY <1>5, <1>6, <1>10 DEF DelTimer
  <2>2. l1 = [head |-> l.head, tail |-> l.tail, next |-> [nx EXCEPT ![p] = n],
              prev |-> [pv EXCEPT ![n] = p]]
        /\ [nx EXCEPT ![p] = n] \in [Timers -> Timers \cup {Null}]
        /\ [pv EXCEPT ![n] = p] \in [Timers -> Timers \cup {Null}]
    BY <1>1, <1>6, <2>1 DEF Lists
  <2>3. l1 \in Lists
    BY <1>6, <2>2 DEF Lists
  <2>4. Removed(l, live, t, l1)
    BY <1>1, <1>4, <1>5, <1>6, <1>10, <2>2, <2>3 DEF Removed
  <2>5. \A u \in Timers \ live : l1.next[u] = l.next[u] /\ l1.prev[u] = l.prev[u]
    BY <1>1, <1>2, <1>3, <1>5, <1>6, <1>10, <2>2
  <2> QED BY <2>1, <2>3, <2>4, <2>5
<1>11. PICK l1 : Unhooks(l1)
  BY <1>7, <1>8, <1>9, <1>10
<1>12. /\ Whole(Freed(l1, t), live \ {t}) /\ Ascending(Freed(l1, t), live \ {t}, expire)
       /\ t # l.head => Freed(l1, t).head = l.head
  BY <1>11, FreeKeepsWhole
<1> QED BY <1>11, <1>12

\* tick() takes off the timer at the front.
LEMMA PopKeepsWhole ==
  ASSUME NEW l, NEW live, Whole(l, live), NEW t \in live, t = l.head,
         NEW expire \in [Timers -> Int], Ascending(l, live, expire)
  PROVE  Whole(PopFront(l, t), live \ {t}) /\ Ascending(PopFront(l, t), live \ {t}, expire)
<1>1. /\ Linked(l, live) /\ l \in Lists /\ live \subseteq Timers /\ t # Null
      /\ Null \notin live
  BY LinkFacts DEF Whole, Linked
<1> PICK n : n = l.next[t]
  OBVIOUS
<1>2. n # Null => n \in live /\ n # t /\ l.prev[n] = t
  BY <1>1, Successor
<1>3. \A u \in live : l.next[u] # t /\ (l.prev[u] = t <=> n # Null /\ u = n)
  BY <1>1, <1>2, Predecessor DEF Linked, Intact
<1>4. (t = l.tail <=> n = Null) /\ l.prev[t] = Null /\ (n = Null => live = {t})
  BY <1>1, Alone DEF Linked, Intact
<1> PICK nx : nx = l.next
  OBVIOUS
<1> PICK pv : pv = l.prev
  OBVIOUS
<1>5. nx \in [Timers -> Timers \cup {Null}] /\ pv \in [Timers -> Timers \cup {Null}]
      /\ l.tail \in Timers \cup {Null} /\ n \in Timers \cup {Null}
  BY <1>1 DEF Lists
<1> DEFINE Unhooks(l1) ==
             /\ l1 \in Lists /\ Removed(l, live, t, l1) /\ PopFront(l, t) = Freed(l1, t)
             /\ \A u \in Timers \ live : l1.next[u] = l.next[u] /\ l1.prev[u] = l.prev[u]
<1>6. ASSUME n = Null
      PROVE  \E l1 : Unhooks(l1)
  <2> PICK l1 : l1 = [l EXCEPT !.head = n]
    OBVIOUS
  <2>1. l1 = [head |-> n, tail |-> l.tail, next |-> nx, prev |-> pv]
    BY <1>1 DEF Lists
  <2>2. PopFront(l, t) = Freed(l1, t)
    <3>1. l1 = [l EXCEPT !.head = n, !.prev = l.prev]
      BY <1>1 DEF Lists
    <3> QED BY <1>6, <3>1 DEF PopFront
  <2>3. l1 \in Lists
    BY <1>5, <2>1 DEF Lists
  <2>4. Removed(l, live, t, l1)
    BY <1>4, <1>6, <2>1, <2>3 DEF Removed
  <2>5. \A u \in Timers \ live : l1.next[u] = l.next[u] /\ l1.prev[u] = l.prev[u]
    BY <2>1
  <2> QED BY <2>2, <2>3, <2>4, <2>5
<1>7. ASSUME n # Null
      PROVE  \E l1 : Unhooks(l1)
  <2> PICK l1 : l1 = [l EXCEPT !.head = n, !.prev[n] = Null]
    OBVIOUS
  <2>1. l1 = [head |-> n, tail |-> l.tail, next |-> nx, prev |-> [pv EXCEPT ![n] = Null]]
        /\ [pv EXCEPT ![n] = Null] \in [Timers -> Timers \cup {Null}]
    BY <1>1, <1>5, <1>7 DEF Lists
  <2>2. PopFront(l, t) = Freed(l1, t)
    BY <1>7 DEF PopFront
  <2>3. l1 \in Lists
    BY <1>5, <2>1 DEF Lists
  <2>4. Removed(l, live, t, l1)
    BY <1>1, <1>3, <1>4, <1>5, <1>7, <2>1, <2>3 DEF Removed
  <2>5. \A u \in Timers \ live : l1.next[u] = l.next[u] /\ l1.prev[u] = l.prev[u]
    BY <1>2, <1>5, <1>7, <2>1
  <2> QED BY <2>2, <2>3, <2>4, <2>5
<1>8. PICK l1 : Unhooks(l1)
  BY <1>6, <1>7
<1>9. Whole(Freed(l1, t), live \ {t}) /\ Ascending(Freed(l1, t), live \ {t}, expire)
  BY <1>8, FreeKeepsWhole
<1> QED BY <1>8, <1>9

=============================================================================
