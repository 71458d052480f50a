------------------------- MODULE NonactiveConnProofs -------------------------
(***************************************************************************)
(* Proofs about NonactiveConn, for any number of connections, any time     *)
(* slot and any lag of the loop: its timers are in order, each connection  *)
(* has one, only idle connections are closed, all idle ones are closed in  *)
(* time, and the heartbeat that sees to it never stops.                    *)
(***************************************************************************)
EXTENDS NonactiveConn, SortTimerLstProofs, FiniteSetTheorems, NaturalsInduction,
        WellFoundedInduction

(***************************************************************************)
(* The inductive invariant, by parts.                                      *)
(***************************************************************************)

\* Where the loop is.
Control ==
  /\ pc \in {"wait", "scan"} => batch = {}
  /\ pc = "wait" => ~timeout
  /\ pc = "scan" => timeout /\ cur <= 0 /\ -cur <= lag

\* Each event of the listening socket stands for a connection that waits for accept().
Waiting ==
  LET one(events) == IF ListenFd \in events THEN 1 ELSE 0
  IN  backlog >= one(ready) + one(batch)

\* The list is in order, and a timer set now would expire last.
Listed ==
  /\ Whole(lst, live)
  /\ Ascending(lst, live, expire)
  /\ \A t \in live : expire[t] <= Idle

\* Connections and timers own each other; a timer without a connection is the only one.
Owned ==
  /\ \A f \in open : timer[f] \in live /\ owner[timer[f]] = f
  /\ \A t \in live : owner[t] = NoFd \/ (owner[t] \in open /\ timer[owner[t]] = t)
  /\ (ready \cup batch) \cap Fds \subseteq open
  /\ \A t, u \in live : owner[t] = NoFd /\ owner[u] = NoFd => t = u
  /\ \A t \in live : owner[t] = NoFd => AcceptMayFail

\* A timer measures how long its connection has been quiet.
Measured ==
  /\ \A f \in open : quiet[f] + expire[timer[f]] = Idle
  /\ \A f \in Fds \ open : quiet[f] = 0

\* No connection has been quiet for longer than b.
QuietUpTo(b) == \A f \in open : quiet[f] <= b

\* How long a connection can have been quiet when the alarm rings.
AtAlarm == Idle - 1 + MaxLag + TIMESLOT

\* What j rounds of the loop take; how long a connection can have been quiet when the
\* round begins that reads the pipe.
Delay(j) == j * MaxLag
AtPipe == AtAlarm + Delay(Rounds + 1)

\* The pipe waits in epoll's list and has seen j rounds go by since SIGALRM.
InLine(j) == /\ place[PipeFd] + j * MAX_EVENT_NUMBER <= Cardinality(Watched)
             /\ QuietUpTo(AtAlarm + Delay(j) + lag)

\* The heartbeat: the alarm is set, or its signal is on the way, or it has arrived.
AlarmSet == /\ alarm \in 0 .. TIMESLOT /\ ~timeout /\ "SIGALRM" \notin pipe
            /\ QuietUpTo(AtAlarm - alarm)
OnTheWay == /\ alarm = Off /\ ~timeout /\ "SIGALRM" \in pipe
            /\ \/ PipeFd \in batch /\ QuietUpTo(AtPipe + lag)
               \/ PipeFd \in ready \ batch /\ \E j \in Nat : InLine(j)
Arrived == /\ alarm = Off /\ timeout /\ "SIGALRM" \notin pipe
           /\ QuietUpTo(AtPipe + lag)

Heart == AlarmSet \/ OnTheWay \/ Arrived

IndInv ==
  /\ TypeOK
  /\ Control
  /\ Waiting
  /\ Listed
  /\ Owned
  /\ Measured
  /\ Heart

-----------------------------------------------------------------------------
(***************************************************************************)
(* Facts that the steps share.                                             *)
(***************************************************************************)

LEMMA Constants ==
  /\ TIMESLOT \in Nat /\ TIMESLOT > 0 /\ MaxLag \in Nat
  /\ Idle \in Nat /\ Idle = 3 * TIMESLOT /\ Idle > 0
  /\ AtAlarm \in Nat /\ AtAlarm = Idle - 1 + MaxLag + TIMESLOT
  /\ Off = -1 /\ NoFd = -1 /\ NoFd \notin Fds /\ Fds \subseteq Nat
  /\ ListenFd \notin Fds /\ PipeFd \notin Fds /\ ListenFd # PipeFd
  /\ MAX_EVENT_NUMBER \in Nat /\ MAX_EVENT_NUMBER > 0
BY TimeslotAssumption, MaxLagAssumption, FdsAssumption, EventsAssumption
   DEF Idle, AtAlarm, Off, NoFd

LEMMA WatchedFacts ==
  /\ Watched = Fds \cup {ListenFd, PipeFd}
  /\ IsFiniteSet(Watched) /\ Cardinality(Watched) \in Nat /\ Cardinality(Watched) >= 1
<1>1. IsFiniteSet(Watched)
  <2>1. IsFiniteSet(Fds \cup {ListenFd})
    BY TimersAssumption, FS_AddElement
  <2>2. IsFiniteSet((Fds \cup {ListenFd}) \cup {PipeFd})
    BY <2>1, FS_AddElement
  <2>3. Watched = (Fds \cup {ListenFd}) \cup {PipeFd}
    BY DEF Watched
  <2> QED BY <2>2, <2>3
<1>2. Cardinality(Watched) \in Nat
  BY <1>1, FS_CardinalityType
<1>3. Cardinality({PipeFd}) <= Cardinality(Watched) /\ Cardinality({PipeFd}) = 1
  BY <1>1, FS_Subset, FS_Singleton DEF Watched
<1> QED BY <1>1, <1>2, <1>3 DEF Watched

\* The pipe waits Rounds rounds at most.
LEMMA RoundsFacts ==
  /\ Rounds \in Nat
  /\ \A j, p \in Nat : p >= 1 /\ p + j * MAX_EVENT_NUMBER <= Cardinality(Watched) => j <= Rounds
<1> PICK n : n = Cardinality(Watched) - 1
  OBVIOUS
<1> PICK m : m = MAX_EVENT_NUMBER
  OBVIOUS
<1>1. n \in Nat /\ m \in Nat /\ m > 0 /\ Rounds = n \div m
  BY WatchedFacts, Constants DEF Rounds
<1>2. n \div m \in Nat /\ n < (n \div m + 1) * m
  BY <1>1
<1>3. ASSUME NEW j \in Nat, NEW p \in Nat, p >= 1, p + j * m <= n + 1, ~(j <= n \div m)
      PROVE  FALSE
  <2> PICK q \in Nat : q = n \div m + 1
    BY <1>2
  <2>1. j - q \in Nat
    BY <1>3, <1>2
  <2>2. (j - q) * m >= 0
    BY <1>1, <2>1
  <2>3. j * m = q * m + (j - q) * m
    BY <1>1
  <2>4. n < q * m
    BY <1>2
  <2>5. PICK x, y, z \in Int : x = j * m /\ y = q * m /\ z = (j - q) * m
    BY <1>1
  <2>6. x = y + z /\ z >= 0 /\ n < y /\ p + x <= n + 1 /\ p >= 1
    BY <1>3, <2>2, <2>3, <2>4, <2>5
  <2> QED BY <1>1, <2>6
<1>4. \A j, p \in Nat : p >= 1 /\ p + j * m <= n + 1 => j <= n \div m
  BY <1>3
<1>5. n + 1 = Cardinality(Watched)
  BY WatchedFacts
<1> QED BY <1>1, <1>2, <1>4, <1>5

LEMMA DelayFacts ==
  /\ \A j \in Nat : Delay(j) \in Nat /\ Delay(j + 1) = Delay(j) + MaxLag
  /\ \A j, k \in Nat : j <= k => Delay(j) <= Delay(k)
  /\ Delay(0) = 0 /\ (3 + Rounds) * MaxLag = Delay(Rounds + 1) + 2 * MaxLag
  /\ AtPipe \in Nat /\ AtPipe = AtAlarm + Delay(Rounds + 1)
<1>1. \A j \in Nat : Delay(j) \in Nat /\ Delay(j + 1) = Delay(j) + MaxLag
  BY Constants DEF Delay
<1>2. ASSUME NEW j \in Nat, NEW k \in Nat, j <= k PROVE Delay(j) <= Delay(k)
  <2>1. (k - j) * MaxLag >= 0
    BY <1>2, Constants
  <2>2. k * MaxLag = j * MaxLag + (k - j) * MaxLag
    BY Constants
  <2> PICK x, y, z \in Int : x = k * MaxLag /\ y = j * MaxLag /\ z = (k - j) * MaxLag
    BY Constants
  <2>3. y <= x
    BY <2>1, <2>2
  <2> QED BY <2>3 DEF Delay
<1>3. Delay(0) = 0 /\ (3 + Rounds) * MaxLag = Delay(Rounds + 1) + 2 * MaxLag
  BY RoundsFacts, Constants DEF Delay
<1>4. AtPipe \in Nat
  BY <1>1, RoundsFacts, Constants DEF AtPipe
<1> QED BY <1>1, <1>2, <1>3, <1>4 DEF AtPipe

\* A set of descriptors that is not empty has a least one.
LEMMA LeastFd ==
  ASSUME NEW S \in SUBSET Nat, S # {}
  PROVE  Min(S) \in S
<1> DEFINE less == {p \in Nat \X Nat : p[1] < p[2]}
<1>1. IsWellFoundedOn(less, Nat)
  <2>1. less = OpToRel(<, Nat)
    BY Zenon DEF OpToRel
  <2> QED BY <2>1, NatLessThanWellFounded
<1>2. PICK x \in S : \A y \in S : ~ (<<y, x>> \in less)
  <2> HIDE DEF less
  <2> QED BY <1>1, WFMin
<1>3. \A a, b \in Nat : a < b => <<a, b>> \in less
  OBVIOUS
<1>4. \A y \in S : x =< y
  <2> HIDE DEF less
  <2> SUFFICES ASSUME NEW y \in S PROVE ~ (y < x)
    OBVIOUS
  <2> QED BY <1>2, <1>3
<1> QED BY <1>4 DEF Min

LEMMA StateFacts ==
  ASSUME IndInv
  PROVE  /\ Linked(lst, live) /\ lst \in Lists
         /\ live \subseteq Timers /\ Null \notin live /\ open \subseteq Fds
         /\ (lst.head = Null \/ lst.head \in live)
         /\ timer \in [Fds -> Timers \cup {Null}] /\ owner \in [Timers -> Fds \cup {NoFd, Null}]
         /\ expire \in [Timers -> Int] /\ quiet \in [Fds -> Nat]
         /\ lag \in Nat /\ lag <= MaxLag /\ cur \in Int
         /\ place \in [Watched -> 0 .. Cardinality(Watched)]
         /\ ready \subseteq Watched /\ batch \subseteq Watched
         /\ ready \cap Fds \subseteq open /\ batch \cap Fds \subseteq open
<1>1. Linked(lst, live)
  BY DEF IndInv, Listed, Whole
<1>2. Null \notin live /\ (lst.head = Null \/ lst.head \in live)
  BY <1>1, LinkFacts
<1>3. ready \cap Fds \subseteq open /\ batch \cap Fds \subseteq open
  BY DEF IndInv, Owned
<1>4. ready \subseteq Watched
  BY DEF ready
<1> QED BY <1>1, <1>2, <1>3, <1>4, Constants DEF IndInv, TypeOK

\* epoll's list: what is there stays there while something joins it,
LEMMA ReportFacts ==
  ASSUME IndInv, NEW d \in Watched, Report(d)
  PROVE  /\ ready' = ready \cup {d} /\ place' \in [Watched -> 0 .. Cardinality(Watched)]
         /\ \A c \in ready : place'[c] = place[c]
<1>1. place \in [Watched -> 0 .. Cardinality(Watched)]
  BY StateFacts
<1>2. CASE d \in ready
  <2>1. place' = place
    BY <1>2 DEF Report
  <2> QED BY <1>1, <1>2, <2>1 DEF ready
<1>3. CASE d \notin ready
  <2> PICK n : n = Cardinality(ready) + 1
    OBVIOUS
  <2>1. n \in Nat /\ n >= 1 /\ n <= Cardinality(Watched)
    <3>1. IsFiniteSet(ready) /\ Cardinality(ready) \in Nat
      BY StateFacts, WatchedFacts, FS_Subset, FS_CardinalityType
    <3>2. Cardinality(ready \cup {d}) = Cardinality(ready) + 1
      BY <1>3, <3>1, FS_AddElement
    <3>3. ready \cup {d} \in SUBSET Watched
      BY StateFacts
    <3>4. Cardinality(ready \cup {d}) <= Cardinality(Watched)
      BY <3>3, WatchedFacts, FS_Subset
    <3> QED BY <3>1, <3>2, <3>4
  <2>2. place' = [place EXCEPT ![d] = n]
    BY <1>3 DEF Report
  <2>3. place' \in [Watched -> 0 .. Cardinality(Watched)]
    <3>1. n \in 0 .. Cardinality(Watched)
      BY <2>1, WatchedFacts
    <3> QED BY <1>1, <2>2, <3>1
  <2>4. place'[d] > 0 /\ \A c \in Watched \ {d} : place'[c] = place[c]
    BY <1>1, <2>1, <2>2
  <2> QED BY <1>3, <2>3, <2>4, StateFacts DEF ready
<1> QED BY <1>2, <1>3

\* and moves up when something else leaves it.
LEMMA ForgetFacts ==
  ASSUME IndInv, NEW f \in Watched, Forget(f)
  PROVE  /\ ready' = ready \ {f} /\ place' \in [Watched -> 0 .. Cardinality(Watched)]
         /\ \A c \in ready \ {f} : place'[c] <= place[c]
<1>1. place \in [Watched -> 0 .. Cardinality(Watched)] /\ Cardinality(Watched) \in Nat
  BY StateFacts, WatchedFacts
<1>2. place' = [d \in Watched |->
                  IF d = f THEN 0
                  ELSE IF f \in ready /\ place[f] < place[d] THEN place[d] - 1 ELSE place[d]]
  BY DEF Forget
<1>3. f \in ready => place[f] > 0
  BY DEF ready
<1>4. ASSUME NEW d \in Watched
      PROVE  /\ place'[d] \in 0 .. Cardinality(Watched) /\ place'[d] <= place[d]
             /\ place'[d] > 0 <=> d # f /\ place[d] > 0
  <2>1. place[d] \in 0 .. Cardinality(Watched) /\ place[f] \in 0 .. Cardinality(Watched)
    BY <1>1
  <2>2. place'[d] = IF d = f THEN 0
                    ELSE IF f \in ready /\ place[f] < place[d] THEN place[d] - 1 ELSE place[d]
    BY <1>2
  <2> QED BY <1>1, <1>3, <2>1, <2>2
<1>5. place' \in [Watched -> 0 .. Cardinality(Watched)]
  BY <1>2, <1>4
<1>6. ready' = ready \ {f}
  BY <1>4 DEF ready
<1> QED BY <1>4, <1>5, <1>6, StateFacts

LEMMA ReadyKept ==
  ASSUME UNCHANGED place
  PROVE  ready' = ready
BY DEF ready

\* There is a timer to allocate.
LEMMA SpareTimer ==
  ASSUME IndInv, \/ open # Fds
                 \/ AcceptMayFail /\ \A t \in live : owner[t] # NoFd
  PROVE  Timers \ live # {}
<1> SUFFICES ASSUME Timers \subseteq live PROVE FALSE
  OBVIOUS
<1> PICK T : T = open \cup {owner[t] : t \in live}
  OBVIOUS
<1> PICK o : o = [t \in Timers |-> owner[t]]
  OBVIOUS
<1>1. o \in [Timers -> T] /\ live = Timers
  BY StateFacts
<1>2. T \subseteq open \cup {NoFd} /\ (NoFd \in T => AcceptMayFail /\ NoFd \notin open)
  BY StateFacts, Constants DEF IndInv, Owned
<1>3. IsFiniteSet(open) /\ Cardinality(open) \in Nat /\ Cardinality(Fds) \in Nat
      /\ Cardinality(open) <= Cardinality(Fds)
      /\ (Cardinality(open) = Cardinality(Fds) => open = Fds)
      /\ Cardinality(Timers) \in Nat
  BY StateFacts, TimersAssumption, FS_Subset, FS_CardinalityType
<1>4. IsFiniteSet(open \cup {NoFd}) /\ Cardinality(open \cup {NoFd}) <= Cardinality(open) + 1
  BY <1>3, FS_AddElement
<1>5. IsFiniteSet(T) /\ Cardinality(T) < Cardinality(Timers)
  <2>1. CASE NoFd \notin T
    <3>1. T \in SUBSET open
      BY <1>2, <2>1
    <3>2. IsFiniteSet(T) /\ Cardinality(T) <= Cardinality(open)
      BY <1>3, <3>1, FS_Subset
    <3>3. Cardinality(T) \in Nat
      BY <3>2, FS_CardinalityType
    <3> QED BY <1>3, <3>2, <3>3, TimersAssumption
  <2>2. CASE NoFd \in T
    <3>1. AcceptMayFail /\ open # Fds
      <4>1. NoFd \notin open
        BY StateFacts, Constants
      <4> QED BY <1>2, <2>2, <4>1
    <3>2. IsFiniteSet(T) /\ Cardinality(T) <= Cardinality(open \cup {NoFd})
      BY <1>2, <1>4, FS_Subset
    <3>3. Cardinality(T) \in Nat /\ Cardinality(open \cup {NoFd}) \in Nat
      BY <1>4, <3>2, FS_CardinalityType
    <3> QED BY <1>3, <1>4, <3>1, <3>2, <3>3, TimersAssumption
  <2> QED BY <2>1, <2>2
<1>6. PICK t, u \in Timers : t # u /\ o[t] = o[u]
  BY <1>1, <1>5, TimersAssumption, FS_PigeonHole
<1>7. owner[t] = owner[u]
  BY <1>6
<1> QED BY <1>1, <1>6, <1>7 DEF IndInv, Owned

\* A new timer for descriptor f.
LEMMA NewTimerFacts ==
  ASSUME IndInv, Timers \ live # {}, NEW f, NewTimer(f)
  PROVE  /\ \E t \in Timers \ live :
              /\ timer' = IF f = NoFd THEN timer ELSE [timer EXCEPT ![f] = t]
              /\ owner' = [owner EXCEPT ![t] = f]
              /\ live' = live \cup {t}
              /\ expire' = [expire EXCEPT ![t] = Idle]
         /\ lst' \in Lists /\ Listed' /\ cur' = cur
<1>1. PICK t \in Timers \ live :
        /\ timer' = IF f = NoFd THEN timer ELSE [timer EXCEPT ![f] = t]
        /\ owner' = [owner EXCEPT ![t] = f]
        /\ live' = live \cup {t}
        /\ expire' = [expire EXCEPT ![t] = Idle]
        /\ lst' = AddTimer(lst, expire', t) /\ cur' = cur
  BY DEF NewTimer
<1> PICK e : e = expire'
  OBVIOUS
<1>2. e = [expire EXCEPT ![t] = Idle] /\ live' = live \cup {t}
      /\ lst' = AddTimer(lst, e, t) /\ cur' = cur
  BY <1>1
<1>3. e \in [Timers -> Int] /\ e[t] = Idle /\ \A u \in live : e[u] = expire[u] /\ e[u] <= Idle
  BY <1>1, <1>2, StateFacts, Constants DEF IndInv, Listed
<1>4. Ascending(lst, live, e)
  BY <1>3, StateFacts, LinkFacts DEF Ascending, IndInv, Listed
<1>5. Latest(t, live, e) /\ Whole(lst, live)
  BY <1>3 DEF Latest, IndInv, Listed
<1>6. /\ Whole(AddTimer(lst, e, t), live \cup {t})
      /\ Ascending(AddTimer(lst, e, t), live \cup {t}, e)
  <2>1. e \in [Timers -> Int]
    BY <1>3
  <2> QED BY <1>1, <1>4, <1>5, <2>1, AddKeepsWhole
<1>7. \A u \in live' : e[u] <= Idle
  BY <1>2, <1>3, Constants
<1>8. Listed'
  BY <1>2, <1>6, <1>7 DEF Listed
<1>9. lst' \in Lists
  BY <1>2, <1>6 DEF Whole, Linked
<1> QED BY <1>1, <1>2, <1>8, <1>9

LEMMA PostponeFacts ==
  ASSUME IndInv, NEW f \in open, Postpone(f), live' = live
  PROVE  /\ expire' = [expire EXCEPT ![timer[f]] = Idle] /\ expire' \in [Timers -> Int]
         /\ lst' \in Lists /\ Listed'
<1> PICK t : t = timer[f]
  OBVIOUS
<1> PICK e : e = expire'
  OBVIOUS
<1>1. t \in live /\ t \in Timers
  BY StateFacts DEF IndInv, Owned
<1>2. e = [expire EXCEPT ![t] = Idle] /\ lst' = AdjustTimer(lst, e, t)
  BY DEF Postpone
<1>3. e \in [Timers -> Int] /\ e[t] = Idle
      /\ (\A u \in live \ {t} : e[u] = expire[u]) /\ \A u \in live : e[u] <= Idle
  BY <1>1, <1>2, StateFacts, Constants DEF IndInv, Listed
<1>4. Latest(t, live, e)
  BY <1>3 DEF Latest
<1>5. Whole(lst, live) /\ Ascending(lst, live, expire) /\ expire \in [Timers -> Int]
  BY StateFacts DEF IndInv, Listed
<1>6. Whole(AdjustTimer(lst, e, t), live) /\ Ascending(AdjustTimer(lst, e, t), live, e)
  <2>1. \A u \in live \ {t} : e[u] = expire[u]
    BY <1>3
  <2>2. e \in [Timers -> Int] /\ t \in live
    BY <1>1, <1>3
  <2> QED BY <1>4, <1>5, <2>1, <2>2, AdjustKeepsWhole
<1>7. Listed'
  BY <1>2, <1>3, <1>6 DEF Listed
<1>8. lst' \in Lists
  BY <1>2, <1>6 DEF Whole, Linked
<1> QED BY <1>2, <1>3, <1>7, <1>8

LEMMA FreeTimerFacts ==
  ASSUME IndInv, NEW t \in live, NEW l, FreeTimer(t, l),
         Whole(l, live \ {t}), Ascending(l, live \ {t}, expire)
  PROVE  /\ live' = live \ {t} /\ cur' = cur
         /\ owner' = [owner EXCEPT ![t] = Null] /\ expire' = [expire EXCEPT ![t] = 0]
         /\ lst' \in Lists /\ Listed'
<1>1. /\ live' = live \ {t} /\ cur' = cur /\ lst' = l
      /\ owner' = [owner EXCEPT ![t] = Null] /\ expire' = [expire EXCEPT ![t] = 0]
  BY DEF FreeTimer
<1>2. Linked(l, live \ {t}) /\ l \in Lists
  BY DEF Whole, Linked
<1>3. \A u \in live \ {t} : l.next[u] \in (live \ {t}) \cup {Null}
  BY <1>2, LinkFacts
<1>4. \A u \in live \ {t} : expire'[u] = expire[u]
  BY <1>1, StateFacts
<1>5. Ascending(l, live \ {t}, expire')
  BY <1>3, <1>4 DEF Ascending
<1>6. Listed'
  BY <1>1, <1>4, <1>5 DEF Listed, IndInv
<1> QED BY <1>1, <1>2, <1>6

-----------------------------------------------------------------------------
(***************************************************************************)
(* Each step keeps the invariant: first those that touch no timer.         *)
(***************************************************************************)

LEMMA ListedKept ==
  ASSUME IndInv, UNCHANGED <<lst, live, expire>>
  PROVE  Listed'
BY DEF IndInv, Listed

\* The same connections, timers and clock.
LEMMA OwnedKept ==
  ASSUME IndInv, UNCHANGED <<open, timer, owner, live>>, (ready' \cup batch') \cap Fds \subseteq open
  PROVE  Owned'
BY DEF IndInv, Owned

LEMMA MeasuredKept ==
  ASSUME IndInv, UNCHANGED <<open, timer, quiet, expire>>
  PROVE  Measured'
BY DEF IndInv, Measured

LEMMA LimitFacts ==
  ASSUME IndInv
  PROVE  AtPipe + lag \in Nat /\ \A j \in Nat : AtAlarm + Delay(j) + lag \in Nat
<1>1. lag \in Nat
  BY StateFacts
<1>2. AtPipe \in Nat /\ AtAlarm \in Nat /\ \A j \in Nat : Delay(j) \in Nat
  BY DelayFacts, Constants
<1> QED BY <1>1, <1>2

\* A step that leaves the alarm, its signal and the pipe's turn alone, and makes no
\* connection quieter.
LEMMA HeartKept ==
  ASSUME IndInv, UNCHANGED <<alarm, timeout, lag>>, "SIGALRM" \in pipe' <=> "SIGALRM" \in pipe,
         PipeFd \in batch => PipeFd \in batch',
         PipeFd \in ready \ batch => PipeFd \in ready' \ batch' /\ place'[PipeFd] <= place[PipeFd],
         place' \in [Watched -> 0 .. Cardinality(Watched)],
         \A f \in open' : quiet'[f] = 0 \/ (f \in open /\ quiet'[f] = quiet[f])
  PROVE  Heart'
<1>1. ASSUME NEW b \in Nat, QuietUpTo(b) PROVE \A f \in open' : quiet'[f] <= b
  BY <1>1 DEF QuietUpTo
<1>2. CASE AlarmSet
  <2>1. AtAlarm - alarm \in Nat
    BY <1>2, Constants DEF AlarmSet
  <2> QED BY <1>1, <1>2, <2>1 DEF AlarmSet, Heart, QuietUpTo
<1>3. CASE OnTheWay
  <2>1. CASE PipeFd \in batch /\ QuietUpTo(AtPipe + lag)
    <3>1. AtPipe + lag \in Nat
      BY LimitFacts
    <3>2. \A f \in open' : quiet'[f] <= AtPipe + lag'
      BY <1>1, <2>1, <3>1
    <3> QED BY <1>3, <2>1, <3>2 DEF OnTheWay, Heart, QuietUpTo
  <2>2. CASE PipeFd \in ready \ batch /\ \E j \in Nat : InLine(j)
    <3> PICK j \in Nat : InLine(j)
      BY <2>2
    <3>1. AtAlarm + Delay(j) + lag \in Nat
      BY LimitFacts
    <3>2. \A f \in open' : quiet'[f] <= AtAlarm + Delay(j) + lag'
      BY <1>1, <3>1 DEF InLine
    <3>3. place'[PipeFd] + j * MAX_EVENT_NUMBER <= Cardinality(Watched)
      <4>1. PipeFd \in ready /\ PipeFd \in ready' /\ place'[PipeFd] <= place[PipeFd]
        BY <2>2
      <4>2. place[PipeFd] \in Int /\ j * MAX_EVENT_NUMBER \in Int /\ Cardinality(Watched) \in Int
        BY StateFacts, Constants, WatchedFacts
      <4>3. place'[PipeFd] \in Int
        BY WatchedFacts
      <4> QED BY <4>1, <4>2, <4>3 DEF InLine
    <3> QED BY <1>3, <2>2, <3>2, <3>3 DEF OnTheWay, Heart, InLine, QuietUpTo
  <2> QED BY <1>3, <2>1, <2>2 DEF OnTheWay
<1>4. CASE Arrived
  <2>1. AtPipe + lag \in Nat
    BY LimitFacts
  <2>2. \A f \in open' : quiet'[f] <= AtPipe + lag'
    BY <1>1, <1>4, <2>1 DEF Arrived
  <2> QED BY <1>4, <2>2 DEF Arrived, Heart, QuietUpTo
<1> QED BY <1>2, <1>3, <1>4 DEF IndInv, Heart

LEMMA SameHeart ==
  ASSUME IndInv, UNCHANGED <<alarm, timeout, lag, pipe, place, ready, open, quiet>>,
         PipeFd \in batch' <=> PipeFd \in batch
  PROVE  Heart'
<1>1. place' \in [Watched -> 0 .. Cardinality(Watched)]
  BY StateFacts
<1>2. PipeFd \in ready => place'[PipeFd] <= place[PipeFd]
  BY StateFacts, WatchedFacts
<1>3. \A f \in open' : quiet'[f] = 0 \/ (f \in open /\ quiet'[f] = quiet[f])
  OBVIOUS
<1>4. UNCHANGED <<alarm, timeout, lag>> /\ ("SIGALRM" \in pipe' <=> "SIGALRM" \in pipe)
  OBVIOUS
<1>5. /\ PipeFd \in batch => PipeFd \in batch'
      /\ PipeFd \in ready \ batch => PipeFd \in ready' \ batch' /\ place'[PipeFd] <= place[PipeFd]
  BY <1>2
<1> QED BY <1>1, <1>3, <1>4, <1>5, HeartKept

LEMMA OutsideKeeps ==
  ASSUME IndInv, Outside
  PROVE  IndInv'
<1>1. /\ UNCHANGED <<pc, batch, timeout, stop_server, timer, owner, lst, live, expire, cur>>
      /\ UNCHANGED <<quiet, lag>>
      /\ Connect \/ AlarmRings \/ Terminate \/ \E f \in Fds : ClientActs(f)
  BY DEF Outside, program, timers
<1>2. /\ open' = open
      /\ \/ UNCHANGED <<ended, unread>>
         \/ \E f \in open : ended' \in {ended, ended \cup {f}}
                            /\ unread' \in {unread, unread \cup {f}, unread \ {f}}
  BY <1>1 DEF Connect, AlarmRings, Terminate, Signal, ClientActs
<1>3. PICK d \in {ListenFd, PipeFd} \cup open :
        /\ Report(d)
        /\ \/ backlog' = backlog /\ d # ListenFd
           \/ backlog' = backlog + 1
        /\ d = PipeFd \/ UNCHANGED <<alarm, pipe>>
  BY <1>1, StateFacts, Constants DEF Connect, AlarmRings, Terminate, Signal, ClientActs
<1>4. \/ UNCHANGED <<alarm, pipe>>
      \/ alarm = 0 /\ alarm' = Off /\ pipe' = pipe \cup {"SIGALRM"} /\ d = PipeFd
      \/ alarm' = alarm /\ pipe' = pipe \cup {"SIGTERM"}
  <2>1. CASE AlarmRings
    <3>1. d = PipeFd
      BY <1>3, <2>1, Constants DEF AlarmRings
    <3> QED BY <2>1, <3>1 DEF AlarmRings, Signal
  <2> QED BY <1>1, <2>1 DEF Connect, Terminate, Signal, ClientActs
<1>5. /\ ready' = ready \cup {d} /\ place' \in [Watched -> 0 .. Cardinality(Watched)]
      /\ \A c \in ready : place'[c] = place[c]
  <2>1. d \in Watched
    BY StateFacts, WatchedFacts
  <2> QED BY <1>3, <2>1, ReportFacts
<1>6. TypeOK'
  <2>1. backlog' \in Nat
    BY <1>3 DEF IndInv, TypeOK
  <2>2. open' \subseteq Fds /\ ended' \subseteq open' /\ unread' \subseteq open'
    BY <1>2 DEF IndInv, TypeOK
  <2>3. alarm' \in {Off} \cup 0 .. TIMESLOT /\ pipe' \subseteq {"SIGALRM", "SIGTERM"}
    BY <1>4 DEF IndInv, TypeOK
  <2> QED BY <1>1, <1>5, <2>1, <2>2, <2>3 DEF IndInv, TypeOK
<1>7. Control'
  BY <1>1 DEF IndInv, Control
<1>8. Waiting'
  <2>1. backlog \in Nat
    BY DEF IndInv, TypeOK
  <2>2. \/ backlog' = backlog /\ (ListenFd \in ready' => ListenFd \in ready)
        \/ backlog' = backlog + 1
    BY <1>3, <1>5
  <2> QED BY <1>1, <1>5, <2>1, <2>2 DEF IndInv, Waiting
<1>9. Listed' /\ Measured'
  BY <1>1, <1>2, ListedKept, MeasuredKept
<1>10. Owned'
  <2>1. (ready' \cup batch') \cap Fds \subseteq open
    BY <1>1, <1>5, StateFacts, Constants
  <2> QED BY <1>1, <1>2, <2>1, OwnedKept
<1>11. Heart'
  <2>1. CASE alarm' = alarm /\ ("SIGALRM" \in pipe' <=> "SIGALRM" \in pipe)
    <3>1. PipeFd \in ready \ batch => PipeFd \in ready' \ batch' /\ place'[PipeFd] <= place[PipeFd]
      <4>1. PipeFd \in ready => place[PipeFd] \in Int
        BY StateFacts, WatchedFacts
      <4> QED BY <1>1, <1>5, <4>1
    <3>2. \A f \in open' : quiet'[f] = 0 \/ (f \in open /\ quiet'[f] = quiet[f])
      BY <1>1, <1>2
    <3>3. PipeFd \in batch => PipeFd \in batch'
      BY <1>1
    <3>4. UNCHANGED <<alarm, timeout, lag>>
      BY <1>1, <2>1
    <3> QED BY <1>5, <2>1, <3>1, <3>2, <3>3, <3>4, HeartKept
  <2>2. CASE alarm = 0 /\ alarm' = Off /\ pipe' = pipe \cup {"SIGALRM"} /\ d = PipeFd
    <3>1. AlarmSet
      BY <2>2, Constants DEF IndInv, Heart, OnTheWay, Arrived
    <3>2. \A f \in open : quiet[f] <= AtAlarm /\ quiet[f] \in Nat
      <4>1. AtAlarm \in Int /\ open \subseteq Fds /\ quiet \in [Fds -> Nat]
        BY StateFacts, Constants
      <4>2. \A f \in open : quiet[f] <= AtAlarm - 0
        BY <2>2, <3>1 DEF AlarmSet, QuietUpTo
      <4> QED BY <4>1, <4>2
    <3>3. AtAlarm \in Nat /\ lag \in Nat /\ Delay(0) = 0 /\ Delay(Rounds + 1) \in Nat
      BY StateFacts, Constants, DelayFacts, RoundsFacts
    <3>4. \A f \in open' : quiet'[f] <= AtPipe + lag' /\ quiet'[f] <= AtAlarm + Delay(0) + lag'
      BY <1>1, <1>2, <3>2, <3>3 DEF AtPipe
    <3>5. place'[PipeFd] + 0 * MAX_EVENT_NUMBER <= Cardinality(Watched)
      <4>1. place'[PipeFd] \in 0 .. Cardinality(Watched)
        BY <1>5, WatchedFacts
      <4> QED BY <4>1, Constants, WatchedFacts
    <3>6. (InLine(0))'
      BY <3>4, <3>5 DEF InLine, QuietUpTo
    <3>7. ~timeout' /\ "SIGALRM" \in pipe' /\ PipeFd \in ready'
      BY <1>1, <1>5, <2>2, <3>1 DEF AlarmSet
    <3> QED BY <2>2, <3>4, <3>6, <3>7 DEF OnTheWay, Heart, QuietUpTo
  <2> QED BY <1>4, <2>1, <2>2
<1> QED BY <1>6, <1>7, <1>8, <1>9, <1>10, <1>11 DEF IndInv

LEMMA ElapseKeeps ==
  ASSUME IndInv, pc # "stopped", Elapse
  PROVE  IndInv'
<1>1. /\ alarm # 0
      /\ Busy => lag < MaxLag
      /\ lag' = IF Busy THEN lag + 1 ELSE 0
      /\ alarm' = IF alarm = Off THEN Off ELSE alarm - 1
      /\ expire' = [t \in Timers |-> IF t \in live THEN expire[t] - 1 ELSE 0]
      /\ cur' = IF pc = "scan" THEN cur - 1 ELSE 0
      /\ quiet' = [f \in Fds |-> IF f \in open THEN quiet[f] + 1 ELSE 0]
      /\ UNCHANGED <<backlog, ready, open, ended, unread, pipe, pc, batch, timeout,
                     stop_server, timer, owner, lst, live, place>>
  BY ReadyKept DEF Elapse
<1>2. expire' \in [Timers -> Int] /\ \A t \in live : expire'[t] = expire[t] - 1 /\ expire[t] \in Int
  BY <1>1, StateFacts
<1>3. quiet' \in [Fds -> Nat] /\ \A f \in open : quiet'[f] = quiet[f] + 1 /\ quiet[f] \in Nat
  BY <1>1, StateFacts
<1>4. lag' \in 0 .. MaxLag /\ cur' \in Int /\ alarm' \in {Off} \cup 0 .. TIMESLOT
  BY <1>1, StateFacts, Constants DEF IndInv, TypeOK
<1>5. TypeOK'
  BY <1>1, <1>2, <1>3, <1>4 DEF IndInv, TypeOK
<1>6. Control'
  <2>1. pc = "scan" => Busy
    BY DEF Busy
  <2> QED BY <1>1, <2>1, StateFacts DEF IndInv, Control
<1>7. Waiting'
  BY <1>1 DEF IndInv, Waiting
<1>8. Listed'
  <2>1. Ascending(lst', live', expire')
    BY <1>1, <1>2, StateFacts, LinkFacts DEF IndInv, Listed, Ascending
  <2>2. \A t \in live' : expire'[t] <= Idle
    BY <1>1, <1>2, Constants DEF IndInv, Listed
  <2> QED BY <1>1, <2>1, <2>2 DEF IndInv, Listed
<1>9. Owned'
  BY <1>1, StateFacts, OwnedKept
<1>10. Measured'
  <2>1. \A f \in open : timer[f] \in live
    BY DEF IndInv, Owned
  <2>2. \A f \in open : quiet'[f] + expire'[timer[f]] = Idle
    BY <1>2, <1>3, <2>1, Constants DEF IndInv, Measured
  <2> QED BY <1>1, <2>2 DEF Measured
<1>11. Heart'
  <2>1. CASE AlarmSet
    <3>1. alarm \in Nat /\ alarm # Off
      BY <2>1, Constants DEF AlarmSet
    <3>2. \A f \in open' : quiet'[f] <= AtAlarm - alarm'
      BY <1>1, <1>3, <2>1, <3>1, Constants DEF AlarmSet, QuietUpTo
    <3>3. alarm' \in 0 .. TIMESLOT
      BY <1>1, <2>1, <3>1, Constants DEF AlarmSet
    <3> QED BY <1>1, <2>1, <3>2, <3>3 DEF AlarmSet, Heart, QuietUpTo
  <2>2. CASE OnTheWay
    <3>1. Busy
      BY <2>2 DEF IndInv, Control, OnTheWay, Busy, TypeOK
    <3>2. lag' = lag + 1 /\ alarm' = Off
      BY <1>1, <2>2, <3>1 DEF OnTheWay
    <3>3. ASSUME NEW b \in Int, QuietUpTo(b + lag)
          PROVE  \A f \in open' : quiet'[f] <= b + lag'
      BY <1>1, <1>3, <3>2, <3>3, StateFacts DEF QuietUpTo
    <3>4. AtPipe \in Int /\ \A j \in Nat : AtAlarm + Delay(j) \in Int
      BY Constants, DelayFacts
    <3>5. CASE PipeFd \in batch /\ QuietUpTo(AtPipe + lag)
      BY <1>1, <2>2, <3>2, <3>3, <3>4, <3>5 DEF OnTheWay, Heart, QuietUpTo
    <3>6. CASE PipeFd \in ready \ batch /\ \E j \in Nat : InLine(j)
      <4> PICK j \in Nat : InLine(j)
        BY <3>6
      <4>1. \A f \in open' : quiet'[f] <= AtAlarm + Delay(j) + lag'
        BY <3>3, <3>4 DEF InLine
      <4>2. (InLine(j))'
        BY <1>1, <4>1 DEF InLine, QuietUpTo
      <4> QED BY <1>1, <2>2, <3>2, <3>6, <4>2 DEF OnTheWay, Heart
    <3> QED BY <2>2, <3>5, <3>6 DEF OnTheWay
  <2>3. CASE Arrived
    <3>1. Busy
      BY <2>3 DEF IndInv, Control, Arrived, Busy, TypeOK
    <3>2. lag' = lag + 1 /\ alarm' = Off
      BY <1>1, <2>3, <3>1 DEF Arrived
    <3>3. \A f \in open' : quiet'[f] <= AtPipe + lag'
      <4>1. AtPipe \in Nat /\ lag \in Nat
        BY StateFacts, DelayFacts
      <4>2. \A f \in open : quiet[f] <= AtPipe + lag
        BY <2>3 DEF Arrived, QuietUpTo
      <4> QED BY <1>1, <1>3, <3>2, <4>1, <4>2
    <3> QED BY <1>1, <2>3, <3>2, <3>3 DEF Arrived, Heart, QuietUpTo
  <2> QED BY <2>1, <2>2, <2>3 DEF IndInv, Heart
<1> QED BY <1>5, <1>6, <1>7, <1>8, <1>9, <1>10, <1>11 DEF IndInv

LEMMA EpollWaitKeeps ==
  ASSUME IndInv, EpollWait
  PROVE  IndInv'
<1>1. /\ pc = "wait" /\ batch = {} /\ pc' = "dispatch" /\ lag' = 0
      /\ batch' = {d \in ready : place[d] <= MAX_EVENT_NUMBER}
      /\ place' = [d \in Watched |-> IF d \in ready \ batch' THEN place[d] - MAX_EVENT_NUMBER ELSE 0]
      /\ UNCHANGED <<backlog, open, ended, unread, alarm, pipe, timeout, stop_server, timer, owner,
                     lst, live, expire, cur, quiet>>
  BY DEF EpollWait, timers, IndInv, Control
<1>2. ASSUME NEW d \in Watched
      PROVE  /\ place'[d] \in 0 .. Cardinality(Watched)
             /\ place'[d] > 0 <=> d \in ready \ batch'
             /\ d \in ready \ batch' => place'[d] + MAX_EVENT_NUMBER = place[d]
  <2>1. place'[d] = IF d \in ready \ batch' THEN place[d] - MAX_EVENT_NUMBER ELSE 0
    BY <1>1
  <2>2. d \in ready \ batch' => ~(place[d] <= MAX_EVENT_NUMBER)
    BY <1>1
  <2>3. place[d] \in 0 .. Cardinality(Watched)
    BY StateFacts
  <2> QED BY <2>1, <2>2, <2>3, Constants, WatchedFacts
<1>3. batch' \subseteq ready /\ ready' = ready \ batch'
  <2>1. ready' = {d \in Watched : place'[d] > 0}
    BY DEF ready
  <2> QED BY <1>1, <1>2, <2>1, StateFacts
<1>4. TypeOK'
  <2>1. place' \in [Watched -> 0 .. Cardinality(Watched)]
    BY <1>1, <1>2
  <2>2. batch' \subseteq Watched /\ lag' \in 0 .. MaxLag
    BY <1>1, <1>3, StateFacts, Constants
  <2> QED BY <1>1, <2>1, <2>2 DEF IndInv, TypeOK
<1>5. Control' /\ Waiting'
  <2>1. backlog \in Nat
    BY DEF IndInv, TypeOK
  <2> QED BY <1>1, <1>3, <2>1 DEF IndInv, Control, Waiting
<1>6. Listed' /\ Measured'
  BY <1>1, ListedKept, MeasuredKept
<1>7. Owned'
  <2>1. (ready' \cup batch') \cap Fds \subseteq open
    BY <1>3, StateFacts
  <2> QED BY <1>1, <2>1, OwnedKept
<1>8. Heart'
  <2>1. CASE AlarmSet
    BY <1>1, <2>1 DEF AlarmSet, Heart, QuietUpTo
  <2>2. CASE OnTheWay
    <3>1. PipeFd \in ready /\ \E j \in Nat : InLine(j)
      BY <1>1, <2>2 DEF OnTheWay
    <3> PICK j \in Nat : InLine(j)
      BY <3>1
    <3>2. place[PipeFd] \in Nat /\ place[PipeFd] >= 1 /\ j <= Rounds
      <4>1. place[PipeFd] \in Nat /\ place[PipeFd] >= 1
        BY <3>1, StateFacts, WatchedFacts DEF ready
      <4> QED BY <4>1, RoundsFacts DEF InLine
    <3>3. \A f \in open' : quiet'[f] <= AtAlarm + Delay(j + 1) + lag'
      <4>1. /\ AtAlarm \in Int /\ MaxLag \in Int /\ lag \in Int /\ lag <= MaxLag
            /\ Delay(j) \in Int /\ Delay(j + 1) = Delay(j) + MaxLag
        BY StateFacts, Constants, DelayFacts
      <4>2. \A f \in open : quiet[f] <= AtAlarm + Delay(j) + lag /\ quiet[f] \in Int
        BY StateFacts DEF InLine, QuietUpTo
      <4>3. \A f \in open : quiet[f] <= AtAlarm + Delay(j + 1) + 0
        BY <4>1, <4>2
      <4> QED BY <1>1, <4>3
    <3>4. CASE PipeFd \in batch'
      <4>1. Delay(j + 1) <= Delay(Rounds + 1) /\ Delay(j + 1) \in Nat /\ Delay(Rounds + 1) \in Nat
        BY <3>2, DelayFacts, RoundsFacts
      <4>2. AtAlarm \in Nat /\ lag' \in Nat /\ AtPipe = AtAlarm + Delay(Rounds + 1)
        BY <1>1, Constants, DelayFacts
      <4>3. \A f \in open' : quiet'[f] \in Nat
        BY <1>1, StateFacts
      <4>4. \A f \in open' : quiet'[f] <= AtPipe + lag'
        BY <3>3, <4>1, <4>2, <4>3
      <4> QED BY <1>1, <2>2, <3>4, <4>4 DEF OnTheWay, Heart, QuietUpTo
    <3>5. CASE PipeFd \notin batch'
      <4>1. PipeFd \in ready' /\ place'[PipeFd] + MAX_EVENT_NUMBER = place[PipeFd]
        BY <1>2, <1>3, <3>1, <3>5, WatchedFacts
      <4>2. PICK x, y \in Int : x = j * MAX_EVENT_NUMBER /\ y = (j + 1) * MAX_EVENT_NUMBER
        BY Constants
      <4>3. y = x + MAX_EVENT_NUMBER
        BY <4>2, Constants
      <4>4. place'[PipeFd] + (j + 1) * MAX_EVENT_NUMBER <= Cardinality(Watched)
        <5>1. place[PipeFd] + x <= Cardinality(Watched)
          BY <4>2 DEF InLine
        <5>2. /\ place'[PipeFd] \in Int /\ MAX_EVENT_NUMBER \in Int
              /\ Cardinality(Watched) \in Int
          <6>1. PipeFd \in Watched
            BY WatchedFacts
          <6>2. place'[PipeFd] \in 0 .. Cardinality(Watched)
            BY <1>2, <6>1
          <6> QED BY <6>2, Constants, WatchedFacts
        <5>3. place'[PipeFd] + y <= Cardinality(Watched)
          BY <4>1, <4>3, <5>1, <5>2
        <5> QED BY <4>2, <5>3
      <4>5. (InLine(j + 1))'
        BY <3>3, <4>4 DEF InLine, QuietUpTo
      <4> QED BY <1>1, <2>2, <3>5, <4>1, <4>5 DEF OnTheWay, Heart
    <3> QED BY <3>4, <3>5
  <2>3. ~Arrived
    BY <1>1 DEF IndInv, Control, Arrived
  <2> QED BY <2>1, <2>2, <2>3 DEF IndInv, Heart
<1> QED BY <1>4, <1>5, <1>6, <1>7, <1>8 DEF IndInv

LEMMA HandleSignalsKeeps ==
  ASSUME IndInv, Dispatch, HandleSignals
  PROVE  IndInv'
<1>1. /\ pc = "dispatch" /\ PipeFd \in batch
      /\ timeout' = (timeout \/ "SIGALRM" \in pipe)
      /\ stop_server' = (stop_server \/ Terminated)
      /\ pipe' = {} /\ batch' = batch \ {PipeFd}
      /\ UNCHANGED <<backlog, place, ready, open, ended, unread, alarm, pc, timer, owner, lst, live,
                     expire, cur, quiet, lag>>
  BY ReadyKept DEF HandleSignals, Dispatch, timers
<1>2. timeout' \in BOOLEAN /\ stop_server' \in BOOLEAN
  BY <1>1, Zenon
<1>3. TypeOK'
  BY <1>1, <1>2 DEF IndInv, TypeOK
<1>4. Control' /\ Waiting'
  <2>1. ListenFd \in batch' <=> ListenFd \in batch
    BY <1>1, Constants
  <2> QED BY <1>1, <2>1 DEF IndInv, Control, Waiting
<1>5. Listed' /\ Measured' /\ Owned'
  BY <1>1, StateFacts, ListedKept, MeasuredKept, OwnedKept
<1>6. Heart'
  <2>1. CASE AlarmSet
    <3>1. ~timeout'
      BY <1>1, <2>1 DEF AlarmSet
    <3> QED BY <1>1, <2>1, <3>1 DEF AlarmSet, Heart, QuietUpTo
  <2>2. CASE OnTheWay \/ Arrived
    <3>1. timeout' /\ alarm' = Off
      BY <1>1, <2>2 DEF OnTheWay, Arrived
    <3>2. QuietUpTo(AtPipe + lag)
      BY <1>1, <2>2 DEF OnTheWay, Arrived
    <3> QED BY <1>1, <3>1, <3>2 DEF Arrived, Heart, QuietUpTo
  <2> QED BY <2>1, <2>2 DEF IndInv, Heart
<1> QED BY <1>3, <1>4, <1>5, <1>6 DEF IndInv

LEMMA BatchDoneKeeps ==
  ASSUME IndInv, BatchDone
  PROVE  IndInv'
<1>1. /\ pc = "dispatch" /\ batch = {} /\ cur' = 0
      /\ IF timeout THEN pc' = "scan" ELSE pc' \in {"wait", "stopped"}
      /\ UNCHANGED <<backlog, place, ready, open, ended, unread, alarm, pipe, batch, timeout,
                     stop_server, timer, owner, lst, live, expire, quiet, lag>>
  BY ReadyKept DEF BatchDone, Continue, kernel
<1>2. TypeOK'
  BY <1>1 DEF IndInv, TypeOK
<1>3. Control' /\ Waiting'
  BY <1>1, StateFacts DEF IndInv, Control, Waiting
<1>4. Listed' /\ Measured' /\ Owned'
  BY <1>1, StateFacts, ListedKept, MeasuredKept, OwnedKept
<1>5. Heart'
  BY <1>1, SameHeart
<1> QED BY <1>2, <1>3, <1>4, <1>5 DEF IndInv

\* When a tick ends no connection has been quiet for long, and the alarm is set again.
LEMMA TickEndKeeps ==
  ASSUME IndInv, TickEnd
  PROVE  IndInv'
<1>1. /\ pc = "scan" /\ (lst.head # Null => cur < expire[lst.head])
      /\ alarm' = TIMESLOT /\ timeout' = FALSE /\ cur' = 0 /\ pc' \in {"wait", "stopped"}
      /\ UNCHANGED <<backlog, place, ready, open, ended, unread, pipe, batch, stop_server, timer,
                     owner, lst, live, expire, quiet, lag>>
  BY ReadyKept DEF TickEnd, Rearm, Continue
<1>2. TypeOK'
  <2>1. timeout' \in BOOLEAN
    BY <1>1, Zenon
  <2> QED BY <1>1, <2>1, Constants DEF IndInv, TypeOK
<1>3. Control' /\ Waiting'
  BY <1>1 DEF IndInv, Control, Waiting
<1>4. Listed' /\ Measured' /\ Owned'
  BY <1>1, StateFacts, ListedKept, MeasuredKept, OwnedKept
<1>5. ASSUME NEW f \in open
      PROVE  quiet[f] <= AtAlarm - TIMESLOT
  <2> PICK t : t = timer[f]
    OBVIOUS
  <2>1. t \in live /\ quiet[f] + expire[t] = Idle
    BY DEF IndInv, Owned, Measured
  <2>2. lst.head \in live /\ expire[lst.head] <= expire[t]
    BY <2>1, StateFacts, HeadIsFirst DEF IndInv, Listed
  <2>3. cur < expire[lst.head] /\ -cur <= MaxLag
    BY <1>1, <2>2, StateFacts, Constants DEF IndInv, Control
  <2>4. expire[lst.head] \in Int /\ expire[t] \in Int /\ cur \in Int /\ quiet[f] \in Int
    BY <2>1, <2>2, StateFacts
  <2> QED BY <2>1, <2>2, <2>3, <2>4, Constants
<1>6. Heart'
  <2>1. "SIGALRM" \notin pipe'
    BY <1>1 DEF IndInv, Heart, Control, AlarmSet, OnTheWay, Arrived
  <2>2. alarm' \in 0 .. TIMESLOT
    BY <1>1, Constants
  <2> QED BY <1>1, <1>5, <2>1, <2>2 DEF Heart, AlarmSet, QuietUpTo
<1> QED BY <1>2, <1>3, <1>4, <1>6 DEF IndInv

-----------------------------------------------------------------------------
(***************************************************************************)
(* The steps that change timers.                                           *)
(***************************************************************************)

LEMMA AcceptOneKeeps ==
  ASSUME IndInv, Dispatch, HandleListen, AcceptOne
  PROVE  IndInv'
<1> PICK f : f = Min(Fds \ open)
  OBVIOUS
<1>1. /\ pc = "dispatch" /\ ListenFd \in batch /\ batch' = batch \ {ListenFd}
      /\ open # Fds /\ open' = open \cup {f} /\ AddFd(f) /\ NewTimer(f)
      /\ backlog' = backlog - 1
      /\ UNCHANGED <<pc, ended, alarm, pipe, timeout, stop_server, quiet, lag>>
  BY DEF Dispatch, HandleListen, AcceptOne
<1>2. f \in Fds \ open /\ f # NoFd /\ f # ListenFd /\ f # PipeFd
  <2>1. Fds \ open # {} /\ Fds \ open \in SUBSET Nat
    BY <1>1, StateFacts, Constants
  <2>2. f \in Fds \ open
    BY <2>1, LeastFd
  <2> QED BY <2>2, Constants
<1>3. Timers \ live # {}
  BY <1>1, SpareTimer
<1>4. PICK t \in Timers \ live :
        /\ timer' = [timer EXCEPT ![f] = t] /\ owner' = [owner EXCEPT ![t] = f]
        /\ live' = live \cup {t} /\ expire' = [expire EXCEPT ![t] = Idle]
  BY <1>1, <1>2, <1>3, NewTimerFacts
<1>5. lst' \in Lists /\ Listed' /\ cur' = cur
  BY <1>1, <1>3, NewTimerFacts
<1>6. /\ ready' \in {ready, ready \cup {f}} /\ unread' \in {unread, unread \cup {f}}
      /\ place' \in [Watched -> 0 .. Cardinality(Watched)]
      /\ \A c \in ready : place'[c] = place[c]
  <2>1. CASE UNCHANGED <<unread, place>>
    BY <2>1, ReadyKept, StateFacts
  <2>2. CASE unread' = unread \cup {f} /\ Report(f)
    <3>1. f \in Watched
      BY <1>2, WatchedFacts
    <3> QED BY <2>2, <3>1, ReportFacts
  <2> QED BY <1>1, <2>1, <2>2 DEF AddFd
<1>7. backlog \in Nat /\ backlog' \in Nat /\ Waiting'
  <2>1. backlog \in Nat /\ backlog >= 1
    BY <1>1 DEF IndInv, TypeOK, Waiting
  <2>2. ListenFd \notin batch' /\ (ListenFd \in ready' <=> ListenFd \in ready)
    BY <1>1, <1>2, <1>6
  <2> QED BY <1>1, <2>1, <2>2 DEF IndInv, Waiting
<1>8. TypeOK'
  <2>1. batch' \subseteq Watched
        /\ open' \subseteq Fds /\ ended' \subseteq open' /\ unread' \subseteq open'
    BY <1>1, <1>2, <1>6 DEF IndInv, TypeOK
  <2>2. /\ timer' \in [Fds -> Timers \cup {Null}] /\ owner' \in [Timers -> Fds \cup {NoFd, Null}]
        /\ live' \subseteq Timers /\ expire' \in [Timers -> Int]
    BY <1>2, <1>4, StateFacts, Constants
  <2> QED BY <1>1, <1>5, <1>6, <1>7, <2>1, <2>2 DEF IndInv, TypeOK
<1>9. Control'
  BY <1>1 DEF IndInv, Control
<1>10. /\ timer'[f] = t /\ owner'[t] = f /\ expire'[t] = Idle
       /\ \A g \in open : g # f /\ timer'[g] = timer[g] /\ timer[g] # t /\ timer[g] \in live
       /\ \A u \in live : u # t /\ owner'[u] = owner[u] /\ expire'[u] = expire[u]
  BY <1>2, <1>4, StateFacts DEF IndInv, Owned
<1>11. Owned'
  <2>1. \A g \in open' : timer'[g] \in live' /\ owner'[timer'[g]] = g
    BY <1>1, <1>4, <1>10 DEF IndInv, Owned
  <2>2. ASSUME NEW u \in live'
        PROVE  owner'[u] = NoFd \/ (owner'[u] \in open' /\ timer'[owner'[u]] = u)
    <3>1. CASE u = t
      BY <1>1, <1>10, <3>1
    <3>2. CASE u \in live
      <4>1. owner'[u] = owner[u]
        BY <1>10, <3>2
      <4>2. owner[u] = NoFd \/ (owner[u] \in open /\ timer[owner[u]] = u)
        BY <3>2 DEF IndInv, Owned
      <4> QED BY <1>1, <1>10, <4>1, <4>2
    <3> QED BY <1>4, <3>1, <3>2
  <2>3. (ready' \cup batch') \cap Fds \subseteq open'
    BY <1>1, <1>6, StateFacts
  <2>4. /\ \A u, v \in live' : owner'[u] = NoFd /\ owner'[v] = NoFd => u = v
        /\ \A u \in live' : owner'[u] = NoFd => AcceptMayFail
    BY <1>2, <1>4, <1>10 DEF IndInv, Owned
  <2> QED BY <2>1, <2>2, <2>3, <2>4 DEF Owned
<1>12. Measured'
  <2>1. quiet'[f] + expire'[timer'[f]] = Idle
    <3>1. quiet'[f] = 0
      BY <1>1, <1>2 DEF IndInv, Measured
    <3>2. expire'[timer'[f]] = Idle
      BY <1>10
    <3> QED BY <3>1, <3>2, Constants
  <2>2. \A g \in open : quiet'[g] + expire'[timer'[g]] = Idle
    BY <1>1, <1>10 DEF IndInv, Measured
  <2>3. \A g \in Fds \ open' : quiet'[g] = 0
    BY <1>1 DEF IndInv, Measured
  <2> QED BY <1>1, <2>1, <2>2, <2>3 DEF Measured
<1>13. Heart'
  <2>1. \A g \in open' : quiet'[g] = 0 \/ (g \in open /\ quiet'[g] = quiet[g])
    BY <1>1, <1>2 DEF IndInv, Measured
  <2>2. PipeFd \in batch' <=> PipeFd \in batch
    BY <1>1, Constants
  <2>3. PipeFd \in ready \ batch => PipeFd \in ready' \ batch' /\ place'[PipeFd] <= place[PipeFd]
    <3>1. place[PipeFd] \in Int
      BY StateFacts, WatchedFacts
    <3> QED BY <1>6, <2>2, <3>1
  <2>4. UNCHANGED <<alarm, timeout, lag>> /\ pipe' = pipe
    BY <1>1
  <2> QED BY <1>6, <2>1, <2>2, <2>3, <2>4, HeartKept
<1> QED BY <1>5, <1>7, <1>8, <1>9, <1>11, <1>12, <1>13 DEF IndInv

LEMMA AcceptFailsKeeps ==
  ASSUME IndInv, Dispatch, HandleListen, AcceptFails
  PROVE  IndInv'
<1>1. /\ pc = "dispatch" /\ ListenFd \in batch /\ batch' = batch \ {ListenFd} /\ AcceptMayFail
      /\ \/ pc' = "stopped" /\ UNCHANGED <<timer, owner, lst, live, expire, cur>>
         \/ NoFd \notin {owner[t] : t \in live} /\ NewTimer(NoFd) /\ pc' = pc
      /\ UNCHANGED <<backlog, place, ready, open, unread>>
      /\ UNCHANGED <<ended, alarm, pipe, timeout, stop_server, quiet, lag>>
  BY ReadyKept DEF Dispatch, HandleListen, AcceptFails, timers
<1>2. Waiting'
  BY <1>1, Constants DEF IndInv, TypeOK, Waiting
<1>3. Heart'
  <2>1. PipeFd \in batch' <=> PipeFd \in batch
    BY <1>1, Constants
  <2> QED BY <1>1, <2>1, SameHeart
<1>4. CASE pc' = "stopped" /\ UNCHANGED <<timer, owner, lst, live, expire, cur>>
  <2>1. TypeOK' /\ Control'
    BY <1>1, <1>4 DEF IndInv, TypeOK, Control
  <2>2. Listed' /\ Measured' /\ Owned'
    BY <1>1, <1>4, StateFacts, ListedKept, MeasuredKept, OwnedKept
  <2> QED BY <1>2, <1>3, <2>1, <2>2 DEF IndInv
<1>5. CASE NoFd \notin {owner[t] : t \in live} /\ NewTimer(NoFd) /\ pc' = pc
  <2>1. Timers \ live # {}
    BY <1>1, <1>5, SpareTimer
  <2>2. PICK t \in Timers \ live :
          /\ timer' = timer /\ owner' = [owner EXCEPT ![t] = NoFd]
          /\ live' = live \cup {t} /\ expire' = [expire EXCEPT ![t] = Idle]
    BY <1>5, <2>1, NewTimerFacts
  <2>3. lst' \in Lists /\ Listed' /\ cur' = cur
    BY <1>5, <2>1, NewTimerFacts
  <2>4. /\ owner'[t] = NoFd
        /\ \A u \in live : u # t /\ owner'[u] = owner[u] /\ owner[u] # NoFd /\ expire'[u] = expire[u]
        /\ \A g \in open : timer[g] \in live
    BY <1>5, <2>2, StateFacts DEF IndInv, Owned
  <2>5. TypeOK'
    <3>1. owner' \in [Timers -> Fds \cup {NoFd, Null}] /\ live' \subseteq Timers
          /\ expire' \in [Timers -> Int]
      BY <2>2, StateFacts, Constants
    <3> QED BY <1>1, <1>5, <2>2, <2>3, <3>1 DEF IndInv, TypeOK
  <2>6. Control'
    BY <1>1, <1>5 DEF IndInv, Control
  <2>7. Owned'
    <3>1. (ready' \cup batch') \cap Fds \subseteq open'
      BY <1>1, StateFacts
    <3> QED BY <1>1, <2>2, <2>4, <3>1 DEF IndInv, Owned
  <2>8. Measured'
    BY <1>1, <2>2, <2>4 DEF IndInv, Measured
  <2> QED BY <1>2, <1>3, <2>3, <2>5, <2>6, <2>7, <2>8 DEF IndInv
<1> QED BY <1>1, <1>4, <1>5

\* Closing a connection together with its timer.
LEMMA ClosedKeeps ==
  ASSUME IndInv, NEW f \in open, CloseConn(f),
         live' = live \ {timer[f]}, owner' = [owner EXCEPT ![timer[f]] = Null],
         expire' = [expire EXCEPT ![timer[f]] = 0], lst' \in Lists, Listed',
         batch' = batch \ {f},
         UNCHANGED <<backlog, alarm, pipe, pc, timeout, stop_server, lag, cur>>
  PROVE  IndInv'
<1> PICK t : t = timer[f]
  OBVIOUS
<1>1. /\ f \in Fds /\ f # ListenFd /\ f # PipeFd
      /\ t \in live /\ owner[t] = f
      /\ live' = live \ {t} /\ owner' = [owner EXCEPT ![t] = Null] /\ expire' = [expire EXCEPT ![t] = 0]
  BY StateFacts, Constants DEF IndInv, Owned
<1>2. /\ open' = open \ {f} /\ ended' = ended \ {f} /\ unread' = unread \ {f}
      /\ ready' = ready \ {f} /\ quiet' = [quiet EXCEPT ![f] = 0]
      /\ timer' = [timer EXCEPT ![f] = Null]
      /\ place' \in [Watched -> 0 .. Cardinality(Watched)]
      /\ \A c \in ready \ {f} : place'[c] <= place[c]
  <2>1. f \in Watched /\ Forget(f)
    BY <1>1, WatchedFacts DEF CloseConn
  <2> QED BY <2>1, ForgetFacts DEF CloseConn
<1>3. TypeOK'
  <2>1. /\ timer' \in [Fds -> Timers \cup {Null}] /\ owner' \in [Timers -> Fds \cup {NoFd, Null}]
        /\ live' \subseteq Timers /\ expire' \in [Timers -> Int] /\ quiet' \in [Fds -> Nat]
    BY <1>1, <1>2, StateFacts
  <2>2. /\ batch' \subseteq Watched
        /\ open' \subseteq Fds /\ ended' \subseteq open' /\ unread' \subseteq open'
    BY <1>2 DEF IndInv, TypeOK
  <2> QED BY <1>2, <2>1, <2>2 DEF IndInv, TypeOK
<1>4. Control' /\ Waiting'
  BY <1>1, <1>2 DEF IndInv, Control, Waiting
<1>5. /\ \A g \in open' : g \in open /\ g # f /\ timer'[g] = timer[g] /\ timer[g] \in live \ {t}
                          /\ quiet'[g] = quiet[g]
      /\ \A u \in live' : u \in live /\ u # t /\ owner'[u] = owner[u] /\ owner[u] # f
                          /\ expire'[u] = expire[u]
  <2>1. \A g \in open : timer[g] \in live /\ owner[timer[g]] = g
    BY DEF IndInv, Owned
  <2>2. ASSUME NEW g \in open'
        PROVE  g \in open /\ g # f /\ timer'[g] = timer[g] /\ timer[g] \in live \ {t}
               /\ quiet'[g] = quiet[g]
    BY <1>1, <1>2, <2>1, StateFacts
  <2>3. ASSUME NEW u \in live'
        PROVE  u \in live /\ u # t /\ owner'[u] = owner[u] /\ owner[u] # f /\ expire'[u] = expire[u]
    <3>1. u \in live /\ u # t /\ owner'[u] = owner[u] /\ expire'[u] = expire[u]
      BY <1>1, StateFacts
    <3>2. owner[u] # f
      BY <1>1, <3>1, Constants DEF IndInv, Owned
    <3> QED BY <3>1, <3>2
  <2> QED BY <2>2, <2>3
<1>6. Owned'
  <2>1. \A g \in open' : timer'[g] \in live' /\ owner'[timer'[g]] = g
    BY <1>1, <1>5 DEF IndInv, Owned
  <2>2. ASSUME NEW u \in live'
        PROVE  owner'[u] = NoFd \/ (owner'[u] \in open' /\ timer'[owner'[u]] = u)
    <3>1. owner[u] = NoFd \/ (owner[u] \in open /\ timer[owner[u]] = u)
      BY <1>5 DEF IndInv, Owned
    <3> QED BY <1>2, <1>5, <3>1
  <2>3. (ready' \cup batch') \cap Fds \subseteq open'
    BY <1>2, StateFacts
  <2>4. /\ \A u, v \in live' : owner'[u] = NoFd /\ owner'[v] = NoFd => u = v
        /\ \A u \in live' : owner'[u] = NoFd => AcceptMayFail
    BY <1>5 DEF IndInv, Owned
  <2> QED BY <2>1, <2>2, <2>3, <2>4 DEF Owned
<1>7. Measured'
  <2>1. ASSUME NEW g \in open'
        PROVE  quiet'[g] + expire'[timer'[g]] = Idle
    <3>1. expire'[timer[g]] = expire[timer[g]]
      BY <1>1, <1>5
    <3> QED BY <1>5, <3>1 DEF IndInv, Measured
  <2>2. \A g \in Fds \ open' : quiet'[g] = 0
    BY <1>1, <1>2, StateFacts DEF IndInv, Measured
  <2> QED BY <2>1, <2>2 DEF Measured
<1>8. Heart'
  <2>1. PipeFd \in batch' <=> PipeFd \in batch
    BY <1>1
  <2>2. PipeFd \in ready => PipeFd \in ready' /\ place'[PipeFd] <= place[PipeFd]
    BY <1>1, <1>2
  <2>3. \A g \in open' : quiet'[g] = 0 \/ (g \in open /\ quiet'[g] = quiet[g])
    BY <1>5
  <2>4. UNCHANGED <<alarm, timeout, lag>> /\ pipe' = pipe
    OBVIOUS
  <2> QED BY <1>2, <2>1, <2>2, <2>3, <2>4, HeartKept
<1> QED BY <1>3, <1>4, <1>6, <1>7, <1>8 DEF IndInv

LEMMA HandleDataKeeps ==
  ASSUME IndInv, Dispatch, NEW f \in Fds, HandleData(f)
  PROVE  IndInv'
<1>1. /\ pc = "dispatch" /\ f \in batch /\ batch' = batch \ {f} /\ f \in open
      /\ f # ListenFd /\ f # PipeFd
      /\ UNCHANGED <<backlog, alarm, pipe, pc, timeout, stop_server, lag>>
  BY StateFacts, Constants DEF Dispatch, HandleData
<1>2. CASE ReadData(f)
  <2>1. /\ unread' \in {unread, unread \ {f}} /\ Postpone(f) /\ quiet' = [quiet EXCEPT ![f] = 0]
        /\ UNCHANGED <<place, ready, open, ended, timer, owner, live, cur>>
    BY <1>2, ReadyKept DEF ReadData
  <2>2. /\ expire' = [expire EXCEPT ![timer[f]] = Idle] /\ expire' \in [Timers -> Int]
        /\ lst' \in Lists /\ Listed'
    BY <1>1, <2>1, PostponeFacts
  <2>3. quiet' \in [Fds -> Nat] /\ quiet'[f] = 0 /\ \A g \in open \ {f} : quiet'[g] = quiet[g]
    BY <2>1, StateFacts
  <2>4. TypeOK'
    BY <1>1, <2>1, <2>2, <2>3 DEF IndInv, TypeOK
  <2>5. Control' /\ Waiting'
    BY <1>1, <2>1 DEF IndInv, Control, Waiting
  <2>6. Owned'
    BY <1>1, <2>1, StateFacts, OwnedKept
  <2>7. Measured'
    <3>1. \A g \in open : timer[g] \in live /\ owner[timer[g]] = g
      BY DEF IndInv, Owned
    <3>2. quiet'[f] + expire'[timer[f]] = Idle
      BY <1>1, <2>2, <2>3, <3>1, StateFacts, Constants
    <3>3. ASSUME NEW g \in open \ {f} PROVE quiet'[g] + expire'[timer[g]] = Idle
      <4>1. expire'[timer[g]] = expire[timer[g]]
        BY <1>1, <2>2, <3>1, StateFacts
      <4> QED BY <2>3, <4>1 DEF IndInv, Measured
    <3>4. \A g \in Fds \ open : quiet'[g] = 0
      BY <1>1, <2>1, StateFacts DEF IndInv, Measured
    <3> QED BY <2>1, <3>2, <3>3, <3>4 DEF Measured
  <2>8. Heart'
    <3>1. PipeFd \in batch' <=> PipeFd \in batch
      BY <1>1
    <3>2. \A g \in open' : quiet'[g] = 0 \/ (g \in open /\ quiet'[g] = quiet[g])
      BY <2>1, <2>3
    <3>3. PipeFd \in ready \ batch => PipeFd \in ready' \ batch' /\ place'[PipeFd] <= place[PipeFd]
      BY <2>1, <3>1, StateFacts, WatchedFacts
    <3>4. UNCHANGED <<alarm, timeout, lag>> /\ pipe' = pipe
      BY <1>1
    <3>5. place' \in [Watched -> 0 .. Cardinality(Watched)]
      BY <2>1, StateFacts
    <3> QED BY <3>1, <3>2, <3>3, <3>4, <3>5, HeartKept
  <2> QED BY <2>2, <2>4, <2>5, <2>6, <2>7, <2>8 DEF IndInv
<1>3. CASE ReadEnd(f)
  <2> PICK t : t = timer[f]
    OBVIOUS
  <2> PICK l : l = DelTimer(lst, t)
    OBVIOUS
  <2>1. CloseConn(f) /\ FreeTimer(t, l)
    BY <1>3 DEF ReadEnd
  <2>2. t \in live
    BY <1>1 DEF IndInv, Owned
  <2>3. Whole(lst, live) /\ Ascending(lst, live, expire) /\ expire \in [Timers -> Int]
    BY StateFacts DEF IndInv, Listed
  <2>4. Whole(l, live \ {t}) /\ Ascending(l, live \ {t}, expire)
    BY <2>2, <2>3, DelKeepsWhole
  <2>5. /\ live' = live \ {t} /\ cur' = cur
        /\ owner' = [owner EXCEPT ![t] = Null] /\ expire' = [expire EXCEPT ![t] = 0]
        /\ lst' \in Lists /\ Listed'
    BY <2>1, <2>2, <2>4, FreeTimerFacts
  <2> QED BY <1>1, <2>1, <2>5, ClosedKeeps
<1>4. CASE UNCHANGED <<place, open, ended, unread, timers, quiet>>
  <2> ready' = ready
    BY <1>4, ReadyKept
  <2>1. TypeOK' /\ Control' /\ Waiting'
    BY <1>1, <1>4 DEF IndInv, TypeOK, Control, Waiting, timers
  <2>2. Listed' /\ Measured' /\ Owned'
    BY <1>1, <1>4, StateFacts, ListedKept, MeasuredKept, OwnedKept DEF timers
  <2>3. Heart'
    <3>1. PipeFd \in batch' <=> PipeFd \in batch
      BY <1>1
    <3> QED BY <1>1, <1>4, <3>1, SameHeart
  <2> QED BY <2>1, <2>2, <2>3 DEF IndInv
<1> QED BY <1>2, <1>3, <1>4 DEF HandleData

LEMMA TickFireKeeps ==
  ASSUME IndInv, TickFire
  PROVE  IndInv'
<1> PICK t : t = lst.head
  OBVIOUS
<1> PICK l : l = PopFront(lst, t)
  OBVIOUS
<1>1. /\ pc = "scan" /\ t # Null /\ FreeTimer(t, l) /\ batch = {}
      /\ IF owner[t] = NoFd THEN UNCHANGED <<open, ended, unread, place, quiet, timer>>
                            ELSE CloseConn(owner[t])
      /\ UNCHANGED <<backlog, alarm, pipe, pc, batch, timeout, stop_server, lag>>
  BY DEF TickFire, IndInv, Control
<1>2. t \in live /\ t = lst.head
  BY <1>1, StateFacts
<1>3. Whole(lst, live) /\ Ascending(lst, live, expire) /\ expire \in [Timers -> Int]
  BY StateFacts DEF IndInv, Listed
<1>4. Whole(l, live \ {t}) /\ Ascending(l, live \ {t}, expire)
  BY <1>2, <1>3, PopKeepsWhole
<1>5. /\ live' = live \ {t} /\ cur' = cur
      /\ owner' = [owner EXCEPT ![t] = Null] /\ expire' = [expire EXCEPT ![t] = 0]
      /\ lst' \in Lists /\ Listed'
  BY <1>1, <1>2, <1>4, FreeTimerFacts
<1>6. CASE owner[t] # NoFd
  <2> PICK f : f = owner[t]
    OBVIOUS
  <2>1. f \in open /\ timer[f] = t
    BY <1>2, <1>6 DEF IndInv, Owned
  <2>2. CloseConn(f) /\ batch' = batch \ {f}
    BY <1>1, <1>6
  <2> QED BY <1>1, <1>5, <2>1, <2>2, ClosedKeeps
<1>7. CASE owner[t] = NoFd
  <2>1. UNCHANGED <<open, ended, unread, place, ready, quiet, timer>>
    BY <1>1, <1>7, ReadyKept
  <2>2. TypeOK'
    <3>1. owner' \in [Timers -> Fds \cup {NoFd, Null}] /\ live' \subseteq Timers
          /\ expire' \in [Timers -> Int]
      BY <1>2, <1>5, StateFacts
    <3> QED BY <1>1, <1>5, <2>1, <3>1 DEF IndInv, TypeOK
  <2>3. Control' /\ Waiting' /\ Heart'
    <3>1. Heart'
      BY <1>1, <2>1, SameHeart
    <3> QED BY <1>1, <1>5, <2>1, <3>1 DEF IndInv, Control, Waiting
  <2>4. /\ \A u \in live' : u \in live /\ owner'[u] = owner[u] /\ owner[u] # NoFd /\ expire'[u] = expire[u]
        /\ \A g \in open : timer[g] \in live'
    <3>1. \A u \in live' : u \in live /\ u # t /\ owner'[u] = owner[u] /\ expire'[u] = expire[u]
      BY <1>2, <1>5, StateFacts
    <3>2. \A u \in live' : owner[u] # NoFd
      BY <1>2, <1>7, <3>1 DEF IndInv, Owned
    <3>3. \A g \in open : g # NoFd
      BY StateFacts, Constants
    <3>4. \A g \in open : timer[g] \in live /\ timer[g] # t
      BY <1>7, <3>3 DEF IndInv, Owned
    <3> QED BY <1>5, <3>1, <3>2, <3>4
  <2>5. Owned'
    BY <1>1, <2>1, <2>4 DEF IndInv, Owned
  <2>6. Measured'
    BY <2>1, <2>4 DEF IndInv, Measured
  <2> QED BY <1>5, <2>2, <2>3, <2>5, <2>6 DEF IndInv
<1> QED BY <1>6, <1>7

-----------------------------------------------------------------------------
(***************************************************************************)
(* The theorems.                                                           *)
(***************************************************************************)

LEMMA InitIsSound == Init => IndInv
<1> SUFFICES ASSUME Init PROVE IndInv
  OBVIOUS
<1>1. TypeOK
  <2>1. lst \in Lists /\ live \subseteq Timers
    BY EmptyIsWhole DEF Init, Whole, Linked
  <2>2. /\ timer \in [Fds -> Timers \cup {Null}] /\ owner \in [Timers -> Fds \cup {NoFd, Null}]
        /\ expire \in [Timers -> Int] /\ quiet \in [Fds -> Nat] /\ lag \in 0 .. MaxLag
        /\ alarm \in {Off} \cup 0 .. TIMESLOT
    BY Constants DEF Init
  <2>3. /\ backlog \in Nat /\ open = {} /\ ended = {} /\ unread = {} /\ pipe = {}
        /\ pc = "wait" /\ batch = {} /\ cur \in Int
    BY DEF Init
  <2>4. timeout \in BOOLEAN /\ stop_server \in BOOLEAN
    BY Zenon DEF Init
  <2>5. place \in [Watched -> 0 .. Cardinality(Watched)] /\ ready = {}
    BY WatchedFacts DEF Init, ready
  <2> QED BY <2>1, <2>2, <2>3, <2>4, <2>5 DEF TypeOK
<1>2. Listed
  BY EmptyIsWhole DEF Init, Listed, Ascending
<1>3. Control /\ Waiting /\ Owned /\ Measured
  <2>1. ready = {}
    BY DEF Init, ready
  <2> QED BY <2>1, Constants DEF Init, Control, Waiting, Owned, Measured
<1>4. Heart
  BY Constants DEF Init, Heart, AlarmSet, QuietUpTo
<1> QED BY <1>1, <1>2, <1>3, <1>4 DEF IndInv

LEMMA StepKeeps ==
  ASSUME IndInv, [Next]_vars
  PROVE  IndInv'
<1>1. CASE EpollWait
  BY <1>1, EpollWaitKeeps
<1>2. CASE Dispatch
  BY <1>2, AcceptOneKeeps, AcceptFailsKeeps, HandleSignalsKeeps, HandleDataKeeps
     DEF Dispatch, HandleListen
<1>3. CASE BatchDone
  BY <1>3, BatchDoneKeeps
<1>4. CASE TickFire
  BY <1>4, TickFireKeeps
<1>5. CASE TickEnd
  BY <1>5, TickEndKeeps
<1>6. CASE Outside
  BY <1>6, OutsideKeeps
<1>7. CASE pc # "stopped" /\ Elapse
  BY <1>7, ElapseKeeps
<1>8. CASE UNCHANGED vars
  <2>1. /\ UNCHANGED <<backlog, place, ready, open, ended, unread, alarm, pipe, pc, batch>>
        /\ UNCHANGED <<timeout, stop_server, timer, owner, lst, live, expire, cur, quiet, lag>>
    BY <1>8, ReadyKept DEF vars, kernel, timers
  <2>2. TypeOK' /\ Control' /\ Waiting'
    BY <2>1 DEF IndInv, TypeOK, Control, Waiting
  <2>3. Listed' /\ Measured' /\ Owned'
    BY <2>1, StateFacts, ListedKept, MeasuredKept, OwnedKept
  <2>4. Heart'
    BY <2>1, SameHeart
  <2> QED BY <2>2, <2>3, <2>4 DEF IndInv
<1> QED BY <1>1, <1>2, <1>3, <1>4, <1>5, <1>6, <1>7, <1>8 DEF Next, Loop

\* The invariant of the proofs, through every branch of the event loop of 11_3.cpp: its
\* place in the loop, the list, who owns which timer and what it measures, and the stages
\* of the heartbeat.
THEOREM InductiveInvariant == Spec => []IndInv
BY InitIsSound, StepKeeps, PTL DEF Spec

\* The types of the server's variables; a timer is never found missing when a connection
\* is accepted, nor the clock of tick() out of its range.
THEOREM TypeCorrect == Spec => []TypeOK
<1>1. IndInv => TypeOK
  BY DEF IndInv
<1> QED BY <1>1, InductiveInvariant, PTL

\* timer_lst holds exactly the timers in use, linked both ways and ascending, through every
\* accept, read, close and tick.
THEOREM TimersStayIntact == Spec => []TimersIntact
<1>1. IndInv => TimersIntact
  BY DEF IndInv, Listed, Whole, Linked, TimersIntact
<1> QED BY <1>1, InductiveInvariant, PTL

\* Each connection owns one timer and each timer at most one connection, so that no timer
\* closes a connection that took over the descriptor of another.
THEOREM ConnectionsOwnTimers == Spec => []OneTimerEach
<1>1. IndInv => OneTimerEach
  BY DEF IndInv, Owned, OneTimerEach
<1> QED BY <1>1, InductiveInvariant, PTL

\* There is always an alarm set, a signal on its way, or a tick to come that sets it again.
THEOREM HeartbeatStays == Spec => []HeartbeatAlive
<1>1. IndInv => HeartbeatAlive
  BY Constants DEF IndInv, Heart, AlarmSet, OnTheWay, Arrived, HeartbeatAlive
<1> QED BY <1>1, InductiveInvariant, PTL

\* No connection stays quiet for longer than three time slots, one period of the heartbeat
\* and three rounds of the loop, and the rounds that the pipe waits for its turn: as many as
\* it takes epoll_wait() to report all other descriptors, MAX_EVENT_NUMBER at a time.
THEOREM IdleAreClosed == Spec => []IdleSoonClosed
<1>1. IndInv => IdleSoonClosed
  <2> SUFFICES ASSUME IndInv, NEW f \in open
               PROVE  quiet[f] < Idle + TIMESLOT + (3 + Rounds) * MaxLag
    BY DEF IdleSoonClosed
  <2>1. quiet[f] \in Int /\ lag \in Int /\ 0 <= lag /\ lag <= MaxLag
    BY StateFacts
  <2>2. CASE AlarmSet
    <3>1. alarm \in Int /\ alarm >= 0 /\ quiet[f] <= AtAlarm - alarm
      BY <2>2, Constants DEF AlarmSet, QuietUpTo
    <3>2. Delay(Rounds + 1) \in Nat /\ (3 + Rounds) * MaxLag = Delay(Rounds + 1) + 2 * MaxLag
      BY DelayFacts, RoundsFacts
    <3> QED BY <2>1, <3>1, <3>2, Constants
  <2>3. CASE OnTheWay \/ Arrived
    <3>1. quiet[f] <= AtPipe + lag
      <4>1. CASE \E j \in Nat : PipeFd \in ready /\ InLine(j)
        <5> PICK j \in Nat : PipeFd \in ready /\ InLine(j)
          BY <4>1
        <5>1. place[PipeFd] \in Nat /\ place[PipeFd] >= 1
          BY StateFacts, WatchedFacts DEF ready
        <5>2. j <= Rounds /\ Rounds \in Nat
          BY <5>1, RoundsFacts DEF InLine
        <5>3. j \in Nat /\ Rounds + 1 \in Nat /\ j <= Rounds + 1
          BY <5>2
        <5>4. Delay(j) <= Delay(Rounds + 1) /\ Delay(j) \in Nat /\ Delay(Rounds + 1) \in Nat
          BY <5>3, DelayFacts
        <5>5. quiet[f] <= AtAlarm + Delay(j) + lag
          BY DEF InLine, QuietUpTo
        <5> QED BY <2>1, <5>4, <5>5, Constants DEF AtPipe
      <4> QED BY <2>3, <4>1 DEF OnTheWay, Arrived, QuietUpTo
    <3>2. AtPipe = AtAlarm + Delay(Rounds + 1) /\ Delay(Rounds + 1) \in Nat
          /\ (3 + Rounds) * MaxLag = Delay(Rounds + 1) + 2 * MaxLag
      BY DelayFacts, RoundsFacts
    <3> QED BY <2>1, <3>1, <3>2, Constants
  <2> QED BY <2>2, <2>3 DEF IndInv, Heart
<1> QED BY <1>1, InductiveInvariant, PTL

\* A connection is closed only when the client ended it, or by the timer when nothing was
\* read from it for three time slots.
THEOREM OnlyIdleAreClosed == Spec => OnlyIdleClosed
<1>1. IndInv /\ [Next]_vars => [\A f \in open : f \notin open' => f \in ended \/ quiet[f] >= Idle]_vars
  <2> SUFFICES ASSUME IndInv, Next, NEW f \in open, f \notin open'
               PROVE  f \in ended \/ quiet[f] >= Idle
    OBVIOUS
  <2>1. CASE TickFire
    <3>1. owner[lst.head] # NoFd /\ CloseConn(owner[lst.head])
      BY <2>1 DEF TickFire
    <3>2. f = owner[lst.head]
      BY <3>1 DEF CloseConn
    <3>3. lst.head \in live /\ cur >= expire[lst.head] /\ cur <= 0
      BY <2>1, StateFacts DEF TickFire, IndInv, Control
    <3>4. timer[f] = lst.head
      BY <3>1, <3>2, <3>3 DEF IndInv, Owned
    <3>5. quiet[f] + expire[lst.head] = Idle
      BY <3>4 DEF IndInv, Measured
    <3>6. quiet[f] \in Int /\ expire[lst.head] \in Int /\ cur \in Int
      BY <3>3, StateFacts
    <3> QED BY <3>3, <3>5, <3>6, Constants
  <2>2. CASE Dispatch
    <3>1. CASE HandleListen \/ HandleSignals
      BY <3>1 DEF HandleListen, HandleSignals, AcceptOne, AcceptFails
    <3>2. ASSUME NEW g \in Fds, HandleData(g)
          PROVE  f \in ended \/ quiet[f] >= Idle
      BY <3>2 DEF HandleData, ReadData, ReadEnd, CloseConn
    <3> QED BY <2>2, <3>1, <3>2 DEF Dispatch
  <2>3. CASE EpollWait \/ BatchDone \/ TickEnd \/ Outside \/ Elapse
    <3>1. open' = open
      BY <2>3 DEF EpollWait, BatchDone, TickEnd, Outside, Elapse, kernel, Connect, AlarmRings,
                  Terminate, ClientActs
    <3> QED BY <3>1
  <2> QED BY <2>1, <2>2, <2>3 DEF Next, Loop
<1> QED BY <1>1, InductiveInvariant, PTL DEF Spec, OnlyIdleClosed
=============================================================================
