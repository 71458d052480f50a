--------------------------- MODULE TimerListOwner ---------------------------
(***************************************************************************)
(* The ascending timer list of Timer/lst_timer.h in the hands of an owner: *)
(* add_timer, adjust_timer and del_timer between ticks, tick() step by     *)
(* step with the callbacks it runs in the middle of its walk, and time     *)
(* passing at any moment, also while tick() runs.                          *)
(*                                                                         *)
(* Times are relative to now, so that no clock grows without bound: a      *)
(* second that passes takes one off every expiry and off the time that     *)
(* tick() sampled when it began.                                           *)
(***************************************************************************)
EXTENDS SortTimerLst

CONSTANTS
  Delays,   \* the delays, in seconds, after which the owner lets timers expire
  MaxLag    \* bound: no timer is overdue by more than this many seconds

ASSUME DelaysAssumption == Delays \subseteq Nat \ {0}
ASSUME MaxLagAssumption == MaxLag \in Nat

VARIABLES
  lst,      \* the list
  live,     \* the timers that are allocated
  expire,   \* the field expire of each timer, minus now
  pc,       \* "idle", or where tick() is: "scan" or inside a "callback"
  cur       \* the time tick() sampled, minus now

vars == <<lst, live, expire, pc, cur>>

TypeOK ==
  /\ lst \in Lists /\ lst.head \in live \cup {Null}
  /\ live \subseteq Timers
  /\ expire \in [Timers -> Int]
  /\ pc \in {"idle", "scan", "callback"}
  /\ cur \in -MaxLag .. 0

Init ==
  /\ lst = EmptyList
  /\ live = {}
  /\ expire = [t \in Timers |-> 0]
  /\ pc = "idle"
  /\ cur = 0

-----------------------------------------------------------------------------
\* The owner allocates a timer that expires d seconds from now and adds it.
Add(t, d) ==
  /\ t \notin live
  /\ live' = live \cup {t}
  /\ expire' = [expire EXCEPT ![t] = d]
  /\ lst' = AddTimer(lst, expire', t)
  /\ UNCHANGED <<pc, cur>>

\* The owner puts off the expiry of a timer and adjusts its place.
Adjust(t, d) ==
  /\ t \in live
  /\ d >= expire[t]
  /\ expire' = [expire EXCEPT ![t] = d]
  /\ lst' = AdjustTimer(lst, expire', t)
  /\ UNCHANGED <<live, pc, cur>>

\* Mutant of Delete: the timer is freed while it is still on the list.
DeleteLinked(t) ==
  /\ t \in live
  /\ live' = live \ {t}
  /\ expire' = [expire EXCEPT ![t] = 0]
  /\ UNCHANGED <<lst, pc, cur>>

Delete(t) ==
  /\ t \in live
  /\ live' = live \ {t}
  /\ expire' = [expire EXCEPT ![t] = 0]
  /\ lst' = DelTimer(lst, t)
  /\ UNCHANGED <<pc, cur>>

\* ~sort_timer_lst frees what the list holds; the owner then constructs a new list.
Destroy ==
  /\ live' = live \ Chain(lst, lst.head)
  /\ lst' = EmptyList
  /\ expire' = [t \in Timers |-> 0]
  /\ UNCHANGED <<pc, cur>>

\* tick() returns at once from an empty list, else it samples the clock, once.
TickBegin ==
  /\ pc = "idle"
  /\ lst.head # Null
  /\ pc' = "scan"
  /\ cur' = 0
  /\ UNCHANGED <<lst, live, expire>>

\* Mutant of TickFire: the clock is read again for every timer.
TickFireResampled ==
  /\ pc = "scan"
  /\ lst.head # Null
  /\ 0 >= expire[lst.head]
  /\ pc' = "callback"
  /\ cur' = 0
  /\ UNCHANGED <<lst, live, expire>>

TickFire ==
  /\ pc = "scan"
  /\ lst.head # Null
  /\ cur >= expire[lst.head]
  /\ pc' = "callback"
  /\ UNCHANGED <<lst, live, expire, cur>>

\* The callback has returned: only now is the timer taken off the list.  It is
\* still the head: no callback can add a timer that has already expired.
TickRemove ==
  /\ pc = "callback"
  /\ lst' = PopFront(lst, lst.head)
  /\ live' = live \ {lst.head}
  /\ expire' = [expire EXCEPT ![lst.head] = 0]
  /\ pc' = "scan"
  /\ UNCHANGED cur

TickEnd ==
  /\ pc = "scan"
  /\ lst.head # Null => cur < expire[lst.head]
  /\ pc' = "idle"
  /\ cur' = 0
  /\ UNCHANGED <<lst, live, expire>>

\* The calls of the owner between two ticks, and of a callback inside one; the
\* timer whose callback is running is tick()'s own.
Call ==
  /\ pc \in {"idle", "callback"}
  /\ \E t \in Timers :
        /\ pc = "callback" => t # lst.head
        /\ \/ \E d \in Delays : Add(t, d) \/ Adjust(t, d)
           \/ Delete(t)

\* A second passes.
Elapse ==
  /\ \A t \in live : expire[t] > -MaxLag
  /\ pc # "idle" => cur > -MaxLag
  /\ expire' = [t \in Timers |-> IF t \in live THEN expire[t] - 1 ELSE 0]
  /\ cur' = IF pc = "idle" THEN 0 ELSE cur - 1
  /\ UNCHANGED <<lst, live, pc>>

Tick == TickBegin \/ TickFire \/ TickRemove \/ TickEnd

Next == Call \/ (pc = "idle" /\ Destroy) \/ Elapse \/ Tick

Spec == Init /\ [][Next]_vars

\* tick() is a plain loop: it goes on, and the callbacks it calls return.
FairSpec == Spec /\ WF_vars(TickFire \/ TickRemove \/ TickEnd)

-----------------------------------------------------------------------------
\* The list holds exactly the allocated timers, linked in both directions and in
\* ascending order of expiry, as its comments promise; the callbacks may change it
\* while tick() walks it.
ListIntact == Intact(lst, live) /\ Ascending(lst, live, expire)

Firing == IF pc = "callback" THEN {lst.head} ELSE {}

Service == INSTANCE TimerService WITH
  due <- [t \in live \ Firing |-> IF pc = "idle" THEN expire[t] ELSE expire[t] - cur],
  phase <- IF pc = "idle" THEN "idle" ELSE "ticking"

\* The list keeps the promises of TimerService: every timer that has expired when
\* a tick begins fires in that tick, the earliest first, and no other does.
ImplementsService == Service!Spec

\* A tick ends, although its callbacks keep adding timers and time goes on.
TickEnds == pc # "idle" ~> pc = "idle"
=============================================================================
