------------------------------ MODULE TimeHeap ------------------------------
(***************************************************************************)
(* The timer heap of Timer/TimingHeap/min_heap.h: an array that is a       *)
(* binary heap on the expiry of the timers, with the calls of its owner    *)
(* (the constructors, add_timer, del_timer, pop_timer) and tick() with the *)
(* callbacks it runs.  The loops that move a hole up or down the heap are  *)
(* taken step by step.                                                     *)
(*                                                                         *)
(* Times are relative to now, as in TimerListOwner.  No step of the loops  *)
(* reads the clock: a second that passes inside them is taken to pass at   *)
(* their end.                                                              *)
(***************************************************************************)
EXTENDS Integers, FiniteSets

CONSTANTS
  Timers, Null,
  Garbage,      \* a pointer that nothing may follow: read out of bounds, or left
                \* behind where the array is no longer in use
  Caps,         \* the capacities the owner asks for
  InitSizes,    \* the numbers of timers the owner starts with
  Delays,       \* the delays after which timers expire
  MaxLag        \* bound: no timer is overdue by more than this many seconds

ASSUME PointersAssumption == Null \notin Timers /\ Garbage \notin Timers /\ Null # Garbage
ASSUME CapsAssumption == Caps \subseteq Nat \ {0} /\ InitSizes \subseteq Nat
ASSUME DelaysAssumption == Delays \subseteq Nat
ASSUME MaxLagAssumption == MaxLag \in Nat

VARIABLES
  array, capacity, cur_size,
  live,      \* the timers that are allocated and in the hands of the heap
  armed,     \* those of them whose cb_func is not null
  expire,    \* the field expire of each timer, minus now
  pc,        \* "load" and "build" in the second constructor, "up" and "down" in the
             \* loops, "idle" between calls, "scan" or "callback" in tick()
  i,         \* the index of the constructor's loops
  ret,       \* where a loop returns to
  hole,      \* the hole that moves up or down
  moving,    \* the timer that will fill it
  cur,       \* the time tick() sampled, minus now
  fired      \* history: the timer whose callback was called and that is to be popped

loop == <<ret, hole, moving>>
vars == <<array, capacity, cur_size, live, armed, expire, pc, i, loop, cur, fired>>

Entries == Timers \cup {Null, Garbage}

TypeOK ==
  /\ capacity \in Nat \ {0}
  /\ array \in [0 .. capacity - 1 -> Entries]
  /\ cur_size \in 0 .. capacity
  /\ live \subseteq Timers /\ armed \subseteq live
  /\ expire \in [Timers -> Int]
  /\ pc \in {"load", "build", "up", "down", "idle", "scan", "callback"}
  /\ i \in -1 .. capacity
  /\ ret \in {"build", "idle", "scan", "callback"}
  /\ hole \in 0 .. capacity - 1
  /\ moving \in Entries
  /\ cur \in -MaxLag .. 0
  /\ fired \in Timers \cup {Null}

\* The constructors: an empty heap, or one that takes over an array of timers.
Init ==
  /\ \E cap \in Caps, size \in InitSizes :
       /\ size <= cap
       /\ capacity = cap /\ cur_size = size
       /\ array = [k \in 0 .. cap - 1 |-> Null]
       /\ pc = IF size = 0 THEN "idle" ELSE "load"
  /\ live = {} /\ armed = {} /\ expire = [t \in Timers |-> 0]
  /\ i = 0 /\ ret = "idle" /\ hole = 0 /\ moving = Null /\ cur = 0 /\ fired = Null

-----------------------------------------------------------------------------
(***************************************************************************)
(* The loops.                                                              *)
(***************************************************************************)

Parent(k) == (k - 1) \div 2
Left(k) == 2 * k + 1

\* Mutant of StopsBelow: a new timer passes one that expires with it.
StopsBelowStrictly(p) == expire[array[p]] < expire[moving]

StopsBelow(p) == expire[array[p]] <= expire[moving]

\* Mutant of Fill: the timer is not put down.
FillNot ==
  /\ pc' = ret
  /\ ret' = "idle" /\ hole' = 0 /\ moving' = Null
  /\ UNCHANGED array

\* Once the hole is filled the loop returns.
Fill ==
  /\ array' = [array EXCEPT ![hole] = moving]
  /\ pc' = ret
  /\ ret' = "idle" /\ hole' = 0 /\ moving' = Null

\* add_timer: the hole moves up until its parent does not expire later.
Up ==
  /\ pc = "up"
  /\ IF hole = 0 \/ StopsBelow(Parent(hole))
     THEN Fill
     ELSE /\ array' = [array EXCEPT ![hole] = array[Parent(hole)]]
          /\ hole' = Parent(hole)
          /\ UNCHANGED <<pc, ret, moving>>
  /\ UNCHANGED <<capacity, cur_size, live, armed, expire, i, cur, fired>>

\* Mutant of Child: always the left one.
ChildLeft(h) == Left(h)

\* The child of h that expires first.
Child(h) ==
  LET c == Left(h)
  IN IF c < cur_size - 1 /\ expire[array[c + 1]] < expire[array[c]] THEN c + 1 ELSE c

\* percolate_down: the hole moves down until no child expires earlier.
Down ==
  /\ pc = "down"
  /\ IF Left(hole) <= cur_size - 1 /\ expire[array[Child(hole)]] < expire[moving]
     THEN /\ array' = [array EXCEPT ![hole] = array[Child(hole)]]
          /\ hole' = Child(hole)
          /\ UNCHANGED <<pc, ret, moving>>
     ELSE Fill
  /\ UNCHANGED <<capacity, cur_size, live, armed, expire, i, cur, fired>>

(***************************************************************************)
(* The second constructor.                                                 *)
(***************************************************************************)

\* array[i] = init_arry[i] for all of the capacity, also where init_arry has ended.
Load ==
  /\ pc = "load"
  /\ IF i < cur_size
     THEN \E t \in Timers \ live, d \in Delays :
            /\ array' = [array EXCEPT ![i] = t]
            /\ live' = live \cup {t} /\ armed' = armed \cup {t}
            /\ expire' = [expire EXCEPT ![t] = d]
     ELSE /\ array' = [array EXCEPT ![i] = Garbage]
          /\ UNCHANGED <<live, armed, expire>>
  /\ IF i + 1 < capacity THEN i' = i + 1 /\ UNCHANGED pc
                         ELSE i' = (cur_size - 1) \div 2 /\ pc' = "build"
  /\ UNCHANGED <<capacity, cur_size, loop, cur, fired>>

\* percolate_down for every inner node, from the last to the first.
Build ==
  /\ pc = "build"
  /\ IF i >= 0
     THEN pc' = "down" /\ ret' = "build" /\ hole' = i /\ moving' = array[i] /\ i' = i - 1
     ELSE pc' = "idle" /\ i' = 0 /\ UNCHANGED loop
  /\ UNCHANGED <<array, capacity, cur_size, live, armed, expire, cur, fired>>

-----------------------------------------------------------------------------
(***************************************************************************)
(* The calls of the owner, between ticks and in callbacks.                 *)
(***************************************************************************)

\* Mutants of Grown: nothing is copied; the old array is kept.
GrownEmpty == [k \in 0 .. 2 * capacity - 1 |-> Null]
GrownNot == array

\* The array after resize(): twice as long, and copied for all of the new length, so
\* that what follows the old array comes along.
Grown == [k \in 0 .. 2 * capacity - 1 |-> IF k < capacity THEN array[k] ELSE Garbage]

\* add_timer of a new timer that expires d seconds from now.
Add(t, d) ==
  /\ t \notin live
  /\ live' = live \cup {t} /\ armed' = armed \cup {t}
  /\ expire' = [expire EXCEPT ![t] = d]
  /\ IF cur_size >= capacity THEN array' = Grown /\ capacity' = 2 * capacity
                             ELSE UNCHANGED <<array, capacity>>
  /\ hole' = cur_size
  /\ cur_size' = cur_size + 1
  /\ moving' = t
  /\ ret' = pc /\ pc' = "up"
  /\ UNCHANGED <<i, cur, fired>>

\* del_timer: the timer stays in the heap without a callback.
Delete(t) ==
  /\ t \in armed
  /\ armed' = armed \ {t}
  /\ UNCHANGED <<array, capacity, cur_size, live, expire, pc, i, loop, cur, fired>>

Call ==
  /\ pc \in {"idle", "callback"}
  /\ \E t \in Timers : (\E d \in Delays : Add(t, d)) \/ Delete(t)

\* pop_timer: the first timer is freed and the last one percolates down from its place.
Pop(next) ==
  LET last == cur_size - 1
  IN /\ live' = live \ {array[0]} /\ armed' = armed \ {array[0]}
     /\ expire' = [expire EXCEPT ![array[0]] = 0]
     /\ array' = [[array EXCEPT ![0] = array[last]] EXCEPT ![last] = Garbage]
     /\ cur_size' = last
     /\ hole' = 0 /\ moving' = array'[0]
     /\ pc' = "down" /\ ret' = next
     /\ fired' = Null
     /\ UNCHANGED <<capacity, i, cur>>

\* The owner pops the first timer, whether it is due or not.
OwnerPops == pc = "idle" /\ cur_size > 0 /\ Pop("idle")

\* ~time_heap frees the entries in use; the owner then constructs another heap.
Destroy ==
  /\ pc = "idle"
  /\ live' = live \ {array[k] : k \in 0 .. cur_size - 1}
  /\ \E cap \in Caps, size \in InitSizes :
       /\ size <= cap
       /\ capacity' = cap /\ cur_size' = size
       /\ array' = [k \in 0 .. cap - 1 |-> Null]
       /\ pc' = IF size = 0 THEN "idle" ELSE "load"
  /\ armed' = {} /\ expire' = [t \in Timers |-> 0]
  /\ UNCHANGED <<i, loop, cur, fired>>

(***************************************************************************)
(* tick(), and the clock.                                                  *)
(***************************************************************************)

TickBegin ==
  /\ pc = "idle"
  /\ pc' = "scan" /\ cur' = 0
  /\ UNCHANGED <<array, capacity, cur_size, live, armed, expire, i, loop, fired>>

\* Mutant of TopIsDue: a timer that expires this second is left.
TopIsOverdue == cur_size > 0 /\ expire[array[0]] < cur

TopIsDue == cur_size > 0 /\ expire[array[0]] <= cur

\* Mutant of TickFire: the clock is read again.
TickFireResampled ==
  /\ pc = "scan" /\ TopIsDue /\ array[0] \in armed
  /\ pc' = "callback" /\ fired' = array[0] /\ cur' = 0
  /\ UNCHANGED <<array, capacity, cur_size, live, armed, expire, i, loop>>

TickFire ==
  /\ pc = "scan" /\ TopIsDue /\ array[0] \in armed
  /\ pc' = "callback" /\ fired' = array[0]
  /\ UNCHANGED <<array, capacity, cur_size, live, armed, expire, i, loop, cur>>

\* The first timer is due and was deleted: it is only popped.
TickSkip == pc = "scan" /\ TopIsDue /\ array[0] \notin armed /\ Pop("scan")

\* The callback has returned: the first timer is popped, whichever it is now.
TickPop == pc = "callback" /\ Pop("scan")

TickEnd ==
  /\ pc = "scan" /\ ~TopIsDue
  /\ pc' = "idle" /\ cur' = 0
  /\ UNCHANGED <<array, capacity, cur_size, live, armed, expire, i, loop, fired>>

\* A second passes.
Elapse ==
  /\ pc \in {"idle", "scan", "callback"}
  /\ \A t \in live : expire[t] > -MaxLag
  /\ pc # "idle" => cur > -MaxLag
  /\ expire' = [t \in Timers |-> IF t \in live THEN expire[t] - 1 ELSE 0]
  /\ cur' = IF pc = "idle" THEN 0 ELSE cur - 1
  /\ UNCHANGED <<array, capacity, cur_size, live, armed, pc, i, loop, fired>>

Step == Load \/ Build \/ Up \/ Down \/ TickFire \/ TickSkip \/ TickPop \/ TickEnd

Next == Step \/ TickBegin \/ Call \/ OwnerPops \/ Destroy \/ Elapse

Spec == Init /\ [][Next]_vars

\* The thread runs, callbacks return, and time goes on, also during a tick.
FairSpec == Spec /\ WF_vars(Step) /\ SF_vars(Elapse)

-----------------------------------------------------------------------------
(***************************************************************************)
(* Properties.                                                             *)
(***************************************************************************)

AtRest == pc \in {"idle", "scan", "callback"}
Used == 0 .. cur_size - 1

\* The array in use holds each allocated timer once, and no pointer into freed or
\* foreign memory: no timer is lost, doubled or left behind when holes move, the array
\* grows or the first timer goes.
HoldsEachOnce ==
  AtRest => /\ \A k \in Used : array[k] \in live
            /\ \A t \in live : \E k \in Used : array[k] = t
            /\ \A j, k \in Used : array[j] = array[k] => j = k

\* Nothing the loops compare is garbage, also where they have not finished.
ComparesTimersOnly ==
  /\ pc \in {"up", "down"} /\ cur_size > 0 => moving \in live
  /\ \A k \in Used : pc \notin {"load"} /\ ~(pc = "up" /\ k = hole) => array[k] \in live

\* No timer expires earlier than its parent.
HeapOrder == AtRest => \A k \in Used \ {0} : expire[array[Parent(k)]] <= expire[array[k]]

\* When a callback has returned, the first timer is still the one that fired, whatever
\* timers the callback added: tick() pops that one.
PopsTheFired == pc = "callback" => array[0] = fired

ticking == pc \in {"scan", "callback"} \/ ret \in {"scan", "callback"}

Service == INSTANCE TimerService WITH
  due <- [t \in armed \ {fired} |-> IF ticking THEN expire[t] - cur ELSE expire[t]],
  phase <- IF ticking THEN "ticking" ELSE "idle"

\* The heap keeps the promises of TimerService: a timer that was deleted never fires,
\* every other one that has expired when a tick begins fires in it, the earliest first.
ImplementsService == Service!Spec

\* A tick ends, although its callbacks may add timers that expire at once.
TickEnds == ticking ~> ~ticking
=============================================================================
