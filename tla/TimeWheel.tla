------------------------------ MODULE TimeWheel ------------------------------
(***************************************************************************)
(* class time_wheel of Timer/TimingWheel/time_wheel_timer.h: N slots, each *)
(* an unordered doubly linked list of timers, and a cursor that advances   *)
(* by one slot per call of tick().                                         *)
(*                                                                         *)
(* The lists are modelled pointer by pointer, and tick() step by step: it  *)
(* runs user callbacks in the middle of its walk, and a callback may call  *)
(* add_timer and del_timer on the very list being walked.  The one call a  *)
(* callback cannot make is del_timer on the timer that is firing, because  *)
(* tick() itself frees that timer when the callback returns.               *)
(***************************************************************************)
EXTENDS Integers

CONSTANTS
  Timers,            \* the tw_timer objects that may be allocated
  Null,              \* nullptr
  N,                 \* the number of slots (60 in the code)
  SI,                \* the seconds between two ticks (1 in the code)
  Timeouts,          \* the timeouts the owner passes to add_timer
  CallbackTimeouts   \* the timeouts a callback passes to add_timer

ASSUME NullAssumption == Null \notin Timers
ASSUME NAssumption == N \in Nat \ {0}
ASSUME SIAssumption == SI \in Nat \ {0}
ASSUME TimeoutsAssumption == Timeouts \subseteq Int /\ CallbackTimeouts \subseteq Int

VARIABLES
  slots,       \* slots[s]: the head of the list of slot s, or Null
  cur_slot,    \* the slot the next tick visits (the running one while ticking)
  live,        \* the timers that are allocated
  next, prev, rotation, time_slot,   \* the fields of each timer
  pc,          \* "idle", or where tick() is: "scan" or inside a "callback"
  tmp,         \* tick()'s cursor in the list of cur_slot
  \* history
  due,         \* the ticks left before the timer is due to fire
  astray       \* the timers that a callback added with a timeout of whole laps

history == <<due, astray>>
wheel == <<slots, cur_slot, live, next, prev, rotation, time_slot, history>>
vars == <<wheel, pc, tmp>>

Slots == 0 .. N - 1

TypeOK ==
  /\ slots \in [Slots -> Timers \cup {Null}]
  /\ cur_slot \in Slots
  /\ live \subseteq Timers
  /\ next \in [Timers -> Timers \cup {Null}]
  /\ prev \in [Timers -> Timers \cup {Null}]
  /\ rotation \in [Timers -> Nat]
  /\ time_slot \in [Timers -> Slots]
  /\ pc \in {"idle", "scan", "callback"}
  /\ tmp \in Timers \cup {Null}
  /\ due \in [Timers -> Int]
  /\ astray \subseteq live

Init ==
  /\ slots = [s \in Slots |-> Null]
  /\ cur_slot = 0
  /\ live = {}
  /\ next = [t \in Timers |-> Null]
  /\ prev = [t \in Timers |-> Null]
  /\ rotation = [t \in Timers |-> 0]
  /\ time_slot = [t \in Timers |-> 0]
  /\ pc = "idle"
  /\ tmp = Null
  /\ due = [t \in Timers |-> 0] /\ astray = {}

-----------------------------------------------------------------------------
(***************************************************************************)
(* add_timer and del_timer.                                                *)
(***************************************************************************)

\* The number of ticks after which a timeout is to fire: a timeout shorter
\* than a tick is rounded up to one tick, any other is rounded down.
Ticks(timeout) == IF timeout < SI THEN 1 ELSE timeout \div SI

\* Mutants of SlotFor: one slot too far, one slot too near.
SlotForTooFar(ticks) == (cur_slot + (ticks % N) + 1) % N
SlotForTooNear(ticks) == (cur_slot + ((ticks - 1) % N)) % N

\* The slot a timer lands in, counted from the cursor.
SlotFor(ticks) == (cur_slot + (ticks % N)) % N

\* Mutant of Push: the old head's prev is left as it was.
PushOneWay(t, s) ==
  /\ slots' = [slots EXCEPT ![s] = t]
  /\ next' = [next EXCEPT ![t] = slots[s]]
  /\ prev' = [prev EXCEPT ![t] = Null]

\* A new timer becomes the head of its slot.
Push(t, s) ==
  /\ slots' = [slots EXCEPT ![s] = t]
  /\ next' = [next EXCEPT ![t] = slots[s]]
  /\ prev' = [u \in Timers |-> IF u = t THEN Null
                               ELSE IF u = slots[s] THEN t ELSE prev[u]]

AddTimer(t, timeout) ==
  LET ticks == Ticks(timeout)
      s == SlotFor(ticks)
  IN  /\ timeout >= 0
      /\ t \notin live
      /\ live' = live \cup {t}
      /\ rotation' = [rotation EXCEPT ![t] = ticks \div N]
      /\ time_slot' = [time_slot EXCEPT ![t] = s]
      /\ due' = [due EXCEPT ![t] = ticks]
      /\ astray' = IF pc = "callback" /\ ticks % N = 0 THEN astray \cup {t} ELSE astray
      /\ Push(t, s)
      /\ UNCHANGED <<cur_slot, pc, tmp>>

\* t is taken out of the list of slot s and freed.  The fields of a freed
\* timer are parked at their initial values: nothing may read them.
Remove(t, s) ==
  /\ slots' = IF t = slots[s] THEN [slots EXCEPT ![s] = next[t]] ELSE slots
  /\ next' = [u \in Timers |->
                IF u = t THEN Null
                ELSE IF t # slots[s] /\ u = prev[t] THEN next[t] ELSE next[u]]
  /\ prev' = [u \in Timers |->
                IF u = t THEN Null
                ELSE IF u # next[t] THEN prev[u]
                ELSE IF t = slots[s] THEN Null ELSE prev[t]]
  /\ live' = live \ {t}
  /\ rotation' = [rotation EXCEPT ![t] = 0]
  /\ time_slot' = [time_slot EXCEPT ![t] = 0]
  /\ due' = [due EXCEPT ![t] = 0]
  /\ astray' = astray \ {t}

DelTimer(t) ==
  /\ t \in live
  /\ Remove(t, time_slot[t])
  /\ UNCHANGED <<cur_slot, pc, tmp>>

\* The timers from first on along a list: the least set that holds first and is
\* closed under next.
From(first) ==
  {t \in Timers : \A S \in SUBSET Timers :
      (/\ first \in S \cup {Null}
       /\ \A u \in S : next[u] \in S \cup {Null}) => t \in S}

\* The timers on the list of slot s.
Listed(s) == From(slots[s])

\* ~time_wheel frees what the lists hold; the owner then constructs a new wheel.
Destroy ==
  /\ live' = live \ UNION {Listed(s) : s \in Slots}
  /\ slots' = [s \in Slots |-> Null]
  /\ cur_slot' = 0
  /\ next' = [t \in Timers |-> Null]
  /\ prev' = [t \in Timers |-> Null]
  /\ rotation' = [t \in Timers |-> 0]
  /\ time_slot' = [t \in Timers |-> 0]
  /\ due' = [t \in Timers |-> 0] /\ astray' = {}
  /\ tmp' = Null
  /\ UNCHANGED pc

-----------------------------------------------------------------------------
(***************************************************************************)
(* tick().                                                                 *)
(***************************************************************************)

TickBegin ==
  /\ pc = "idle"
  /\ pc' = "scan"
  /\ tmp' = slots[cur_slot]
  /\ UNCHANGED wheel

\* Mutant of TickSkip: the wrong bound.
TickSkipAtZero ==
  /\ pc = "scan"
  /\ tmp # Null
  /\ rotation[tmp] >= 0
  /\ rotation' = [rotation EXCEPT ![tmp] = @ - 1]
  /\ tmp' = next[tmp]
  /\ UNCHANGED <<slots, cur_slot, live, next, prev, time_slot, history, pc>>

\* The timer under the cursor has laps left: it loses one.
TickSkip ==
  /\ pc = "scan"
  /\ tmp # Null
  /\ rotation[tmp] > 0
  /\ rotation' = [rotation EXCEPT ![tmp] = @ - 1]
  /\ tmp' = next[tmp]
  /\ UNCHANGED <<slots, cur_slot, live, next, prev, time_slot, history, pc>>

\* The timer under the cursor has come due: its callback is called.
TickFire ==
  /\ pc = "scan"
  /\ tmp # Null
  /\ rotation[tmp] <= 0
  /\ pc' = "callback"
  /\ UNCHANGED <<wheel, tmp>>

\* Mutants of TickRemove: in the middle of a list the cursor stays on the freed
\* timer; only the head of a list is ever removed; the walk begins again.
TickRemoveStays ==
  /\ pc = "callback"
  /\ Remove(tmp, cur_slot)
  /\ tmp' = IF tmp = slots[cur_slot] THEN next[tmp] ELSE tmp
  /\ pc' = "scan"
  /\ UNCHANGED cur_slot

TickRemoveHeadOnly ==
  /\ pc = "callback"
  /\ IF tmp = slots[cur_slot]
     THEN Remove(tmp, cur_slot) /\ tmp' = next[tmp]
     ELSE UNCHANGED <<slots, live, next, prev, rotation, time_slot, history, tmp>>
  /\ pc' = "scan"
  /\ UNCHANGED cur_slot

TickRemoveRestarts ==
  /\ pc = "callback"
  /\ Remove(tmp, cur_slot)
  /\ tmp' = slots'[cur_slot]
  /\ pc' = "scan"
  /\ UNCHANGED cur_slot

\* The callback has returned: the timer is unlinked and freed, and only now
\* is its successor read.
TickRemove ==
  /\ pc = "callback"
  /\ Remove(tmp, cur_slot)
  /\ tmp' = next[tmp]
  /\ pc' = "scan"
  /\ UNCHANGED cur_slot

\* The end of the list: the cursor moves to the next slot.
TickEnd ==
  /\ pc = "scan"
  /\ tmp = Null
  /\ cur_slot' = (cur_slot + 1) % N
  /\ due' = [t \in Timers |-> IF t \in live THEN due[t] - 1 ELSE 0]
  /\ pc' = "idle"
  /\ UNCHANGED <<slots, live, next, prev, rotation, time_slot, astray, tmp>>

\* The calls of the owner, between two ticks.
OwnerCall ==
  /\ pc = "idle"
  /\ \/ \E t \in Timers : \/ \E timeout \in Timeouts : AddTimer(t, timeout)
                          \/ DelTimer(t)
     \/ Destroy

\* The calls of the callback that is running.
CallbackCall ==
  /\ pc = "callback"
  /\ \E t \in Timers : \/ \E timeout \in CallbackTimeouts : AddTimer(t, timeout)
                       \/ t # tmp /\ DelTimer(t)

Tick == TickBegin \/ TickSkip \/ TickFire \/ TickRemove \/ TickEnd

Next == OwnerCall \/ CallbackCall \/ Tick

Spec == Init /\ [][Next]_vars

\* tick() is called again and again by whatever drives the wheel, and its
\* loop and the callbacks it calls do not stop half way.
FairSpec == Spec /\ WF_vars(Tick)

-----------------------------------------------------------------------------
(***************************************************************************)
(* Properties.                                                             *)
(***************************************************************************)

\* The lists lose nothing and keep nothing that was freed: the timers found
\* from the head of a slot are exactly the allocated timers of that slot, and
\* prev undoes next, whatever the callbacks did to the list being walked.
ListsIntact ==
  /\ \A s \in Slots : Listed(s) = {t \in live : time_slot[t] = s}
  /\ \A t \in live : prev[t] = Null <=> t = slots[time_slot[t]]
  /\ \A t \in live : next[t] # Null => prev[next[t]] = t

\* tick()'s cursor never points at freed memory, nor into another slot.
CursorSafe ==
  (pc # "idle" /\ tmp # Null) => (tmp \in live /\ time_slot[tmp] = cur_slot)

\* A timer never outlives the tick it is due in.  This is what the comments of
\* add_timer say ("fires after ticks ticks, rotation laps").
NeverLate == \A t \in live : due[t] >= 0

\* A callback is called no earlier than in the tick its timer is due in.
NeverEarly == [][ (pc = "scan" /\ pc' = "callback") => due[tmp] <= 0 ]_vars

\* The ticks left before a timer fires: a lap more for those that a callback added with
\* a timeout of whole laps.
Left(t) == due[t] + (IF t \in astray THEN N ELSE 0)

\* Whatever the callbacks add, only timeouts of whole laps from callbacks are late, and
\* these by one lap.
OnTime == \A t \in live : Left(t) >= 0

\* This condition on the callbacks rules the lost lap out.
NoWholeLapRearm == \A timeout \in CallbackTimeouts : timeout >= 0 => Ticks(timeout) % N # 0

\* The timer whose callback is running has left the pending timers.
Firing == IF pc = "callback" THEN {tmp} ELSE {}

Service == INSTANCE TimerService WITH
  due <- [t \in live \ Firing |-> Left(t)],
  phase <- IF pc = "idle" THEN "idle" ELSE "ticking"

\* The wheel keeps the promises of TimerService: each timer fires once, in the
\* very tick it is due in (or a lap after it, if a callback added it with a timeout of
\* whole laps), unless it was deleted before.
ImplementsService == Service!Spec

\* The walk of a tick comes to an end, although its callbacks add timers to the list
\* being walked: nothing joins the timers that are still ahead of the cursor, and
\* whenever the cursor moves there is one less.
Ahead == From(tmp)
WalkShrinks ==
  [][pc # "idle" /\ pc' # "idle" =>
       Ahead' \subseteq Ahead /\ (tmp' # tmp => tmp \notin Ahead')]_vars

\* No timer stays on the wheel for ever: it fires (or is deleted), however the
\* callbacks keep adding timers.
EveryTimerLeaves == \A t \in Timers : t \in live ~> t \notin live
=============================================================================
