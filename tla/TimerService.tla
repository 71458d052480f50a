---------------------------- MODULE TimerService ----------------------------
(***************************************************************************)
(* What every timer container of Timer/ promises its owner.                *)
(*                                                                         *)
(* The three containers (the ascending list lst_timer.h, the heap          *)
(* TimingHeap/min_heap.h and the wheel TimingWheel/time_wheel_timer.h)     *)
(* share one interface: add_timer, del_timer, (for the list) adjust_timer, *)
(* and tick(), which the owner calls from time to time and which runs the  *)
(* callback of each timer that has come due.  This module is that          *)
(* interface with the container left out: the pending timers and, for      *)
(* each, the time it still has to wait, counted from the instant the last  *)
(* tick looked at.  The detailed modules implement it.                     *)
(*                                                                         *)
(* No quantifier ranges over delays: a step is recognised by the state it  *)
(* leads to, so that TLC can check a refinement step by step.              *)
(***************************************************************************)
EXTENDS Integers

CONSTANT Timers

VARIABLES
  due,       \* a function on the pending timers: the time each has left to
             \* wait; due[t] <= 0 means that t has come due
  phase      \* "idle" between two ticks, "ticking" while a tick runs

vars == <<due, phase>>

pending == DOMAIN due

Init ==
  /\ due = [t \in {} |-> 0]
  /\ phase = "idle"

\* add_timer, from the owner or from a callback that a tick runs.
Arm(t) ==
  /\ t \notin pending
  /\ DOMAIN due' = pending \cup {t}
  /\ due' = [u \in pending \cup {t} |-> IF u = t THEN due'[t] ELSE due[u]]
  /\ due'[t] \in Int
  /\ UNCHANGED phase

\* adjust_timer: the expiry of a pending timer is put off.
Postpone(t) ==
  /\ t \in pending
  /\ DOMAIN due' = pending
  /\ due' = [due EXCEPT ![t] = due'[t]]
  /\ due'[t] \in Int
  /\ due'[t] >= due[t]
  /\ UNCHANGED phase

\* t leaves the pending timers and no other timer is disturbed.
Drop(t) ==
  /\ t \in pending
  /\ due' = [u \in pending \ {t} |-> due[u]]

\* del_timer: a timer that was deleted never fires.
Cancel(t) == Drop(t) /\ UNCHANGED phase

\* The container is destroyed with the timers that are pending, and the owner starts
\* again with an empty one.
Clear ==
  /\ phase = "idle"
  /\ pending' = {}
  /\ UNCHANGED phase

\* Time goes by: every pending timer has the same amount less to wait.
TimePasses ==
  /\ DOMAIN due' = pending
  /\ \A t \in pending : due'[t] \in Int /\ due'[t] <= due[t]
  /\ \A t, u \in pending : due[t] - due'[t] = due[u] - due'[u]

Elapse ==
  /\ phase = "idle"
  /\ TimePasses
  /\ UNCHANGED phase

BeginTick ==
  /\ phase = "idle"
  /\ phase' = "ticking"
  /\ UNCHANGED due

\* A timer fires only inside a tick, only when it has come due, and no timer
\* fires before another that came due earlier.
Fire(t) ==
  /\ phase = "ticking"
  /\ Drop(t)
  /\ due[t] <= 0
  /\ \A u \in pending : due[t] <= due[u]
  /\ UNCHANGED phase

\* A tick ends only when no pending timer is due; the time that went by while
\* it ran is accounted for here.
EndTick ==
  /\ phase = "ticking"
  /\ \A t \in pending : due[t] > 0
  /\ phase' = "idle"
  /\ TimePasses

Next ==
  \/ \E t \in Timers : Arm(t) \/ Postpone(t) \/ Cancel(t) \/ Fire(t)
  \/ Clear
  \/ Elapse
  \/ BeginTick
  \/ EndTick

Spec == Init /\ [][Next]_vars
=============================================================================
