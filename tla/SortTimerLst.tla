---------------------------- MODULE SortTimerLst ----------------------------
(***************************************************************************)
(* class sort_timer_lst of Timer/lst_timer.h: a doubly linked list of      *)
(* timers in ascending order of expiry, as an algebra of lists.            *)
(*                                                                         *)
(* A list is a record of its two ends and of the link fields of every      *)
(* timer.  Each operator is one member function; it maps a list to the     *)
(* list the function leaves behind.  The expiry times are an argument,     *)
(* because the owner of a timer writes them, not the list.                 *)
(***************************************************************************)
EXTENDS Integers

CONSTANTS
  Timers,   \* the util_timer objects that may be allocated
  Null      \* nullptr

ASSUME NullAssumption == Null \notin Timers

Lists == [head : Timers \cup {Null}, tail : Timers \cup {Null},
          next : [Timers -> Timers \cup {Null}], prev : [Timers -> Timers \cup {Null}]]

EmptyList == [head |-> Null, tail |-> Null,
              next |-> [t \in Timers |-> Null], prev |-> [t \in Timers |-> Null]]

\* The timers met by following next from h: the least set that holds h and is
\* closed under next.
Chain(l, h) ==
  {t \in Timers : \A S \in SUBSET Timers :
      (/\ h \in S \cup {Null}
       /\ \A u \in S : l.next[u] \in S \cup {Null}) => t \in S}

\* A deleted timer takes its links with it: nothing may read them again.
Freed(l, t) == [l EXCEPT !.next[t] = Null, !.prev[t] = Null]

-----------------------------------------------------------------------------
(***************************************************************************)
(* The private add_timer(timer, lst_head), in closed form.  Its loop walks *)
(* the nodes after lst_head; it links t before EVERY node that expires     *)
(* later than t, for it does not stop at the first one, and when it runs   *)
(* off the end it makes t the tail whether or not t was linked before.     *)
(* With no later node this is an append.                                   *)
(***************************************************************************)
InsertAfter(l, expire, t, lst_head) ==
  LET walked == Chain(l, lst_head)
      later == {u \in walked \ {lst_head} : expire[t] < expire[u]}
  IN [head |-> l.head,
      tail |-> t,
      next |-> [u \in Timers |->
                  IF u = t THEN Null
                  ELSE IF u \in walked /\ l.next[u] \in later \cup {Null} THEN t
                  ELSE l.next[u]],
      prev |-> [u \in Timers |->
                  IF u = t THEN CHOOSE v \in walked : l.next[v] = Null
                  ELSE IF u \in later THEN t
                  ELSE l.prev[u]]]

\* Mutant of AddTimer: a new timer always goes to the front.
AddTimerInFront(l, expire, t) ==
  IF l.head = Null THEN [l EXCEPT !.head = t, !.tail = t]
  ELSE [l EXCEPT !.head = t, !.next[t] = l.head, !.prev[l.head] = t]

\* add_timer(timer): an empty list, the front, or somewhere behind the head.
AddTimer(l, expire, t) ==
  IF l.head = Null THEN [l EXCEPT !.head = t, !.tail = t]
  ELSE IF expire[t] < expire[l.head]
       THEN [l EXCEPT !.head = t, !.next[t] = l.head, !.prev[l.head] = t]
       ELSE InsertAfter(l, expire, t, l.head)

\* adjust_timer(timer), after its expiry was put off: the timer stays where it
\* is when its successor expires later still, else it is taken out and put back
\* behind its successor.
AdjustTimer(l, expire, t) ==
  LET n == l.next[t]
      p == l.prev[t]
  IN  IF n = Null \/ expire[t] < expire[n] THEN l
      ELSE IF t = l.head
           THEN InsertAfter([l EXCEPT !.head = n, !.prev[n] = Null, !.next[t] = Null],
                            expire, t, n)
           ELSE InsertAfter([l EXCEPT !.next[p] = n, !.prev[n] = p], expire, t, n)

\* Mutant of DelTimer: the case of the tail is forgotten, the tail stays.
DelTimerKeepTail(l, t) ==
  LET n == l.next[t]
      p == l.prev[t]
  IN  IF t = l.head /\ t = l.tail THEN Freed([l EXCEPT !.head = Null, !.tail = Null], t)
      ELSE IF t = l.head THEN Freed([l EXCEPT !.head = n, !.prev[n] = Null], t)
      ELSE IF n = Null THEN Freed([l EXCEPT !.next[p] = n], t)
      ELSE Freed([l EXCEPT !.next[p] = n, !.prev[n] = p], t)

\* del_timer(timer): the only timer, the head, the tail, or one in the middle.
DelTimer(l, t) ==
  LET n == l.next[t]
      p == l.prev[t]
  IN  IF t = l.head /\ t = l.tail THEN Freed([l EXCEPT !.head = Null, !.tail = Null], t)
      ELSE IF t = l.head THEN Freed([l EXCEPT !.head = n, !.prev[n] = Null], t)
      ELSE IF t = l.tail THEN Freed([l EXCEPT !.next[p] = Null, !.tail = p], t)
      ELSE Freed([l EXCEPT !.next[p] = n, !.prev[n] = p], t)

\* What tick() does to the list once the callback of the timer t at its front
\* has returned.  The tail is left alone: when the list runs empty it dangles
\* until add_timer sets it again.
PopFront(l, t) ==
  LET n == l.next[t]
  IN  Freed([l EXCEPT !.head = n, !.prev = IF n = Null THEN @ ELSE [@ EXCEPT ![n] = Null]], t)

-----------------------------------------------------------------------------
(***************************************************************************)
(* What the class promises about a list that holds the timers in live.     *)
(***************************************************************************)

\* Nothing is lost, nothing freed is kept, and both directions agree.
Intact(l, live) ==
  /\ Chain(l, l.head) = live
  /\ \A t \in live : l.prev[t] = Null <=> t = l.head
  /\ \A t \in live : l.next[t] # Null => l.prev[l.next[t]] = t
  /\ live # {} => (l.tail \in live /\ l.next[l.tail] = Null)

\* The timers expire in the order of the list.
Ascending(l, live, expire) ==
  \A t \in live : l.next[t] # Null => expire[t] <= expire[l.next[t]]
=============================================================================
