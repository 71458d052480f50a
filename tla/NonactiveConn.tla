---------------------------- MODULE NonactiveConn ----------------------------
(***************************************************************************)
(* The server Timer/11_3.cpp, which closes connections that stay idle: one *)
(* epoll loop over the listening socket, the connections and a pipe that   *)
(* carries signals, with a sort_timer_lst of one timer per connection.     *)
(*                                                                         *)
(* Every descriptor is watched edge triggered: the kernel reports it once  *)
(* after something arrives and not again until something more arrives,     *)
(* whatever is left unread.  Signals, clients and the clock act between    *)
(* any two steps of the loop.  Times are in seconds, relative to now.      *)
(***************************************************************************)
EXTENDS SortTimerLst, FiniteSets, FiniteSetsExt

CONSTANTS
  Fds,         \* the descriptors accept() can return
  ListenFd,    \* listenfd
  PipeFd,      \* pipefd[0], the end of the signal pipe that the loop reads
  TIMESLOT,    \* the period of the heartbeat (5 in the code)
  MAX_EVENT_NUMBER,  \* how many events epoll_wait() takes at most (1024 in the code)
  MaxLag,      \* bound: seconds the loop may take for one round
  AcceptMayFail  \* whether accept() may fail although a client waits

ASSUME FdsAssumption ==
  /\ Fds \cup {ListenFd, PipeFd} \subseteq Nat
  /\ ListenFd \notin Fds /\ PipeFd \notin Fds /\ ListenFd # PipeFd
ASSUME TimeslotAssumption == TIMESLOT \in Nat \ {0}
ASSUME EventsAssumption == MAX_EVENT_NUMBER \in Nat \ {0}
ASSUME MaxLagAssumption == MaxLag \in Nat
\* new finds memory for a timer of every connection, and for the stray one of AcceptFails.
ASSUME TimersAssumption ==
  /\ IsFiniteSet(Fds) /\ IsFiniteSet(Timers)
  /\ Cardinality(Timers) >= Cardinality(Fds)
  /\ AcceptMayFail => Cardinality(Timers) > Cardinality(Fds)

Watched == Fds \cup {ListenFd, PipeFd}
Idle == 3 * TIMESLOT
Off == -1          \* the value of alarm when none is set
NoFd == -1         \* what accept() returns when it fails

VARIABLES
  \* the kernel
  backlog,     \* the number of connections waiting for accept()
  place,       \* epoll's list of what it has to report: the place of each descriptor, or 0
  open,        \* the descriptors of the accepted connections
  ended,       \* the connections the client closed or reset
  unread,      \* the connections with bytes not yet read
  alarm,       \* the seconds before SIGALRM, or Off
  pipe,        \* the signals in the pipe
  \* the program
  pc,          \* "wait" in epoll_wait, "dispatch" in its events, "scan" in tick()
  batch,       \* the events of this round not yet handled
  timeout, stop_server,
  timer,       \* users[fd].timer
  owner,       \* user_data of each timer
  lst, live, expire, cur,   \* timer_lst, and tick()'s sample of the clock
  \* history
  quiet,       \* the seconds since the program accepted, or read from, a connection
  lag          \* the seconds spent in this round

kernel == <<backlog, place, open, ended, unread, alarm, pipe>>
timers == <<timer, owner, lst, live, expire, cur>>
vars == <<kernel, pc, batch, timeout, stop_server, timers, quiet, lag>>

\* The descriptors that epoll has to report.
ready == {d \in Watched : place[d] > 0}

TypeOK ==
  /\ backlog \in Nat
  /\ place \in [Watched -> 0 .. Cardinality(Watched)]
  /\ open \subseteq Fds
  /\ ended \subseteq open
  /\ unread \subseteq open
  /\ alarm \in {Off} \cup 0 .. TIMESLOT
  /\ pipe \subseteq {"SIGALRM", "SIGTERM"}
  /\ pc \in {"wait", "dispatch", "scan", "stopped"}
  /\ batch \subseteq Watched
  /\ timeout \in BOOLEAN /\ stop_server \in BOOLEAN
  /\ timer \in [Fds -> Timers \cup {Null}]
  /\ owner \in [Timers -> Fds \cup {NoFd, Null}]
  /\ lst \in Lists /\ live \subseteq Timers /\ expire \in [Timers -> Int]
  /\ cur \in Int
  /\ quiet \in [Fds -> Nat] /\ lag \in 0 .. MaxLag

Init ==
  /\ backlog = 0 /\ place = [d \in Watched |-> 0] /\ pipe = {}
  /\ open = {} /\ ended = {} /\ unread = {}
  /\ alarm = TIMESLOT
  /\ pc = "wait" /\ batch = {} /\ timeout = FALSE /\ stop_server = FALSE
  /\ timer = [f \in Fds |-> Null] /\ owner = [t \in Timers |-> Null]
  /\ lst = EmptyList /\ live = {} /\ expire = [t \in Timers |-> 0] /\ cur = 0
  /\ quiet = [f \in Fds |-> 0] /\ lag = 0

-----------------------------------------------------------------------------
(***************************************************************************)
(* The clients, the signals and the clock.                                 *)
(***************************************************************************)

program == <<pc, batch, timeout, stop_server, timers>>

\* epoll has d to report: after all that it has to report already.
Report(d) ==
  place' = IF d \in ready THEN place ELSE [place EXCEPT ![d] = Cardinality(ready) + 1]

\* A client connects.
Connect ==
  /\ backlog + Cardinality(open) < Cardinality(Fds)
  /\ backlog' = backlog + 1
  /\ Report(ListenFd)
  /\ UNCHANGED <<open, ended, unread, alarm, pipe>>

\* A client sends a message, or closes or resets its connection; what it sent before
\* is lost to a reset.
ClientActs(f) ==
  /\ f \in open \ ended
  /\ \/ unread' = unread \cup {f} /\ UNCHANGED ended
     \/ ended' = ended \cup {f} /\ unread' \in {unread, unread \ {f}}
  /\ Report(f)
  /\ UNCHANGED <<backlog, open, alarm, pipe>>

\* sig_handler: the signal's number goes into the pipe.
Signal(sig) ==
  /\ pipe' = pipe \cup {sig}
  /\ Report(PipeFd)

AlarmRings ==
  /\ alarm = 0
  /\ alarm' = Off
  /\ Signal("SIGALRM")
  /\ UNCHANGED <<backlog, open, ended, unread>>

\* Someone sends SIGTERM (once: a second one changes nothing).
Terminate ==
  /\ "SIGTERM" \notin pipe /\ ~stop_server
  /\ Signal("SIGTERM")
  /\ UNCHANGED <<backlog, open, ended, unread, alarm>>

\* The program, or the kernel for it, has something to do.
Busy == pc # "wait" \/ ready # {} \/ alarm = 0

\* A second passes; a round of the loop takes MaxLag seconds at most.
Elapse ==
  /\ alarm # 0
  /\ Busy => lag < MaxLag
  /\ lag' = IF Busy THEN lag + 1 ELSE 0
  /\ alarm' = IF alarm = Off THEN Off ELSE alarm - 1
  /\ expire' = [t \in Timers |-> IF t \in live THEN expire[t] - 1 ELSE 0]
  /\ cur' = IF pc = "scan" THEN cur - 1 ELSE 0
  /\ quiet' = [f \in Fds |-> IF f \in open THEN quiet[f] + 1 ELSE 0]
  /\ UNCHANGED <<backlog, place, open, ended, unread, pipe, pc, batch, timeout,
                 stop_server, timer, owner, lst, live>>

-----------------------------------------------------------------------------
(***************************************************************************)
(* The loop.                                                               *)
(***************************************************************************)

\* epoll_wait takes the first MAX_EVENT_NUMBER of what there is to report; the others
\* move up.
EpollWait ==
  /\ pc = "wait" /\ ready # {}
  /\ batch' = {d \in ready : place[d] <= MAX_EVENT_NUMBER}
  /\ place' = [d \in Watched |-> IF d \in ready \ batch' THEN place[d] - MAX_EVENT_NUMBER ELSE 0]
  /\ pc' = "dispatch"
  /\ lag' = 0
  /\ UNCHANGED <<backlog, open, ended, unread, alarm, pipe, timeout, stop_server, timers,
                 quiet>>

\* addfd: f is registered, edge triggered.  If the client was quick to send something,
\* epoll has it to report at once.
AddFd(f) ==
  \/ UNCHANGED <<unread, place>>
  \/ unread' = unread \cup {f} /\ Report(f)

\* A new timer for descriptor f; which one is allocated is of no matter.
NewTimer(f) ==
  LET t == CHOOSE t \in Timers \ live : TRUE
  IN /\ timer' = IF f = NoFd THEN timer ELSE [timer EXCEPT ![f] = t]
     /\ owner' = [owner EXCEPT ![t] = f]
     /\ live' = live \cup {t}
     /\ expire' = [expire EXCEPT ![t] = Idle]
     /\ lst' = AddTimer(lst, expire', t)
     /\ UNCHANGED cur

\* The listening socket: ONE connection is accepted, is watched, and gets a timer.
\* The kernel hands out the lowest descriptor.
AcceptOne ==
  /\ open # Fds
  /\ LET f == Min(Fds \ open)
     IN open' = open \cup {f} /\ AddFd(f) /\ NewTimer(f)
  /\ backlog' = backlog - 1
  /\ UNCHANGED pc

\* accept() fails, for want of descriptors or memory.  The -1 is not looked at:
\* users[-1] is written, before the array, which kills the process or leaves a timer
\* that belongs to no connection (bound: one of these at a time).
AcceptFails ==
  /\ AcceptMayFail
  /\ \/ pc' = "stopped" /\ UNCHANGED timers
     \/ NoFd \notin {owner[t] : t \in live} /\ NewTimer(NoFd) /\ UNCHANGED pc
  /\ UNCHANGED <<backlog, place, open, unread>>

HandleListen ==
  /\ ListenFd \in batch
  /\ AcceptOne \/ AcceptFails
  /\ batch' = batch \ {ListenFd}
  /\ UNCHANGED <<ended, alarm, pipe, timeout, stop_server, quiet, lag>>

\* Mutant of Terminated: only the first of the signals read is looked at.
TerminatedFirst == pipe = {"SIGTERM"}

Terminated == "SIGTERM" \in pipe

\* The signals: everything in the pipe is read and noted down.
HandleSignals ==
  /\ PipeFd \in batch
  /\ timeout' = (timeout \/ "SIGALRM" \in pipe)
  /\ stop_server' = (stop_server \/ Terminated)
  /\ pipe' = {}
  /\ batch' = batch \ {PipeFd}
  /\ UNCHANGED <<backlog, place, open, ended, unread, alarm, pc, timers, quiet, lag>>

\* A closed descriptor leaves epoll's list, where those behind it move up.
Forget(f) ==
  place' = [d \in Watched |->
              IF d = f THEN 0
              ELSE IF f \in ready /\ place[f] < place[d] THEN place[d] - 1 ELSE place[d]]

\* cb_func: the descriptor is closed.  users[f].timer now dangles; it is parked at
\* Null, for nothing may read it before accept() hands f out again.
CloseConn(f) ==
  /\ open' = open \ {f}
  /\ ended' = ended \ {f}
  /\ unread' = unread \ {f}
  /\ Forget(f)
  /\ quiet' = [quiet EXCEPT ![f] = 0]
  /\ timer' = [timer EXCEPT ![f] = Null]

\* A timer is freed, and the list l remains.
FreeTimer(t, l) ==
  /\ lst' = l
  /\ live' = live \ {t}
  /\ owner' = [owner EXCEPT ![t] = Null]
  /\ expire' = [expire EXCEPT ![t] = 0]
  /\ UNCHANGED cur

\* Mutant of Postpone: only the timer's place is looked after.
PostponeNot(f) ==
  /\ lst' = AdjustTimer(lst, expire, timer[f])
  /\ UNCHANGED expire

\* The connection gets its full idle time again.
Postpone(f) ==
  /\ expire' = [expire EXCEPT ![timer[f]] = Idle]
  /\ lst' = AdjustTimer(lst, expire', timer[f])

\* One recv() reads what is there, or as much of it as the buffer holds, and the timer
\* is put off.
ReadData(f) ==
  /\ f \in unread
  /\ unread' \in {unread, unread \ {f}}
  /\ Postpone(f)
  /\ quiet' = [quiet EXCEPT ![f] = 0]
  /\ UNCHANGED <<place, open, ended, timer, owner, live, cur>>

\* Mutant of ReadEnd: the timer is forgotten.
ReadEndKeepTimer(f) ==
  /\ f \in ended \ unread
  /\ CloseConn(f)
  /\ UNCHANGED <<owner, lst, live, expire, cur>>

\* recv() finds the end of the connection, or that it was reset.
ReadEnd(f) ==
  /\ f \in ended \ unread
  /\ CloseConn(f)
  /\ FreeTimer(timer[f], DelTimer(lst, timer[f]))

\* A connection: its one recv(), which may also find nothing.
HandleData(f) ==
  /\ f \in batch
  /\ batch' = batch \ {f}
  /\ \/ ReadData(f)
     \/ ReadEnd(f)
     \/ f \notin unread \cup ended /\ UNCHANGED <<place, open, ended, unread, timers, quiet>>
  /\ UNCHANGED <<backlog, alarm, pipe, pc, timeout, stop_server, lag>>

\* The loop goes on unless SIGTERM was read.
Continue == pc' = IF stop_server THEN "stopped" ELSE "wait"

\* All events are handled: if SIGALRM was among them, tick() begins.
BatchDone ==
  /\ pc = "dispatch" /\ batch = {}
  /\ IF timeout THEN pc' = "scan" ELSE Continue
  /\ cur' = 0
  /\ UNCHANGED <<kernel, batch, timeout, stop_server, timer, owner, lst, live, expire,
                 quiet, lag>>

\* tick(): the head has expired, so its connection is closed.
TickFire ==
  /\ pc = "scan" /\ lst.head # Null
  /\ cur >= expire[lst.head]
  /\ IF owner[lst.head] = NoFd THEN UNCHANGED <<open, ended, unread, place, quiet, timer>>
                               ELSE CloseConn(owner[lst.head])
  /\ FreeTimer(lst.head, PopFront(lst, lst.head))
  /\ UNCHANGED <<backlog, alarm, pipe, pc, batch, timeout, stop_server, lag>>

\* Mutants of Rearm: the next SIGALRM is not asked for, or too late.
RearmNot == UNCHANGED alarm
RearmLate == alarm' = Idle

Rearm == alarm' = TIMESLOT

\* timer_handler after tick(): the next SIGALRM is asked for.
TickEnd ==
  /\ pc = "scan"
  /\ lst.head # Null => cur < expire[lst.head]
  /\ Rearm
  /\ timeout' = FALSE
  /\ cur' = 0
  /\ Continue
  /\ UNCHANGED <<backlog, place, open, ended, unread, pipe, batch, stop_server, timer,
                 owner, lst, live, expire, quiet, lag>>

Dispatch ==
  /\ pc = "dispatch"
  /\ HandleListen \/ HandleSignals \/ \E f \in Fds : HandleData(f)

Loop == EpollWait \/ Dispatch \/ BatchDone \/ TickFire \/ TickEnd

Outside ==
  /\ pc # "stopped"
  /\ Connect \/ AlarmRings \/ Terminate \/ \E f \in Fds : ClientActs(f)
  /\ UNCHANGED <<program, quiet, lag>>

Next == Loop \/ Outside \/ (pc # "stopped" /\ Elapse)

Spec == Init /\ [][Next]_vars

\* The process is scheduled, time goes on, and an alarm that is due is delivered.
FairSpec ==
  /\ Spec
  /\ WF_vars(Loop)
  /\ SF_vars(pc # "stopped" /\ Elapse)
  /\ WF_vars(pc # "stopped" /\ AlarmRings /\ UNCHANGED <<program, quiet, lag>>)

-----------------------------------------------------------------------------
(***************************************************************************)
(* Properties.                                                             *)
(***************************************************************************)

\* timer_lst holds exactly the timers in use, linked both ways, in ascending order:
\* in this server a timer added or adjusted always expires last.
TimersIntact == Intact(lst, live) /\ Ascending(lst, live, expire)

\* Each open connection owns one timer on the list, and each timer on the list
\* belongs to an open connection or to none: no timer closes a connection that took
\* over the descriptor of another, and users[fd].timer of an open connection never
\* dangles.  Nor does epoll have an event of a closed connection, whose timer
\* deal_with_client would free again, although cb_func asks the wrong epoll instance
\* to forget the descriptor.
OneTimerEach ==
  pc # "stopped" =>
    /\ \A f \in open : timer[f] \in live /\ owner[timer[f]] = f
    /\ \A t \in live : owner[t] = NoFd \/ (owner[t] \in open /\ timer[owner[t]] = t)
    /\ (ready \cup batch) \cap Fds \subseteq open

\* The heartbeat never stops: an alarm is set, or SIGALRM is on its way through the
\* pipe and epoll will tell, or it was read and timer_handler is still to come.
HeartbeatAlive ==
  \/ alarm # Off
  \/ "SIGALRM" \in pipe /\ PipeFd \in ready \cup batch
  \/ timeout
  \/ pc = "stopped"

\* A connection is closed only when the client ended it or when nothing was read
\* from it for three time slots.
OnlyIdleClosed ==
  [][\A f \in open : f \notin open' => f \in ended \/ quiet[f] >= Idle]_vars

\* The rounds of the loop that the pipe may have to wait, when epoll has more to report
\* than a round takes.
Rounds == (Cardinality(Watched) - 1) \div MAX_EVENT_NUMBER

\* ... and an idle connection is not kept much longer: one more time slot, and the rounds
\* of the loop until the signal is read and the timers are looked at.
IdleSoonClosed == \A f \in open : quiet[f] < Idle + TIMESLOT + (3 + Rounds) * MaxLag

\* SIGTERM stops the server.
TermStops == "SIGTERM" \in pipe ~> pc = "stopped"

\* A client that connected is accepted, as Timer/README.md says.
ConnectedIsAccepted == backlog > 0 ~> (backlog = 0 \/ pc = "stopped")
=============================================================================
