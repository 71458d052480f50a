# A verification of High_per_ser_pro

The repository is a collection of network programs and the data structures they
need: three containers of timers, five event-driven servers (three on `epoll`, one on
`poll`, one on `select`), a length-prefixed message protocol, and a number of small
samples of system calls.
This directory holds TLA+ models of the parts that have a logic of their own,
TLC configurations that check them on small instances, and TLAPS developments
that prove the safety properties of all of them for every size.

- [The system](#the-system) is the inventory: parts, state, operations, hazards.
- [The modules](#the-modules) relates each module to its code.
- [The runs](#the-runs) says what each run shows, with which bounds and fairness.
- [What the runs found](#what-the-runs-found) lists the disagreements.
- [The proofs](#the-proofs) and [what is left out](#what-is-left-out).
- [The plan](#the-plan) is what comes next.

## The system

| part | source | state | operations |
|---|---|---|---|
| time wheel | `Timer/TimingWheel/time_wheel_timer.h` | `slots[N]`, each an unordered doubly linked list; `cur_slot`; per timer `rotation`, `time_slot`, `prev`, `next` | `add_timer(timeout)`, `del_timer`, `tick`, destructor |
| timer list | `Timer/lst_timer.h` | `head`, `tail`; per timer `expire`, `prev`, `next` | `add_timer`, `adjust_timer`, `del_timer`, `tick`, destructor |
| time heap | `Timer/TimingHeap/min_heap.h` | `array`, `capacity`, `cur_size`; per timer `expire`, `cb_func` | two constructors, `add_timer` (with `resize`), `del_timer` (lazy), `pop_timer`, `tick`, destructor |
| idle-connection server | `Timer/11_3.cpp` | `users[]` (descriptor, timer), `timer_lst`, the signal pipe, `timeout`, `stop_server` | accept, read, end of connection, signals, heartbeat |
| epoll reactor | `epollReactor/epollReactor.c` | `g_events[MAX_EVENTS+1]`, the interest list, `checkpos` | `acceptconn`, `recvdata`, `senddata`, the scan for idle slots |
| message with a length | `封包和解包/` (client_1, server_1; client_2, server_2, define.h) | the loop counters of `MySend` and `MyRecv`, the receive buffer | send, receive header, receive body |
| select server | `server_of_select.cpp` | `client_sockfd[5]`, `conn_amount`, `maxsock` | scan and `recv`, accept and greet |
| poll server | `server_by_poll.cpp` | `clientfds[1000]`, `maxi` | accept, echo |
| signal server | `10_1.cpp` | the signal pipe, `stop_server` | accept, signals |
| socketTCP, socketBus | `tcpdump/` | two descriptors | wrappers, a retry loop |
| samples | `11_1.c`, `11_4.c`, `eventfdTest.cpp`, `libevent/`, `half_close/`, `Self_Connection/`, `测试带外数据/`, `client_by_epoll.cpp`, `server-by_epoll.cpp`, `echo_server.cpp`, `tcpdump/client.cpp`, `tcpdump/server.cpp` | none of their own | straight-line system calls |

How they interact. `11_3.cpp` owns one `sort_timer_lst` and gives each connection
a timer, reachable from both sides (`users[fd].timer`, `timer->user_data`).
`SIGALRM` goes through a socket pair into the same `epoll_wait` as the clients;
the loop runs `tick()` after the I/O of the round, and `tick()` calls back into
the server to close a connection. The heap and the wheel have the same interface
(add, delete, `tick` with callbacks) but no program of the repository drives them,
so they are modelled with an owner that may make any legal call, from outside and
from a callback. The reactor keeps its own idea of what is registered (`status`,
`events`) beside the kernel's, and hands the kernel addresses of slots that are
reused. The select and the poll server each keep a table of descriptors and one
great loop that must not block; the signal server is the skeleton that `11_3.cpp` grew from.

Where the code is hard to test, and what makes each part correct:

- *Re-entrancy.* `tick()` runs callbacks in the middle of its walk; a callback may
  add and delete timers in the list or heap being walked. Correct: nothing lost,
  nothing freed is touched, each timer fires once and in time.
- *Time.* All expiries compare a clock that goes on while the code runs. Correct:
  fired no earlier than due, no later than the next tick; ticks end.
- *Edge-triggered events* (11_3). What was not read gets no further event. Correct:
  connections are accepted, closed in bounded time when idle, closed in the end
  when the client ended them; the heartbeat never dies.
- *Slots reused under outstanding events* (reactor). Correct: the callback that
  runs is the one for the connection that was reported.
- *Loops that must not block* (select, poll). Correct: nothing is received from a client
  that sent nothing; the table names each open descriptor once; one client does not
  stop the others or the server.
- *Signals between system calls* (10_1, 11_3). Correct: none is overlooked, wherever it
  falls.
- *Limits and boundaries.* Whole laps of the wheel, growth of the heap, a full
  table, a full buffer, a cursor that wraps.
- *Calls that fail* (`accept()` in 11_3) or results put into the wrong variable (poll,
  server_2).
- *Partial reads and writes* and clients that die in between (framing).

`PROJECT.json` lists the hazards one by one, at their lines, each with the
properties that would catch it.

## The modules

`TimerService` is the abstract specification of all three containers: a function
`due` on the pending timers (the time each has left) and a `phase`. A timer is
armed, put off, cancelled, or fired; it fires only inside a tick, only when due,
and never before one that came due earlier; a tick ends only when nothing is due;
outside of a tick all timers may be dropped together (`Clear`: the destructors).
The containers implement it under a refinement mapping each states as
`Service == INSTANCE TimerService WITH due <- ..., phase <- ...`. A timer whose
callback is running counts as fired. `TimerService` has no quantifier over delays:
it recognises a step by the state it leads to, so that TLC evaluates it cheaply
and nothing bounds the delays.

**`TimeWheel`** (time_wheel_timer.h). Pointer by pointer; `tick()` is five actions
(`TickBegin`, `TickSkip`, `TickFire`, `TickRemove`, `TickEnd`), one per branch of its
loop, so that `CallbackCall` can take place between the call of `cb_func` and the
unlinking. A callback may call anything except `del_timer` on its own timer, which
`tick()` frees. The links of freed timers are parked, because the code may not read
them; `CursorSafe` says that it does not. `Destroy` frees what can be reached from the
slots (`Listed`) and begins a new wheel, so that a timer it misses would show. `due` and
`astray` are history variables: the ticks left when the timer was added, less one per
tick; and the timers that a callback added with a timeout of whole laps, which line 102
puts into the slot being walked, so that they lose a lap (`Left`). The wheel counts ticks;
there is no clock in it.

**`SortTimerLst`** (lst_timer.h) is the list as an algebra: each member function maps
a record of ends and links to another. `InsertAfter` is the closed form of the
insertion loop *without the break it lacks*: it links the new timer before every
later node. **`TimerListOwner`** adds an owner, re-entrant callbacks and the clock.
Times are relative to now: a passing second takes one off each expiry and off the
sample `cur` that `tick()` took, which keeps the state space finite.

**`NonactiveConn`** (11_3.cpp) uses `SortTimerLst` and models the server with its
kernel: the backlog, the descriptors epoll has to report (`ready`, edge triggered: set
when something arrives, cleared when reported), unread data, ended connections, the pipe
and the alarm. `epoll_wait` takes at most `MAX_EVENT_NUMBER` of them (line 131; 1024, where
descriptors go up to 65535): `place` is the place of each in epoll's list, which the
kernel keeps first in, first out (`Report` puts a descriptor last, `Forget` takes it
out when it is closed). One action per branch of the event loop; the order of the events in
a batch is arbitrary. `HandleData` is one `recv`, which may leave bytes behind. `accept()`
may fail at any time when the constant `AcceptMayFail` says so: the code then writes
`users[-1]`, which kills the process or does nothing that can be seen, and adds a timer
for descriptor -1 (`AcceptFails`). `quiet` and `lag` are history variables for the
bounds on time.

**`TimeHeap`** (min_heap.h) takes the loops of `add_timer` and `percolate_down` hole by
hole (`Up`, `Down`), with a return address in `ret`. An array entry may be a timer,
null, or `Garbage`, which stands for whatever a read out of bounds returns and for
the stale pointer behind the end; nothing may follow it (`ComparesTimersOnly`).

**`Sockets`** is the kernel as the other servers see it: the backlog, the open
descriptors, how much each has to read, whose client has ended; `accept()` hands out the
lowest free descriptor. Bytes that one `recv` returns count as one. `EpollReactor` and
the three servers below extend it.

**`EpollReactor`** (epollReactor.c) keeps `g_events` and epoll's interest list apart and
lets each `epoll_ctl` succeed or fail as the kernel would. `LenStored` models line 175,
where the zero behind a full buffer falls on `len`; a compiler may also store `len`
last, and both outcomes are allowed. Level triggered: `Readable` is a function of
the state. `send()` on line 202 has no `MSG_NOSIGNAL` and nothing ignores `SIGPIPE`: an
answer to a client that closed and then reset its connection (because it refused an earlier
answer, or left bytes unread) kills the process and with it every connection
(`Killed`, beside `SendData`, in which the call merely fails).

**`SelectServer`** (server_of_select.cpp): one step per turn of the scan, then
`AcceptClient`. The new client is greeted and *waited for*: in `greet` only its answer,
or its end, lets the server go on. The `else` of line 132 belongs to the test of
`maxsock`, and the model has it there (`Greet`, `GreetStops`).

**`PollServer`** (server_by_poll.cpp): line 81 gives `connfd` the result of a
comparison, so that every client's entry names descriptor 0, at first the terminal,
although the comments (lines 95, 118, 131, 141) mean the client's descriptor. The
model has `connfd == 0` and follows where that leads: what is typed is echoed to the
terminal once for each client; when the terminal ends descriptor 0 is closed, and the
next client gets it, is served through one of the entries that still name 0, or a second
entry reads what is no longer there and blocks. The `revents` of an entry that `poll()`
has not seen yet were never written: anything.

**`SignalServer`** (10_1.cpp): signals are put into the pipe in any order and at any
time, between `epoll_wait` and the `recv` too; connections are accepted and never read.

**`MCServers`** puts the three on one kernel, of which TLC starts one in each initial
state; they share no state but `Sockets`.

**`Framing`** (client_1.cpp, server_1.cpp; client_2.cpp, server_2.cpp, define.h). A byte
is its place in the client's buffer, so that the wire and the server's buffer show which
byte went where. A header that is not complete yields any length in `Wild`. `program`
says which pair runs. The pair for the structure differs in two things: the client
announces `sizeof` of a structure with padding and sends its fields packed
(`Announced`), and the server reads from an `acceptfd` that was never assigned
(`Accepted`): the connection, the terminal, or no descriptor at all.

**`MCTimeWheel`** holds TLC's instances of the wheel. The modules without an MC module need
none: their cfg gives every constant. Operators whose comment begins with
"Mutant of" are variants with a plausible mistake in them, used to see that a
property can fail; no specification uses them.

## The runs

Every run checks the type invariant of its module besides the properties named here.

| run | cfg | distinct states | shows |
|---|---|---|---|
| `wheel` | `MCTimeWheel.cfg` | 364,974 | `ListsIntact`, `CursorSafe`: re-entrant calls damage no list and tick()'s cursor is never left on a freed timer. `OnTime`, `ImplementsService`: each timer fires once, in its tick, or a lap later if a callback added it with whole laps. `WalkShrinks`: though callbacks add timers to the very list, none joins those ahead of the cursor. `EveryTimerLeaves`: none stays for ever |
| `timer_list` | `MCTimerListOwner.cfg` | 14,497 | `ListIntact`, `ImplementsService`, `TickEnds`, when all timers have the same delay |
| `nonactive_conn` | `MCNonactiveConn.cfg` | 547,368 | `TimersIntact`, `OneTimerEach`, `HeartbeatAlive`, `OnlyIdleClosed`, `IdleSoonClosed`, `TermStops`, with `accept()` failing whenever it likes |
| `heap` | `MCTimeHeap.cfg` | 315,387 | `HoldsEachOnce`, `HeapOrder`, `ComparesTimersOnly`, `PopsTheFired`, `ImplementsService`, `TickEnds` |
| `reactor` | `MCEpollReactor.cfg` | 128,646 | `SlotsMatchEpoll`, `BatchFresh`, `OnlyIdleClosed`, `IdleSoonClosed`, `AnswersOrCloses`, `EndedIsClosed` |
| `framing` | `MCFraming.cfg` | 2,741 | `PrintsTheMessage`, `ServerEnds`, for both pairs of programs |
| `servers` | `MCServers.cfg` | 34,056 | select: `SelectTable`, `SelectStopsAfterEnd`, `SelectClosesEnded`; poll: its part of `TypeOK`; signals: `StopsAsAsked` |
| `wheel_late`, `timer_list_two_delays`, `nonactive_backlog`, `reactor_echo`, `reactor_full` | | | each finds one property violated: see below |

To repeat one: `tlc -config MCTimeHeap.cfg TimeHeap` (the module is named in
`PROJECT.json`). A passing run takes between a second and a little over a minute.

### Bounds

- `wheel`: three slots, ticks of two seconds, four timers. Three slots are the
  fewest with a slot before, at and behind the cursor; four timers give a list with
  a head, a middle and an end being walked while a callback adds one more. The
  owner's timeouts are negative (refused), shorter than a tick, two ticks, exactly a
  lap, and a lap and a tick (rounded down); the callbacks' are shorter than a tick, two
  ticks, a lap, and a lap and a tick: with the lap they add into the slot being walked.
- `timer_list`: four timers, one delay of 2, at most 2 seconds late (`MaxLag`), so
  that ticks find none, some or all expired, and timers expire while a tick runs.
- `nonactive_conn`: two descriptors, and three timers, one of them for descriptor -1 (at
  most one such timer at a time); time slots of one second (hence three until a
  connection is idle), a round of the loop takes at most one second. Two connections are
  enough for one timer to fire, or be freed, beside another; descriptors are reused
  because there are only two. `epoll_wait` takes two events of the four there may be, so
  that the pipe's event may have to wait for a second call. (`nonactive_backlog` lets it
  take all four: the client is forgotten even so.)
- `heap`: four timers, capacities 1 and 4, 0 or 3 initial timers, delays 0, 1, 2. An
  array of one grows twice; with 3 timers in 4 places the second constructor reads
  past its argument; four timers give an inner node with one child; a delay of 0
  added by a callback expires in the very tick that runs.
- `reactor`: three descriptors for two slots and one slot per scan, so that the
  table is full and the cursor wraps; buffers of two bytes, so that a message
  fills one; one second of idleness and one second per round.
- `framing`: a header of four bytes and messages of 1, 3 and 10 bytes in a buffer of 10;
  a header cut short gives a length of 0 or 7. Of a structure three bytes are padding,
  as compiled.
- `servers`: the terminal and three descriptors, so that one is left when the select
  server's table of two is used up, and descriptors are used again; the poll server's
  array has three entries for clients, so that two can name one descriptor and the array
  can be full. Two receives' worth of bytes under way per client, three signals in the
  pipe: one behind another, and full.

`MaxLag` is the one bound on time: it limits by how much a round, or the next tick, may
be delayed. `MaxUnread` limits what one client has under way, `Connect` the clients in
the backlog to one more than there are descriptors. Every other variable is bounded by
the sets it ranges over. Constants that stand for times and sizes (60 seconds, 128
bytes, 1024 slots, 1024 events) are scaled down; `256` in `LenStored` and the formulas that compute
with them are the code's.

### Fairness

- `TimeWheel`: weak fairness of tick()'s steps. Whoever drives the wheel calls `tick()`
  every `SI` seconds, its loop does not stop half way, and callbacks return.
  Callbacks are given no fairness: they may call or not.
- `TimerListOwner`, `TimeHeap`: weak fairness of the steps of a running tick (and of the
  heap's loops); no assumption that the owner begins one.
- `NonactiveConn`, `EpollReactor`: weak fairness of the loop (the process is scheduled),
  strong fairness of the passing of time, which the bound `MaxLag` disables now and
  then; in `NonactiveConn` an alarm that is due is delivered. Clients have none.
- `SelectServer`, `PollServer`, `SignalServer`: weak fairness of the loop. Clients and
  signals have none: `SelectClosesEnded` therefore allows a new client to keep the
  server waiting for ever.
- `Framing`: weak fairness of both processes. A client may die at any moment, and if
  it does the kernel closes the connection.

`nonactive_conn`, `framing`, `servers` and the runs of the reactor allow deadlock: the first
stops after `SIGTERM`, the second when both programs have ended, of the servers each may
end its program, and the reactor may be killed by `SIGPIPE`.

### Can the properties fail

For each property of each run, `PROJECT.json` names a mutated definition under which the
same run finds it violated: a dropped `prev`, a cursor left on the freed timer, a
slot too near or too far, a clock sampled again for each timer, a timer forgotten
at the end of a connection, a registration not removed, an array not copied when it
grows, and so on.

## What the runs found

| run | code | against |
|---|---|---|
| `wheel_late` | `add_timer` from a callback with a timeout of whole laps lands in the slot being ticked, before the cursor, and fires one lap late (line 102) | the comments at lines 99 and 103 |
| `timer_list_two_delays` | the insertion loop has no `break` (line 206): with timers of different delays a new one is linked several times, and nodes are lost | the comment at lines 204-205 |
| `nonactive_backlog` | one `accept()` per edge-triggered event (line 146): the second of two simultaneous clients is not accepted until another one connects | `Timer/README.md` line 11 |
| `reactor_echo` | a message of 128 bytes: its terminating zero clears `len` (line 175), nothing is sent and the connection is closed | the comment at line 62 |
| `reactor_full` | with 1024 clients the next accepted one is neither registered nor closed (line 142) | the comment at line 264 |

`11_3.cpp` never meets the second one: all of its timers have the same delay, so that a
timer added or adjusted always expires last, and the loop never finds a later
node. `TimersIntact` shows exactly that. In the reactor's passing run `OnlyIdleClosed`
grants the exception of a full buffer, and `IdleSoonClosed` speaks of connections in a
slot; the last two runs show why they must.

Four more places do not do what their author seems to have meant. Nothing in the repository
states outright what a run would refute, except in the third, where the comments do and
reading the line is enough. The models follow the code:

- `epollReactor.c` line 202: `SIGPIPE`. One client that closes and resets ends the service
  for all; `OnlyIdleClosed` grants this exception too.
- `server_of_select.cpp` lines 132-136: the `else` belongs to the wrong `if`. Its message,
  "max connections!!! quit" (line 134), says that it is for a full table; but a full table
  (line 112) is passed over in silence, and a client that gets a descriptor used before
  ends the program. `SelectStopsAfterEnd` says it takes an
  earlier or the new client to end first. `conn_amount` is never taken back, so that
  `SelectTable` excepts the clients that come after the last entry was used.
- `server_by_poll.cpp` line 81: a misplaced parenthesis. The comments say that the new
  connection's descriptor is added to the array (line 95) and to those that are read (118),
  and that what a client sends is received (131) and sent back to it (141). By the code the
  array gets 0, and a client is neither read from nor closed, but for one that is given
  descriptor 0 after the terminal was closed.
- `server_2.cpp` lines 43-46: the result of `accept()` goes to `ret`, the reads use
  `acceptfd`. `ServerEnds` excepts the terminal.

## The proofs

Eight modules hold proofs. Together they prove, for every value of the constants, each
invariant and each action property of the passing runs, and the three refinements
(the list's, for the reason that the run `timer_list_two_delays` shows, under a hypothesis).

| module | theorems, besides `InductiveInvariant` and `TypeCorrect` | hypothesis |
|---|---|---|
| `TimeWheelProofs` | `CursorStaysSafe` (`CursorSafe`), `ListsStayIntact` (`ListsIntact`), `FiresNoEarlier`, `OnlyLapsAreLate` (`OnTime`), `WheelIsService` (`ImplementsService`), `WalkEnds` (`WalkShrinks`) | none |
| | `FiresOnTime` (`NeverLate`) | `NoWholeLapRearm` |
| `TimeHeapProofs` | `TimersHeldOnce` (`HoldsEachOnce`), `NoGarbageCompared` (`ComparesTimersOnly`), `OrderRestored` (`HeapOrder`), `PopsWhatFired` (`PopsTheFired`), `HeapIsService` (`ImplementsService`) | none |
| `TimerListOwnerProofs` | `ListStaysIntact` (`ListIntact`), `ListIsService` (`ImplementsService`) | `OneDelay` |
| `NonactiveConnProofs` | `TimersStayIntact` (`TimersIntact`), `ConnectionsOwnTimers` (`OneTimerEach`), `HeartbeatStays` (`HeartbeatAlive`), `IdleAreClosed` (`IdleSoonClosed`), `OnlyIdleAreClosed` (`OnlyIdleClosed`) | none |
| `EpollReactorProofs` | `TablesAgree` (`SlotsMatchEpoll`), `NoStaleEvent` (`BatchFresh`), `ClosesOnlyIdle` (`OnlyIdleClosed`), `IdleAreClosed` (`IdleSoonClosed`) | none |
| `FramingProofs` | `MessageArrivesWhole` (`PrintsTheMessage`) | none |
| `ServersProofs` | `SelectTableSound` (`SelectTable`), `SelectStopsLate` (`SelectStopsAfterEnd`), `StopsOnlyIfAsked` | none |
| `SortTimerLstProofs` | lemmas on the list's operations, which the two modules about it cite | |

Each module defines its `IndInv` as a conjunction of named parts, proves that `Init`
implies it and that every action keeps it, one lemma per action, and reads the theorems
off it. `TypeCorrect` is `Spec => []TypeOK`.

### What is assumed

The `ASSUME`s of the modules, and nothing else. Most give constants their types. These say
more:

- `FdsAssumption` (`Sockets`): descriptors are numbers; 0 may be one of them, the terminal's,
  and the others are greater than the listening socket's, because the servers open that one
  first and never close it. `TerminalAssumption` (`MCServers`): 0 is one of them.
- `TimersAssumption` (`NonactiveConn`): there are as many timers as descriptors, and one
  more if `accept()` may fail. It stands for `new` finding memory.
- `MaxLagAssumption`: the bound on a round of the loop is a number. How late things may be
  is stated in terms of it.
- `CapsAssumption` (`TimeHeap`): see [what is left out](#what-is-left-out).

`NoWholeLapRearm` and `OneDelay` are hypotheses of the theorems that need them, not
assumptions: without them the runs `wheel_late` and `timer_list_two_delays` find the
properties violated. `11_3.cpp` satisfies the second by what it does, so that
`NonactiveConnProofs` needs no hypothesis.

### The wheel

*Why the properties are not inductive.* `ListsIntact` speaks of reachability: whether a
removal keeps it depends on the lists having no cycle, which it does not state.
`OnTime` follows from `rotation`, `time_slot` and the cursor, which it does not mention.

*The invariant.* `IndInv` says that some numbering `ord` of the timers with natural
numbers is injective on the allocated timers and increases along each list, the
successor of a timer being the one of its slot with the next greater number, and that
with it (1) heads, `next` and `prev` undo each other (`Linked`), and (2) each timer is
on schedule: what is `Left` of its time is `N` times its laps plus the distance from the
cursor to its slot, a lap more if tick()'s cursor has already passed it. The numbering
is what makes acyclicity first-order; which timers the cursor has passed is a comparison
of numbers. Because `add_timer` puts a timer in front of the list, a new one is numbered
by shifting all others (`PushKeepsLinked`), and a removal keeps the numbering
(`RemoveKeepsLinked`).

*The argument.* `OnlyLapsAreLate` is arithmetic on (2), and `FiresOnTime` follows from it if
no timer is `astray`: only a timer that a callback added with whole laps is put on the wrong
side of the cursor, and the lap it loses is the only one. `WalkEnds`: by the numbering, the
timers ahead of the cursor are those of its slot with no smaller number (`AheadIsLater`);
a new head gets the smallest, and what a callback deletes only leaves. `LinkedListsIntact`: in a least counterexample
(`LeastNumber`) the predecessor is reachable, hence so is the timer. `WheelIsService` maps
initial state to initial state and each action to `Arm`, `Cancel`, `BeginTick`, `Fire`,
`EndTick`, `Clear` or a stutter.

`MCIndInv` in `MCTimeWheel` is `IndInv` with the numbering taken from a small set, for TLC.

### The heap

*Why.* In the middle of `add_timer` and `percolate_down` the array holds one timer twice, or
one not at all, and is out of order in one place; and what `pop_timer` removes is the timer
that fired only if nothing that a callback added has risen above it.

*The invariant.* `Entry(k)` is what place `k` holds when the timer being moved is put into
the hole. Seen like that nothing is missing: `Placed` says that the entries are the
allocated timers, each once; `Ordered` that a parent expires no later than its child except
between the hole and its parent (on the way up) or its children (on the way down), and that
the hole's parent expires no later than the hole's children, which is what lets the hole
move on. Above `Low` the constructor has not been yet. `FiredOnTop` says that a fired timer
is at place 0 during its callback: what a callback adds expires later than now, hence stops
below it, since `add_timer` stops at a parent that expires at the same time. `Control`
says which loop is running on whose behalf.

*The argument.* A move of the hole exchanges two entries of an array that is in order but
for the hole (`SwapUp`, `SwapDown`). That the top expires first (`TopIsLeast`, by a
least counterexample on the places) gives `HeapIsService`: what `tick()` fires is due and
nothing came due earlier, and when it stops nothing is due.

### The timer list and its server

*Lemmas on the list.* `Intact` says which timers are reachable from the ends, by a least set
that is closed under the links. `Whole` adds what the operations rely on: the tail is the only
node without a successor, and timers outside have no links. `SortTimerLstProofs` shows for
each member function that it keeps `Whole` and the ascending order, *for a timer that
expires no sooner than all others*: then the insertion loop, which lacks its `break`, finds no
place, and the timer goes behind the tail.

*The owner.* `NoneLater` says that such is every timer with `OneDelay`, and
`FiringInFront` that the timer whose callback runs is still the head, because what a
callback adds goes behind the tail. Hence `tick()` unlinks the timer it fired.

*The server.* `NonactiveConnProofs` has four kinds of parts. `Control` and `Waiting`: where
the loop is, and that there is a connection to accept for every event of the listening
socket. `Listed`: the list is whole, ascending, and no timer expires later than one set
now, as all get `3 * TIMESLOT`. `Owned` and `Measured`: connections and timers own each
other, but for at most one timer of a failed `accept()`, and a timer's time left and its
connection's quiet time add up to `3 * TIMESLOT`. By the last one `OnlyIdleClosed` and
`OneTimerEach` follow from the list. That there is a timer to allocate is the pigeonhole
principle on the owners (`SpareTimer`).

`Heart` is what makes `IdleSoonClosed` inductive. The alarm is set (`AlarmSet`), or its signal
is in the pipe and the pipe is ready or in the batch (`OnTheWay`), or it was handled and
`tick()` is to come (`Arrived`); and with each stage comes a bound on how long *any* connection
has been quiet. Right after a tick it is less than `3 * TIMESLOT`, up to the lag of that tick;
`TIMESLOT` more when the alarm rings (`AtAlarm`); and each round of the loop that passes
until the tick adds `MaxLag`. The pipe's event, when it does not fit into the events of one
call, is `MAX_EVENT_NUMBER` places nearer to the front of epoll's list after it: with `W`
descriptors watched that makes `(W - 1) \div MAX_EVENT_NUMBER` rounds more (`Rounds`), 63 for
1024 events and 65535 descriptors watched. TLC found this invariant true on the instance of
`nonactive_conn` before it was proved.

### The reactor

*Why.* The tables are changed together, but `BatchFresh` depends on nothing being changed for
an event that has not had its turn: on each event's slot being in use and no two slots having
the same descriptor; and `OnlyIdleClosed` depends on `recv` returning 0 only at the end, so on
unread data that no other step takes.

*The invariant.* `SlotsMatchEpoll` and `BatchFresh` themselves; `ListenSlot`: the last slot
alone accepts; `StillReadable`: a connection that was reported as readable still is;
`AnswerOwed`: a slot that is to send has bytes to send, unless one message filled the
buffer.

*The argument.* To the tables a handler does one of two things: it arms one slot (`Arms`), or
it drops some (`Drops`). `SetAndAdd`, `DelAndLen` and `CloseDrops` reduce `eventset()`,
`eventadd()`, `eventdel()` and `close()` to these, and `ArmKeeps` and `DropKeeps` show that
both keep the tables matched. `EventDel` takes a set of slots, as the scan removes
several in one action. The death by `SIGPIPE` drops all slots at once (`KilledDrops`).

`IdleAreClosed` needs one more invariant, `IdleBounded`: a connection that is at least `k *
SCAN` slots away from `checkpos` may have been idle for `Rounds - k` rounds more than `IDLE`.
A round tests a slot, which then was idle for less than `IDLE` seconds, or brings `checkpos`
`SCAN` slots nearer (`TestedOrNearer`, where the wrap at `MAX_EVENTS` is).

### Framing

`InOrder`: the bytes read and the bytes under way are one stretch of the client's buffer,
starting with its first byte and ending where the client is (unless a reset threw the rest
away). `Received`: the running call of `MyRecv` has filled its buffer with the stretch
that begins where the header ended; once the client is gone early (`Cut`), nothing is
claimed. For every size of the header, the buffer and the pieces.

### The select, poll and signal servers

`ServersProofs` proves about `MCServers`, of which one server runs at a time (`OneRuns`). For
select: `TableSound` and `SetReadable` are `SelectTable` for the part of the scan that is
still to come; `Looked`, that `maxsock` is high enough; `Dense`, that while no client has left
the descriptors in use have no gap, so that `accept()` gives a greater one than before. From
`Dense` follows `SelectStopsAfterEnd`: line 132 can take its `else` only after somebody
left. `NextFd` is a least element, so that these proofs rest on the numbers being well
founded. For poll: every entry is empty or names descriptor 0 (`PollInd`), line 81's doing. For the signal
server `StopsOnlyIfAsked` is the safety half of `StopsAsAsked`.

### Only model-checked

- Liveness: `EveryTimerLeaves`, `TickEnds` (list and heap), `TermStops`, `AnswersOrCloses`,
  `EndedIsClosed`, `ServerEnds`, `SelectClosesEnded` and `StopsAsAsked`. The prover does
  neither fairness nor `ENABLED`.
- The five violations, which are counterexamples.
- Induction over data (what a recursive definition computes for all inputs) is out of the
  prover's reach; the models therefore use no recursive operators, and least sets,
  numberings and closed forms instead.

## What is left out

- Null arguments, and system calls that fail at start-up.
- The capacity 0 of the heap (`CapsAssumption`), what a write to `users[-1]` may damage
  besides, and the byte behind `recvMsg` that server_1.cpp line 93 writes for a message
  of 10 bytes: undefined behaviour without a state behind it to explore. The missing
  `return` of `MyRecv` is modelled by what the compiled program does: the count comes
  back.
- Addresses, ports, printing, and the contents of messages, except in `Framing`.
- What is typed at the terminal, when server_2.cpp reads from there; the printing of the
  structure's fields.
- `epoll_wait` of 10_1.cpp takes 1024 events at most, that of `SignalServer` all there are:
  as epoll reports first what was ready first, an event waits for some rounds at worst, and
  `StopsAsAsked` has no bound in rounds (`IdleSoonClosed` of `NonactiveConn` does, and there
  the limit is modelled).
- A signal that finds the pipe full is lost: in `SignalServer` `SigHandler` is not
  enabled then, and `StopsAsAsked` speaks of the signals that went into the pipe. The
  pipe of `NonactiveConn` is the set of the kinds of signal in it, which is never full.
- In the select and poll servers, what is sent to a connection that no entry of the
  table names: nothing looks at it.
- In the reactor, `send()` may take a part of the bytes; the model has the action but does
  not count what the client got, for nothing in the repository promises it.

### Not modelled

No component with a logic of its own is left. What remains:

- `socketTCP` and `socketBus`: wrappers of single system calls. The one loop, in
  `makeNewConn`, is called by no program of the repository.
- `tcpdump/client.cpp` and `server.cpp`, `client_by_epoll.cpp`, `eventfdTest.cpp`,
  `half_close/`, `Self_Connection/`, `测试带外数据/`, `11_1.c`: system calls in a row, or one
  loop around them; what they show is the kernel's behaviour.
- `11_4.c`, a fragment that does not compile; `libevent/`, samples and an excerpt of a
  library.
- `server-by_epoll.cpp` and `echo_server.cpp`: all but constants and the registration of a
  listening socket is commented out.

## The plan

Done, in this order: `TimerService`; `TimeWheel` with its proofs; `SortTimerLst` and
`TimerListOwner`; `NonactiveConn`, which composes the list with its server;
`EpollReactor`; `TimeHeap`; `Framing`; the destructors, and the wheel's proofs with
them; a failing `accept()`; the structure's pair of programs; `Sockets` with the select,
poll and signal servers.

Then the proofs: the heap, the framing, the select, poll and signal servers, the reactor,
the list with one delay, and on top of it the idle-connection server.

Nothing with a logic of its own is left to model, and every invariant, action property and
refinement that a passing run checks is stated by a theorem. What is worth adding:

1. The safety halves of the liveness properties, each as an invariant of its own. For
   `TickEnds` of the heap and the list: during a tick every timer that was due when it began
   is due still, so that their number is a variant. For `AnswersOrCloses`: a slot that sends
   is registered for `EPOLLOUT`.
2. The converse of `SelectStopsAfterEnd`: which clients the select server still serves once
   one has left.
3. The descriptors: that the select and poll servers never have more open than their
   tables name and the clients they passed over.
4. A run that shows `server_by_poll.cpp` line 81 refuting its comments, and a property of
   the poll server beyond its types.
