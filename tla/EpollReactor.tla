---------------------------- MODULE EpollReactor ----------------------------
(***************************************************************************)
(* The echo server epollReactor/epollReactor.c: a table of event slots,    *)
(* each with the callback of its descriptor, registered with epoll under   *)
(* the address of the slot.  A round of the loop tests some slots for      *)
(* idleness, waits, and calls back for each reported event.                *)
(*                                                                         *)
(* The program is one thread; clients and the clock act between any two of *)
(* its steps.  Times are in seconds, relative to now: idle stands for      *)
(* now - last_active.  Events are level triggered.                         *)
(***************************************************************************)
EXTENDS Sockets

CONSTANTS
  MAX_EVENTS,   \* the number of connections (1024 in the code)
  SCAN,         \* the slots tested in one round (100)
  IDLE,         \* the seconds after which an idle connection is closed (60)
  BUFLEN,       \* the size of a slot's buffer (128)
  Sizes,        \* the numbers of bytes one recv() returns
  MaxLag        \* bound: the seconds from one epoll_wait() to the next

ASSUME LimitsAssumption == {MAX_EVENTS, SCAN, IDLE, BUFLEN, MaxLag} \subseteq Nat \ {0}
ASSUME SizesAssumption == Sizes \subseteq 1 .. BUFLEN

NoFd == -1                     \* the descriptor of a slot that is not in use
Slots == 0 .. MAX_EVENTS       \* the last one is the listening socket's
Conns == 0 .. MAX_EVENTS - 1
Callbacks == {"acceptconn", "recvdata", "senddata"}
Masks == {"EPOLLIN", "EPOLLOUT"}

VARIABLES
  watch,       \* epoll's interest list: a function on the registered descriptors
  pc,          \* "scan", "wait", "dispatch"; "stopped" once the process was killed
  g_events,    \* the slots
  checkpos,    \* the next slot to test for idleness
  batch,       \* the events of this round not yet handled
  \* history
  got,         \* the bytes read into a slot and not yet answered
  lag          \* the seconds since the last epoll_wait() began

vars == <<kernel, watch, pc, g_events, checkpos, batch, got, lag>>

Events == [fd : Fds \cup {ListenFd, NoFd}, call_back : Callbacks,
           events : Masks \cup {"none"}, status : {0, 1}, len : 0 .. BUFLEN, idle : Nat]

\* An entry of the interest list: the address of the slot and the events wanted.
Watches == [ptr : Slots, events : Masks]

\* An event: what epoll_wait() stores, and (history) the descriptor it came from.
Reports == [ptr : Slots, events : Masks, fd : Fds \cup {ListenFd}]

TypeOK ==
  /\ KernelOK
  /\ DOMAIN watch \subseteq open \cup {ListenFd}
  /\ \A f \in DOMAIN watch : watch[f] \in Watches
  /\ pc \in {"scan", "wait", "dispatch", "stopped"}
  /\ g_events \in [Slots -> Events]
  /\ checkpos \in Slots
  /\ batch \subseteq Reports
  /\ got \in [Conns -> 0 .. BUFLEN]
  /\ lag \in 0 .. MaxLag

-----------------------------------------------------------------------------
(***************************************************************************)
(* The slots and the interest list.  An operator that changes both takes   *)
(* and returns them as a record [ev |-> slots, w |-> interest list].       *)
(***************************************************************************)

\* eventset: the buffer and its length are left as they are.
EventSet(x, s, fd, callback) ==
  [x EXCEPT !.ev[s] = [@ EXCEPT !.fd = fd, !.call_back = callback, !.events = "none",
                                !.status = 0, !.idle = 0]]

\* eventadd: EPOLL_CTL_MOD fails on a descriptor that is not registered, and
\* EPOLL_CTL_ADD on one that is; the slot changes all the same.
EventAdd(x, s, events) ==
  LET fd == x.ev[s].fd
      mod == x.ev[s].status = 1
  IN [ev |-> [x.ev EXCEPT ![s].events = events, ![s].status = 1],
      w |-> IF mod = (fd \in DOMAIN x.w)
            THEN [f \in DOMAIN x.w \cup {fd} |->
                    IF f = fd THEN [ptr |-> s, events |-> events] ELSE x.w[f]]
            ELSE x.w]

Without(w, gone) == [f \in DOMAIN w \ gone |-> w[f]]

Unset(ev, dels) ==
  [s \in Slots |-> IF s \in dels THEN [ev[s] EXCEPT !.status = 0] ELSE ev[s]]

\* Mutant of EventDel: epoll is not told.
EventDelNot(x, dels) == [x EXCEPT !.ev = Unset(@, dels)]

\* eventdel of some slots, one after the other: those not in use are passed over.
EventDel(x, dels) ==
  [ev |-> Unset(x.ev, dels),
   w |-> Without(x.w, {x.ev[s].fd : s \in {s \in dels : x.ev[s].status = 1}})]

\* What is left of slots that are not in use is parked: nothing reads it before
\* eventset() and recvdata() write it again.
Parked(ev, gone) ==
  [s \in Slots |-> IF ev[s].status = 0 /\ ev[s].fd \in gone
                   THEN [ev[s] EXCEPT !.fd = NoFd, !.call_back = "recvdata",
                                      !.events = "none", !.len = 0, !.idle = 0]
                   ELSE ev[s]]

\* close() of some connections, given the slots and the interest list as the program
\* leaves them: the kernel takes a closed descriptor off the interest list itself.
Close(x, gone) ==
  /\ Shut(gone)
  /\ g_events' = Parked(x.ev, gone)
  /\ watch' = Without(x.w, gone)

Now == [ev |-> g_events, w |-> watch]

Becomes(x) == g_events' = x.ev /\ watch' = x.w

-----------------------------------------------------------------------------
FreeSlot == [fd |-> NoFd, call_back |-> "recvdata", events |-> "none", status |-> 0,
             len |-> 0, idle |-> 0]

\* initlistensocket: the last slot, and it alone, is registered.
Init ==
  /\ KernelInit({})
  /\ LET x == EventAdd(EventSet([ev |-> [s \in Slots |-> FreeSlot], w |-> <<>>],
                                MAX_EVENTS, ListenFd, "acceptconn"),
                       MAX_EVENTS, "EPOLLIN")
     IN g_events = x.ev /\ watch = [f \in {ListenFd} |-> x.w[f]]
  /\ pc = "scan" /\ checkpos = 0 /\ batch = {}
  /\ got = [s \in Conns |-> 0] /\ lag = 0

(***************************************************************************)
(* The clients and the clock.                                              *)
(***************************************************************************)

\* What is sent on a connection in no slot, and its end, are never looked at: left out.
Clients ==
  /\ pc # "stopped"
  /\ Connect \/ \E f \in DOMAIN watch : ClientSends(f) \/ ClientEnds(f)
  /\ UNCHANGED <<watch, pc, g_events, checkpos, batch, got, lag>>

\* A second passes; idle is counted where the code looks at last_active.
Elapse ==
  /\ pc # "stopped" /\ lag < MaxLag
  /\ lag' = lag + 1
  /\ g_events' = [s \in Slots |-> IF s \in Conns /\ g_events[s].status = 1
                                  THEN [g_events[s] EXCEPT !.idle = @ + 1]
                                  ELSE g_events[s]]
  /\ UNCHANGED <<kernel, watch, pc, checkpos, batch, got>>

(***************************************************************************)
(* The loop.                                                               *)
(***************************************************************************)

\* Mutant of Window: the last connection's slot is left out too.
WindowShort == {(checkpos + i) % MAX_EVENTS : i \in 0 .. SCAN - 1} \ {MAX_EVENTS - 1}

\* The slots tested in this round: checkpos counts modulo MAX_EVENTS, so that the
\* listening socket's slot is left out.
Window == {(checkpos + i) % MAX_EVENTS : i \in 0 .. SCAN - 1}

\* Mutant of NextCheckpos: it does not begin again at 0.
NextCheckposBeyond == checkpos + SCAN

NextCheckpos == ((checkpos + SCAN - 1) % MAX_EVENTS) + 1

\* Mutant of Expired: the time is not looked at.
ExpiredAll == {s \in Window : g_events[s].status = 1}

Expired == {s \in Window : g_events[s].status = 1 /\ g_events[s].idle >= IDLE}

\* The test for idleness: close(), then eventdel(), slot by slot.
Scan ==
  /\ pc = "scan"
  /\ Close(EventDel(Now, Expired), {g_events[s].fd : s \in Expired})
  /\ got' = [s \in Conns |-> IF s \in Expired THEN 0 ELSE got[s]]
  /\ checkpos' = NextCheckpos
  /\ pc' = "wait" /\ lag' = 0
  /\ UNCHANGED <<backlog, batch>>

Watched(mask) == {f \in DOMAIN watch : watch[f].events = mask}

\* epoll_wait reports every descriptor that is ready.  One whose client does not read
\* its echoes may not be writable.  With none ready it returns after a second.
EpollWait ==
  /\ pc = "wait"
  /\ \E writable \in SUBSET Watched("EPOLLOUT") :
       LET reported == (Watched("EPOLLIN") \cap Readable) \cup writable
       IN /\ reported = {} => lag >= 1
          /\ batch' = {[ptr |-> watch[f].ptr, events |-> watch[f].events, fd |-> f] :
                         f \in reported}
  /\ pc' = "dispatch"
  /\ UNCHANGED <<kernel, watch, g_events, checkpos, got, lag>>

\* Mutant of FreeSlots: whether the slot is in use is not looked at.
FreeSlotsAny == Conns

FreeSlots == {i \in Conns : g_events[i].status = 0}

\* acceptconn: the kernel gives the lowest descriptor, and the first free slot is
\* taken.  If there is none, the connection stays open and in no slot; if the process
\* has no descriptor left, accept() fails.
AcceptConn(s) ==
  /\ g_events[s].call_back = "acceptconn"
  /\ \/ /\ CanAccept /\ Accepted
        /\ IF FreeSlots = {} THEN Becomes(Now)
           ELSE Becomes(EventAdd(EventSet(Now, Min(FreeSlots), NextFd, "recvdata"),
                                 Min(FreeSlots), "EPOLLIN"))
     \/ ~CanAccept /\ UNCHANGED <<open, backlog>> /\ Becomes(Now)
  /\ UNCHANGED <<ended, unread, got>>

\* What ev->len holds once recvdata() put a zero behind len bytes: behind a full
\* buffer comes the low byte of ev->len itself (or, as the compiler is free to store
\* ev->len last, the value of len after all).
LenStored(len) == IF len = BUFLEN THEN {len - (len % 256), len} ELSE {len}

\* What was read is to be sent back.
ReadBytes(s) ==
  LET fd == g_events[s].fd
      x == EventDel(Now, {s})
  IN /\ Received(fd)
     /\ \E len \in Sizes : \E stored \in LenStored(len) :
          /\ got' = [got EXCEPT ![s] = len]
          /\ Becomes(EventAdd(EventSet([x EXCEPT !.ev[s].len = stored], s, fd, "senddata"),
                              s, "EPOLLOUT"))
     /\ UNCHANGED <<open, ended>>

\* Mutant of ReadEnd: the descriptor is not closed.
ReadEndKeep(s) ==
  /\ unread[g_events[s].fd] = 0
  /\ Becomes(EventDel(Now, {s}))
  /\ UNCHANGED <<open, ended, unread, got>>

\* The end of the connection, or an error, closes it.
ReadEnd(s) ==
  /\ unread[g_events[s].fd] = 0
  /\ Close(EventDel(Now, {s}), {g_events[s].fd})
  /\ UNCHANGED got

\* recvdata
RecvData(s) ==
  /\ g_events[s].call_back = "recvdata"
  /\ ReadBytes(s) \/ ReadEnd(s)
  /\ UNCHANGED backlog

\* Mutant of Answered: the slot goes on sending.
AnsweredAgain(x, s) == EventAdd(EventSet(x, s, x.ev[s].fd, "senddata"), s, "EPOLLOUT")

\* After the answer the slot waits for the next message.
Answered(x, s) ==
  EventAdd(EventSet([x EXCEPT !.ev[s].len = 0], s, x.ev[s].fd, "recvdata"), s, "EPOLLIN")

\* senddata: of ev->len bytes at least one is sent, and the rest of them, if any, is
\* dropped.  send() of no bytes returns 0 and counts as an error, like that to a
\* client that reset the connection.
SendData(s) ==
  /\ g_events[s].call_back = "senddata"
  /\ \/ /\ g_events[s].len > 0
        /\ Becomes(Answered(EventDel(Now, {s}), s))
        /\ UNCHANGED <<open, ended, unread>>
     \/ /\ g_events[s].len = 0 \/ g_events[s].fd \in ended
        /\ Close(EventDel(Now, {s}), {g_events[s].fd})
  /\ got' = [got EXCEPT ![s] = 0]
  /\ UNCHANGED backlog

\* One event of the batch: the slot's callback, if it waits for that event.
Handle(e) ==
  /\ pc = "dispatch" /\ e \in batch
  /\ batch' = batch \ {e}
  /\ IF g_events[e.ptr].events = e.events
     THEN AcceptConn(e.ptr) \/ RecvData(e.ptr) \/ SendData(e.ptr)
     ELSE UNCHANGED <<kernel, watch, g_events, got>>
  /\ UNCHANGED <<pc, checkpos, lag>>

\* send() is called without MSG_NOSIGNAL and SIGPIPE is not caught: once a client has
\* closed, and has then refused an earlier answer or reset the connection, the send()
\* of what it had still written kills the process.  Nothing is left of the slots and
\* of the interest list: they are parked without connections.
Killed(e) ==
  /\ pc = "dispatch" /\ e \in batch
  /\ g_events[e.ptr].events = e.events /\ g_events[e.ptr].call_back = "senddata"
  /\ g_events[e.ptr].fd \in ended
  /\ Close(EventDel(Now, {s \in Conns : g_events[s].status = 1}), open) /\ backlog' = 0
  /\ batch' = {} /\ got' = [s \in Conns |-> 0]
  /\ pc' = "stopped"
  /\ UNCHANGED <<checkpos, lag>>

BatchDone ==
  /\ pc = "dispatch" /\ batch = {}
  /\ pc' = "scan"
  /\ UNCHANGED <<kernel, watch, g_events, checkpos, batch, got, lag>>

Loop == Scan \/ EpollWait \/ (\E e \in batch : Handle(e) \/ Killed(e)) \/ BatchDone

Next == Loop \/ Clients \/ Elapse

Spec == Init /\ [][Next]_vars

\* The process is scheduled and time goes on.
FairSpec == Spec /\ WF_vars(Loop) /\ SF_vars(Elapse)

-----------------------------------------------------------------------------
(***************************************************************************)
(* Properties.                                                             *)
(***************************************************************************)

Held(s) == s \in Conns /\ g_events[s].status = 1
Sending(s) == Held(s) /\ g_events[s].call_back = "senddata"

\* The table and the interest list agree: a slot in use has its descriptor, and that
\* alone, registered under its address, for the event its callback serves; nothing else
\* is registered; and the listening socket always is.
SlotsMatchEpoll ==
  /\ \A s \in Slots : g_events[s].status = 1 =>
       /\ g_events[s].fd \in DOMAIN watch
       /\ watch[g_events[s].fd] = [ptr |-> s, events |-> g_events[s].events]
       /\ g_events[s].events = "EPOLLOUT" <=> g_events[s].call_back = "senddata"
  /\ \A f \in DOMAIN watch : LET s == watch[f].ptr IN g_events[s].status = 1 /\ g_events[s].fd = f
  /\ ListenFd \in DOMAIN watch

\* The events of a batch are up to date when their turn comes, whatever the callbacks
\* before them closed, accepted or sent: the slot still serves the connection that was
\* reported, and waits for what was reported.
BatchFresh ==
  \A e \in batch : /\ g_events[e.ptr].status = 1
                   /\ g_events[e.ptr].fd = e.fd
                   /\ g_events[e.ptr].events = e.events

\* The server closes a connection only if the client ended it, or was not heard of and
\* not answered for IDLE seconds, or filled the whole buffer with one message (which
\* may lose its length); and it closes them all only where it answers a client that is
\* gone (line 202 then raises SIGPIPE).
AnswersTheGone == \E s \in Conns : Sending(s) /\ g_events[s].fd \in ended
OnlyIdleClosed ==
  [][\A s \in Conns : Held(s) /\ g_events[s].fd \notin open' =>
        \/ g_events[s].fd \in ended
        \/ g_events[s].idle >= IDLE
        \/ got[s] = BUFLEN
        \/ pc' = "stopped" /\ AnswersTheGone]_vars

\* A connection in a slot is closed soon after it is idle for IDLE seconds, although
\* only SCAN slots are tested in a round.
Rounds == (MAX_EVENTS + SCAN - 1) \div SCAN
IdleSoonClosed == \A s \in Conns : Held(s) => g_events[s].idle < IDLE + (Rounds + 1) * MaxLag

\* A slot that owes its client an answer gives it or gives the client up.
AnswersOrCloses == \A s \in Conns : Sending(s) ~> ~Sending(s)

\* A connection in a slot that the client ended is closed.
EndedIsClosed ==
  \A f \in Fds : (f \in ended /\ f \in DOMAIN watch) ~> f \notin ended

\* "This model sends the data it received back" (line 62): a slot about to send holds
\* all the bytes that were read.
RepliesWhole == \A s \in Conns : Sending(s) => g_events[s].len = got[s]

\* "A client that does not communicate with the server for 60 seconds is closed" (line
\* 264): then each open connection must be in a slot, for only these are tested.
ConnsInSlots == \A f \in open : \E s \in Conns : Held(s) /\ g_events[s].fd = f
=============================================================================
