------------------------- MODULE EpollReactorProofs -------------------------
(***************************************************************************)
(* Proofs about the epoll reactor, for any number of slots, descriptors,   *)
(* events of a batch and seconds.                                          *)
(***************************************************************************)
EXTENDS EpollReactor, WellFoundedInduction, TLAPS

(***************************************************************************)
(* The inductive invariant: SlotsMatchEpoll and BatchFresh, and what they  *)
(* need.                                                                   *)
(***************************************************************************)

\* The last slot is the listening socket's, and it alone accepts.
ListenSlot ==
  /\ g_events[MAX_EVENTS].status = 1
  /\ g_events[MAX_EVENTS].fd = ListenFd
  /\ g_events[MAX_EVENTS].call_back = "acceptconn"
  /\ \A s \in Conns : g_events[s].status = 1 => g_events[s].call_back # "acceptconn"

\* A connection that was reported as readable still is.
StillReadable ==
  \A e \in batch : e.events = "EPOLLIN" /\ e.fd # ListenFd =>
    unread[e.fd] > 0 \/ e.fd \in ended

\* A slot that is to send has bytes to send, but for the message that fills the buffer.
AnswerOwed == \A s \in Conns : Sending(s) => g_events[s].len > 0 \/ got[s] = BUFLEN

IndInv ==
  /\ TypeOK
  /\ SlotsMatchEpoll
  /\ BatchFresh
  /\ ListenSlot
  /\ StillReadable
  /\ AnswerOwed
  /\ pc # "dispatch" => batch = {}

-----------------------------------------------------------------------------
(***************************************************************************)
(* Descriptors.                                                            *)
(***************************************************************************)

\* Descriptors are numbers, and none is the listening socket's.
LEMMA FdsAreNumbers ==
  /\ Fds \subseteq Nat /\ ListenFd \in Nat \ {0} /\ ListenFd \notin Fds
  /\ \A f \in Fds : f # 0 => f > ListenFd
BY FdsAssumption

\* A set of numbers that is not empty has a least one.
LEMMA LeastElement ==
  ASSUME NEW S, S \subseteq Nat, S # {}
  PROVE  Min(S) \in S /\ \A x \in S : Min(S) <= x
<1> DEFINE less == {p \in Nat \X Nat : p[1] < p[2]}
<1>1. less = OpToRel(<, Nat)
  BY Zenon DEF OpToRel
<1>2. \A a, b \in Nat : a < b => <<a, b>> \in less
  OBVIOUS
<1>3. PICK m \in S : \A y \in S : ~(<<y, m>> \in less)
  <2> HIDE DEF less
  <2> QED BY <1>1, NatLessThanWellFounded, WFMin
<1>4. ASSUME NEW y \in S PROVE m <= y
  <2> HIDE DEF less
  <2>1. ~(y < m)
    BY <1>2, <1>3
  <2> QED BY <2>1
<1> QED BY <1>4 DEF Min

\* accept() returns a descriptor that is free, and all below it are in use.
LEMMA LowestFree ==
  ASSUME KernelOK, CanAccept
  PROVE  /\ NextFd \in Fds \ open
         /\ \A f \in Fds : f < NextFd => f \in open
<1>1. Fds \ open # {} /\ Fds \ open \subseteq Nat
  BY FdsAreNumbers DEF KernelOK, CanAccept
<1>2. NextFd \in Fds \ open /\ \A x \in Fds \ open : NextFd <= x
  BY <1>1, LeastElement DEF NextFd
<1> QED BY <1>2, FdsAreNumbers

-----------------------------------------------------------------------------
(***************************************************************************)
(* What the kernel does keeps its state well typed.                        *)
(***************************************************************************)

LEMMA KernelConnect ==
  ASSUME KernelOK, Connect
  PROVE  KernelOK'
BY DEF KernelOK, Connect

LEMMA KernelSends ==
  ASSUME KernelOK, NEW f, ClientSends(f)
  PROVE  KernelOK'
BY UnreadAssumption DEF KernelOK, ClientSends

LEMMA KernelEnds ==
  ASSUME KernelOK, NEW f, ClientEnds(f)
  PROVE  KernelOK'
BY UnreadAssumption DEF KernelOK, ClientEnds

LEMMA KernelAccepts ==
  ASSUME KernelOK, CanAccept, Accepted, UNCHANGED <<ended, unread>>
  PROVE  KernelOK'
<1>1. NextFd \in Fds
  BY LowestFree
<1> QED BY <1>1 DEF KernelOK, CanAccept, Accepted

LEMMA KernelReceives ==
  ASSUME KernelOK, NEW f \in Fds, Received(f), UNCHANGED <<backlog, open, ended>>
  PROVE  KernelOK'
BY UnreadAssumption DEF KernelOK, Received

LEMMA KernelShuts ==
  ASSUME KernelOK, NEW gone, Shut(gone), UNCHANGED backlog \/ backlog' = 0
  PROVE  KernelOK'
BY UnreadAssumption DEF KernelOK, Shut

-----------------------------------------------------------------------------
(***************************************************************************)
(* What eventset, eventadd and eventdel do to the slots and to the list.   *)
(***************************************************************************)

LEMMA SlotNumbers ==
  /\ Slots = Conns \cup {MAX_EVENTS} /\ MAX_EVENTS \notin Conns
  /\ MAX_EVENTS \in Nat \ {0} /\ Conns \subseteq Nat
BY LimitsAssumption DEF Slots, Conns

Slot(fd, callback, events, len) ==
  [fd |-> fd, call_back |-> callback, events |-> events, status |-> 1, len |-> len, idle |-> 0]

\* x is what is left of the slots and the list when slot s waits for the event mask of
\* the descriptor fd.
Armed(x, ev, w, s, fd, callback, mask) ==
  /\ x.ev = [ev EXCEPT ![s] = Slot(fd, callback, mask, ev[s].len)]
  /\ x.w = [f \in DOMAIN w \cup {fd} |-> IF f = fd THEN [ptr |-> s, events |-> mask] ELSE w[f]]

\* eventset and eventadd of a slot, for a descriptor that is not registered.
LEMMA SetAndAdd ==
  ASSUME NEW ev \in [Slots -> Events], NEW w, NEW s \in Slots,
         NEW fd \in Fds \cup {ListenFd}, fd \notin DOMAIN w,
         NEW callback \in Callbacks, NEW mask \in Masks
  PROVE  Armed(EventAdd(EventSet([ev |-> ev, w |-> w], s, fd, callback), s, mask),
               ev, w, s, fd, callback, mask)
<1> PICK r : r = [ev |-> ev, w |-> w]
  OBVIOUS
<1> PICK u : u = ev[s]
  OBVIOUS
<1> PICK v : v = [u EXCEPT !.fd = fd, !.call_back = callback, !.events = "none",
                           !.status = 0, !.idle = 0]
  OBVIOUS
<1> PICK x : x = [ev |-> [ev EXCEPT ![s] = v], w |-> w]
  OBVIOUS
<1>1. r.ev[s] = u /\ u \in Events
  OBVIOUS
<1>2. [r EXCEPT !.ev[s] = v] = x
  OBVIOUS
<1>3. EventSet(r, s, fd, callback) = [r EXCEPT !.ev[s] = v]
  BY <1>1 DEF EventSet
<1>4. v = [fd |-> fd, call_back |-> callback, events |-> "none", status |-> 0,
           len |-> u.len, idle |-> 0]
  BY <1>1 DEF Events
<1>5. [v EXCEPT !.events = mask, !.status = 1] = Slot(fd, callback, mask, u.len)
  <2>1. v \in Events
    BY <1>1, <1>4 DEF Events
  <2> PICK r1 : r1 = [v EXCEPT !.events = mask, !.status = 1]
    OBVIOUS
  <2>2. /\ r1 \in Events
        /\ r1.fd = v.fd /\ r1.call_back = v.call_back /\ r1.events = mask /\ r1.status = 1
        /\ r1.len = v.len /\ r1.idle = v.idle
    BY <2>1 DEF Events
  <2>3. v.fd = fd /\ v.call_back = callback /\ v.len = u.len /\ v.idle = 0
    BY <1>4
  <2>4. r1 = [fd |-> fd, call_back |-> callback, events |-> mask, status |-> 1, len |-> u.len,
              idle |-> 0]
    BY <2>2, <2>3 DEF Events
  <2> QED BY <2>4 DEF Slot
<1>6. x.ev[s] = v /\ x.w = w
  OBVIOUS
<1>7. [x.ev EXCEPT ![s].events = mask, ![s].status = 1]
        = [ev EXCEPT ![s] = Slot(fd, callback, mask, u.len)]
  BY <1>5
<1> PICK w1 : w1 = [f \in DOMAIN w \cup {fd} |->
                      IF f = fd THEN [ptr |-> s, events |-> mask] ELSE w[f]]
  OBVIOUS
<1> PICK ev1 : ev1 = [x.ev EXCEPT ![s].events = mask, ![s].status = 1]
  OBVIOUS
<1>8. EventAdd(x, s, mask) = [ev |-> ev1, w |-> w1]
  BY <1>4, <1>6 DEF EventAdd
<1>9. [ev |-> ev1, w |-> w1].ev = ev1 /\ [ev |-> ev1, w |-> w1].w = w1
  OBVIOUS
<1>10. EventAdd(EventSet([ev |-> ev, w |-> w], s, fd, callback), s, mask) = EventAdd(x, s, mask)
  BY <1>2, <1>3
<1> QED BY <1>7, <1>8, <1>9, <1>10 DEF Armed

\* eventdel of a slot in use, and what recvdata() and senddata() write to its length.
LEMMA DelAndLen ==
  ASSUME NEW s \in Slots, g_events \in [Slots -> Events], g_events[s].status = 1, NEW len
  PROVE  /\ EventDel(Now, {s}).ev \in [Slots -> Events]
         /\ [EventDel(Now, {s}) EXCEPT !.ev[s].len = len]
              = [ev |-> [g_events EXCEPT ![s] = [@ EXCEPT !.status = 0, !.len = len]],
                 w |-> Without(watch, {g_events[s].fd})]
<1>1. {t \in {s} : g_events[t].status = 1} = {s}
  OBVIOUS
<1>2. {g_events[t].fd : t \in {t \in {s} : g_events[t].status = 1}} = {g_events[s].fd}
  BY <1>1
<1>3. EventDel(Now, {s}) = [ev |-> Unset(g_events, {s}), w |-> Without(watch, {g_events[s].fd})]
  BY <1>2 DEF EventDel, Now
<1>4. Unset(g_events, {s}) = [g_events EXCEPT ![s] = [@ EXCEPT !.status = 0]]
  BY DEF Unset
<1>5. [g_events EXCEPT ![s] = [@ EXCEPT !.status = 0]] \in [Slots -> Events]
  BY DEF Events
<1> PICK e : e = [g_events EXCEPT ![s] = [@ EXCEPT !.status = 0]]
  OBVIOUS
<1> PICK w : w = Without(watch, {g_events[s].fd})
  OBVIOUS
<1>6. [[ev |-> e, w |-> w] EXCEPT !.ev[s].len = len]
        = [ev |-> [e EXCEPT ![s].len = len], w |-> w]
  OBVIOUS
<1>7. [e EXCEPT ![s].len = len] = [g_events EXCEPT ![s] = [@ EXCEPT !.status = 0, !.len = len]]
  BY DEF Events
<1>8. EventDel(Now, {s}) = [ev |-> e, w |-> w]
  BY <1>3, <1>4
<1>9. [ev |-> e, w |-> w].ev \in [Slots -> Events]
  BY <1>5
<1>10. [EventDel(Now, {s}) EXCEPT !.ev[s].len = len] = [ev |-> [e EXCEPT ![s].len = len], w |-> w]
  BY <1>6, <1>8
<1> QED BY <1>7, <1>8, <1>9, <1>10

-----------------------------------------------------------------------------
(***************************************************************************)
(* What a handler does to the tables as a whole: it arms one slot, or it   *)
(* drops some.                                                             *)
(***************************************************************************)

Arms(s, fd, callback, mask, len) ==
  /\ g_events' = [g_events EXCEPT ![s] = Slot(fd, callback, mask, len)]
  /\ watch' = [f \in DOMAIN watch \cup {fd} |->
                 IF f = fd THEN [ptr |-> s, events |-> mask] ELSE watch[f]]

Drops(S) ==
  /\ g_events' \in [Slots -> Events]
  /\ \A u \in S : g_events'[u].status = 0
  /\ \A u \in Slots \ S : IF g_events[u].status = 1 THEN g_events'[u] = g_events[u]
                                                    ELSE g_events'[u].status = 0
  /\ watch' = Without(watch, {g_events[u].fd : u \in S})

LEMMA AcceptArms ==
  ASSUME g_events \in [Slots -> Events], NEW s \in Slots, NEW fd \in Fds, fd \notin DOMAIN watch,
         Becomes(EventAdd(EventSet(Now, s, fd, "recvdata"), s, "EPOLLIN"))
  PROVE  Arms(s, fd, "recvdata", "EPOLLIN", g_events[s].len)
<1>1. "recvdata" \in Callbacks /\ "EPOLLIN" \in Masks
  BY DEF Callbacks, Masks
<1> PICK x : x = EventAdd(EventSet([ev |-> g_events, w |-> watch], s, fd, "recvdata"),
                          s, "EPOLLIN")
  OBVIOUS
<1>2. Armed(x, g_events, watch, s, fd, "recvdata", "EPOLLIN")
  BY <1>1, SetAndAdd
<1>3. g_events' = x.ev /\ watch' = x.w
  BY DEF Becomes, Now
<1> QED BY <1>2, <1>3 DEF Armed, Arms

LEMMA ReuseArms ==
  ASSUME g_events \in [Slots -> Events], NEW s \in Slots, g_events[s].status = 1,
         NEW fd \in Fds, fd = g_events[s].fd,
         NEW callback \in Callbacks, NEW mask \in Masks, NEW len \in 0 .. BUFLEN,
         Becomes(EventAdd(EventSet([EventDel(Now, {s}) EXCEPT !.ev[s].len = len],
                                   s, fd, callback), s, mask))
  PROVE  Arms(s, fd, callback, mask, len)
<1> PICK ev : ev = [g_events EXCEPT ![s] = [@ EXCEPT !.status = 0, !.len = len]]
  OBVIOUS
<1> PICK w : w = Without(watch, {fd})
  OBVIOUS
<1>1. ev \in [Slots -> Events] /\ ev[s].len = len
  BY DEF Events
<1>2. fd \notin DOMAIN w /\ DOMAIN w \cup {fd} = DOMAIN watch \cup {fd}
      /\ \A f \in DOMAIN watch \ {fd} : w[f] = watch[f]
  BY DEF Without
<1>a. fd \in Fds \cup {ListenFd} /\ fd \notin DOMAIN w
  BY <1>2
<1> PICK x : x = EventAdd(EventSet([ev |-> ev, w |-> w], s, fd, callback), s, mask)
  OBVIOUS
<1>3. Armed(x, ev, w, s, fd, callback, mask)
  BY <1>1, <1>a, SetAndAdd
<1>4. [EventDel(Now, {s}) EXCEPT !.ev[s].len = len] = [ev |-> ev, w |-> w]
  BY DelAndLen
<1>5. [ev EXCEPT ![s] = Slot(fd, callback, mask, len)]
        = [g_events EXCEPT ![s] = Slot(fd, callback, mask, len)]
  OBVIOUS
<1>6. [f \in DOMAIN w \cup {fd} |-> IF f = fd THEN [ptr |-> s, events |-> mask] ELSE w[f]]
        = [f \in DOMAIN watch \cup {fd} |->
             IF f = fd THEN [ptr |-> s, events |-> mask] ELSE watch[f]]
  BY <1>2
<1>7. g_events' = x.ev /\ watch' = x.w
  BY <1>4 DEF Becomes
<1> QED BY <1>1, <1>3, <1>5, <1>6, <1>7 DEF Armed, Arms

LEMMA CloseDrops ==
  ASSUME g_events \in [Slots -> Events],
         NEW S \in SUBSET {s \in Slots : g_events[s].status = 1},
         NEW gone, {g_events[s].fd : s \in S} \subseteq gone,
         gone \cap DOMAIN watch \subseteq {g_events[s].fd : s \in S},
         Close(EventDel(Now, S), gone)
  PROVE  Drops(S) /\ Shut(gone)
<1> PICK ev : ev = Unset(g_events, S)
  OBVIOUS
<1> PICK fds : fds = {g_events[s].fd : s \in S}
  OBVIOUS
<1>1. {s \in S : g_events[s].status = 1} = S
  OBVIOUS
<1>2. EventDel(Now, S) = [ev |-> ev, w |-> Without(watch, fds)]
  BY <1>1 DEF EventDel, Now
<1>3. g_events' = Parked(ev, gone) /\ watch' = Without(Without(watch, fds), gone)
  BY <1>2 DEF Close
<1>4. watch' = Without(watch, fds)
  BY <1>3 DEF Without
<1>5. ev \in [Slots -> Events] /\ \A s \in S : ev[s].status = 0
  BY DEF Unset, Events
<1>6. \A s \in Slots \ S : ev[s] = g_events[s]
  BY DEF Unset
<1>7. ASSUME NEW s \in Slots
      PROVE  /\ ev[s].status # 0 => g_events'[s] = ev[s]
             /\ g_events'[s] \in Events /\ g_events'[s].status = ev[s].status
  <2>1. ev[s] \in Events
    BY <1>5
  <2>2. CASE ev[s].status = 0 /\ ev[s].fd \in gone
    <3> PICK e : e = [ev[s] EXCEPT !.fd = NoFd, !.call_back = "recvdata",
                                   !.events = "none", !.len = 0, !.idle = 0]
      OBVIOUS
    <3>0. 0 \in 0 .. BUFLEN
      BY LimitsAssumption
    <3>1. e \in Events /\ e.status = ev[s].status
      BY <2>1, <3>0 DEF Events, Callbacks
    <3> QED BY <2>2, <3>1, <1>3 DEF Parked
  <2>3. CASE ~(ev[s].status = 0 /\ ev[s].fd \in gone)
    BY <2>1, <2>3, <1>3 DEF Parked
  <2> QED BY <2>2, <2>3
<1>8. g_events' \in [Slots -> Events]
  BY <1>3, <1>7 DEF Parked
<1>9. \A s \in Slots : g_events[s].status \in {0, 1}
  BY DEF Events
<1> QED BY <1>4, <1>5, <1>6, <1>7, <1>8, <1>9 DEF Drops, Close

-----------------------------------------------------------------------------
(***************************************************************************)
(* The tables keep matching.                                               *)
(***************************************************************************)

TablesOK ==
  /\ g_events \in [Slots -> Events]
  /\ \A f \in DOMAIN watch : watch[f] \in Watches
  /\ SlotsMatchEpoll /\ ListenSlot

\* A slot in use is the only one with its descriptor, which is a connection's unless the
\* slot is the last.
LEMMA HeldFacts ==
  ASSUME IndInv, NEW s \in Slots, g_events[s].status = 1
  PROVE  /\ g_events[s].fd \in DOMAIN watch
         /\ watch[g_events[s].fd] = [ptr |-> s, events |-> g_events[s].events]
         /\ \A t \in Slots : g_events[t].status = 1 /\ g_events[t].fd = g_events[s].fd => t = s
         /\ s \in Conns => g_events[s].fd \in open /\ g_events[s].fd \in Fds
<1>1. /\ g_events[s].fd \in DOMAIN watch
      /\ watch[g_events[s].fd] = [ptr |-> s, events |-> g_events[s].events]
  BY DEF IndInv, SlotsMatchEpoll
<1>3. ASSUME NEW t \in Slots, g_events[t].status = 1
      PROVE  watch[g_events[t].fd].ptr = t
  <2>1. watch[g_events[t].fd] = [ptr |-> t, events |-> g_events[t].events]
    BY <1>3 DEF IndInv, SlotsMatchEpoll
  <2>2. [ptr |-> t, events |-> g_events[t].events].ptr = t
    OBVIOUS
  <2> QED BY <2>1, <2>2
<1>4. s \in Conns => g_events[s].fd # ListenFd
  BY <1>3, SlotNumbers DEF IndInv, ListenSlot
<1> QED BY <1>1, <1>3, <1>4 DEF IndInv, TypeOK, KernelOK

LEMMA ArmKeeps ==
  ASSUME IndInv, NEW s \in Conns, NEW fd \in Fds, NEW callback \in {"recvdata", "senddata"},
         NEW mask \in Masks, mask = "EPOLLOUT" <=> callback = "senddata",
         NEW len \in 0 .. BUFLEN, Arms(s, fd, callback, mask, len),
         \/ g_events[s].status = 0 /\ fd \notin DOMAIN watch
         \/ g_events[s].status = 1 /\ g_events[s].fd = fd
  PROVE  TablesOK' /\ DOMAIN watch' = DOMAIN watch \cup {fd}
<1> PICK slot : slot = Slot(fd, callback, mask, len)
  OBVIOUS
<1>1. /\ slot \in Events
      /\ slot.fd = fd /\ slot.call_back = callback /\ slot.events = mask /\ slot.status = 1
  BY DEF Slot, Events, Callbacks
<1>2. s \in Slots
  BY SlotNumbers
<1>3. /\ g_events' \in [Slots -> Events] /\ g_events'[s] = slot
      /\ \A u \in Slots \ {s} : g_events'[u] = g_events[u]
  BY <1>1, <1>2 DEF Arms, IndInv, TypeOK
<1> PICK entry : entry = [ptr |-> s, events |-> mask]
  OBVIOUS
<1>4. entry \in Watches /\ entry.ptr = s /\ entry.events = mask
  BY <1>2 DEF Watches
<1>5. /\ DOMAIN watch' = DOMAIN watch \cup {fd} /\ watch'[fd] = entry
      /\ \A f \in DOMAIN watch \ {fd} : watch'[f] = watch[f]
  BY DEF Arms
<1>6. \A f \in DOMAIN watch' : watch'[f] \in Watches
  BY <1>4, <1>5 DEF IndInv, TypeOK
<1>7. ASSUME NEW u \in Slots \ {s}, g_events[u].status = 1
      PROVE  g_events[u].fd # fd
  <2>1. g_events[u].fd \in DOMAIN watch
    BY <1>7, HeldFacts
  <2>2. g_events[s].status = 1 /\ g_events[u].fd = g_events[s].fd => u = s
    BY <1>2, <1>7, HeldFacts
  <2> QED BY <2>1, <2>2
<1>8. ASSUME NEW u \in Slots, g_events'[u].status = 1
      PROVE  /\ g_events'[u].fd \in DOMAIN watch'
             /\ watch'[g_events'[u].fd] = [ptr |-> u, events |-> g_events'[u].events]
             /\ g_events'[u].events = "EPOLLOUT" <=> g_events'[u].call_back = "senddata"
  <2>1. CASE u = s
    BY <2>1, <1>1, <1>3, <1>5
  <2>2. CASE u # s
    BY <2>2, <1>3, <1>5, <1>7, <1>8 DEF IndInv, SlotsMatchEpoll
  <2> QED BY <2>1, <2>2
<1>9. ASSUME NEW f \in DOMAIN watch'
      PROVE  g_events'[watch'[f].ptr].status = 1 /\ g_events'[watch'[f].ptr].fd = f
  <2>1. CASE f = fd
    BY <2>1, <1>1, <1>3, <1>4, <1>5
  <2>2. CASE f # fd
    <3> PICK u : u = watch[f].ptr
      OBVIOUS
    <3>1. u \in Slots /\ g_events[u].status = 1 /\ g_events[u].fd = f
      BY <2>2, <1>5 DEF IndInv, SlotsMatchEpoll, TypeOK, Watches
    <3>2. u # s
      BY <2>2, <3>1
    <3> QED BY <2>2, <3>1, <3>2, <1>3, <1>5
  <2> QED BY <2>1, <2>2
<1>10. ListenFd \in DOMAIN watch'
  BY <1>5 DEF IndInv, SlotsMatchEpoll
<1>11. SlotsMatchEpoll'
  BY <1>8, <1>9, <1>10 DEF SlotsMatchEpoll
<1>12. ListenSlot'
  BY <1>1, <1>3, SlotNumbers DEF IndInv, ListenSlot
<1> QED BY <1>3, <1>5, <1>6, <1>11, <1>12 DEF TablesOK

LEMMA DropKeeps ==
  ASSUME IndInv, NEW S \in SUBSET {s \in Conns : g_events[s].status = 1}, Drops(S)
  PROVE  TablesOK' /\ DOMAIN watch' = DOMAIN watch \ {g_events[u].fd : u \in S}
<1> PICK gone : gone = {g_events[u].fd : u \in S}
  OBVIOUS
<1>1. S \subseteq Slots /\ MAX_EVENTS \in Slots \ S
  BY SlotNumbers
<1>2. DOMAIN watch' = DOMAIN watch \ gone /\ \A f \in DOMAIN watch' : watch'[f] = watch[f]
  BY DEF Drops, Without
<1>3. ASSUME NEW u \in Slots, g_events'[u].status = 1
      PROVE  u \notin S /\ g_events[u].status = 1 /\ g_events'[u] = g_events[u]
  BY <1>3 DEF Drops
<1>4. ASSUME NEW u \in Slots \ S, g_events[u].status = 1
      PROVE  g_events[u].fd \notin gone
  BY <1>1, <1>4, HeldFacts
<1>5. ASSUME NEW u \in Slots, g_events'[u].status = 1
      PROVE  /\ g_events'[u].fd \in DOMAIN watch'
             /\ watch'[g_events'[u].fd] = [ptr |-> u, events |-> g_events'[u].events]
             /\ g_events'[u].events = "EPOLLOUT" <=> g_events'[u].call_back = "senddata"
  BY <1>2, <1>3, <1>4, <1>5 DEF IndInv, SlotsMatchEpoll
<1>6. ASSUME NEW f \in DOMAIN watch'
      PROVE  /\ watch'[f] \in Watches
             /\ g_events'[watch'[f].ptr].status = 1 /\ g_events'[watch'[f].ptr].fd = f
  <2> PICK u : u = watch[f].ptr
    OBVIOUS
  <2>1. watch'[f] = watch[f] /\ f \in DOMAIN watch /\ f \notin gone
    BY <1>2
  <2>2. watch[f] \in Watches /\ u \in Slots /\ g_events[u].status = 1 /\ g_events[u].fd = f
    BY <2>1 DEF IndInv, SlotsMatchEpoll, TypeOK, Watches
  <2>3. u \notin S
    BY <2>1, <2>2
  <2>4. g_events'[u] = g_events[u]
    BY <2>2, <2>3 DEF Drops
  <2> QED BY <2>1, <2>2, <2>4
<1>7. g_events'[MAX_EVENTS] = g_events[MAX_EVENTS]
  BY <1>1 DEF Drops, IndInv, ListenSlot
<1>8. ListenFd \in DOMAIN watch'
  BY <1>1, <1>2, <1>4 DEF IndInv, SlotsMatchEpoll, ListenSlot
<1>9. SlotsMatchEpoll'
  BY <1>5, <1>6, <1>8 DEF SlotsMatchEpoll
<1>10. ListenSlot'
  BY <1>3, <1>7, SlotNumbers DEF IndInv, ListenSlot
<1> QED BY <1>2, <1>6, <1>9, <1>10 DEF TablesOK, Drops

-----------------------------------------------------------------------------
(***************************************************************************)
(* The handlers.                                                           *)
(***************************************************************************)

\* An event of the batch, and the others.
LEMMA EventFacts ==
  ASSUME IndInv, NEW e \in batch
  PROVE  /\ e.ptr \in Slots /\ g_events[e.ptr].status = 1
         /\ g_events[e.ptr].fd = e.fd /\ g_events[e.ptr].events = e.events
         /\ \A d \in batch \ {e} : d.ptr \in Slots /\ d.ptr # e.ptr /\ d.fd # e.fd
<1>1. \A d \in batch : /\ d \in Reports /\ d.ptr \in Slots /\ g_events[d.ptr].status = 1
                       /\ g_events[d.ptr].fd = d.fd /\ g_events[d.ptr].events = d.events
  BY DEF IndInv, TypeOK, BatchFresh, Reports
<1>2. ASSUME NEW d \in batch \ {e}
      PROVE  d.ptr # e.ptr /\ d.fd # e.fd
  <2>1. d.ptr # e.ptr
    <3> SUFFICES ASSUME d.ptr = e.ptr PROVE FALSE
      OBVIOUS
    <3>1. d.fd = e.fd /\ d.events = e.events
      BY <1>1
    <3>2. d = e
      BY <1>1, <3>1 DEF Reports
    <3> QED BY <3>2
  <2> PICK s : s = e.ptr
    OBVIOUS
  <2>2. s \in Slots /\ g_events[s].status = 1
    BY <1>1
  <2>3. \A t \in Slots : g_events[t].status = 1 /\ g_events[t].fd = g_events[s].fd => t = s
    BY <2>2, HeldFacts
  <2> QED BY <1>1, <2>1, <2>3
<1> QED BY <1>1, <1>2

\* The callback of a slot in use says which slot it is.
LEMMA CallbackFacts ==
  ASSUME IndInv, NEW s \in Slots, g_events[s].status = 1, g_events[s].call_back # "acceptconn"
  PROVE  s \in Conns
BY SlotNumbers DEF IndInv, ListenSlot

\* What a handler has to see to.
LEMMA HandleKeeps ==
  ASSUME IndInv, NEW e \in batch, batch' = batch \ {e}, UNCHANGED <<pc, checkpos, lag>>,
         pc = "dispatch",
         KernelOK', TablesOK', DOMAIN watch' \subseteq open' \cup {ListenFd},
         got' \in [Conns -> 0 .. BUFLEN], AnswerOwed',
         \A d \in batch \ {e} : g_events'[d.ptr] = g_events[d.ptr],
         \A d \in batch \ {e} : unread[d.fd] > 0 \/ d.fd \in ended =>
           d.fd = ListenFd \/ unread'[d.fd] > 0 \/ d.fd \in ended'
  PROVE  IndInv'
<1>1. TypeOK'
  BY DEF IndInv, TypeOK, TablesOK
<1>2. BatchFresh'
  BY DEF IndInv, BatchFresh
<1>3. StillReadable'
  BY DEF IndInv, StillReadable
<1> QED BY <1>1, <1>2, <1>3 DEF IndInv, TablesOK

LEMMA AcceptKeeps ==
  ASSUME IndInv, NEW e \in batch, Handle(e), AcceptConn(e.ptr)
  PROVE  IndInv'
<1> PICK s : s = e.ptr
  OBVIOUS
<1>0. batch' = batch \ {e} /\ UNCHANGED <<pc, checkpos, lag, ended, unread, got>>
      /\ pc = "dispatch"
  BY DEF Handle, AcceptConn
<1>1. \A d \in batch \ {e} : g_events[d.ptr].status = 1
  BY EventFacts
<1>2. CASE CanAccept /\ Accepted /\ FreeSlots # {}
           /\ Becomes(EventAdd(EventSet(Now, Min(FreeSlots), NextFd, "recvdata"),
                               Min(FreeSlots), "EPOLLIN"))
  <2> PICK k : k = Min(FreeSlots)
    OBVIOUS
  <2> PICK f : f = NextFd
    OBVIOUS
  <2>1. k \in Conns /\ k \in Slots /\ g_events[k].status = 0
    <3>1. FreeSlots \subseteq Nat
      BY SlotNumbers DEF FreeSlots
    <3> QED BY <1>2, <3>1, LeastElement, SlotNumbers DEF FreeSlots
  <2>2. f \in Fds /\ f \notin open /\ f \notin DOMAIN watch /\ open' = open \cup {f}
    BY <1>2, LowestFree, FdsAreNumbers DEF IndInv, TypeOK, Accepted
  <2>3. g_events[k].len \in 0 .. BUFLEN /\ g_events \in [Slots -> Events]
    BY <2>1 DEF IndInv, TypeOK, Events
  <2>4. Arms(k, f, "recvdata", "EPOLLIN", g_events[k].len)
    BY <1>2, <2>1, <2>2, <2>3, AcceptArms
  <2>5. TablesOK' /\ DOMAIN watch' = DOMAIN watch \cup {f}
    BY <2>1, <2>2, <2>3, <2>4, ArmKeeps DEF Masks
  <2>6. KernelOK'
    BY <1>0, <1>2, KernelAccepts DEF IndInv, TypeOK
  <2>7. DOMAIN watch' \subseteq open' \cup {ListenFd}
    BY <2>2, <2>5 DEF IndInv, TypeOK
  <2>8. \A u \in Slots \ {k} : g_events'[u] = g_events[u]
    BY <2>4 DEF Arms, IndInv, TypeOK
  <2>9. g_events'[k].call_back = "recvdata"
    BY <2>1, <2>4 DEF Arms, IndInv, TypeOK, Slot
  <2>10. AnswerOwed'
    BY <1>0, <2>8, <2>9, SlotNumbers DEF IndInv, AnswerOwed, Sending, Held
  <2>11. \A d \in batch \ {e} : g_events'[d.ptr] = g_events[d.ptr]
    BY <1>1, <2>1, <2>8, EventFacts
  <2>12. got' \in [Conns -> 0 .. BUFLEN]
    BY <1>0 DEF IndInv, TypeOK
  <2> QED BY <1>0, <2>5, <2>6, <2>7, <2>10, <2>11, <2>12, HandleKeeps
<1>3. CASE UNCHANGED <<g_events, watch>> /\ open \subseteq open' /\ KernelOK'
  <2>1. TablesOK' /\ AnswerOwed'
    BY <1>0, <1>3 DEF IndInv, TypeOK, TablesOK, SlotsMatchEpoll, ListenSlot, AnswerOwed,
                      Sending, Held
  <2>2. got' \in [Conns -> 0 .. BUFLEN] /\ DOMAIN watch' \subseteq open' \cup {ListenFd}
    BY <1>0, <1>3 DEF IndInv, TypeOK
  <2> QED BY <1>0, <1>3, <2>1, <2>2, HandleKeeps
<1>4. CASE CanAccept /\ Accepted /\ FreeSlots = {} /\ Becomes(Now)
  BY <1>0, <1>3, <1>4, KernelAccepts DEF Accepted, Becomes, Now, IndInv, TypeOK
<1>5. CASE ~CanAccept /\ UNCHANGED <<open, backlog>> /\ Becomes(Now)
  BY <1>0, <1>3, <1>5 DEF Becomes, Now, IndInv, TypeOK, KernelOK
<1> QED BY <1>2, <1>4, <1>5 DEF AcceptConn

\* What recvdata() leaves in a slot's length fits, and is not 0 unless the buffer is full.
LEMMA LengthStored ==
  ASSUME NEW len \in Sizes, NEW stored \in LenStored(len)
  PROVE  len \in 1 .. BUFLEN /\ stored \in 0 .. BUFLEN /\ (stored > 0 \/ len = BUFLEN)
<1>1. len \in 1 .. BUFLEN /\ BUFLEN \in Nat
  BY SizesAssumption, LimitsAssumption
<1>2. CASE len = BUFLEN
  <2>1. len - (len % 256) \in 0 .. BUFLEN
    BY <1>1, <1>2
  <2> QED BY <1>1, <1>2, <2>1 DEF LenStored
<1>3. CASE len # BUFLEN
  BY <1>1, <1>3 DEF LenStored
<1> QED BY <1>2, <1>3

LEMMA ReadBytesKeeps ==
  ASSUME IndInv, NEW e \in batch, Handle(e), g_events[e.ptr].call_back = "recvdata",
         ReadBytes(e.ptr), UNCHANGED backlog
  PROVE  IndInv'
<1> PICK s : s = e.ptr
  OBVIOUS
<1> PICK fd : fd = g_events[s].fd
  OBVIOUS
<1>0. batch' = batch \ {e} /\ UNCHANGED <<pc, checkpos, lag>> /\ pc = "dispatch"
  BY DEF Handle
<1>1. s \in Slots /\ s \in Conns /\ g_events[s].status = 1
  BY EventFacts, CallbackFacts
<1>2. fd \in Fds /\ fd \in DOMAIN watch /\ fd \in open /\ g_events \in [Slots -> Events]
  BY <1>1, HeldFacts DEF IndInv, TypeOK
<1>3. PICK len \in Sizes : \E stored \in LenStored(len) :
        /\ got' = [got EXCEPT ![s] = len]
        /\ Becomes(EventAdd(EventSet([EventDel(Now, {s}) EXCEPT !.ev[s].len = stored],
                                     s, fd, "senddata"), s, "EPOLLOUT"))
  BY DEF ReadBytes
<1>4. PICK stored \in LenStored(len) :
        /\ got' = [got EXCEPT ![s] = len]
        /\ Becomes(EventAdd(EventSet([EventDel(Now, {s}) EXCEPT !.ev[s].len = stored],
                                     s, fd, "senddata"), s, "EPOLLOUT"))
  BY <1>3
<1>5. len \in 1 .. BUFLEN /\ stored \in 0 .. BUFLEN /\ (stored > 0 \/ len = BUFLEN)
  BY LengthStored
<1>6. Arms(s, fd, "senddata", "EPOLLOUT", stored)
  BY <1>1, <1>2, <1>4, <1>5, ReuseArms DEF Callbacks, Masks
<1>7. TablesOK' /\ DOMAIN watch' = DOMAIN watch \cup {fd}
  BY <1>1, <1>2, <1>5, <1>6, ArmKeeps DEF Masks
<1>8. Received(fd) /\ UNCHANGED <<open, ended>>
  BY DEF ReadBytes
<1>9. KernelOK'
  BY <1>2, <1>8, KernelReceives DEF IndInv, TypeOK
<1>10. DOMAIN watch' \subseteq open' \cup {ListenFd}
  BY <1>2, <1>7, <1>8 DEF IndInv, TypeOK
<1>11. /\ \A u \in Slots \ {s} : g_events'[u] = g_events[u]
       /\ g_events'[s].len = stored
  BY <1>1, <1>2, <1>6 DEF Arms, Slot
<1>12. got' \in [Conns -> 0 .. BUFLEN] /\ got'[s] = len /\ \A u \in Conns \ {s} : got'[u] = got[u]
  BY <1>1, <1>4, <1>5 DEF IndInv, TypeOK
<1>13. AnswerOwed'
  BY <1>5, <1>11, <1>12, SlotNumbers DEF IndInv, AnswerOwed, Sending, Held
<1>14. \A d \in batch \ {e} : g_events'[d.ptr] = g_events[d.ptr]
  BY <1>11, EventFacts
<1>15. ASSUME NEW d \in batch \ {e}, unread[d.fd] > 0 \/ d.fd \in ended
       PROVE  d.fd = ListenFd \/ unread'[d.fd] > 0 \/ d.fd \in ended'
  <2>1. d.fd # fd
    BY EventFacts
  <2>2. d.fd \in Fds \cup {ListenFd}
    BY DEF IndInv, TypeOK, Reports
  <2> QED BY <1>8, <1>15, <2>1, <2>2 DEF Received, IndInv, TypeOK, KernelOK
<1> QED BY <1>0, <1>7, <1>9, <1>10, <1>12, <1>13, <1>14, <1>15, HandleKeeps

\* A handler that closes the connection of its slot.
LEMMA CloseOneKeeps ==
  ASSUME IndInv, NEW e \in batch, Handle(e), e.ptr \in Conns,
         Close(EventDel(Now, {e.ptr}), {g_events[e.ptr].fd}), UNCHANGED backlog,
         got' \in [Conns -> 0 .. BUFLEN], \A u \in Conns \ {e.ptr} : got'[u] = got[u]
  PROVE  IndInv'
<1> PICK s : s = e.ptr
  OBVIOUS
<1> PICK fd : fd = g_events[s].fd
  OBVIOUS
<1>0. batch' = batch \ {e} /\ UNCHANGED <<pc, checkpos, lag>> /\ pc = "dispatch"
  BY DEF Handle
<1>1. s \in Slots /\ s \in Conns /\ g_events[s].status = 1 /\ g_events \in [Slots -> Events]
  BY EventFacts DEF IndInv, TypeOK
<1>2. {s} \in SUBSET {t \in Slots : g_events[t].status = 1}
      /\ {s} \in SUBSET {t \in Conns : g_events[t].status = 1}
      /\ {g_events[u].fd : u \in {s}} = {fd}
  BY <1>1
<1>3. Drops({s}) /\ Shut({fd})
  BY <1>1, <1>2, CloseDrops
<1>4. TablesOK' /\ DOMAIN watch' = DOMAIN watch \ {fd}
  BY <1>2, <1>3, DropKeeps
<1>5. KernelOK'
  BY <1>3, KernelShuts DEF IndInv, TypeOK
<1>6. DOMAIN watch' \subseteq open' \cup {ListenFd}
  BY <1>3, <1>4 DEF Shut, IndInv, TypeOK
<1>7. ASSUME NEW d \in batch \ {e}
      PROVE  g_events'[d.ptr] = g_events[d.ptr]
  <2>1. d.ptr \in Slots \ {s} /\ g_events[d.ptr].status = 1
    BY EventFacts DEF IndInv, BatchFresh
  <2> QED BY <1>3, <2>1 DEF Drops
<1>8. AnswerOwed'
  BY <1>3, SlotNumbers DEF Drops, IndInv, AnswerOwed, Sending, Held
<1>9. ASSUME NEW d \in batch \ {e}, unread[d.fd] > 0 \/ d.fd \in ended
      PROVE  d.fd = ListenFd \/ unread'[d.fd] > 0 \/ d.fd \in ended'
  <2>1. d.fd # fd
    BY EventFacts
  <2>2. d.fd \in Fds \cup {ListenFd}
    BY DEF IndInv, TypeOK, Reports
  <2> QED BY <1>3, <1>9, <2>1, <2>2 DEF Shut
<1> QED BY <1>0, <1>4, <1>5, <1>6, <1>7, <1>8, <1>9, HandleKeeps

LEMMA SendKeeps ==
  ASSUME IndInv, NEW e \in batch, Handle(e), SendData(e.ptr)
  PROVE  IndInv'
<1> PICK s : s = e.ptr
  OBVIOUS
<1> PICK fd : fd = g_events[s].fd
  OBVIOUS
<1>0. batch' = batch \ {e} /\ UNCHANGED <<pc, checkpos, lag, backlog>> /\ pc = "dispatch"
      /\ got' = [got EXCEPT ![s] = 0]
  BY DEF Handle, SendData
<1>1. s \in Slots /\ s \in Conns /\ g_events[s].status = 1
  BY EventFacts, CallbackFacts DEF SendData
<1>2. fd \in Fds /\ fd \in DOMAIN watch /\ fd \in open /\ g_events \in [Slots -> Events]
  BY <1>1, HeldFacts DEF IndInv, TypeOK
<1>3. 0 \in 0 .. BUFLEN
  BY LimitsAssumption
<1>4. got' \in [Conns -> 0 .. BUFLEN] /\ \A u \in Conns \ {s} : got'[u] = got[u]
  BY <1>0, <1>3 DEF IndInv, TypeOK
<1>5. CASE Becomes(Answered(EventDel(Now, {s}), s)) /\ UNCHANGED <<open, ended, unread>>
  <2>1. EventDel(Now, {s}).ev[s].fd = fd
    BY <1>1, <1>2 DEF EventDel, Unset, Now, Events
  <2>2. Becomes(EventAdd(EventSet([EventDel(Now, {s}) EXCEPT !.ev[s].len = 0],
                                  s, fd, "recvdata"), s, "EPOLLIN"))
    BY <1>5, <2>1 DEF Answered
  <2>3. Arms(s, fd, "recvdata", "EPOLLIN", 0)
    BY <1>1, <1>2, <1>3, <2>2, ReuseArms DEF Callbacks, Masks
  <2>4. TablesOK' /\ DOMAIN watch' = DOMAIN watch \cup {fd}
    BY <1>1, <1>2, <1>3, <2>3, ArmKeeps DEF Masks
  <2>5. KernelOK' /\ DOMAIN watch' \subseteq open' \cup {ListenFd}
    BY <1>0, <1>2, <1>5, <2>4 DEF IndInv, TypeOK, KernelOK
  <2>6. /\ \A u \in Slots \ {s} : g_events'[u] = g_events[u]
        /\ g_events'[s].call_back = "recvdata"
    BY <1>1, <1>2, <2>3 DEF Arms, Slot
  <2>7. AnswerOwed'
    BY <1>4, <2>6, SlotNumbers DEF IndInv, AnswerOwed, Sending, Held
  <2>8. \A d \in batch \ {e} : g_events'[d.ptr] = g_events[d.ptr]
    BY <2>6, EventFacts
  <2> QED BY <1>0, <1>4, <1>5, <2>4, <2>5, <2>7, <2>8, HandleKeeps
<1>6. CASE Close(EventDel(Now, {s}), {fd})
  BY <1>0, <1>1, <1>4, <1>6, CloseOneKeeps
<1> QED BY <1>5, <1>6 DEF SendData

LEMMA HandlesKeep ==
  ASSUME IndInv, NEW e \in batch, Handle(e)
  PROVE  IndInv'
<1>0. e.ptr \in Slots /\ g_events[e.ptr].status = 1 /\ g_events[e.ptr].events = e.events
  BY EventFacts
<1>1. CASE AcceptConn(e.ptr)
  BY <1>1, AcceptKeeps
<1>2. CASE RecvData(e.ptr)
  <2>1. e.ptr \in Conns
    BY <1>0, <1>2, CallbackFacts DEF RecvData
  <2>2. CASE ReadBytes(e.ptr)
    BY <1>2, <2>2, ReadBytesKeeps DEF RecvData
  <2>3. CASE ReadEnd(e.ptr)
    <3>1. got' \in [Conns -> 0 .. BUFLEN] /\ got' = got
      BY <2>3 DEF ReadEnd, IndInv, TypeOK
    <3> QED BY <1>2, <2>1, <2>3, <3>1, CloseOneKeeps DEF RecvData, ReadEnd
  <2> QED BY <1>2, <2>2, <2>3 DEF RecvData
<1>3. CASE SendData(e.ptr)
  BY <1>3, SendKeeps
<1> QED BY <1>0, <1>1, <1>2, <1>3 DEF Handle

-----------------------------------------------------------------------------
(***************************************************************************)
(* The other steps of the loop, the clients and the clock.                 *)
(***************************************************************************)

\* The slots of a round, and where the next one begins.
LEMMA WindowFacts ==
  ASSUME IndInv
  PROVE  Window \subseteq Conns /\ NextCheckpos \in Slots
<1>1. MAX_EVENTS \in Nat \ {0} /\ SCAN \in Nat \ {0} /\ checkpos \in Nat
  BY LimitsAssumption DEF IndInv, TypeOK, Slots
<1>2. \A n \in Nat : n % MAX_EVENTS \in 0 .. MAX_EVENTS - 1
  BY <1>1
<1>3. \A k \in 0 .. SCAN - 1 : checkpos + k \in Nat
  BY <1>1
<1>4. Window \subseteq Conns
  BY <1>2, <1>3 DEF Window, Conns
<1>5. checkpos + SCAN - 1 \in Nat
  BY <1>1
<1> PICK n : n = (checkpos + SCAN - 1) % MAX_EVENTS
  OBVIOUS
<1>6. n \in 0 .. MAX_EVENTS - 1
  BY <1>2, <1>5
<1>7. n + 1 \in 0 .. MAX_EVENTS
  BY <1>1, <1>6
<1> QED BY <1>4, <1>7 DEF NextCheckpos, Slots

LEMMA ScanCloses ==
  ASSUME IndInv, Scan
  PROVE  /\ Expired \in SUBSET {s \in Conns : g_events[s].status = 1}
         /\ Drops(Expired) /\ Shut({g_events[s].fd : s \in Expired})
<1>1. Expired \subseteq Conns
  BY WindowFacts DEF Expired
<1>2. Expired \in SUBSET {s \in Conns : g_events[s].status = 1}
      /\ Expired \in SUBSET {s \in Slots : g_events[s].status = 1}
  BY <1>1, SlotNumbers DEF Expired
<1>3. Close(EventDel(Now, Expired), {g_events[s].fd : s \in Expired})
  BY DEF Scan
<1>4. g_events \in [Slots -> Events]
  BY DEF IndInv, TypeOK
<1> QED BY <1>2, <1>3, <1>4, CloseDrops

LEMMA ScanKeeps ==
  ASSUME IndInv, Scan
  PROVE  IndInv'
<1> PICK gone : gone = {g_events[s].fd : s \in Expired}
  OBVIOUS
<1>0. /\ pc = "scan" /\ pc' = "wait" /\ lag' = 0 /\ checkpos' = NextCheckpos
      /\ UNCHANGED <<backlog, batch>>
      /\ got' = [s \in Conns |-> IF s \in Expired THEN 0 ELSE got[s]]
  BY DEF Scan
<1>1. Drops(Expired) /\ Shut(gone)
  BY ScanCloses
<1>2. TablesOK' /\ DOMAIN watch' = DOMAIN watch \ gone
  BY ScanCloses, DropKeeps
<1>3. KernelOK'
  BY <1>0, <1>1, KernelShuts DEF IndInv, TypeOK
<1>4. batch' = {}
  BY <1>0 DEF IndInv
<1>5. got' \in [Conns -> 0 .. BUFLEN] /\ lag' \in 0 .. MaxLag
  BY <1>0, LimitsAssumption DEF IndInv, TypeOK
<1>6. DOMAIN watch' \subseteq open' \cup {ListenFd}
  BY <1>1, <1>2 DEF Shut, IndInv, TypeOK
<1>7. TypeOK'
  BY <1>0, <1>2, <1>3, <1>4, <1>5, <1>6, WindowFacts DEF TypeOK, TablesOK
<1>8. AnswerOwed'
  <2> SUFFICES ASSUME NEW s \in Conns, Sending(s)' PROVE g_events'[s].len > 0 \/ got'[s] = BUFLEN
    BY DEF AnswerOwed
  <2>1. s \notin Expired /\ g_events[s].status = 1 /\ g_events'[s] = g_events[s]
    BY <1>1, SlotNumbers DEF Drops, Sending, Held
  <2>2. got'[s] = got[s]
    BY <1>0, <2>1
  <2> QED BY <2>1, <2>2 DEF IndInv, AnswerOwed, Sending, Held
<1> QED BY <1>2, <1>4, <1>7, <1>8, <1>0 DEF IndInv, TablesOK, BatchFresh, StillReadable

LEMMA WaitKeeps ==
  ASSUME IndInv, EpollWait
  PROVE  IndInv'
<1>1. PICK writable \in SUBSET Watched("EPOLLOUT") :
        batch' = {[ptr |-> watch[f].ptr, events |-> watch[f].events, fd |-> f] :
                    f \in (Watched("EPOLLIN") \cap Readable) \cup writable}
  BY DEF EpollWait
<1>2. /\ pc' = "dispatch"
      /\ UNCHANGED <<backlog, open, ended, unread, watch, g_events, checkpos, got, lag>>
  BY DEF EpollWait, kernel
<1>3. ASSUME NEW e \in batch'
      PROVE  /\ e \in Reports
             /\ g_events[e.ptr].status = 1 /\ g_events[e.ptr].fd = e.fd
             /\ g_events[e.ptr].events = e.events
             /\ e.events = "EPOLLIN" /\ e.fd # ListenFd => unread[e.fd] > 0 \/ e.fd \in ended
  <2>1. PICK f \in (Watched("EPOLLIN") \cap Readable) \cup writable :
          e = [ptr |-> watch[f].ptr, events |-> watch[f].events, fd |-> f]
    BY <1>1
  <2>2. e.ptr = watch[f].ptr /\ e.events = watch[f].events /\ e.fd = f
    BY <2>1
  <2>3. f \in DOMAIN watch /\ watch[f] \in Watches
    BY DEF Watched, IndInv, TypeOK
  <2>4. watch[f].ptr \in Slots /\ watch[f].events \in Masks /\ f \in Fds \cup {ListenFd}
    BY <2>3 DEF Watches, IndInv, TypeOK, KernelOK
  <2> PICK s : s = watch[f].ptr
    OBVIOUS
  <2>5. s \in Slots /\ g_events[s].status = 1 /\ g_events[s].fd = f
    BY <2>3, <2>4 DEF IndInv, SlotsMatchEpoll
  <2>6. watch[f] = [ptr |-> s, events |-> g_events[s].events]
    BY <2>5 DEF IndInv, SlotsMatchEpoll
  <2>7. watch[f].events = g_events[s].events
    BY <2>6
  <2>8. e \in Reports
    BY <2>1, <2>4 DEF Reports
  <2>9. watch[f].events = "EPOLLIN" => f \in Readable
    BY DEF Watched
  <2>10. f \in Readable /\ f # ListenFd => unread[f] > 0 \/ f \in ended
    BY DEF Readable
  <2> QED BY <2>2, <2>5, <2>7, <2>8, <2>9, <2>10
<1>4. TypeOK'
  BY <1>2, <1>3 DEF IndInv, TypeOK, KernelOK
<1>5. BatchFresh' /\ StillReadable'
  BY <1>2, <1>3 DEF BatchFresh, StillReadable
<1>6. SlotsMatchEpoll' /\ ListenSlot' /\ AnswerOwed'
  BY <1>2 DEF IndInv, SlotsMatchEpoll, ListenSlot, AnswerOwed, Sending, Held
<1> QED BY <1>2, <1>4, <1>5, <1>6 DEF IndInv

LEMMA ClientsKeep ==
  ASSUME IndInv, Clients
  PROVE  IndInv'
<1>1. UNCHANGED <<open, watch, pc, g_events, checkpos, batch, got, lag>>
  BY DEF Clients, Connect, ClientSends, ClientEnds
<1>2. KernelOK'
  BY KernelConnect, KernelSends, KernelEnds DEF Clients, IndInv, TypeOK
<1>3. \A g \in Fds : unread[g] > 0 \/ g \in ended => unread'[g] > 0 \/ g \in ended'
  <2>0. KernelOK
    BY DEF IndInv, TypeOK
  <2>1. CASE Connect
    BY <2>1 DEF Connect
  <2>2. ASSUME NEW f \in DOMAIN watch, ClientSends(f)
        PROVE  \A g \in Fds : unread[g] > 0 \/ g \in ended => unread'[g] > 0 \/ g \in ended'
    BY <2>0, <2>2 DEF ClientSends, KernelOK
  <2>3. ASSUME NEW f \in DOMAIN watch, ClientEnds(f)
        PROVE  \A g \in Fds : unread[g] > 0 \/ g \in ended => unread'[g] > 0 \/ g \in ended'
    BY <2>0, <2>3 DEF ClientEnds, KernelOK
  <2> QED BY <2>1, <2>2, <2>3 DEF Clients
<1>4. TypeOK'
  BY <1>1, <1>2 DEF IndInv, TypeOK
<1>5. SlotsMatchEpoll' /\ BatchFresh' /\ ListenSlot' /\ AnswerOwed'
  BY <1>1 DEF IndInv, SlotsMatchEpoll, BatchFresh, ListenSlot, AnswerOwed, Sending, Held
<1>6. StillReadable'
  BY <1>1, <1>3 DEF IndInv, StillReadable, TypeOK, Reports
<1> QED BY <1>1, <1>4, <1>5, <1>6 DEF IndInv

LEMMA ElapseKeeps ==
  ASSUME IndInv, Elapse
  PROVE  IndInv'
<1>1. UNCHANGED <<backlog, open, ended, unread, watch, pc, checkpos, batch, got>>
      /\ lag < MaxLag /\ lag' = lag + 1
  BY DEF Elapse, kernel
<1>2. ASSUME NEW s \in Slots
      PROVE  /\ g_events'[s] \in Events
             /\ g_events'[s].status = g_events[s].status /\ g_events'[s].fd = g_events[s].fd
             /\ g_events'[s].events = g_events[s].events /\ g_events'[s].len = g_events[s].len
             /\ g_events'[s].call_back = g_events[s].call_back
  <2>1. g_events[s] \in Events
    BY DEF IndInv, TypeOK
  <2>2. g_events'[s] = IF s \in Conns /\ g_events[s].status = 1
                       THEN [g_events[s] EXCEPT !.idle = @ + 1] ELSE g_events[s]
    BY DEF Elapse
  <2> QED BY <2>1, <2>2 DEF Events
<1>3. g_events' \in [Slots -> Events]
  BY <1>2 DEF Elapse
<1>4. lag' \in 0 .. MaxLag
  BY <1>1, LimitsAssumption DEF IndInv, TypeOK
<1>5. TypeOK'
  BY <1>1, <1>3, <1>4 DEF IndInv, TypeOK, KernelOK
<1>6. SlotsMatchEpoll'
  <2>1. \A f \in DOMAIN watch : watch[f].ptr \in Slots
    BY DEF IndInv, TypeOK, Watches
  <2> QED BY <1>1, <1>2, <2>1 DEF IndInv, SlotsMatchEpoll
<1>7. BatchFresh' /\ StillReadable'
  BY <1>1, <1>2, EventFacts DEF IndInv, BatchFresh, StillReadable
<1>8. ListenSlot' /\ AnswerOwed'
  BY <1>1, <1>2, SlotNumbers DEF IndInv, ListenSlot, AnswerOwed, Sending, Held
<1> QED BY <1>1, <1>5, <1>6, <1>7, <1>8 DEF IndInv

\* What the kernel closes when the process is killed: all the slots in use go.
LEMMA KilledDrops ==
  ASSUME IndInv, NEW e \in batch, Killed(e)
  PROVE  /\ Drops({s \in Conns : g_events[s].status = 1}) /\ Shut(open)
         /\ e.ptr \in Conns /\ Sending(e.ptr) /\ g_events[e.ptr].fd \in ended
<1> PICK S : S = {s \in Conns : g_events[s].status = 1}
  OBVIOUS
<1>1. S \in SUBSET {s \in Slots : g_events[s].status = 1} /\ g_events \in [Slots -> Events]
  BY SlotNumbers DEF IndInv, TypeOK
<1>2. ASSUME NEW s \in S PROVE g_events[s].fd \in open
  BY <1>2, SlotNumbers, HeldFacts
<1>3. ASSUME NEW f \in open \cap DOMAIN watch PROVE \E s \in S : g_events[s].fd = f
  <2> PICK u : u = watch[f].ptr
    OBVIOUS
  <2>1. u \in Slots /\ g_events[u].status = 1 /\ g_events[u].fd = f
    BY DEF IndInv, SlotsMatchEpoll, TypeOK, Watches
  <2>2. f # ListenFd
    BY FdsAreNumbers DEF IndInv, TypeOK, KernelOK
  <2>3. u \in Conns
    BY <2>1, <2>2, SlotNumbers DEF IndInv, ListenSlot
  <2> QED BY <2>1, <2>3
<1>4. Close(EventDel(Now, S), open)
  BY DEF Killed
<1>5. {g_events[s].fd : s \in S} \subseteq open
      /\ open \cap DOMAIN watch \subseteq {g_events[s].fd : s \in S}
  BY <1>2, <1>3
<1>6. Drops(S) /\ Shut(open)
  BY <1>1, <1>4, <1>5, CloseDrops
<1>7. e.ptr \in Conns /\ g_events[e.ptr].status = 1
  BY EventFacts, CallbackFacts DEF Killed
<1> QED BY <1>6, <1>7 DEF Killed, Sending, Held

LEMMA KilledKeeps ==
  ASSUME IndInv, NEW e \in batch, Killed(e)
  PROVE  IndInv'
<1> PICK S : S = {s \in Conns : g_events[s].status = 1}
  OBVIOUS
<1>0. /\ pc' = "stopped" /\ batch' = {} /\ got' = [s \in Conns |-> 0] /\ backlog' = 0
      /\ UNCHANGED <<checkpos, lag>>
  BY DEF Killed
<1>1. Drops(S) /\ Shut(open)
  BY KilledDrops
<1>2. TablesOK' /\ DOMAIN watch' \subseteq DOMAIN watch
  BY <1>1, DropKeeps
<1>3. DOMAIN watch' \cap open = {}
  <2> SUFFICES ASSUME NEW f \in DOMAIN watch', f \in open PROVE FALSE
    OBVIOUS
  <2> PICK u : u = watch[f].ptr
    OBVIOUS
  <2>1. f \in DOMAIN watch /\ f \notin {g_events[s].fd : s \in S}
    BY <1>1 DEF Drops, Without
  <2>2. u \in Slots /\ g_events[u].status = 1 /\ g_events[u].fd = f
    BY <2>1 DEF IndInv, SlotsMatchEpoll, TypeOK, Watches
  <2>3. f # ListenFd
    BY FdsAreNumbers DEF IndInv, TypeOK, KernelOK
  <2>4. u \in S
    BY <2>2, <2>3, SlotNumbers DEF IndInv, ListenSlot
  <2> QED BY <2>1, <2>2, <2>4
<1>4. DOMAIN watch' \subseteq open' \cup {ListenFd}
  BY <1>2, <1>3 DEF IndInv, TypeOK
<1>5. KernelOK'
  BY <1>0, <1>1, KernelShuts DEF IndInv, TypeOK
<1>6. got' \in [Conns -> 0 .. BUFLEN]
  BY <1>0, LimitsAssumption
<1>7. TypeOK'
  BY <1>0, <1>2, <1>4, <1>5, <1>6 DEF IndInv, TypeOK, TablesOK
<1>8. AnswerOwed'
  BY <1>1, SlotNumbers DEF Drops, AnswerOwed, Sending, Held
<1> QED BY <1>0, <1>2, <1>7, <1>8 DEF IndInv, TablesOK, BatchFresh, StillReadable

LEMMA StepKeeps ==
  ASSUME IndInv, [Next]_vars
  PROVE  IndInv'
<1>1. CASE BatchDone \/ UNCHANGED vars
  <2>1. UNCHANGED <<backlog, open, ended, unread, watch, g_events, checkpos, batch, got, lag>>
        /\ (pc' = pc \/ (batch = {} /\ pc' = "scan"))
    BY <1>1 DEF BatchDone, vars, kernel
  <2> QED BY <2>1 DEF IndInv, TypeOK, KernelOK, SlotsMatchEpoll, BatchFresh, ListenSlot,
                      StillReadable, AnswerOwed, Sending, Held
<1> QED BY <1>1, HandlesKeep, KilledKeeps, ScanKeeps, WaitKeeps, ClientsKeep, ElapseKeeps
       DEF Next, Loop

LEMMA InitIsSound ==
  ASSUME Init
  PROVE  IndInv
<1> PICK free : free = [s \in Slots |-> FreeSlot]
  OBVIOUS
<1> PICK none : none = << >>
  OBVIOUS
<1> PICK x : x = EventAdd(EventSet([ev |-> free, w |-> none], MAX_EVENTS, ListenFd, "acceptconn"),
                          MAX_EVENTS, "EPOLLIN")
  OBVIOUS
<1>1. /\ open = {} /\ backlog = 0 /\ ended = {} /\ unread = [f \in Fds |-> 0]
      /\ pc = "scan" /\ checkpos = 0 /\ batch = {} /\ got = [s \in Conns |-> 0] /\ lag = 0
      /\ g_events = x.ev /\ watch = [f \in {ListenFd} |-> x.w[f]]
  BY DEF Init, KernelInit
<1>2. 0 \in 0 .. BUFLEN /\ 0 \in 0 .. MaxUnread /\ 0 \in 0 .. MaxLag /\ 0 \in Slots
      /\ MAX_EVENTS \in Slots
  BY LimitsAssumption, UnreadAssumption DEF Slots
<1>3. FreeSlot \in Events
  BY <1>2 DEF FreeSlot, Events, Callbacks
<1>4. free \in [Slots -> Events]
  BY <1>3
<1>5. DOMAIN none = {}
  OBVIOUS
<1>6. Armed(x, free, none, MAX_EVENTS, ListenFd, "acceptconn", "EPOLLIN")
  BY <1>2, <1>4, <1>5, SetAndAdd DEF Callbacks, Masks
<1> PICK n : n = free[MAX_EVENTS].len
  OBVIOUS
<1>7. n \in 0 .. BUFLEN
  BY <1>2, <1>4 DEF Events
<1> PICK slot : slot = Slot(ListenFd, "acceptconn", "EPOLLIN", n)
  OBVIOUS
<1>8. /\ slot \in Events /\ slot.fd = ListenFd /\ slot.call_back = "acceptconn"
      /\ slot.events = "EPOLLIN" /\ slot.status = 1
  BY <1>7 DEF Slot, Events, Callbacks, Masks
<1>9. /\ g_events \in [Slots -> Events] /\ g_events[MAX_EVENTS] = slot
      /\ \A s \in Conns : g_events[s].status = 0
  <2>1. g_events = [free EXCEPT ![MAX_EVENTS] = slot]
    BY <1>1, <1>6 DEF Armed
  <2>2. g_events \in [Slots -> Events] /\ g_events[MAX_EVENTS] = slot
    BY <1>2, <1>4, <1>8, <2>1
  <2>3. \A s \in Conns : s \in Slots /\ s # MAX_EVENTS
    BY SlotNumbers
  <2>4. \A s \in Conns : g_events[s] = FreeSlot
    BY <1>4, <2>1, <2>3
  <2>5. FreeSlot.status = 0
    BY DEF FreeSlot
  <2> QED BY <2>2, <2>4, <2>5
<1>10. DOMAIN watch = {ListenFd} /\ watch[ListenFd] = [ptr |-> MAX_EVENTS, events |-> "EPOLLIN"]
  BY <1>1, <1>6 DEF Armed
<1>11. watch[ListenFd] \in Watches /\ watch[ListenFd].ptr = MAX_EVENTS
       /\ watch[ListenFd].events = "EPOLLIN"
  BY <1>2, <1>10 DEF Watches, Masks
<1>12. TypeOK
  BY <1>1, <1>2, <1>9, <1>10, <1>11 DEF TypeOK, KernelOK
<1>13. SlotsMatchEpoll
  BY <1>8, <1>9, <1>10, <1>11, SlotNumbers DEF SlotsMatchEpoll
<1>14. ListenSlot /\ BatchFresh /\ StillReadable /\ AnswerOwed
  BY <1>1, <1>8, <1>9 DEF ListenSlot, BatchFresh, StillReadable, AnswerOwed, Sending, Held
<1> QED BY <1>1, <1>12, <1>13, <1>14 DEF IndInv

-----------------------------------------------------------------------------
(***************************************************************************)
(* The theorems.                                                           *)
(***************************************************************************)

\* The invariant of the proofs: the tables match, the events of a batch are fresh, the
\* last slot is the listening socket's, what was reported as readable still is, and a
\* slot that is to send has bytes to send unless its message filled the buffer.
THEOREM InductiveInvariant == Spec => []IndInv
BY InitIsSound, StepKeeps, PTL DEF Spec

\* The types of the slots, of the interest list and of a batch of events; checkpos never
\* leaves the table.
THEOREM TypeCorrect == Spec => []TypeOK
<1>1. IndInv => TypeOK
  BY DEF IndInv
<1> QED BY <1>1, InductiveInvariant, PTL

\* g_events and epoll's interest list name each other, through eventset(), eventadd()
\* and eventdel(), in whatever order the handlers call them.
THEOREM TablesAgree == Spec => []SlotsMatchEpoll
<1>1. IndInv => SlotsMatchEpoll
  BY DEF IndInv
<1> QED BY <1>1, InductiveInvariant, PTL

\* No event of a batch is stale when the loop comes to it: the pointer that epoll gave
\* back leads to the slot of the descriptor that was reported.
THEOREM NoStaleEvent == Spec => []BatchFresh
<1>1. IndInv => BatchFresh
  BY DEF IndInv
<1> QED BY <1>1, InductiveInvariant, PTL

\* A connection that a step closes has ended, is idle, or filled its buffer.
MayClose(s) == \/ g_events[s].fd \in ended
               \/ g_events[s].idle >= IDLE
               \/ got[s] = BUFLEN

LEMMA HandleSpares ==
  ASSUME IndInv, NEW e \in batch, Handle(e), NEW s \in Conns, Held(s),
         g_events[s].fd \notin open'
  PROVE  MayClose(s)
<1> PICK fd : fd = g_events[s].fd
  OBVIOUS
<1>1. s \in Slots /\ g_events[s].status = 1 /\ fd \in open /\ fd \in Fds
  BY SlotNumbers, HeldFacts DEF Held
<1>2. e.ptr \in Slots /\ g_events[e.ptr].status = 1 /\ g_events[e.ptr].fd = e.fd
      /\ g_events[e.ptr].events = e.events
  BY EventFacts
<1>3. ASSUME Close(EventDel(Now, {e.ptr}), {g_events[e.ptr].fd})
      PROVE  e.ptr = s
  <2>1. g_events[e.ptr].fd = fd
    BY <1>1, <1>3 DEF Close, Shut
  <2>2. \A t \in Slots : g_events[t].status = 1 /\ g_events[t].fd = g_events[s].fd => t = s
    BY <1>1, HeldFacts
  <2> QED BY <1>2, <2>1, <2>2
<1>4. CASE AcceptConn(e.ptr) \/ (RecvData(e.ptr) /\ ReadBytes(e.ptr))
  BY <1>1, <1>4 DEF AcceptConn, Accepted, ReadBytes
<1>5. CASE RecvData(e.ptr) /\ ReadEnd(e.ptr)
  <2>1. e.ptr = s
    BY <1>3, <1>5 DEF ReadEnd
  <2>2. g_events[s].call_back = "recvdata" /\ unread[fd] = 0
    BY <1>5, <2>1 DEF RecvData, ReadEnd
  <2>3. g_events[s].events # "EPOLLOUT"
    BY <1>1, <2>2 DEF IndInv, SlotsMatchEpoll
  <2>4. e.events = "EPOLLIN" /\ e.fd = fd
    BY <1>2, <2>1, <2>3 DEF IndInv, TypeOK, Reports, Masks
  <2>5. fd # ListenFd
    BY <1>1, FdsAreNumbers
  <2>6. unread[fd] > 0 \/ fd \in ended
    BY <2>4, <2>5 DEF IndInv, StillReadable
  <2> QED BY <2>2, <2>6 DEF MayClose
<1>6. CASE SendData(e.ptr)
  <2>1. UNCHANGED open \/ Close(EventDel(Now, {e.ptr}), {g_events[e.ptr].fd})
    BY <1>6 DEF SendData
  <2>2. e.ptr = s
    BY <1>1, <1>3, <2>1
  <2>3. g_events[s].call_back = "senddata" /\ (g_events[s].len = 0 \/ fd \in ended)
    BY <1>1, <1>6, <2>2 DEF SendData
  <2>4. g_events[s].len > 0 \/ got[s] = BUFLEN
    BY <2>3 DEF IndInv, AnswerOwed, Sending
  <2> QED BY <2>3, <2>4 DEF MayClose
<1> QED BY <1>1, <1>2, <1>4, <1>5, <1>6 DEF Handle, RecvData

LEMMA StepSpares ==
  ASSUME IndInv, [Next]_vars, NEW s \in Conns, Held(s), g_events[s].fd \notin open'
  PROVE  MayClose(s) \/ (pc' = "stopped" /\ AnswersTheGone)
<1>1. g_events[s].fd \in open /\ s \in Slots /\ g_events[s].status = 1
  BY SlotNumbers, HeldFacts DEF Held
<1>2. CASE Scan
  <2>1. Shut({g_events[t].fd : t \in Expired})
        /\ Expired \in SUBSET {t \in Conns : g_events[t].status = 1}
    BY <1>2, ScanCloses
  <2>2. PICK t \in Expired : g_events[t].fd = g_events[s].fd
    BY <1>1, <2>1 DEF Shut
  <2>3. t = s
    BY <1>1, <2>1, <2>2, HeldFacts, SlotNumbers
  <2> QED BY <2>2, <2>3 DEF Expired, MayClose
<1>3. CASE \E e \in batch : Handle(e)
  BY <1>3, HandleSpares
<1>4. CASE EpollWait \/ BatchDone \/ Elapse \/ UNCHANGED vars
  BY <1>1, <1>4 DEF EpollWait, BatchDone, Elapse, vars, kernel
<1>5. CASE Clients
  BY <1>1, <1>5 DEF Clients, Connect, ClientSends, ClientEnds
<1>6. CASE \E e \in batch : Killed(e)
  BY <1>6, KilledDrops DEF AnswersTheGone, Killed
<1> QED BY <1>2, <1>3, <1>4, <1>5, <1>6 DEF Next, Loop

\* The reactor closes a connection in a slot only if its client ended it, if it was idle
\* for IDLE seconds, or if one message filled the whole buffer (line 175 then writes
\* behind it, into ev->len).  Only the signal that send() raises when it answers a client
\* that is gone (line 202) closes the others, with the process.
THEOREM ClosesOnlyIdle == Spec => OnlyIdleClosed
<1>1. IndInv /\ [Next]_vars =>
        [\A s \in Conns : Held(s) /\ g_events[s].fd \notin open' =>
           \/ g_events[s].fd \in ended
           \/ g_events[s].idle >= IDLE
           \/ got[s] = BUFLEN
           \/ pc' = "stopped" /\ AnswersTheGone]_vars
  BY StepSpares DEF MayClose
<1> QED BY <1>1, InductiveInvariant, PTL DEF Spec, OnlyIdleClosed

-----------------------------------------------------------------------------
(***************************************************************************)
(* Idle connections are closed in time.  A slot that the test for idleness *)
(* reaches in k rounds or later may have been idle for as long as all the  *)
(* other rounds take.                                                      *)
(***************************************************************************)

\* As many slots are tested before s, when the next to test is c.
Away(c, s) == IF s >= c THEN s - c ELSE s - c + MAX_EVENTS

Allowed(k) == IDLE - 1 + (Rounds - k) * MaxLag

IdleBounded ==
  \A s \in Conns : Held(s) =>
    \A k \in Nat : k * SCAN <= Away(checkpos, s) => g_events[s].idle <= Allowed(k) + lag

\* The rounds of a lap reach every connection.
LEMMA RoundsCover ==
  Rounds \in Nat /\ Rounds * SCAN >= MAX_EVENTS
<1>1. MAX_EVENTS \in Nat \ {0} /\ SCAN \in Nat \ {0}
  BY LimitsAssumption
<1> PICK a : a = MAX_EVENTS + SCAN - 1
  OBVIOUS
<1>2. a \in Nat
  BY <1>1
<1>3. a \div SCAN \in Nat /\ a % SCAN \in 0 .. SCAN - 1 /\ a = SCAN * (a \div SCAN) + (a % SCAN)
  BY <1>1, <1>2
<1>4. Rounds = a \div SCAN
  BY DEF Rounds
<1> PICK q : q = a \div SCAN
  OBVIOUS
<1>5. SCAN * q = q * SCAN /\ SCAN * q \in Nat
  BY <1>1, <1>3
<1> QED BY <1>1, <1>3, <1>4, <1>5

\* What a slot k rounds away is allowed.
LEMMA AllowedFacts ==
  ASSUME NEW k \in Nat
  PROVE  /\ Allowed(k) \in Int /\ Allowed(k) = Allowed(k + 1) + MaxLag
         /\ (k + 1) * SCAN = k * SCAN + SCAN /\ k * SCAN \in Nat
         /\ k * SCAN < MAX_EVENTS => Allowed(k) >= IDLE
<1>1. /\ IDLE \in Nat \ {0} /\ MaxLag \in Nat \ {0} /\ SCAN \in Nat \ {0} /\ MAX_EVENTS \in Nat \ {0}
      /\ Rounds \in Nat
  BY LimitsAssumption, RoundsCover
<1>2. /\ (Rounds - k) * MaxLag \in Int /\ (Rounds - (k + 1)) * MaxLag \in Int
      /\ (Rounds - k) * MaxLag = (Rounds - (k + 1)) * MaxLag + MaxLag
  BY <1>1
<1>3. (k + 1) * SCAN = k * SCAN + SCAN /\ k * SCAN \in Nat
  BY <1>1
<1>4. ASSUME k * SCAN < MAX_EVENTS
      PROVE  (Rounds - k) * MaxLag >= MaxLag
  <2>1. Rounds > k
    <3>1. Rounds <= k => Rounds * SCAN <= k * SCAN
      BY <1>1
    <3>2. Rounds * SCAN \in Nat
      BY <1>1
    <3> QED BY <1>1, <1>3, <1>4, <3>1, <3>2, RoundsCover
  <2>2. Rounds - k \in Nat \ {0}
    BY <1>1, <2>1
  <2> QED BY <1>1, <2>2
<1> QED BY <1>1, <1>2, <1>3, <1>4 DEF Allowed

LEMMA AwayRange ==
  ASSUME NEW c \in Slots, NEW s \in Conns
  PROVE  Away(c, s) \in 0 .. MAX_EVENTS - 1
BY LimitsAssumption DEF Away, Slots, Conns

\* A slot is tested in this round, or it is SCAN slots nearer in the next.
LEMMA TestedOrNearer ==
  ASSUME checkpos \in Slots, NEW s \in Conns, s \notin Window
  PROVE  Away(NextCheckpos, s) = Away(checkpos, s) - SCAN
<1> PICK a : a = Away(checkpos, s)
  OBVIOUS
<1> PICK c : c = checkpos
  OBVIOUS
<1>1. /\ MAX_EVENTS \in Nat \ {0} /\ SCAN \in Nat \ {0} /\ c \in 0 .. MAX_EVENTS
      /\ s \in 0 .. MAX_EVENTS - 1
  BY LimitsAssumption DEF Slots, Conns
<1>2. a \in 0 .. MAX_EVENTS - 1
  BY AwayRange
<1>3. a = IF s >= c THEN s - c ELSE s - c + MAX_EVENTS
  BY DEF Away
<1>4. \A n \in 0 .. 2 * MAX_EVENTS - 1 :
        n % MAX_EVENTS = IF n < MAX_EVENTS THEN n ELSE n - MAX_EVENTS
  BY <1>1
<1>5. a >= SCAN
  <2> SUFFICES ASSUME a < SCAN PROVE FALSE
    BY <1>1, <1>2
  <2>1. c + a \in 0 .. 2 * MAX_EVENTS - 1 /\ (c + a = s \/ c + a = s + MAX_EVENTS)
    BY <1>1, <1>2, <1>3
  <2>2. (c + a) % MAX_EVENTS = s
    BY <1>1, <1>4, <2>1
  <2>3. a \in 0 .. SCAN - 1
    BY <1>1, <1>2
  <2> QED BY <2>2, <2>3 DEF Window
<1>6. SCAN < MAX_EVENTS
  BY <1>1, <1>2, <1>5
<1> PICK n : n = c + SCAN - 1
  OBVIOUS
<1>7. n \in 0 .. 2 * MAX_EVENTS - 1
  BY <1>1, <1>6
<1> PICK d : d = NextCheckpos
  OBVIOUS
<1>8. n % MAX_EVENTS = IF n < MAX_EVENTS THEN n ELSE n - MAX_EVENTS
  BY <1>4, <1>7
<1>9. d = (n % MAX_EVENTS) + 1
  BY DEF NextCheckpos
<1>10. d = IF n < MAX_EVENTS THEN n + 1 ELSE n - MAX_EVENTS + 1
  BY <1>8, <1>9
<1>11. Away(d, s) = a - SCAN
  <2>1. d = IF n < MAX_EVENTS THEN c + SCAN ELSE c + SCAN - MAX_EVENTS
    BY <1>1, <1>10
  <2>2. Away(d, s) = IF s >= d THEN s - d ELSE s - d + MAX_EVENTS
    BY DEF Away
  <2> QED BY <1>1, <1>3, <1>5, <1>6, <2>1, <2>2
<1> QED BY <1>11

\* A slot that was just written is allowed more than it needs, and so is one that was
\* tested and left.
LEMMA FreshIsBounded ==
  ASSUME NEW c \in Slots, NEW s \in Conns, NEW n \in Nat, n < IDLE, NEW l \in Nat,
         NEW k \in Nat, k * SCAN <= Away(c, s)
  PROVE  n <= Allowed(k) + l
<1>1. Away(c, s) \in 0 .. MAX_EVENTS - 1 /\ MAX_EVENTS \in Nat /\ IDLE \in Nat
  BY AwayRange, LimitsAssumption
<1>2. k * SCAN \in Nat /\ Allowed(k) \in Int
  BY AllowedFacts
<1>3. k * SCAN < MAX_EVENTS
  BY <1>1, <1>2
<1>4. Allowed(k) >= IDLE
  BY <1>3, AllowedFacts
<1> QED BY <1>1, <1>2, <1>4

-----------------------------------------------------------------------------
(***************************************************************************)
(* Every step keeps the bound.                                             *)
(***************************************************************************)

\* A handler leaves a slot that is in use as it was, or starts its time anew.
Restarts(s) == g_events'[s].status = 1 =>
  g_events'[s].idle = 0 \/ (g_events[s].status = 1 /\ g_events'[s] = g_events[s])

LEMMA ArmRestarts ==
  ASSUME g_events \in [Slots -> Events], NEW u \in Slots, NEW fd, NEW callback, NEW mask, NEW len,
         Arms(u, fd, callback, mask, len), NEW s \in Slots
  PROVE  Restarts(s)
<1>1. CASE s = u
  BY <1>1 DEF Arms, Slot, Restarts
<1>2. CASE s # u
  BY <1>2 DEF Arms, Restarts
<1> QED BY <1>1, <1>2

LEMMA DropRestarts ==
  ASSUME NEW S, Drops(S), NEW s \in Slots
  PROVE  Restarts(s)
BY DEF Drops, Restarts

LEMMA CloseRestarts ==
  ASSUME IndInv, NEW u \in Slots, g_events[u].status = 1,
         Close(EventDel(Now, {u}), {g_events[u].fd}), NEW s \in Slots
  PROVE  Restarts(s)
<1>1. {u} \in SUBSET {t \in Slots : g_events[t].status = 1}
      /\ {g_events[t].fd : t \in {u}} = {g_events[u].fd}
  OBVIOUS
<1>2. g_events \in [Slots -> Events]
  BY DEF IndInv, TypeOK
<1>3. Drops({u})
  BY <1>1, <1>2, CloseDrops
<1> QED BY <1>3, DropRestarts

LEMMA AcceptRestarts ==
  ASSUME IndInv, NEW u, AcceptConn(u), NEW s \in Slots
  PROVE  Restarts(s)
<1>0. g_events \in [Slots -> Events]
  BY DEF IndInv, TypeOK
<1>1. CASE CanAccept /\ FreeSlots # {}
           /\ Becomes(EventAdd(EventSet(Now, Min(FreeSlots), NextFd, "recvdata"),
                               Min(FreeSlots), "EPOLLIN"))
  <2> PICK k : k = Min(FreeSlots)
    OBVIOUS
  <2> PICK f : f = NextFd
    OBVIOUS
  <2>1. FreeSlots \subseteq Nat
    BY SlotNumbers DEF FreeSlots
  <2>2. k \in Slots
    BY <1>1, <2>1, LeastElement, SlotNumbers DEF FreeSlots
  <2>3. f \in Fds /\ f \notin DOMAIN watch
    BY <1>1, LowestFree, FdsAreNumbers DEF IndInv, TypeOK
  <2>4. Arms(k, f, "recvdata", "EPOLLIN", g_events[k].len)
    BY <1>0, <1>1, <2>2, <2>3, AcceptArms
  <2> QED BY <1>0, <2>2, <2>4, ArmRestarts
<1>2. CASE g_events' = g_events
  BY <1>2 DEF Restarts
<1> QED BY <1>1, <1>2 DEF AcceptConn, Becomes, Now

LEMMA HandleRestarts ==
  ASSUME IndInv, NEW e \in batch, Handle(e), NEW s \in Slots
  PROVE  Restarts(s)
<1> PICK u : u = e.ptr
  OBVIOUS
<1> PICK fd : fd = g_events[u].fd
  OBVIOUS
<1>0. u \in Slots /\ g_events[u].status = 1 /\ g_events[u].events = e.events
      /\ g_events \in [Slots -> Events]
  BY EventFacts DEF IndInv, TypeOK
<1>1. CASE AcceptConn(u)
  BY <1>1, AcceptRestarts
<1>2. CASE RecvData(u) /\ ReadBytes(u)
  <2>1. fd \in Fds
    BY <1>0, <1>2, CallbackFacts, HeldFacts DEF RecvData
  <2>2. PICK len \in Sizes : \E stored \in LenStored(len) :
          Becomes(EventAdd(EventSet([EventDel(Now, {u}) EXCEPT !.ev[u].len = stored],
                                    u, fd, "senddata"), u, "EPOLLOUT"))
    BY <1>2 DEF ReadBytes
  <2>3. PICK stored \in LenStored(len) :
          Becomes(EventAdd(EventSet([EventDel(Now, {u}) EXCEPT !.ev[u].len = stored],
                                    u, fd, "senddata"), u, "EPOLLOUT"))
    BY <2>2
  <2>4. stored \in 0 .. BUFLEN
    BY LengthStored
  <2>5. Arms(u, fd, "senddata", "EPOLLOUT", stored)
    BY <1>0, <2>1, <2>3, <2>4, ReuseArms DEF Callbacks, Masks
  <2> QED BY <1>0, <2>5, ArmRestarts
<1>3. CASE Close(EventDel(Now, {u}), {fd})
  BY <1>0, <1>3, CloseRestarts
<1>4. CASE SendData(u) /\ Becomes(Answered(EventDel(Now, {u}), u))
  <2>0. 0 \in 0 .. BUFLEN
    BY LimitsAssumption
  <2>1. fd \in Fds
    BY <1>0, <1>4, CallbackFacts, HeldFacts DEF SendData
  <2>2. EventDel(Now, {u}).ev[u].fd = fd
    BY <1>0 DEF EventDel, Unset, Now, Events
  <2>3. Becomes(EventAdd(EventSet([EventDel(Now, {u}) EXCEPT !.ev[u].len = 0],
                                  u, fd, "recvdata"), u, "EPOLLIN"))
    BY <1>4, <2>2 DEF Answered
  <2>4. Arms(u, fd, "recvdata", "EPOLLIN", 0)
    BY <1>0, <2>0, <2>1, <2>3, ReuseArms DEF Callbacks, Masks
  <2> QED BY <1>0, <2>4, ArmRestarts
<1>5. \/ AcceptConn(u)
      \/ RecvData(u) /\ ReadBytes(u)
      \/ Close(EventDel(Now, {u}), {fd})
      \/ SendData(u) /\ Becomes(Answered(EventDel(Now, {u}), u))
  BY <1>0 DEF Handle, RecvData, ReadEnd, SendData
<1> QED BY <1>1, <1>2, <1>3, <1>4, <1>5

LEMMA ScanBounds ==
  ASSUME IndInv, IdleBounded, Scan
  PROVE  IdleBounded'
<1>0. lag' = 0 /\ checkpos' = NextCheckpos /\ checkpos \in Slots /\ NextCheckpos \in Slots
  BY WindowFacts DEF Scan, IndInv, TypeOK
<1> SUFFICES ASSUME NEW s \in Conns, Held(s)', NEW k \in Nat, k * SCAN <= Away(checkpos', s)
             PROVE  g_events'[s].idle <= Allowed(k) + lag'
  BY DEF IdleBounded
<1>1. s \in Slots /\ g_events'[s].status = 1
  BY SlotNumbers DEF Held
<1>2. s \notin Expired /\ g_events[s].status = 1 /\ g_events'[s] = g_events[s]
  BY <1>1, ScanCloses DEF Drops
<1> PICK n : n = g_events[s].idle
  OBVIOUS
<1>3. n \in Nat
  BY <1>1 DEF IndInv, TypeOK, Events
<1>4. CASE s \in Window
  <2>1. n < IDLE
    BY <1>2, <1>3, <1>4, LimitsAssumption DEF Expired
  <2> QED BY <1>0, <1>2, <1>3, <2>1, FreshIsBounded
<1>5. CASE s \notin Window
  <2> PICK a : a = Away(checkpos, s)
    OBVIOUS
  <2>1. Away(checkpos', s) = a - SCAN /\ a \in 0 .. MAX_EVENTS - 1
    BY <1>0, <1>5, TestedOrNearer, AwayRange
  <2>2. SCAN \in Nat /\ MaxLag \in Nat /\ MAX_EVENTS \in Nat /\ lag \in 0 .. MaxLag
    BY LimitsAssumption DEF IndInv, TypeOK
  <2>3. (k + 1) * SCAN = k * SCAN + SCAN /\ k * SCAN \in Nat /\ k + 1 \in Nat
        /\ Allowed(k) \in Int /\ Allowed(k) = Allowed(k + 1) + MaxLag
    BY AllowedFacts
  <2>4. (k + 1) * SCAN <= a
    BY <2>1, <2>2, <2>3
  <2>5. n <= Allowed(k + 1) + lag
    BY <1>2, <2>3, <2>4 DEF IdleBounded, Held
  <2>6. Allowed(k + 1) \in Int
    BY <2>3, AllowedFacts
  <2> QED BY <1>0, <1>2, <1>3, <2>2, <2>3, <2>5, <2>6
<1> QED BY <1>4, <1>5

LEMMA ElapseBounds ==
  ASSUME IndInv, IdleBounded, Elapse
  PROVE  IdleBounded'
<1>0. lag' = lag + 1 /\ checkpos' = checkpos /\ lag \in Nat
  BY LimitsAssumption DEF Elapse, IndInv, TypeOK
<1> SUFFICES ASSUME NEW s \in Conns, Held(s)', NEW k \in Nat, k * SCAN <= Away(checkpos', s)
             PROVE  g_events'[s].idle <= Allowed(k) + lag'
  BY DEF IdleBounded
<1>1. s \in Slots /\ g_events[s] \in Events /\ g_events'[s].status = 1
  BY SlotNumbers DEF Held, IndInv, TypeOK
<1>2. g_events'[s] = IF g_events[s].status = 1 THEN [g_events[s] EXCEPT !.idle = @ + 1]
                                               ELSE g_events[s]
  BY <1>1 DEF Elapse
<1> PICK n : n = g_events[s].idle
  OBVIOUS
<1>3. n \in Nat /\ g_events[s].status = 1 /\ g_events'[s].idle = n + 1
  BY <1>1, <1>2 DEF Events
<1>4. n <= Allowed(k) + lag
  BY <1>0, <1>3 DEF IdleBounded, Held
<1>5. Allowed(k) \in Int
  BY AllowedFacts
<1> QED BY <1>0, <1>3, <1>4, <1>5

LEMMA StepBounds ==
  ASSUME IndInv, IdleBounded, [Next]_vars
  PROVE  IdleBounded'
<1>1. CASE \E e \in batch : Handle(e)
  <2> PICK e \in batch : Handle(e)
    BY <1>1
  <2>0. checkpos' = checkpos /\ lag' = lag /\ checkpos \in Slots /\ lag \in Nat
    BY LimitsAssumption DEF Handle, IndInv, TypeOK
  <2> SUFFICES ASSUME NEW s \in Conns, Held(s)', NEW k \in Nat, k * SCAN <= Away(checkpos', s)
               PROVE  g_events'[s].idle <= Allowed(k) + lag'
    BY DEF IdleBounded
  <2>1. s \in Slots /\ g_events'[s].status = 1
    BY SlotNumbers DEF Held
  <2>2. CASE g_events'[s].idle = 0
    <3>1. 0 \in Nat /\ 0 < IDLE
      BY LimitsAssumption
    <3>2. 0 <= Allowed(k) + lag
      BY <2>0, <3>1, FreshIsBounded
    <3> QED BY <2>0, <2>2, <3>2
  <2>3. CASE g_events[s].status = 1 /\ g_events'[s] = g_events[s]
    BY <2>0, <2>3 DEF IdleBounded, Held
  <2> QED BY <2>1, <2>2, <2>3, HandleRestarts DEF Restarts
<1>4. CASE \E e \in batch : Killed(e)
  <2> PICK e \in batch : Killed(e)
    BY <1>4
  <2>0. Drops({s \in Conns : g_events[s].status = 1})
    BY KilledDrops
  <2>1. ASSUME NEW s \in Conns PROVE ~Held(s)'
    <3>1. s \in Slots
      BY SlotNumbers
    <3>2. g_events'[s].status = 0
      BY <2>0, <3>1 DEF Drops
    <3> QED BY <3>2 DEF Held
  <2> QED BY <2>1 DEF IdleBounded
<1>2. CASE UNCHANGED <<g_events, checkpos, lag>>
  BY <1>2 DEF IdleBounded, Held
<1>3. CASE EpollWait \/ BatchDone \/ Clients \/ UNCHANGED vars
  BY <1>2, <1>3 DEF EpollWait, BatchDone, Clients, vars
<1> QED BY <1>1, <1>4, <1>3, ScanBounds, ElapseBounds DEF Next, Loop

\* A connection is closed at most a lap of the table after it has been idle for IDLE
\* seconds, for any number of slots and any number tested in a round; a lap that does
\* not come out even has a shorter round, that is counted as a whole one.
THEOREM IdleAreClosed == Spec => []IdleSoonClosed
<1>1. Init => IdleBounded
  <2> SUFFICES ASSUME Init PROVE IdleBounded
    OBVIOUS
  <2> SUFFICES ASSUME NEW s \in Conns, g_events[s].status = 1 PROVE FALSE
    BY DEF IdleBounded, Held
  <2>1. IndInv /\ s \in Slots /\ MAX_EVENTS \in Slots /\ s # MAX_EVENTS
    BY InitIsSound, SlotNumbers
  <2>2. DOMAIN watch = {ListenFd}
    BY DEF Init
  <2>3. g_events[s].fd = ListenFd
    BY <2>1, <2>2, HeldFacts
  <2>4. g_events[MAX_EVENTS].status = 1 /\ g_events[MAX_EVENTS].fd = ListenFd
    BY <2>1 DEF IndInv, ListenSlot
  <2>5. IndInv /\ s \in Slots
    BY <2>1
  <2>6. \A u \in Slots : g_events[u].status = 1 /\ g_events[u].fd = g_events[s].fd => u = s
    BY <2>5, HeldFacts
  <2> QED BY <2>1, <2>3, <2>4, <2>6
<1>2. IndInv /\ IdleBounded /\ [Next]_vars => IdleBounded'
  BY StepBounds
<1>3. IndInv /\ IdleBounded => IdleSoonClosed
  <2> SUFFICES ASSUME IndInv, IdleBounded, NEW s \in Conns, Held(s)
               PROVE  g_events[s].idle < IDLE + (Rounds + 1) * MaxLag
    BY DEF IdleSoonClosed
  <2>1. Away(checkpos, s) \in 0 .. MAX_EVENTS - 1 /\ lag \in 0 .. MaxLag
    BY AwayRange DEF IndInv, TypeOK
  <2>2. MaxLag \in Nat /\ IDLE \in Nat /\ SCAN \in Nat /\ Rounds \in Nat /\ MAX_EVENTS \in Nat
    BY LimitsAssumption, RoundsCover
  <2>3. 0 \in Nat /\ 0 * SCAN <= Away(checkpos, s)
    BY <2>1, <2>2
  <2>4. g_events[s].idle <= Allowed(0) + lag
    BY <2>3 DEF IdleBounded
  <2>5. Allowed(0) = IDLE - 1 + Rounds * MaxLag
    BY <2>2 DEF Allowed
  <2>6. (Rounds + 1) * MaxLag = Rounds * MaxLag + MaxLag /\ Rounds * MaxLag \in Nat
    BY <2>2
  <2>7. g_events[s].idle \in Nat
    BY SlotNumbers DEF IndInv, TypeOK, Events
  <2> QED BY <2>1, <2>2, <2>4, <2>5, <2>6, <2>7
<1> QED BY <1>1, <1>2, <1>3, InductiveInvariant, PTL DEF Spec

=============================================================================
