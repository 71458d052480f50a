---------------------------- MODULE ServersProofs ----------------------------
(***************************************************************************)
(* Proofs about the select(), poll() and signal servers, on the kernel of  *)
(* Sockets, for any number of descriptors, entries and signals.            *)
(***************************************************************************)
EXTENDS MCServers, WellFoundedInduction, TLAPS

(***************************************************************************)
(* The inductive invariant.                                                *)
(***************************************************************************)

\* Only one of the servers runs.
OneRuns ==
  /\ select_pc = "stopped" \/ poll_pc = "stopped"
  /\ select_pc = "stopped" \/ signal_pc = "stopped"
  /\ poll_pc = "stopped" \/ signal_pc = "stopped"

\* The table of select()'s server holds open descriptors, each once, and behind
\* conn_amount nothing.
TableSound ==
  /\ 0 \in open
  /\ \A k \in Entries : client_sockfd[k] # 0 => client_sockfd[k] \in open /\ k < conn_amount
  /\ \A j, k \in Entries : client_sockfd[j] = client_sockfd[k] /\ j # k => client_sockfd[j] = 0
  /\ \A f \in open \ {0} : (\E k \in Entries : client_sockfd[k] = f) \/ conn_amount = CLIENTS

\* The clients that the scan has still to come to are readable if select() said so.
SetReadable ==
  /\ 0 \notin client_fdset
  /\ select_pc = "scan" =>
       \A k \in Entries : k >= i /\ client_sockfd[k] \in client_fdset =>
         unread[client_sockfd[k]] > 0 \/ client_sockfd[k] \in ended

\* select() looks at every client but the one that is greeted.
Looked ==
  \A k \in Entries :
    select_pc # "greet" \/ k # conn_amount - 1 => client_sockfd[k] <= maxsock

Greeted == select_pc = "greet" => conn_amount > 0 /\ sock_client # 0

\* As long as no client has left, accept() has given every descriptor up to the last.
NoneLeft == \A k \in Entries : k < conn_amount => client_sockfd[k] # 0
Dense ==
  NoneLeft => /\ select_pc = "greet" => Fresh
              /\ \A f \in Fds : f <= (IF select_pc = "greet" THEN sock_client ELSE maxsock) => f \in open

SelectInd ==
  select_pc # "stopped" => TableSound /\ SetReadable /\ Looked /\ Greeted /\ Dense

\* Whatever poll()'s server accepts, its entries name descriptor 0.
PollInd == \A k \in Clients : clientfds[k] \in {-1, 0}

\* The signal server stops only if it was asked to.
SignalInd ==
  /\ signal_pc # "dispatch" => batch = {}
  /\ (\E k \in 1 .. Len(pipe) : pipe[k] = "SIGTERM") => asked
  /\ stop_server => asked

IndInv == TypeOK /\ OneRuns /\ SelectInd /\ PollInd /\ SignalInd


-----------------------------------------------------------------------------
(***************************************************************************)
(* Descriptors.                                                            *)
(***************************************************************************)

\* Descriptors are numbers, and none is the listening socket's.
LEMMA FdsAreNumbers ==
  /\ Fds \subseteq Nat /\ ListenFd \in Nat \ {0} /\ 0 \in Fds /\ ListenFd \notin Fds
  /\ \A f \in Fds : f # 0 => f > ListenFd
BY FdsAssumption, TerminalAssumption

\* A set of numbers that is not empty has a least one.
LEMMA LeastElement ==
  ASSUME NEW S, S \subseteq Nat, S # {}
  PROVE  Min(S) \in S /\ \A x \in S : Min(S) <= x
<1> DEFINE less == {p \in Nat \X Nat : p[1] < p[2]}
<1>1. less = OpToRel(<, Nat)
  BY Zenon DEF OpToRel
<1>2. \A a, b \in Nat : a < b => <<a, b>> \in less
  OBVIOUS
<1>3. PICK m \in S : \A y \in S : ~(<<y, m>> \in less)
  <2> HIDE DEF less
  <2> QED BY <1>1, NatLessThanWellFounded, WFMin
<1>4. ASSUME NEW y \in S PROVE m <= y
  <2> HIDE DEF less
  <2>1. ~(y < m)
    BY <1>2, <1>3
  <2> QED BY <2>1
<1> QED BY <1>4 DEF Min

\* accept() returns a descriptor that is free, and all below it are in use.
LEMMA LowestFree ==
  ASSUME KernelOK, CanAccept
  PROVE  /\ NextFd \in Fds \ open
         /\ \A f \in Fds : f < NextFd => f \in open
<1>1. Fds \ open # {} /\ Fds \ open \subseteq Nat
  BY FdsAreNumbers DEF KernelOK, CanAccept
<1>2. NextFd \in Fds \ open /\ \A x \in Fds \ open : NextFd <= x
  BY <1>1, LeastElement DEF NextFd
<1> QED BY <1>2, FdsAreNumbers

-----------------------------------------------------------------------------
(***************************************************************************)
(* What the kernel does keeps its state well typed.                        *)
(***************************************************************************)

LEMMA KernelConnect ==
  ASSUME KernelOK, Connect
  PROVE  KernelOK'
BY DEF KernelOK, Connect

LEMMA KernelSends ==
  ASSUME KernelOK, NEW f, ClientSends(f)
  PROVE  KernelOK'
BY UnreadAssumption DEF KernelOK, ClientSends

LEMMA KernelEnds ==
  ASSUME KernelOK, NEW f, ClientEnds(f)
  PROVE  KernelOK'
BY UnreadAssumption DEF KernelOK, ClientEnds

LEMMA KernelAccepts ==
  ASSUME KernelOK, CanAccept, Accepted, UNCHANGED <<ended, unread>>
  PROVE  KernelOK'
<1>1. NextFd \in Fds
  BY LowestFree
<1> QED BY <1>1 DEF KernelOK, CanAccept, Accepted

LEMMA KernelReceives ==
  ASSUME KernelOK, NEW f \in Fds, Received(f), UNCHANGED <<backlog, open, ended>>
  PROVE  KernelOK'
BY UnreadAssumption DEF KernelOK, Received

LEMMA KernelShuts ==
  ASSUME KernelOK, NEW gone, Shut(gone), UNCHANGED backlog \/ backlog' = 0
  PROVE  KernelOK'
BY UnreadAssumption DEF KernelOK, Shut

-----------------------------------------------------------------------------
(***************************************************************************)
(* The server with select(): each action preserves its part of IndInv.     *)
(***************************************************************************)

SelectParts == TableSound /\ SetReadable /\ Looked /\ Greeted /\ Dense
SelectWell == KernelOK /\ SelectTypeOK /\ SelectParts

LEMMA SelectKeeps ==
  ASSUME SelectWell, Select
  PROVE  SelectWell'
<1> USE DEF SelectWell, SelectParts, Select
<1>1. KernelOK' /\ SelectTypeOK'
  <2>1. KernelOK'
    BY DEF kernel, KernelOK
  <2>2. client_fdset' \subseteq Fds \cup {ListenFd}
    BY DEF SelectTypeOK, Table
  <2> QED BY <2>1, <2>2, ClientsAssumption DEF SelectTypeOK
<1>2. TableSound'
  BY DEF TableSound, kernel
<1>3. SetReadable'
  <2>1. 0 \notin client_fdset'
    BY FdsAreNumbers DEF Table
  <2>2. \A k \in Entries : client_sockfd[k] \in client_fdset' =>
          unread[client_sockfd[k]] > 0 \/ client_sockfd[k] \in ended
    BY FdsAreNumbers DEF SelectTypeOK, Readable
  <2> QED BY <2>1, <2>2 DEF SetReadable, kernel
<1>4. Looked' /\ Greeted'
  BY DEF Looked, Greeted
<1>5. Dense'
  BY DEF Dense, NoneLeft, kernel
<1> QED BY <1>1, <1>2, <1>3, <1>4, <1>5

LEMMA SkipKeeps ==
  ASSUME SelectWell, SkipClient
  PROVE  SelectWell'
<1> USE DEF SelectWell, SelectParts, SkipClient, Scanned, More
<1>1. KernelOK' /\ SelectTypeOK'
  BY ClientsAssumption DEF KernelOK, SelectTypeOK, kernel
<1>2. TableSound'
  BY DEF TableSound, kernel
<1>3. SetReadable'
  BY DEF SetReadable, kernel, SelectTypeOK, Entries
<1>4. Looked' /\ Greeted'
  BY DEF Looked, Greeted
<1>5. Dense'
  BY DEF Dense, NoneLeft, kernel
<1> QED BY <1>1, <1>2, <1>3, <1>4, <1>5

LEMMA DoneKeeps ==
  ASSUME SelectWell, ScanDone
  PROVE  SelectWell'
<1> USE DEF SelectWell, SelectParts, ScanDone, Again
<1>1. KernelOK' /\ SelectTypeOK'
  BY ClientsAssumption DEF KernelOK, SelectTypeOK, kernel
<1>2. TableSound'
  BY DEF TableSound, kernel
<1>3. SetReadable'
  BY DEF SetReadable
<1>4. Looked' /\ Greeted'
  BY DEF Looked, Greeted
<1>5. Dense'
  BY DEF Dense, NoneLeft, kernel
<1> QED BY <1>1, <1>2, <1>3, <1>4, <1>5

\* The entry at which the scan is.
LEMMA EntryFacts ==
  ASSUME SelectWell, Scanned
  PROVE  i \in Entries /\ client_sockfd[i] \in Fds /\ i + 1 \in 0 .. CLIENTS
BY ClientsAssumption DEF SelectWell, SelectTypeOK, Scanned, More, Entries

LEMMA ReceiveKeeps ==
  ASSUME SelectWell, Scanned, IsSet, Received(client_sockfd[i]),
         UNCHANGED <<backlog, open, ended, client_sockfd, client_fdset, select_pc,
                     conn_amount, maxsock>>, i' = i + 1
  PROVE  SelectWell'
<1> USE DEF SelectWell, SelectParts
<1> PICK f : f = client_sockfd[i]
  OBVIOUS
<1>0. i \in Entries /\ f \in Fds /\ i + 1 \in 0 .. CLIENTS
  BY EntryFacts
<1>1. KernelOK' /\ SelectTypeOK'
  BY <1>0, KernelReceives DEF SelectTypeOK
<1>2. TableSound'
  BY DEF TableSound
<1>3. SetReadable'
  <2> SUFFICES ASSUME NEW k \in Entries, k >= i', client_sockfd[k] \in client_fdset
               PROVE  unread'[client_sockfd[k]] > 0 \/ client_sockfd[k] \in ended
    BY DEF SetReadable
  <2>1. k >= i /\ k # i
    BY <1>0 DEF Entries
  <2>2. client_sockfd[k] # 0
    BY DEF SetReadable
  <2>3. client_sockfd[k] # f
    BY <1>0, <2>1, <2>2 DEF TableSound
  <2>4. unread[client_sockfd[k]] > 0 \/ client_sockfd[k] \in ended
    BY <2>1 DEF SetReadable, Scanned
  <2>5. unread' = [unread EXCEPT ![f] = @ - 1] /\ client_sockfd[k] \in Fds
    BY DEF Received, SelectTypeOK
  <2> QED BY <2>3, <2>4, <2>5 DEF KernelOK
<1>4. Looked' /\ Greeted'
  BY DEF Looked, Greeted, Scanned
<1>5. Dense'
  BY DEF Dense, NoneLeft, Scanned
<1> QED BY <1>1, <1>2, <1>3, <1>4, <1>5

LEMMA CloseKeeps ==
  ASSUME SelectWell, Scanned, IsSet, RecvClose,
         UNCHANGED <<backlog, select_pc, conn_amount, maxsock>>, i' = i + 1
  PROVE  SelectWell'
<1> USE DEF SelectWell, SelectParts
<1> PICK f : f = client_sockfd[i]
  OBVIOUS
<1>0. i \in Entries /\ f \in Fds /\ i + 1 \in 0 .. CLIENTS
  BY EntryFacts
<1>a. f # 0 /\ f \in client_fdset
  BY DEF SetReadable, IsSet
<1>b. /\ open' = open \ {f} /\ ended' = ended \ {f}
      /\ unread' = [g \in Fds |-> IF g \in {f} THEN 0 ELSE unread[g]]
  BY DEF RecvClose, Shut
<1>c. /\ client_sockfd' = [client_sockfd EXCEPT ![i] = 0]
      /\ client_fdset' = client_fdset \ {f}
  BY DEF RecvClose
<1>d. \A k \in Entries : client_sockfd'[k] = IF k = i THEN 0 ELSE client_sockfd[k]
  BY <1>c DEF SelectTypeOK
<1>e. \A k \in Entries : k # i => client_sockfd[k] # f
  BY <1>0, <1>a DEF TableSound
<1>1. KernelOK' /\ SelectTypeOK'
  <2>1. KernelOK'
    BY KernelShuts DEF RecvClose
  <2>2. client_sockfd' \in [Entries -> Fds]
    BY <1>c, FdsAreNumbers DEF SelectTypeOK
  <2> QED BY <2>1, <2>2, <1>0, <1>c DEF SelectTypeOK
<1>2. TableSound'
  <2>1. 0 \in open'
    BY <1>a, <1>b DEF TableSound
  <2>2. ASSUME NEW k \in Entries, client_sockfd'[k] # 0
        PROVE  client_sockfd'[k] \in open' /\ k < conn_amount
    BY <1>b, <1>d, <1>e, <2>2 DEF TableSound
  <2>3. \A j, k \in Entries :
          client_sockfd'[j] = client_sockfd'[k] /\ j # k => client_sockfd'[j] = 0
    BY <1>d DEF TableSound
  <2>4. ASSUME NEW g \in open' \ {0}
        PROVE  (\E k \in Entries : client_sockfd'[k] = g) \/ conn_amount = CLIENTS
    BY <1>b, <1>d, <2>4 DEF TableSound
  <2> QED BY <2>1, <2>2, <2>3, <2>4 DEF TableSound
<1>3. SetReadable'
  <2>1. 0 \notin client_fdset'
    BY <1>c DEF SetReadable
  <2>2. ASSUME NEW k \in Entries, k >= i', client_sockfd'[k] \in client_fdset'
        PROVE  unread'[client_sockfd'[k]] > 0 \/ client_sockfd'[k] \in ended'
    <3>1. k >= i /\ k # i
      BY <1>0, <2>2 DEF Entries
    <3>2. client_sockfd'[k] = client_sockfd[k] /\ client_sockfd[k] # f
      BY <1>d, <1>e, <3>1
    <3>3. unread[client_sockfd[k]] > 0 \/ client_sockfd[k] \in ended
      BY <2>2, <3>1, <3>2, <1>c DEF SetReadable, Scanned
    <3>4. client_sockfd[k] \in Fds
      BY DEF SelectTypeOK
    <3> QED BY <1>b, <3>2, <3>3, <3>4
  <2> QED BY <2>1, <2>2 DEF SetReadable
<1>4. Looked' /\ Greeted'
  BY <1>d, FdsAreNumbers DEF Looked, Greeted, Scanned, SelectTypeOK
<1>5. Dense'
  <2>1. client_sockfd'[i] = 0 /\ i < conn_amount
    BY <1>0, <1>d DEF Scanned, More
  <2> QED BY <1>0, <2>1 DEF Dense, NoneLeft
<1> QED BY <1>1, <1>2, <1>3, <1>4, <1>5

LEMMA AcceptKeeps ==
  ASSUME SelectWell, AcceptClient
  PROVE  SelectWell'
<1> USE DEF SelectWell, SelectParts
<1>0. KernelOK'
  BY KernelAccepts DEF AcceptClient, KernelOK
<1>1. CASE CanAccept /\ HasRoom
  <2> PICK f : f = NextFd
    OBVIOUS
  <2> PICK c : c = conn_amount
    OBVIOUS
  <2>1. /\ f \in Fds \ open /\ f # 0 /\ f \in Nat
        /\ \A g \in Fds : g < f => g \in open
    BY <1>1, LowestFree, FdsAreNumbers DEF TableSound
  <2>2. c \in Entries /\ c + 1 \in 0 .. CLIENTS /\ c < CLIENTS
    BY <1>1, ClientsAssumption DEF HasRoom, SelectTypeOK, Entries
  <2>3. /\ select_pc = "scan" /\ select_pc' = "greet"
        /\ client_sockfd' = [client_sockfd EXCEPT ![c] = f] /\ conn_amount' = c + 1
        /\ open' = open \cup {f}
        /\ UNCHANGED <<client_fdset, i, maxsock>>
    BY <1>1 DEF AcceptClient, Accepted
  <2>4. \A k \in Entries : client_sockfd'[k] = IF k = c THEN f ELSE client_sockfd[k]
    BY <2>3 DEF SelectTypeOK
  <2>5. client_sockfd[c] = 0
    BY <2>2 DEF TableSound, Entries
  <2>6. sock_client' = f
    BY <2>2, <2>3, <2>4 DEF sock_client, Entries
  <2>7. maxsock \in Nat /\ \A g \in Fds : g \in Nat
    BY FdsAreNumbers DEF SelectTypeOK
  <2>8. SelectTypeOK'
    BY <2>1, <2>2, <2>3 DEF SelectTypeOK
  <2>9. TableSound'
    <3>1. 0 \in open'
      BY <2>3 DEF TableSound
    <3>2. ASSUME NEW k \in Entries, client_sockfd'[k] # 0
          PROVE  client_sockfd'[k] \in open' /\ k < conn_amount'
      <4>1. CASE k = c
        BY <4>1, <2>2, <2>3, <2>4 DEF Entries
      <4>2. CASE k # c
        <5>1. client_sockfd[k] \in open /\ k < c
          BY <4>2, <3>2, <2>4 DEF TableSound
        <5> QED BY <4>2, <5>1, <2>2, <2>3, <2>4 DEF Entries
      <4> QED BY <4>1, <4>2
    <3>3. ASSUME NEW j \in Entries, NEW k \in Entries,
                 client_sockfd'[j] = client_sockfd'[k], j # k
          PROVE  client_sockfd'[j] = 0
      BY <3>3, <2>1, <2>4 DEF TableSound
    <3>4. ASSUME NEW g \in open' \ {0}
          PROVE  \E k \in Entries : client_sockfd'[k] = g
      <4>1. CASE g = f
        BY <4>1, <2>2, <2>4
      <4>2. CASE g # f
        <5>1. PICK k \in Entries : client_sockfd[k] = g
          BY <4>2, <2>2, <2>3, ClientsAssumption DEF TableSound
        <5> QED BY <5>1, <2>4, <2>5
      <4> QED BY <4>1, <4>2
    <3> QED BY <3>1, <3>2, <3>3, <3>4 DEF TableSound
  <2>10. SetReadable'
    BY <2>3 DEF SetReadable
  <2>11. Looked'
    BY <2>2, <2>3, <2>4 DEF Looked, Entries
  <2>12. Greeted'
    BY <2>1, <2>2, <2>3, <2>6 DEF Greeted, Entries
  <2>13. Dense'
    <3> SUFFICES ASSUME NoneLeft'
                 PROVE  f > maxsock /\ \A g \in Fds : g <= f => g \in open'
      BY <2>3, <2>6 DEF Dense, Fresh
    <3>1. NoneLeft
      <4> SUFFICES ASSUME NEW k \in Entries, k < c PROVE client_sockfd[k] # 0
        BY DEF NoneLeft
      <4>1. k # c /\ k < c + 1
        BY <2>2 DEF Entries
      <4> QED BY <4>1, <2>3, <2>4 DEF NoneLeft
    <3>2. \A g \in Fds : g <= maxsock => g \in open
      BY <3>1, <2>3 DEF Dense
    <3> QED BY <3>2, <2>1, <2>3, <2>7
  <2> QED BY <1>0, <2>8, <2>9, <2>10, <2>11, <2>12, <2>13
<1>2. CASE ~(CanAccept /\ HasRoom)
  <2>1. /\ select_pc' = "select" /\ client_fdset' = {} /\ i' = 0
        /\ UNCHANGED <<client_sockfd, conn_amount, maxsock>>
    BY <1>2 DEF AcceptClient, Again
  <2>2. select_pc = "scan" /\ open \subseteq open'
    BY DEF AcceptClient, Accepted
  <2>3. open' = open \/ conn_amount = CLIENTS
    BY <1>2, ClientsAssumption DEF AcceptClient, HasRoom, SelectTypeOK
  <2>4. SelectTypeOK'
    BY <2>1, ClientsAssumption DEF SelectTypeOK
  <2>5. TableSound'
    BY <2>1, <2>2, <2>3 DEF TableSound
  <2>6. SetReadable' /\ Looked' /\ Greeted'
    BY <2>1, <2>2 DEF SetReadable, Looked, Greeted
  <2>7. Dense'
    BY <2>1, <2>2 DEF Dense, NoneLeft
  <2> QED BY <1>0, <2>4, <2>5, <2>6, <2>7
<1> QED BY <1>1, <1>2

LEMMA GreetKeeps ==
  ASSUME SelectWell, Greet
  PROVE  SelectWell'
<1> USE DEF SelectWell, SelectParts
<1> PICK f : f = sock_client
  OBVIOUS
<1>0. /\ select_pc = "greet" /\ select_pc' = "select" /\ client_fdset' = {} /\ i' = 0
      /\ f > maxsock /\ maxsock' = f
      /\ UNCHANGED <<open, client_sockfd, conn_amount>>
  BY DEF Greet, Again, Fresh, kernel
<1>1. conn_amount - 1 \in Entries /\ f \in Fds /\ f = client_sockfd[conn_amount - 1]
  BY <1>0, ClientsAssumption DEF Greeted, SelectTypeOK, Entries, sock_client
<1>2. maxsock \in Nat /\ \A g \in Fds : g \in Nat
  BY FdsAreNumbers DEF SelectTypeOK
<1>3. KernelOK'
  BY <1>1, KernelReceives DEF Greet, KernelOK, kernel
<1>4. SelectTypeOK'
  BY <1>0, <1>1, ClientsAssumption DEF SelectTypeOK
<1>5. TableSound'
  BY <1>0 DEF TableSound
<1>6. SetReadable' /\ Greeted'
  BY <1>0 DEF SetReadable, Greeted
<1>7. Looked'
  <2> SUFFICES ASSUME NEW k \in Entries PROVE client_sockfd[k] <= f
    BY <1>0 DEF Looked
  <2>1. k # conn_amount - 1 => client_sockfd[k] <= maxsock
    BY DEF Looked
  <2>2. client_sockfd[k] \in Nat
    BY <1>2 DEF SelectTypeOK
  <2> QED BY <1>0, <1>1, <1>2, <2>1, <2>2
<1>8. Dense'
  BY <1>0 DEF Dense, NoneLeft
<1> QED BY <1>3, <1>4, <1>5, <1>6, <1>7, <1>8

LEMMA StopKeeps ==
  ASSUME SelectWell, GreetStops
  PROVE  KernelOK' /\ SelectTypeOK' /\ select_pc' = "stopped"
<1>1. KernelOK'
  BY KernelShuts DEF SelectWell, GreetStops, SelectStops, Exit
<1> QED BY <1>1, ClientsAssumption DEF SelectWell, GreetStops, SelectStops, SelectTypeOK

LEMMA SelectClientsKeep ==
  ASSUME SelectWell, SelectClients
  PROVE  SelectWell'
<1> USE DEF SelectWell, SelectParts
<1>0. KernelOK'
  BY KernelConnect, KernelSends, KernelEnds DEF SelectClients
<1>1. open' = open /\ UNCHANGED <<client_sockfd, conn_amount, maxsock, client_fdset, i, select_pc>>
  BY DEF SelectClients, selectVars, Connect, ClientSends, ClientEnds
<1>2. SelectTypeOK'
  BY <1>1 DEF SelectTypeOK
<1>3. TableSound'
  BY <1>1 DEF TableSound
<1>4. \A g \in Fds : unread[g] > 0 \/ g \in ended => unread'[g] > 0 \/ g \in ended'
  <2>1. CASE Connect
    BY <2>1 DEF Connect
  <2>2. ASSUME NEW f \in Table, ClientSends(f)
        PROVE  \A g \in Fds : unread[g] > 0 \/ g \in ended => unread'[g] > 0 \/ g \in ended'
    BY <2>2 DEF ClientSends, KernelOK
  <2>3. ASSUME NEW f \in Table, ClientEnds(f)
        PROVE  \A g \in Fds : unread[g] > 0 \/ g \in ended => unread'[g] > 0 \/ g \in ended'
    BY <2>3 DEF ClientEnds, KernelOK
  <2> QED BY <2>1, <2>2, <2>3 DEF SelectClients
<1>5. SetReadable'
  BY <1>1, <1>4 DEF SetReadable, SelectTypeOK
<1>6. Looked' /\ Greeted'
  BY <1>1 DEF Looked, Greeted, sock_client
<1>7. Dense'
  BY <1>1 DEF Dense, NoneLeft, Fresh, sock_client
<1> QED BY <1>0, <1>2, <1>3, <1>5, <1>6, <1>7

-----------------------------------------------------------------------------
(***************************************************************************)
(* The server with poll().                                                 *)
(***************************************************************************)

PollWell == KernelOK /\ PollTypeOK /\ PollInd

\* The first unused entry of clientfds.
LEMMA FirstUnused ==
  ASSUME Unused # {}
  PROVE  Min(Unused) \in Clients
<1>1. Unused \subseteq Nat /\ Unused \subseteq Clients
  BY DEF Unused, Clients
<1> QED BY <1>1, LeastElement

\* The entry at which the loop is, if it is ready, names descriptor 0.
LEMMA ReadyIsTerminal ==
  ASSUME PollWell, AtEntry, IsReady
  PROVE  next \in Clients /\ next + 1 \in 1 .. OPEN_MAX /\ clientfds[next] = 0
<1>1. next \in Clients /\ next + 1 \in 1 .. OPEN_MAX
  BY OpenMaxAssumption DEF PollWell, PollTypeOK, AtEntry, Clients
<1> QED BY <1>1 DEF PollWell, PollInd, IsReady

LEMMA PollKeeps ==
  ASSUME PollWell, PollNext
  PROVE  PollWell'
<1> USE DEF PollWell
<1>1. CASE Poll
  <2>1. pollin' \subseteq Clients /\ poll_pc' \in {"accept", "read"}
    BY <1>1, OpenMaxAssumption DEF Poll, PollTypeOK, Clients
  <2>3. more' \in BOOLEAN
    BY <1>1, Zenon DEF Poll
  <2>2. UNCHANGED <<backlog, open, ended, unread, clientfds, maxi, next, terminal>>
    BY <1>1 DEF Poll, kernel
  <2> QED BY <2>1, <2>2, <2>3 DEF KernelOK, PollTypeOK, PollInd
<1>2. CASE AcceptNew
  <2> PICK k : k = Min(Unused)
    OBVIOUS
  <2>1. k \in Clients
    BY <1>2, FirstUnused DEF AcceptNew
  <2>2. /\ clientfds' = [clientfds EXCEPT ![k] = 0]
        /\ pollin' = pollin \/ pollin' = pollin \cup {k}
        /\ maxi' = k \/ maxi' = maxi
    BY <1>2 DEF AcceptNew, connfd
  <2>3. /\ poll_pc' \in {"read", "poll"}
        /\ UNCHANGED <<more, next, terminal>>
    BY <1>2 DEF AcceptNew
  <2>4. KernelOK'
    BY <1>2, KernelAccepts DEF AcceptNew
  <2>5. clientfds' \in [Clients -> {-1} \cup Fds] /\ PollInd'
    BY <2>1, <2>2, FdsAreNumbers DEF PollTypeOK, PollInd
  <2>6. maxi' \in 0 .. OPEN_MAX - 1
    BY <2>1, <2>2, OpenMaxAssumption DEF PollTypeOK, Clients
  <2>7. pollin' \subseteq Clients
    BY <2>1, <2>2 DEF PollTypeOK
  <2> QED BY <2>3, <2>4, <2>5, <2>6, <2>7 DEF PollTypeOK
<1>3. CASE AcceptFails \/ Killed
  <2>1. PollStops /\ UNCHANGED <<clientfds, maxi, terminal>>
    BY <1>3 DEF AcceptFails, Killed
  <2>2. KernelOK'
    BY <2>1, KernelShuts DEF PollStops, Exit
  <2>3. more' \in BOOLEAN
    BY <2>1, Zenon DEF PollStops
  <2> QED BY <2>1, <2>2, <2>3, OpenMaxAssumption DEF PollStops, PollTypeOK, PollInd
<1>4. CASE SkipEntry
  <2>1. next + 1 \in 1 .. OPEN_MAX
    BY <1>4, OpenMaxAssumption DEF SkipEntry, AtEntry, PollTypeOK
  <2> QED BY <1>4, <2>1 DEF SkipEntry, kernel, KernelOK, PollTypeOK, PollInd
<1>5. CASE Echo
  <2>1. next + 1 \in 1 .. OPEN_MAX /\ clientfds[next] \in Fds
    BY <1>5, ReadyIsTerminal, FdsAreNumbers DEF Echo
  <2>2. KernelOK'
    BY <1>5, <2>1, KernelReceives DEF Echo, KernelOK
  <2> QED BY <1>5, <2>1, <2>2 DEF Echo, PollTypeOK, PollInd
<1>6. CASE EntryEnds
  <2>1. next \in Clients /\ next + 1 \in 1 .. OPEN_MAX
    BY <1>6, ReadyIsTerminal DEF EntryEnds
  <2>2. KernelOK'
    BY <1>6, KernelShuts DEF EntryEnds
  <2>3. clientfds' \in [Clients -> {-1} \cup Fds] /\ PollInd'
    BY <1>6, <2>1 DEF EntryEnds, PollTypeOK, PollInd
  <2>4. terminal' \in BOOLEAN
    BY <1>6 DEF EntryEnds, PollTypeOK
  <2> QED BY <1>6, <2>1, <2>2, <2>3, <2>4 DEF EntryEnds, PollTypeOK
<1>7. CASE ReadDone
  <2>1. more' \in BOOLEAN
    BY <1>7, Zenon DEF ReadDone
  <2> QED BY <1>7, <2>1, OpenMaxAssumption DEF ReadDone, kernel, KernelOK, PollTypeOK, PollInd
<1>8. CASE PollClients
  <2>1. KernelOK'
    BY <1>8, KernelConnect, KernelSends, KernelEnds DEF PollClients
  <2> QED BY <1>8, <2>1 DEF PollClients, pollVars, PollTypeOK, PollInd
<1> QED BY <1>1, <1>2, <1>3, <1>4, <1>5, <1>6, <1>7, <1>8 DEF PollNext, PollLoop

-----------------------------------------------------------------------------
(***************************************************************************)
(* The server that turns signals into events.                              *)
(***************************************************************************)

SignalWell == KernelOK /\ SignalTypeOK /\ SignalInd

LEMMA SignalKeeps ==
  ASSUME SignalWell, SignalNext
  PROVE  SignalWell'
<1> USE DEF SignalWell
<1>1. CASE EpollWait
  BY <1>1 DEF EpollWait, kernel, KernelOK, SignalTypeOK, SignalInd
<1>2. CASE HandleListen
  <2>1. KernelOK'
    BY <1>2, KernelAccepts DEF HandleListen, KernelOK
  <2>2. ready' \subseteq Watchable
    BY <1>2, LowestFree DEF HandleListen, SignalTypeOK, Watchable
  <2>3. signal_pc = "dispatch"
    BY <1>2 DEF HandleListen, SignalInd
  <2> QED BY <1>2, <2>1, <2>2, <2>3 DEF HandleListen, SignalTypeOK, SignalInd
<1>3. CASE HandleSignals
  <2>1. KernelOK' /\ UNCHANGED <<signal_pc, ready, asked>> /\ pipe' = <<>>
        /\ batch' = batch \ {PipeFd}
    BY <1>3 DEF HandleSignals, kernel, KernelOK
  <2>2. stop_server' \in BOOLEAN /\ (stop_server' => asked)
    BY <1>3 DEF HandleSignals, Stops, Contains, SignalTypeOK, SignalInd
  <2>3. signal_pc = "dispatch"
    BY <1>3 DEF HandleSignals, SignalInd
  <2>4. pipe' \in Seq(Signals) /\ Len(pipe') = 0
    BY <2>1
  <2> QED BY <2>1, <2>2, <2>3, <2>4, PipeAssumption DEF SignalTypeOK, SignalInd
<1>4. CASE HandleOther
  <2>1. signal_pc = "dispatch" /\ batch' \subseteq batch
    BY <1>4 DEF HandleOther, SignalInd
  <2> QED BY <1>4, <2>1 DEF HandleOther, kernel, KernelOK, SignalTypeOK, SignalInd
<1>5. CASE BatchDone
  <2>1. KernelOK'
    BY <1>5, KernelShuts DEF BatchDone, Exit, kernel, KernelOK
  <2> QED BY <1>5, <2>1 DEF BatchDone, SignalTypeOK, SignalInd
<1>6. CASE SignalConnect
  BY <1>6, KernelConnect DEF SignalConnect, SignalTypeOK, SignalInd, Watchable
<1>7. CASE SignalClientActs
  BY <1>7 DEF SignalClientActs, kernel, KernelOK, SignalTypeOK, SignalInd, Watchable
<1>8. CASE SigHandler
  <2> PICK sig \in Signals : /\ pipe' = Append(pipe, sig)
                             /\ asked' = (asked \/ sig = "SIGTERM")
    BY <1>8 DEF SigHandler
  <2>1. /\ Len(pipe) < PipeSize /\ ready' = ready \cup {PipeFd}
        /\ UNCHANGED <<backlog, open, ended, unread, signal_pc, batch, stop_server>>
    BY <1>8 DEF SigHandler, kernel
  <2>2. pipe \in Seq(Signals) /\ PipeSize \in Nat /\ asked \in BOOLEAN
    BY PipeAssumption DEF SignalTypeOK
  <2>3. pipe' \in Seq(Signals) /\ Len(pipe') = Len(pipe) + 1
    BY <2>2
  <2>4. ASSUME NEW k \in 1 .. Len(pipe'), pipe'[k] = "SIGTERM"
        PROVE  asked'
    <3>1. CASE k = Len(pipe) + 1
      <4>1. pipe'[Len(pipe) + 1] = sig
        BY <2>2
      <4> QED BY <2>4, <3>1, <4>1
    <3>2. CASE k # Len(pipe) + 1
      BY <2>2, <2>3, <2>4, <3>2 DEF SignalInd
    <3> QED BY <3>1, <3>2
  <2>5. asked' \in BOOLEAN /\ (stop_server => asked')
    BY DEF SignalInd
  <2>6. KernelOK' /\ SignalTypeOK'
    BY <2>1, <2>2, <2>3, <2>5 DEF KernelOK, SignalTypeOK, Watchable
  <2> QED BY <2>1, <2>4, <2>5, <2>6 DEF SignalInd
<1> QED BY <1>1, <1>2, <1>3, <1>4, <1>5, <1>6, <1>7, <1>8 DEF SignalNext, SignalLoop

-----------------------------------------------------------------------------
(***************************************************************************)
(* All steps, and the theorems.                                            *)
(***************************************************************************)

LEMMA InitIsSound ==
  ASSUME Init
  PROVE  IndInv
<1> USE DEF Init
<1>1. KernelOK
  BY FdsAreNumbers, UnreadAssumption DEF KernelInit, KernelOK
<1>2. SelectTypeOK
  BY FdsAreNumbers, ClientsAssumption DEF SelectRest, SelectTypeOK
<1>3. PollTypeOK
  <2>1. more \in BOOLEAN /\ terminal \in BOOLEAN
    BY Zenon DEF PollRest
  <2> QED BY <2>1, OpenMaxAssumption DEF PollRest, PollTypeOK
<1>4. SignalTypeOK
  <2>1. stop_server \in BOOLEAN /\ asked \in BOOLEAN
    BY Zenon DEF SignalRest
  <2>2. pipe \in Seq(Signals) /\ Len(pipe) = 0
    BY DEF SignalRest
  <2> QED BY <2>1, <2>2, PipeAssumption DEF SignalRest, SignalTypeOK
<1>5. OneRuns
  BY DEF OneRuns
<1>6. select_pc \in {"select", "stopped"} /\ open = {0} /\ client_fdset = {}
      /\ (\A k \in Entries : client_sockfd[k] = 0) /\ maxsock = ListenFd
  BY DEF SelectRest, KernelInit
<1>7. TableSound /\ SetReadable /\ Looked /\ Greeted
  BY <1>6, FdsAreNumbers DEF TableSound, SetReadable, Looked, Greeted
<1>8. Dense
  <2>1. \A f \in Fds : f <= ListenFd => f = 0
    BY FdsAreNumbers
  <2> QED BY <1>6, <2>1 DEF Dense
<1>9. PollInd
  BY DEF PollInd, PollRest
<1>10. SignalInd
  BY <1>4 DEF SignalInd, SignalRest
<1> QED BY <1>1, <1>2, <1>3, <1>4, <1>5, <1>7, <1>8, <1>9, <1>10
        DEF IndInv, TypeOK, SelectInd

\* A server that acts has not stopped, hence the others have.
LEMMA SelectRuns ==
  ASSUME IndInv, SelectNext
  PROVE  SelectWell /\ select_pc # "stopped" /\ poll_pc = "stopped" /\ signal_pc = "stopped"
<1>1. select_pc # "stopped"
  BY DEF SelectNext, SelectLoop, SelectClients, Select, SkipClient, RecvClient, AcceptClient,
         ScanDone, Greet, GreetStops, Scanned
<1> QED BY <1>1 DEF IndInv, TypeOK, OneRuns, SelectInd, SelectWell, SelectParts

LEMMA PollRuns ==
  ASSUME IndInv, PollNext
  PROVE  PollWell /\ poll_pc # "stopped" /\ select_pc = "stopped" /\ signal_pc = "stopped"
<1>1. poll_pc # "stopped"
  BY DEF PollNext, PollLoop, PollClients, Poll, AcceptNew, AcceptFails, SkipEntry, Echo,
         EntryEnds, Killed, ReadDone, AtEntry
<1> QED BY <1>1 DEF IndInv, TypeOK, OneRuns, PollWell

LEMMA SignalRuns ==
  ASSUME IndInv, SignalNext
  PROVE  SignalWell /\ signal_pc # "stopped" /\ select_pc = "stopped" /\ poll_pc = "stopped"
<1>1. signal_pc # "stopped"
  BY DEF IndInv, SignalInd, SignalNext, SignalLoop, EpollWait, HandleListen, HandleSignals,
         HandleOther, BatchDone
<1> QED BY <1>1 DEF IndInv, TypeOK, OneRuns, SignalWell

\* A step of the select() server keeps its state sound, or is its last.
LEMMA SelectStep ==
  ASSUME SelectWell, SelectNext
  PROVE  SelectWell' \/ (KernelOK' /\ SelectTypeOK' /\ select_pc' = "stopped")
<1>1. CASE RecvClient
  <2>1. CASE Received(client_sockfd[i]) /\ UNCHANGED <<open, ended, client_sockfd, client_fdset>>
    BY <1>1, <2>1, ReceiveKeeps DEF RecvClient
  <2>2. CASE RecvClose
    BY <1>1, <2>2, CloseKeeps DEF RecvClient
  <2> QED BY <1>1, <2>1, <2>2 DEF RecvClient
<1> QED BY <1>1, SelectKeeps, SkipKeeps, AcceptKeeps, DoneKeeps, GreetKeeps, StopKeeps,
           SelectClientsKeep DEF SelectNext, SelectLoop

LEMMA StepIsSound ==
  ASSUME IndInv, [Next]_vars
  PROVE  IndInv'
<1>1. CASE SelectNext /\ UNCHANGED <<pollVars, signalVars>>
  <2>1. /\ SelectWell' \/ (KernelOK' /\ SelectTypeOK' /\ select_pc' = "stopped")
        /\ poll_pc = "stopped" /\ signal_pc = "stopped"
    BY <1>1, SelectRuns, SelectStep
  <2>2. PollTypeOK' /\ PollInd' /\ poll_pc' = poll_pc
    BY <1>1 DEF IndInv, TypeOK, pollVars, PollTypeOK, PollInd
  <2>3. SignalTypeOK' /\ SignalInd' /\ signal_pc' = signal_pc
    BY <1>1 DEF IndInv, TypeOK, signalVars, SignalTypeOK, SignalInd
  <2> QED BY <2>1, <2>2, <2>3
          DEF IndInv, TypeOK, OneRuns, SelectInd, SelectWell, SelectParts
<1>2. CASE PollNext /\ UNCHANGED <<selectVars, signalVars>>
  <2>1. PollWell' /\ select_pc = "stopped" /\ signal_pc = "stopped"
    BY <1>2, PollRuns, PollKeeps
  <2>2. SelectTypeOK' /\ select_pc' = select_pc
    BY <1>2 DEF IndInv, TypeOK, selectVars, SelectTypeOK
  <2>3. SignalTypeOK' /\ SignalInd' /\ signal_pc' = signal_pc
    BY <1>2 DEF IndInv, TypeOK, signalVars, SignalTypeOK, SignalInd
  <2> QED BY <2>1, <2>2, <2>3 DEF IndInv, TypeOK, OneRuns, SelectInd, PollWell
<1>3. CASE SignalNext /\ UNCHANGED <<selectVars, pollVars>>
  <2>1. SignalWell' /\ select_pc = "stopped" /\ poll_pc = "stopped"
    BY <1>3, SignalRuns, SignalKeeps
  <2>2. SelectTypeOK' /\ select_pc' = select_pc
    BY <1>3 DEF IndInv, TypeOK, selectVars, SelectTypeOK
  <2>3. PollTypeOK' /\ PollInd' /\ poll_pc' = poll_pc
    BY <1>3 DEF IndInv, TypeOK, pollVars, PollTypeOK, PollInd
  <2> QED BY <2>1, <2>2, <2>3 DEF IndInv, TypeOK, OneRuns, SelectInd, SignalWell
<1>4. CASE UNCHANGED vars
  <2> USE <1>4 DEF vars, kernel, selectVars, pollVars, signalVars
  <2>1. TypeOK' /\ OneRuns'
    BY DEF IndInv, TypeOK, KernelOK, SelectTypeOK, PollTypeOK, SignalTypeOK, OneRuns
  <2>2. SelectInd'
    BY DEF IndInv, SelectInd, TableSound, SetReadable, Looked, Greeted, Dense, NoneLeft,
           Fresh, sock_client
  <2>3. PollInd' /\ SignalInd'
    BY DEF IndInv, PollInd, SignalInd
  <2> QED BY <2>1, <2>2, <2>3 DEF IndInv
<1> QED BY <1>1, <1>2, <1>3, <1>4 DEF Next

\* The invariant of the proofs: besides types, one server runs; select()'s table names
\* open descriptors once each and every one of them, its set names only readable ones,
\* and while no client has left, all descriptors up to the greatest are in use; poll()'s
\* entries name descriptor 0 only; the pipe holds SIGTERM only if it was sent.
THEOREM InductiveInvariant == Spec => []IndInv
BY InitIsSound, StepIsSound, PTL DEF Spec

\* The types of the servers' states: descriptors, entries and signals.
THEOREM TypeCorrect == Spec => []TypeOK
<1>1. IndInv => TypeOK
  BY DEF IndInv
<1> QED BY <1>1, InductiveInvariant, PTL

LEMMA TableIsSound ==
  ASSUME IndInv
  PROVE  SelectTable
<1> SUFFICES ASSUME select_pc # "stopped"
             PROVE  /\ Table \subseteq open \ {0}
                    /\ \A j, k \in Entries :
                         client_sockfd[j] = client_sockfd[k] /\ j # k => client_sockfd[j] = 0
                    /\ \A k \in Entries : k >= conn_amount => client_sockfd[k] = 0
                    /\ select_pc # "greet" => \A f \in Table : f <= maxsock
                    /\ Scanned /\ IsSet => client_sockfd[i] \in Readable
                    /\ open \ {0} = Table \/ conn_amount = CLIENTS
  BY DEF SelectTable
<1>1. SelectWell
  BY DEF IndInv, TypeOK, SelectInd, SelectWell, SelectParts
<1> USE <1>1 DEF SelectWell, SelectParts
<1>2. Table \subseteq open \ {0}
  BY DEF TableSound, Table
<1>3. \A k \in Entries : k >= conn_amount => client_sockfd[k] = 0
  BY DEF TableSound, SelectTypeOK, Entries
<1>4. select_pc # "greet" => \A f \in Table : f <= maxsock
  BY DEF Looked, Table
<1>5. Scanned /\ IsSet => client_sockfd[i] \in Readable
  <2> SUFFICES ASSUME Scanned, IsSet PROVE client_sockfd[i] \in Readable
    OBVIOUS
  <2>1. i \in Entries /\ i >= i
    BY EntryFacts DEF Entries
  <2>2. client_sockfd[i] # 0
    BY DEF SetReadable, IsSet
  <2>3. client_sockfd[i] \in open
    BY <2>1, <2>2 DEF TableSound
  <2>4. unread[client_sockfd[i]] > 0 \/ client_sockfd[i] \in ended
    BY <2>1 DEF SetReadable, Scanned, IsSet
  <2> QED BY <2>3, <2>4 DEF Readable
<1>6. open \ {0} = Table \/ conn_amount = CLIENTS
  BY <1>2 DEF TableSound, Table
<1> QED BY <1>2, <1>3, <1>4, <1>5, <1>6 DEF TableSound

\* server_of_select.cpp: its table names each open connection once and nothing else,
\* unless it is used up; select() looks at all of them, and what it found readable still
\* is when the scan comes to it.
THEOREM SelectTableSound == Spec => []SelectTable
BY InductiveInvariant, TableIsSound, PTL

LEMMA StopFollowsEnd ==
  ASSUME IndInv, [Next]_vars, select_pc # "stopped", select_pc' = "stopped"
  PROVE  \/ \E k \in Entries : k < conn_amount /\ client_sockfd[k] = 0
         \/ sock_client \in ended
<1>1. GreetStops
  BY DEF Next, vars, selectVars, SelectNext, SelectLoop, SelectClients, Select, SkipClient,
         RecvClient, AcceptClient, ScanDone, Greet, Again
<1>2. SelectWell
  BY DEF IndInv, TypeOK, SelectInd, SelectWell, SelectParts
<1>3. ~Fresh => ~NoneLeft
  BY <1>1, <1>2 DEF GreetStops, SelectWell, SelectParts, Dense
<1> QED BY <1>1, <1>3 DEF GreetStops, NoneLeft

\* server_of_select.cpp, lines 114 to 136: the server stops only when the new client has
\* ended, or when an earlier one left, so that accept() gave its descriptor again.
THEOREM SelectStopsLate == Spec => SelectStopsAfterEnd
<1>1. IndInv /\ [Next]_vars =>
        [select_pc # "stopped" /\ select_pc' = "stopped" =>
           \/ \E k \in Entries : k < conn_amount /\ client_sockfd[k] = 0
           \/ sock_client \in ended]_<<kernel, selectVars>>
  BY StopFollowsEnd
<1> QED BY <1>1, InductiveInvariant, PTL DEF Spec, SelectStopsAfterEnd

\* 10_1.cpp: the loop ends only if SIGTERM or SIGINT went into the pipe, the safety
\* half of StopsAsAsked.
THEOREM StopsOnlyIfAsked == Spec => [](stop_server => asked)
<1>1. IndInv => (stop_server => asked)
  BY DEF IndInv, SignalInd
<1> QED BY <1>1, InductiveInvariant, PTL

=============================================================================
