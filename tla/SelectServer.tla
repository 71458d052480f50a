---------------------------- MODULE SelectServer ----------------------------
(***************************************************************************)
(* The server server_of_select.cpp: a table of clients, a select() on all  *)
(* of them, one recv() for each that is readable, then one accept().  A    *)
(* new client is greeted and must answer before anyone else is served.     *)
(*                                                                         *)
(* A select() that times out changes nothing, hence it is no step.         *)
(***************************************************************************)
EXTENDS Sockets

CONSTANT CLIENTS     \* the length of client_sockfd (5 in the code)

ASSUME ClientsAssumption == CLIENTS \in Nat \ {0}

VARIABLES
  select_pc,      \* "select", "scan" in the loop over the clients, "greet" in the
                  \* recv() from a new one, "stopped"
  client_sockfd,  \* the table: descriptors, and 0 where there is none
  conn_amount,    \* the number of entries ever used
  maxsock,        \* the greatest descriptor that select() looks at
  client_fdset,   \* what select() found to be readable
  i               \* the loop's index

selectVars == <<select_pc, client_sockfd, conn_amount, maxsock, client_fdset, i>>

Entries == 0 .. CLIENTS - 1
Table == {client_sockfd[k] : k \in Entries} \ {0}

SelectTypeOK ==
  /\ select_pc \in {"select", "scan", "greet", "stopped"}
  /\ client_sockfd \in [Entries -> Fds]
  /\ conn_amount \in 0 .. CLIENTS
  /\ maxsock \in Fds \cup {ListenFd}
  /\ client_fdset \subseteq Fds \cup {ListenFd}
  /\ i \in 0 .. CLIENTS

SelectRest ==
  /\ client_sockfd = [k \in Entries |-> 0] /\ conn_amount = 0
  /\ maxsock = ListenFd
  /\ client_fdset = {} /\ i = 0

SelectInit == select_pc = "select" /\ SelectRest

\* Back to the head of the loop, where the set is filled anew.
Again == select_pc' = "select" /\ client_fdset' = {} /\ i' = 0

SelectStops ==
  /\ select_pc' = "stopped" /\ client_fdset' = {} /\ i' = 0
  /\ Exit

\* select(): descriptors above maxsock are not looked at.
Select ==
  /\ select_pc = "select"
  /\ client_fdset' = {f \in Table \cup {ListenFd} : f <= maxsock} \cap Readable
  /\ client_fdset' # {}
  /\ select_pc' = "scan" /\ i' = 0
  /\ UNCHANGED <<kernel, client_sockfd, conn_amount, maxsock>>

\* Mutant of More: the last client is forgotten.
MoreShort == i < conn_amount - 1

\* The scan has not come to the end of the entries.
More == i < conn_amount

Scanned == select_pc = "scan" /\ More
IsSet == client_sockfd[i] \in client_fdset

SkipClient ==
  /\ Scanned /\ ~IsSet
  /\ i' = i + 1
  /\ UNCHANGED <<kernel, select_pc, client_sockfd, conn_amount, maxsock, client_fdset>>

\* Mutant of RecvClose: the entry is kept.
RecvCloseKeep ==
  /\ client_sockfd[i] \in ended /\ unread[client_sockfd[i]] = 0
  /\ Shut({client_sockfd[i]})
  /\ UNCHANGED <<client_sockfd, client_fdset>>

\* The end of the connection, or an error: its entry becomes 0.
RecvClose ==
  /\ client_sockfd[i] \in ended /\ unread[client_sockfd[i]] = 0
  /\ Shut({client_sockfd[i]})
  /\ client_sockfd' = [client_sockfd EXCEPT ![i] = 0]
  /\ client_fdset' = client_fdset \ {client_sockfd[i]}

\* One recv(); it would block if there were nothing to receive.
RecvClient ==
  /\ Scanned /\ IsSet
  /\ \/ Received(client_sockfd[i]) /\ UNCHANGED <<open, ended, client_sockfd, client_fdset>>
     \/ RecvClose
  /\ i' = i + 1
  /\ UNCHANGED <<backlog, select_pc, conn_amount, maxsock>>

\* Mutant of HasRoom: an entry behind the last is used.
HasRoomBeyond == conn_amount <= CLIENTS

\* Some entry was never used; those that clients left are not used again.
HasRoom == conn_amount < CLIENTS

\* One client is accepted.  With the table used up it is left alone; with no descriptor
\* left accept() fails.
AcceptClient ==
  /\ select_pc = "scan" /\ ~More /\ ListenFd \in client_fdset
  /\ IF CanAccept THEN Accepted ELSE UNCHANGED <<open, backlog>>
  /\ IF CanAccept /\ HasRoom
     THEN /\ client_sockfd' = [client_sockfd EXCEPT ![conn_amount] = NextFd]
          /\ conn_amount' = conn_amount + 1
          /\ select_pc' = "greet" /\ UNCHANGED <<client_fdset, i>>
     ELSE Again /\ UNCHANGED <<client_sockfd, conn_amount>>
  /\ UNCHANGED <<ended, unread, maxsock>>

ScanDone ==
  /\ select_pc = "scan" /\ ~More /\ ListenFd \notin client_fdset
  /\ Again
  /\ UNCHANGED <<kernel, client_sockfd, conn_amount, maxsock>>

sock_client == client_sockfd[conn_amount - 1]

\* Mutant of Fresh: the comparison is the wrong way round.
FreshSwapped == sock_client < maxsock

Fresh == sock_client > maxsock

\* The new client's first message, or its end, has come.  The else of line 132 belongs
\* to the test of maxsock, so that the server stops if the descriptor was used before.
Greet ==
  /\ select_pc = "greet"
  /\ \/ Received(sock_client) /\ Fresh /\ UNCHANGED <<backlog, open, ended>>
     \/ sock_client \in ended /\ unread[sock_client] = 0 /\ Fresh /\ UNCHANGED kernel
  /\ maxsock' = sock_client
  /\ Again
  /\ UNCHANGED <<client_sockfd, conn_amount>>

\* ... or the first recv() found the connection reset.
GreetStops ==
  /\ select_pc = "greet" /\ sock_client \in Readable
  /\ ~Fresh \/ (sock_client \in ended /\ unread[sock_client] = 0)
  /\ SelectStops
  /\ UNCHANGED <<client_sockfd, conn_amount, maxsock>>

SelectLoop ==
  Select \/ SkipClient \/ RecvClient \/ AcceptClient \/ ScanDone \/ Greet \/ GreetStops

\* What is sent to a descriptor that is in no entry is never looked at: left out.
SelectClients ==
  /\ select_pc # "stopped"
  /\ Connect \/ \E f \in Table : ClientSends(f) \/ ClientEnds(f)
  /\ UNCHANGED selectVars

SelectNext == SelectLoop \/ SelectClients

SelectSpec ==
  KernelInit({0}) /\ SelectInit /\ [][SelectNext]_<<kernel, selectVars>>

-----------------------------------------------------------------------------
(***************************************************************************)
(* Properties.                                                             *)
(***************************************************************************)

\* The table is sound: its entries are open, each once; those not yet used are 0;
\* select() looks at all of them; what it found readable still is when its turn comes,
\* so that no recv() of the scan blocks the others.  An open connection is in the
\* table unless the table is used up.
SelectTable ==
  select_pc # "stopped" =>
    /\ Table \subseteq open \ {0}
    /\ \A j, k \in Entries : client_sockfd[j] = client_sockfd[k] /\ j # k => client_sockfd[j] = 0
    /\ \A k \in Entries : k >= conn_amount => client_sockfd[k] = 0
    /\ select_pc # "greet" => \A f \in Table : f <= maxsock
    /\ Scanned /\ IsSet => client_sockfd[i] \in Readable
    /\ open \ {0} = Table \/ conn_amount = CLIENTS

\* The server goes on as long as no client ends: it stops only when an earlier client
\* has left its entry, so that the new one was given a descriptor used before, or when
\* the new one has ended.
SelectStopsAfterEnd ==
  [][select_pc # "stopped" /\ select_pc' = "stopped" =>
        \/ \E k \in Entries : k < conn_amount /\ client_sockfd[k] = 0
        \/ sock_client \in ended]_<<kernel, selectVars>>

\* A client in the table that ended is closed, unless a new client keeps the server
\* waiting for ever.
SelectClosesEnded ==
  \A f \in Fds : (f \in Table /\ f \in ended)
                   ~> (f \notin ended \/ [](select_pc = "greet"))
=============================================================================
