----------------------------- MODULE PollServer -----------------------------
(***************************************************************************)
(* The echo server server_by_poll.cpp: an array of pollfd, the listening   *)
(* socket in its first entry and the clients in the others.                *)
(*                                                                         *)
(* Line 81 assigns to connfd what accept(...) == -1 gives, which is 0.     *)
(* The comments (lines 95, 118, 131, 141) mean the descriptor of the new   *)
(* connection; by the code the entry of each client names descriptor 0,    *)
(* the terminal at first, and only a client that accept() gave this very   *)
(* descriptor, after it was closed, is ever read from.                     *)
(***************************************************************************)
EXTENDS Sockets

CONSTANT OPEN_MAX     \* the length of clientfds (1000 in the code)

ASSUME OpenMaxAssumption == OPEN_MAX \in Nat \ {0, 1}

VARIABLES
  poll_pc,     \* "poll", "accept", "read" in the loop over the clients, "stopped"
  clientfds,   \* the field fd of each client's entry: a descriptor, or -1
  maxi,        \* the last entry that poll() looks at
  pollin,      \* the entries whose revents have POLLIN
  more,        \* poll() found other entries ready than the listening socket's
  next,        \* the loop's index
  terminal     \* descriptor 0 is still the terminal

pollVars == <<poll_pc, clientfds, maxi, pollin, more, next, terminal>>

Clients == 1 .. OPEN_MAX - 1

PollTypeOK ==
  /\ poll_pc \in {"poll", "accept", "read", "stopped"}
  /\ clientfds \in [Clients -> {-1} \cup Fds]
  /\ maxi \in 0 .. OPEN_MAX - 1
  /\ pollin \subseteq Clients
  /\ more \in BOOLEAN /\ terminal \in BOOLEAN
  /\ next \in 1 .. OPEN_MAX

PollRest ==
  /\ clientfds = [k \in Clients |-> -1] /\ maxi = 0
  /\ pollin = {} /\ more = FALSE /\ next = 1
  /\ terminal = TRUE

PollInit == poll_pc = "poll" /\ PollRest

PollStops ==
  /\ poll_pc' = "stopped"
  /\ pollin' = {} /\ more' = FALSE /\ next' = 1
  /\ Exit

\* poll(): an entry whose descriptor is not open is reported too, but without POLLIN.
Poll ==
  /\ poll_pc = "poll"
  /\ LET polled == {k \in 1 .. maxi : clientfds[k] >= 0}
     IN /\ pollin' = {k \in polled : clientfds[k] \in Readable}
        /\ more' = (\E k \in polled : clientfds[k] \in Readable \/ clientfds[k] \notin open)
  /\ more' \/ backlog > 0
  /\ poll_pc' = IF backlog > 0 THEN "accept" ELSE "read"
  /\ UNCHANGED <<kernel, clientfds, maxi, next, terminal>>

Unused == {k \in Clients : clientfds[k] < 0}

connfd == 0

\* A client is accepted and gets the first unused entry.  poll() has not set the revents
\* of an entry beyond maxi, where nothing was ever written: they may hold anything.
AcceptNew ==
  /\ poll_pc = "accept" /\ CanAccept /\ Unused # {}
  /\ Accepted
  /\ LET k == Min(Unused)
     IN /\ clientfds' = [clientfds EXCEPT ![k] = connfd]
        /\ pollin' \in IF k > maxi THEN {pollin, pollin \cup {k}} ELSE {pollin}
        /\ maxi' = IF k > maxi THEN k ELSE maxi
  /\ poll_pc' = IF more THEN "read" ELSE "poll"
  /\ UNCHANGED <<ended, unread, more, next, terminal>>

\* accept() fails, or no entry is unused: exit(1).
AcceptFails ==
  /\ poll_pc = "accept" /\ (~CanAccept \/ Unused = {})
  /\ PollStops
  /\ UNCHANGED <<clientfds, maxi, terminal>>

AtEntry == poll_pc = "read" /\ next <= maxi
IsReady == clientfds[next] >= 0 /\ next \in pollin

SkipEntry ==
  /\ AtEntry /\ ~IsReady
  /\ next' = next + 1
  /\ UNCHANGED <<kernel, poll_pc, clientfds, maxi, pollin, more, terminal>>

\* Bytes are read and written back.  The read() blocks if another entry with the same
\* descriptor has taken them, and fails, without more, if it has closed the descriptor.
Echo ==
  /\ AtEntry /\ IsReady
  /\ \/ Received(clientfds[next])
     \/ clientfds[next] \notin open /\ UNCHANGED unread
  /\ next' = next + 1
  /\ UNCHANGED <<backlog, open, ended, poll_pc, clientfds, maxi, pollin, more, terminal>>

\* The end of the connection, or of what is typed.
EntryEnds ==
  /\ AtEntry /\ IsReady
  /\ clientfds[next] \in ended /\ unread[clientfds[next]] = 0
  /\ Shut({clientfds[next]})
  /\ clientfds' = [clientfds EXCEPT ![next] = -1]
  /\ terminal' = (terminal /\ clientfds[next] # 0)
  /\ next' = next + 1
  /\ UNCHANGED <<backlog, poll_pc, maxi, pollin, more>>

\* To write to a client that reset the connection raises SIGPIPE.
Killed ==
  /\ AtEntry /\ IsReady
  /\ clientfds[next] \in ended /\ ~(terminal /\ clientfds[next] = 0)
  /\ PollStops
  /\ UNCHANGED <<clientfds, maxi, terminal>>

ReadDone ==
  /\ poll_pc = "read" /\ next > maxi
  /\ poll_pc' = "poll" /\ next' = 1 /\ more' = FALSE /\ pollin' = {}
  /\ UNCHANGED <<kernel, clientfds, maxi, terminal>>

PollLoop ==
  Poll \/ AcceptNew \/ AcceptFails \/ SkipEntry \/ Echo \/ EntryEnds \/ Killed \/ ReadDone

\* What is sent to a descriptor that is in no entry is never looked at: left out.
PollClients ==
  /\ poll_pc # "stopped"
  /\ Connect \/ \E f \in {0} \cup {clientfds[k] : k \in Clients} : ClientSends(f) \/ ClientEnds(f)
  /\ UNCHANGED pollVars

PollNext == PollLoop \/ PollClients

PollSpec == KernelInit({0}) /\ PollInit /\ [][PollNext]_<<kernel, pollVars>>
=============================================================================
