------------------------------- MODULE Sockets -------------------------------
(***************************************************************************)
(* What the kernel keeps for a server: the clients that wait at its        *)
(* listening socket, and its descriptors.  The servers extend this module. *)
(***************************************************************************)
EXTENDS Integers, FiniteSets, FiniteSetsExt

CONSTANTS
  Fds,         \* the descriptors of the process: the terminal's, which is 0, where it
               \* plays a part, and those that come after the listening socket's
  ListenFd,    \* the listening socket
  MaxUnread    \* bound: the recv() calls it takes to read what a client sent

ASSUME FdsAssumption == ListenFd \in Nat \ {0}
                        /\ \A f \in Fds \ {0} : f \in Nat /\ f > ListenFd
ASSUME UnreadAssumption == MaxUnread \in Nat \ {0}

VARIABLES
  backlog,     \* the number of connections waiting for accept()
  open,        \* the descriptors in use
  ended,       \* those whose client closed or reset the connection
  unread       \* for each, how many recv() calls have bytes to return

kernel == <<backlog, open, ended, unread>>

KernelOK ==
  /\ backlog \in Nat
  /\ open \subseteq Fds /\ ended \subseteq open
  /\ unread \in [Fds -> 0 .. MaxUnread]

KernelInit(fds) ==
  backlog = 0 /\ open = fds /\ ended = {} /\ unread = [f \in Fds |-> 0]

\* A client connects (as many at a time as there are descriptors, and one more).
Connect ==
  /\ backlog + Cardinality(open) <= Cardinality(Fds)
  /\ backlog' = backlog + 1
  /\ UNCHANGED <<open, ended, unread>>

ClientSends(f) ==
  /\ f \in open \ ended /\ unread[f] < MaxUnread
  /\ unread' = [unread EXCEPT ![f] = @ + 1]
  /\ UNCHANGED <<backlog, open, ended>>

\* The client closes; if it resets the connection, what it sent is gone.
ClientEnds(f) ==
  /\ f \in open \ ended
  /\ ended' = ended \cup {f}
  /\ unread' \in {unread, [unread EXCEPT ![f] = 0]}
  /\ UNCHANGED <<backlog, open>>

\* A descriptor is readable if there are bytes or the end of the connection; the
\* listening socket, if a client waits.
Readable == {f \in open : unread[f] > 0} \cup ended
            \cup (IF backlog > 0 THEN {ListenFd} ELSE {})

\* accept() returns the lowest descriptor that is free, if there is one.
CanAccept == backlog > 0 /\ open # Fds
NextFd == Min(Fds \ open)
Accepted == open' = open \cup {NextFd} /\ backlog' = backlog - 1

\* One recv().
Received(f) == unread[f] > 0 /\ unread' = [unread EXCEPT ![f] = @ - 1]

\* close() of some descriptors.
Shut(gone) ==
  /\ open' = open \ gone
  /\ ended' = ended \ gone
  /\ unread' = [f \in Fds |-> IF f \in gone THEN 0 ELSE unread[f]]

\* The process ends: the kernel closes everything.
Exit == Shut(open) /\ backlog' = 0
=============================================================================
