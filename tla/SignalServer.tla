---------------------------- MODULE SignalServer ----------------------------
(***************************************************************************)
(* The server 10_1.cpp: signals go through a pipe into the epoll loop that *)
(* accepts clients, so that SIGTERM and SIGINT end the loop and SIGHUP and *)
(* SIGCHLD are passed over.  Every descriptor is watched edge triggered.   *)
(* Connections are never read from nor closed.                             *)
(***************************************************************************)
EXTENDS Sockets, Sequences, SequencesExt

CONSTANTS
  PipeFd,      \* pipefd[0], the end of the pipe that the loop reads
  PipeSize     \* the number of signals that the pipe holds

\* One recv() takes all that the pipe holds: 1024 signals, where a socket pair holds
\* some 280 messages of one byte.
ASSUME PipeAssumption == PipeSize \in 1 .. 1024 /\ PipeFd \in Nat \ (Fds \cup {ListenFd})

VARIABLES
  signal_pc,     \* "wait" in epoll_wait, "dispatch" in its events, "stopped"
  ready,         \* the descriptors epoll has to report
  pipe,          \* the signals in the pipe
  batch,         \* the events of this round not yet handled
  stop_server,
  asked          \* history: SIGTERM or SIGINT went into the pipe

signalVars == <<signal_pc, ready, pipe, batch, stop_server, asked>>

Signals == {"SIGHUP", "SIGTERM"}     \* one of each kind
Watchable == Fds \cup {ListenFd, PipeFd}

SignalTypeOK ==
  /\ signal_pc \in {"wait", "dispatch", "stopped"}
  /\ ready \subseteq Watchable /\ batch \subseteq Watchable
  /\ pipe \in Seq(Signals) /\ Len(pipe) <= PipeSize
  /\ stop_server \in BOOLEAN /\ asked \in BOOLEAN

SignalRest ==
  ready = {} /\ pipe = <<>> /\ batch = {} /\ stop_server = FALSE /\ asked = FALSE

SignalInit == signal_pc = "wait" /\ SignalRest

\* epoll_wait().  It takes 1024 events at most, here all there are: epoll reports first what
\* was ready first, so that the rest waits for a round or so, and no property counts rounds.
EpollWait ==
  /\ signal_pc = "wait" /\ ready # {}
  /\ batch' = ready /\ ready' = {}
  /\ signal_pc' = "dispatch"
  /\ UNCHANGED <<kernel, pipe, stop_server, asked>>

\* The listening socket: one accept(), which may fail; a client that was quick to send
\* something is to be reported at once.
HandleListen ==
  /\ ListenFd \in batch
  /\ IF CanAccept THEN Accepted /\ ready' \in {ready, ready \cup {NextFd}}
                  ELSE UNCHANGED <<backlog, open, ready>>
  /\ batch' = batch \ {ListenFd}
  /\ UNCHANGED <<ended, unread, signal_pc, pipe, stop_server, asked>>

\* Mutant of Stops: only the first signal is looked at.
StopsFirst == pipe # <<>> /\ Head(pipe) = "SIGTERM"

\* SIGTERM or SIGINT is among the signals read.
Stops == Contains(pipe, "SIGTERM")

\* The pipe: one recv() of all signals, of which there may be none.
HandleSignals ==
  /\ PipeFd \in batch
  /\ stop_server' = (stop_server \/ Stops)
  /\ pipe' = <<>>
  /\ batch' = batch \ {PipeFd}
  /\ UNCHANGED <<kernel, signal_pc, ready, asked>>

\* A connection: nothing is done.
HandleOther ==
  /\ \E f \in batch \cap Fds : batch' = batch \ {f}
  /\ UNCHANGED <<kernel, signal_pc, ready, pipe, stop_server, asked>>

BatchDone ==
  /\ signal_pc = "dispatch" /\ batch = {}
  /\ IF stop_server THEN signal_pc' = "stopped" /\ Exit
                    ELSE signal_pc' = "wait" /\ UNCHANGED kernel
  /\ UNCHANGED <<ready, pipe, batch, stop_server, asked>>

SignalLoop == EpollWait \/ HandleListen \/ HandleSignals \/ HandleOther \/ BatchDone

SignalConnect ==
  /\ Connect
  /\ ready' = ready \cup {ListenFd}
  /\ UNCHANGED <<signal_pc, pipe, batch, stop_server, asked>>

\* Something happens on a connection; what it was is not looked at.
SignalClientActs ==
  /\ \E f \in open \ {0} : ready' = ready \cup {f}
  /\ UNCHANGED <<kernel, signal_pc, pipe, batch, stop_server, asked>>

\* sig_handler: the signal goes into the pipe, or is lost if the pipe is full.
SigHandler ==
  /\ Len(pipe) < PipeSize
  /\ \E sig \in Signals : /\ pipe' = Append(pipe, sig)
                          /\ asked' = (asked \/ sig = "SIGTERM")
  /\ ready' = ready \cup {PipeFd}
  /\ UNCHANGED <<kernel, signal_pc, batch, stop_server>>

SignalNext ==
  SignalLoop \/ (signal_pc # "stopped" /\ (SignalConnect \/ SignalClientActs \/ SigHandler))

SignalSpec == KernelInit({0}) /\ SignalInit /\ [][SignalNext]_<<kernel, signalVars>>

-----------------------------------------------------------------------------
(***************************************************************************)
(* Properties.                                                             *)
(***************************************************************************)

\* SIGTERM (or SIGINT) stops the server, whatever else is in the pipe and whenever the
\* signal comes between epoll_wait() and the reading of the pipe; nothing else does.
StopsAsAsked == (asked ~> signal_pc = "stopped") /\ [](stop_server => asked)
=============================================================================
