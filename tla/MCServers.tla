------------------------------ MODULE MCServers ------------------------------
(***************************************************************************)
(* TLC's instance of the three servers: one of them is started, on the     *)
(* kernel that the modules share, and the others stay stopped.             *)
(***************************************************************************)
EXTENDS SelectServer, PollServer, SignalServer

\* The servers keep the terminal they were started from.
ASSUME TerminalAssumption == 0 \in Fds

vars == <<kernel, selectVars, pollVars, signalVars>>

TypeOK == KernelOK /\ SelectTypeOK /\ PollTypeOK /\ SignalTypeOK

Init ==
  /\ KernelInit({0}) /\ SelectRest /\ PollRest /\ SignalRest
  /\ \/ select_pc = "select" /\ poll_pc = "stopped" /\ signal_pc = "stopped"
     \/ select_pc = "stopped" /\ poll_pc = "poll" /\ signal_pc = "stopped"
     \/ select_pc = "stopped" /\ poll_pc = "stopped" /\ signal_pc = "wait"

Next ==
  \/ SelectNext /\ UNCHANGED <<pollVars, signalVars>>
  \/ PollNext /\ UNCHANGED <<selectVars, signalVars>>
  \/ SignalNext /\ UNCHANGED <<selectVars, pollVars>>

Spec == Init /\ [][Next]_vars

\* The process is scheduled.  The clients and the signals come as they like.
FairSpec ==
  /\ Spec
  /\ WF_vars(SelectLoop /\ UNCHANGED <<pollVars, signalVars>>)
  /\ WF_vars(PollLoop /\ UNCHANGED <<selectVars, signalVars>>)
  /\ WF_vars(SignalLoop /\ UNCHANGED <<selectVars, pollVars>>)
=============================================================================
