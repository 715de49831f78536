---------------------------- MODULE IperfServer ----------------------------
(***************************************************************************)
(* The iperf3 servers of a node (iperf/server.go): the always-on one and   *)
(* the extra listeners of a stress run.  Each has a goroutine that runs    *)
(* iperf3 -s, waits for the process and starts it again, until Stop.       *)
(*                                                                         *)
(* Stop closes a channel, kills the published command's process and waits  *)
(* for the goroutine.  It is called once for each server, by whoever       *)
(* started it, at any moment.                                              *)
(***************************************************************************)
EXTENDS Naturals

CONSTANT Server      \* the servers of one node, one for each port

VARIABLES
  loop,      \* loop[s]: where the goroutine of run() is
  process,   \* process[s]: what became of the published command's process
  caller     \* caller[s]: where the call of Stop is

vars == <<loop, process, caller>>

-----------------------------------------------------------------------------
(* Pieces of the handlers.  A definition marked "Slip" is a plausible        *)
(* mistake in the one after it; the runs are shown to notice each of them.   *)

\* Slip: Stop returns without waiting for the goroutine.
NoNeedToWait(s) == TRUE

\* <-s.done
LoopDone(s) == loop[s] = "exited"

\* The channel s.stop is closed, in the same critical section as the kill.
Stopped(s) == caller[s] # "none"

\* Slip: a process that ended is not started again.
AfterExit == "exited"

\* cmd.Run returned: back off, then go on.
AfterRun == "backoff"

\* Slip: a killed process is left in a state that nobody collects.
Exited == "gone"

\* The process has ended, and cmd.Run can collect it.
Dead == "dead"

-----------------------------------------------------------------------------
Init ==
  /\ loop = [s \in Server |-> "check"]
  /\ process = [s \in Server |-> "none"]
  /\ caller = [s \in Server |-> "none"]

\* The select at the head of the loop.
Check(s) ==
  /\ loop[s] = "check"
  /\ loop' = [loop EXCEPT ![s] = IF Stopped(s) THEN "exited" ELSE "publish"]
  /\ UNCHANGED <<process, caller>>

\* s.cmd = cmd under the mutex: a command that has no process yet.
Publish(s) ==
  /\ loop[s] = "publish"
  /\ loop' = [loop EXCEPT ![s] = "start"]
  /\ process' = [process EXCEPT ![s] = "none"]
  /\ UNCHANGED caller

\* cmd.Run creates the process, and stores it in the command ...
StartProcess(s) ==
  /\ loop[s] = "start"
  /\ loop' = [loop EXCEPT ![s] = "store"]
  /\ process' = [process EXCEPT ![s] = "alive"]
  /\ UNCHANGED caller

StoreProcess(s) ==
  /\ loop[s] = "store"
  /\ loop' = [loop EXCEPT ![s] = "wait"]
  /\ UNCHANGED <<process, caller>>

\* ... or cannot create it, and returns.
StartFails(s) ==
  /\ loop[s] = "start"
  /\ loop' = [loop EXCEPT ![s] = AfterRun]
  /\ UNCHANGED <<process, caller>>

\* cmd.Run returns once the process has ended.
Collect(s) ==
  /\ loop[s] = "wait"
  /\ process[s] = "dead"
  /\ loop' = [loop EXCEPT ![s] = AfterRun]
  /\ UNCHANGED <<process, caller>>

\* The second of backoff is over, or the server was stopped.
EndBackoff(s) ==
  /\ loop[s] = "backoff"
  /\ \/ loop' = [loop EXCEPT ![s] = "check"]
     \/ Stopped(s) /\ loop' = [loop EXCEPT ![s] = "exited"]
  /\ UNCHANGED <<process, caller>>

Loop(s) ==
  \/ Check(s) \/ Publish(s) \/ StartProcess(s) \/ StoreProcess(s) \/ StartFails(s)
  \/ Collect(s) \/ EndBackoff(s)

\* iperf3 -s ends by itself: its port is taken, or it crashes.
Crash(s) ==
  /\ process[s] = "alive"
  /\ process' = [process EXCEPT ![s] = "dead"]
  /\ UNCHANGED <<loop, caller>>

\* A killed process ends.
Die(s) ==
  /\ process[s] = "killed"
  /\ process' = [process EXCEPT ![s] = Dead]
  /\ UNCHANGED <<loop, caller>>

\* The critical section of Stop.  It reads cmd.Process while the loop may be
\* writing it: of a process that has just been created it sees either value.
CallStop(s) ==
  /\ caller[s] = "none"
  /\ caller' = [caller EXCEPT ![s] = "waiting"]
  /\ \/ /\ loop[s] \in {"store", "wait"}
        /\ process[s] = "alive"
        /\ process' = [process EXCEPT ![s] = "killed"]
     \/ /\ loop[s] = "wait" => process[s] # "alive"
        /\ UNCHANGED process
  /\ UNCHANGED loop

\* <-s.done
ReturnStop(s) ==
  /\ caller[s] = "waiting"
  /\ LoopDone(s)
  /\ caller' = [caller EXCEPT ![s] = "returned"]
  /\ UNCHANGED <<loop, process>>

Next ==
  \E s \in Server : Loop(s) \/ Crash(s) \/ Die(s) \/ CallStop(s) \/ ReturnStop(s)

\* The goroutines run and a killed process ends.  Nobody has to call Stop, and
\* a server that is left alone serves for ever.
Fairness ==
  \A s \in Server : WF_vars(Loop(s)) /\ WF_vars(Die(s)) /\ WF_vars(ReturnStop(s))

Spec == Init /\ [][Next]_vars /\ Fairness

-----------------------------------------------------------------------------
(* Properties *)

TypeOK ==
  /\ loop \in [Server -> {"check", "publish", "start", "store", "wait", "backoff", "exited"}]
  /\ process \in [Server -> {"none", "alive", "killed", "dead"}]
  /\ caller \in [Server -> {"none", "waiting", "returned"}]

\* When Stop has returned no iperf3 of the server runs, and the port is free
\* for the next one, however the stop fell between two restarts.
StopLeavesNothing ==
  \A s \in Server : caller[s] = "returned" => process[s] \notin {"alive", "killed"}

\* "keeps it running until Stop": as long as nobody stops it a server that is
\* down is started again, whether it crashed or could not be started.
KeepsRunning ==
  \A s \in Server : []<>(process[s] = "alive" \/ loop[s] = "start" \/ Stopped(s))

\* A Stop that found a process to kill returns.
KillingStopReturns ==
  \A s \in Server : process[s] = "killed" ~> caller[s] = "returned"

\* "Stop terminates the server and waits for its loop to exit": every Stop
\* returns.
StopReturns == \A s \in Server : caller[s] = "waiting" ~> caller[s] = "returned"

=============================================================================
