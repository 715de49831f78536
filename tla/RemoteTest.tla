----------------------------- MODULE RemoteTest -----------------------------
(***************************************************************************)
(* One measurement of the LAN test, from the orchestrator's call to the    *)
(* iperf3 client and back (appcore/speedtest.go, iperf/stream.go), beside  *)
(* the iperf3 servers it measures against (IperfServer).                   *)
(*                                                                         *)
(* SpeedTest posts a request to the node that is to run the client, or     *)
(* runs the client itself.  The node runs the legs of the request one      *)
(* after the other, each an iperf3 process whose output it reads until the *)
(* end, and answers with one result.  The caller may hang up at any time:  *)
(* its user stops the sweep, its 90 seconds are over, the line breaks.     *)
(*                                                                         *)
(* Left out: the figures, the lines that carry a live reading (they only   *)
(* repaint the screen) and with them the two formats of the answer, and    *)
(* the clamping of the request's numbers.                                  *)
(***************************************************************************)
EXTENDS IperfServer, SequencesExt

CONSTANTS
  Call,       \* calls of SpeedTest, of one orchestrator or of several
  Requests,   \* what they may ask for: functions from Call to requests
  Loopback    \* a target that names the machine itself

\* A request: the server it measures against, its legs in their order (two for
\* "both"), whether the caller runs the client itself, and whether the iperf3
\* of the node that runs it knows --json-stream (3.17 and later).
ASSUME RequestsAssumption ==
  \A w \in Requests, c \in Call :
    /\ w[c].target \in Server \cup {Loopback}
    /\ w[c].legs # <<>>
    /\ w[c].here \in BOOLEAN /\ w[c].modern \in BOOLEAN
    /\ w[c].here => w[c].target # Loopback

VARIABLES
  want,      \* want[c]: the request of call c
  call,      \* call[c]: "idle", "sent" or "done"
  result,    \* result[c]: the SpeedResult: whether its Err is set, the legs it reports
  hungUp,    \* hungUp[c]: the caller's connection is down
  cancelled, \* cancelled[c]: the context of the client's node is cancelled
  handler,   \* handler[c]: where the node is in runSpeedTest
  answer,    \* answer[c]: the result so far, the one that is sent in the end
  client,    \* client[c]: the iperf3 client process of the leg under way
  seen,      \* seen[c]: what RunClientStream knows of it: an "event", an "error",
             \* the "end" summary, and whether it "failed"
  measured   \* measured[c]: the legs a client has measured to their end (history)

testVars == <<want, call, result, hungUp, cancelled, handler, answer, client, seen, measured>>
allVars == <<vars, testVars>>

Nothing == [err |-> FALSE, legs |-> {}]
Failed == [err |-> TRUE, legs |-> {}]
WithErr(r) == [err |-> TRUE, legs |-> r.legs]
WithLeg(r, l) == [err |-> r.err, legs |-> r.legs \cup {l}]

LegsOf(c) == ToSet(want[c].legs)

-----------------------------------------------------------------------------
(* Pieces of the handlers, and slips in them.                                *)

\* Slip: the summary counts, whatever iperf3 had to say beside it.
EndFirst(o) == "end" \in o

\* A run is a success if it reports no error and has its summary.
Success(o) == "error" \notin o /\ "end" \in o

\* Parse(): a plain run is a success if it has printed its document, which it
\* does when it is through, and the document names no error.
Parsed(o) == "error" \notin o /\ o \cap {"end", "error"} # {}

\* Slip: the handler runs the client with a context of its own.
Background(c) == FALSE

\* ctx.Err() # nil, of the request's context.
CtxDone(c) == cancelled[c]

\* A stream without an event from a process that failed, and nobody stopped
\* it: an iperf3 that does not know --json-stream.
Outdated(c) ==
  /\ handler[c] = "stream" /\ seen[c] = {"failed"} /\ ~CtxDone(c)

\* isLoopbackTarget(): a node does not measure against itself.
Misrouted(c) == want[c].target = Loopback

\* The leg that is next, and those the client has really measured.
Leg(c) == want[c].legs[Cardinality(answer[c].legs) + 1]
AllRun(c) == answer[c].legs = LegsOf(c)

-----------------------------------------------------------------------------
TestInit ==
  /\ Init
  /\ want \in Requests
  /\ call = [c \in Call |-> "idle"]
  /\ result = [c \in Call |-> Nothing]
  /\ hungUp = [c \in Call |-> FALSE]
  /\ cancelled = [c \in Call |-> FALSE]
  /\ handler = [c \in Call |-> "none"]
  /\ answer = [c \in Call |-> Nothing]
  /\ client = [c \in Call |-> "none"]
  /\ seen = [c \in Call |-> {}]
  /\ measured = [c \in Call |-> {}]

\* SpeedTest: the request is posted.
SpeedTest(c) ==
  /\ call[c] = "idle"
  /\ call' = [call EXCEPT ![c] = "sent"]
  /\ UNCHANGED <<want, result, hungUp, cancelled, handler, answer, client, seen, measured>>

\* The node takes the request, which may be all that is left of the connection.
Accept(c) ==
  /\ call[c] # "idle" /\ handler[c] = "none"
  /\ call[c] = "done" => hungUp[c]
  /\ handler' = [handler EXCEPT ![c] = IF Misrouted(c) THEN "over" ELSE "leg"]
  /\ answer' = [answer EXCEPT ![c] = IF Misrouted(c) THEN Failed ELSE Nothing]
  /\ UNCHANGED <<want, call, result, hungUp, cancelled, client, seen, measured>>

\* run(target, opts, emit), of the next leg ...
StartClient(c) ==
  /\ handler[c] = "leg" /\ ~answer[c].err /\ ~AllRun(c)
  /\ ~CtxDone(c)
  /\ handler' = [handler EXCEPT ![c] = "stream"]
  /\ client' = [client EXCEPT ![c] = "connecting"]
  /\ UNCHANGED <<want, call, result, hungUp, cancelled, answer, seen, measured>>

\* ... or there is no iperf3, or it cannot be started, or the context is
\* cancelled already.
StartClientFails(c) ==
  /\ handler[c] = "leg" /\ ~answer[c].err /\ ~AllRun(c)
  /\ answer' = [answer EXCEPT ![c] = WithErr(answer[c])]
  /\ UNCHANGED <<want, call, result, hungUp, cancelled, handler, client, seen, measured>>

\* The leg is over; one that failed is the last.
EndLeg(c, good) ==
  /\ handler' = [handler EXCEPT ![c] = "leg"]
  /\ client' = [client EXCEPT ![c] = "none"]
  /\ seen' = [seen EXCEPT ![c] = {}]
  /\ answer' = [answer EXCEPT ![c] = IF good THEN WithLeg(answer[c], Leg(c))
                                             ELSE WithErr(answer[c])]

\* RunClientStream(): the output of the process has ended and the process is
\* collected.  An outdated iperf3 is run once more the plain way, unless it
\* cannot be started, as when the context has been cancelled in between.
Outcome(c) ==
  /\ handler[c] = "stream" /\ client[c] = "dead"
  /\ \/ /\ Outdated(c)
        /\ handler' = [handler EXCEPT ![c] = "plain"]
        /\ client' = [client EXCEPT ![c] = "connecting"]
        /\ seen' = [seen EXCEPT ![c] = {}]
        /\ UNCHANGED answer
     \/ EndLeg(c, Success(seen[c]))
  /\ UNCHANGED <<want, call, result, hungUp, cancelled, measured>>

\* RunClientCtx(): the same, of the plain run.
PlainOutcome(c) ==
  /\ handler[c] = "plain" /\ client[c] = "dead"
  /\ EndLeg(c, Parsed(seen[c]))
  /\ UNCHANGED <<want, call, result, hungUp, cancelled, measured>>

\* The handler has all legs, or one that failed, and answers: the caller that
\* runs the client itself has its result, another one reads it off the line.
Answer(c) ==
  /\ handler[c] = "leg"
  /\ answer[c].err \/ AllRun(c)
  /\ handler' = [handler EXCEPT ![c] = "over"]
  /\ IF want[c].here THEN /\ call' = [call EXCEPT ![c] = "done"]
                          /\ result' = [result EXCEPT ![c] = answer[c]]
                     ELSE UNCHANGED <<call, result>>
  /\ UNCHANGED <<want, hungUp, cancelled, answer, client, seen, measured>>

ReadAnswer(c) ==
  /\ call[c] = "sent" /\ handler[c] = "over"
  /\ call' = [call EXCEPT ![c] = "done"]
  /\ result' = [result EXCEPT ![c] = answer[c]]
  /\ UNCHANGED <<want, hungUp, cancelled, handler, answer, client, seen, measured>>

\* The caller hangs up: its context is cancelled, its 90 seconds are over, or
\* the connection breaks.  FetchSpeed returns an error, whatever it has read.
HangUp(c) ==
  /\ call[c] = "sent" /\ ~want[c].here
  /\ call' = [call EXCEPT ![c] = "done"]
  /\ result' = [result EXCEPT ![c] = Failed]
  /\ hungUp' = [hungUp EXCEPT ![c] = TRUE]
  /\ UNCHANGED <<want, cancelled, handler, answer, client, seen, measured>>

\* The node's HTTP server finds the connection closed and cancels the request's
\* context; a caller that runs the client itself cancels it at once.
Cancel(c) ==
  /\ ~cancelled[c] /\ handler[c] \in {"leg", "stream", "plain"}
  /\ hungUp[c] \/ want[c].here
  /\ cancelled' = [cancelled EXCEPT ![c] = TRUE]
  /\ UNCHANGED <<want, call, result, hungUp, handler, answer, client, seen, measured>>

-----------------------------------------------------------------------------
(* The iperf3 clients, as far as the code depends on them.                   *)

\* The process ends, having said o.
Ends(c, o) ==
  /\ client' = [client EXCEPT ![c] = "dead"]
  /\ seen' = [seen EXCEPT ![c] = o]
  /\ UNCHANGED <<want, call, result, hungUp, cancelled, handler, answer>>

\* What a client that fails has said: an error, with or without a summary of
\* what it had measured, or nothing more than before.
FailureOf(c) ==
  {seen[c] \cup {"failed"}, seen[c] \cup {"event", "error", "failed"},
   seen[c] \cup {"event", "error", "end", "failed"}}

\* A server takes one client at a time.
Free(c) == \A d \in Call \ {c} : ~(client[d] = "testing" /\ want[d].target = want[c].target)

Connect(c) ==
  /\ client[c] = "connecting" /\ (handler[c] = "stream" => want[c].modern)
  /\ process[want[c].target] = "alive" /\ Free(c)
  /\ client' = [client EXCEPT ![c] = "testing"]
  /\ seen' = [seen EXCEPT ![c] = @ \cup {"event"}]
  /\ UNCHANGED <<want, call, result, hungUp, cancelled, handler, answer, measured>>

\* The whole test ran.
Measure(c) ==
  /\ client[c] = "testing"
  /\ Ends(c, seen[c] \cup {"end"})
  /\ measured' = [measured EXCEPT ![c] = @ \cup {Leg(c)}]

\* It fails: nobody serves it, the server is busy or gone, the test breaks off,
\* the process crashes, or it does not know one of its arguments.
ClientFails(c) ==
  /\ client[c] \in {"connecting", "testing", "orphan"}
  /\ IF handler[c] = "stream" /\ ~want[c].modern
       THEN Ends(c, {"failed"})
       ELSE \E o \in FailureOf(c) : Ends(c, o)
  /\ UNCHANGED measured

\* CommandContext kills the process of a cancelled context.
Kill(c) ==
  /\ client[c] \in {"connecting", "testing", "orphan"} /\ CtxDone(c)
  /\ Ends(c, seen[c] \cup {"failed"})
  /\ UNCHANGED measured

-----------------------------------------------------------------------------
\* An iperf3 server that ends abandons the client it was serving.
ServerEnds(s) ==
  /\ Crash(s) \/ Die(s)
  /\ client' = [c \in Call |-> IF client[c] = "testing" /\ want[c].target = s
                               THEN "orphan" ELSE client[c]]
  /\ UNCHANGED <<want, call, result, hungUp, cancelled, handler, answer, seen, measured>>

Handler(c) ==
  StartClient(c) \/ StartClientFails(c) \/ Outcome(c) \/ PlainOutcome(c) \/ Answer(c)

TestNext ==
  \/ \E s \in Server : (Loop(s) \/ CallStop(s) \/ ReturnStop(s)) /\ UNCHANGED testVars
  \/ \E s \in Server : ServerEnds(s)
  \/ /\ \E c \in Call :
          \/ SpeedTest(c) \/ Accept(c) \/ Handler(c) \/ ReadAnswer(c) \/ HangUp(c) \/ Cancel(c)
          \/ Connect(c) \/ Measure(c) \/ ClientFails(c) \/ Kill(c)
     /\ UNCHANGED vars

\* The goroutines of the handler run, a closed connection is noticed (by its end
\* of file, by a write that fails or by the keep-alive of the listener), and a
\* killed client ends.  A client may take for ever, an answer may never arrive.
TestSpec ==
  /\ TestInit /\ [][TestNext]_allVars /\ Fairness
  /\ \A c \in Call : /\ WF_allVars(Handler(c) /\ UNCHANGED vars)
                     /\ WF_allVars(Cancel(c) /\ hungUp[c] /\ UNCHANGED vars)
                     /\ WF_allVars(Kill(c) /\ UNCHANGED vars)

-----------------------------------------------------------------------------
(* Properties *)

\* A result without an error is whole: every leg of the request was measured to
\* its end, whatever broke off, was killed, restarted or retried on the way.
ResultWhole ==
  \A c \in Call : call[c] = "done" /\ ~result[c].err
                   => result[c].legs = LegsOf(c) /\ LegsOf(c) \subseteq measured[c]

\* "a caller that stops its sweep (dropping the connection) also kills the
\* iperf3 client running here": a call that is given up leaves no client and no
\* leg behind, not even if its request arrives later, and no retry either.
HangUpKills ==
  \A c \in Call : hungUp[c] \/ cancelled[c]
                   ~> [](handler[c] \in {"none", "over"} /\ client[c] = "none")
=============================================================================
