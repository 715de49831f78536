-------------------------- MODULE RemoteTest_proofs --------------------------
(***************************************************************************)
(* Theorems about the iperf3 server and the tests other machines ask for,  *)
(* for any set of servers, calls and requests.                             *)
(***************************************************************************)
EXTENDS RemoteTest, TLAPS

-----------------------------------------------------------------------------
(* The server.                                                               *)

\* A process exists only between its creation and its collection, and Stop
\* returns only once the goroutine has ended.
ServerInv ==
  \A s \in Server :
    /\ process[s] \in {"alive", "killed"} => loop[s] \in {"store", "wait"}
    /\ caller[s] = "returned" => loop[s] = "exited"

LEMMA TypeInit == Init => TypeOK
BY DEF Init, TypeOK

LEMMA TypeNext == TypeOK /\ [Next]_vars => TypeOK'
BY DEF TypeOK, Next, vars, Loop, Check, Publish, StartProcess, StoreProcess,
   StartFails, Collect, EndBackoff, Crash, Die, CallStop, ReturnStop, Stopped,
   AfterRun, Dead

LEMMA ServerInvInit == Init => ServerInv
BY DEF Init, ServerInv

LEMMA ServerInvNext == TypeOK /\ ServerInv /\ [Next]_vars => ServerInv'
<1>. SUFFICES ASSUME TypeOK, ServerInv, [Next]_vars PROVE ServerInv'
  OBVIOUS
<1>1. ASSUME NEW s \in Server, Loop(s) PROVE ServerInv'
  BY <1>1 DEF TypeOK, ServerInv, Loop, Check, Publish, StartProcess, StoreProcess,
     StartFails, Collect, EndBackoff, Stopped, AfterRun
<1>2. ASSUME NEW s \in Server, Crash(s) \/ Die(s) PROVE ServerInv'
  BY <1>2 DEF TypeOK, ServerInv, Crash, Die, Dead
<1>3. ASSUME NEW s \in Server, CallStop(s) PROVE ServerInv'
  BY <1>3 DEF TypeOK, ServerInv, CallStop
<1>4. ASSUME NEW s \in Server, ReturnStop(s) PROVE ServerInv'
  BY <1>4 DEF TypeOK, ServerInv, ReturnStop, LoopDone
<1>5. CASE UNCHANGED vars
  BY <1>5 DEF ServerInv, vars
<1>. QED
  BY <1>1, <1>2, <1>3, <1>4, <1>5 DEF Next

\* The variables of the servers keep their types, for any set of servers.
THEOREM TypeInvariant == Spec => []TypeOK
  BY TypeInit, TypeNext, PTL DEF Spec

\* A Stop that returned left no process behind, wherever it fell between two
\* restarts, for any set of servers.
THEOREM NothingLeft == Spec => []StopLeavesNothing
<1>1. ServerInv => StopLeavesNothing
  BY DEF ServerInv, StopLeavesNothing
<1>. QED
  BY <1>1, TypeInit, TypeNext, ServerInvInit, ServerInvNext, PTL DEF Spec

-----------------------------------------------------------------------------
(* A measurement's result is whole.                                          *)

IsResult(r) == r = [err |-> r.err, legs |-> r.legs]
\* The variables are functions on the calls, and answers are results.
Shape ==
  /\ call = [c \in Call |-> call[c]]
  /\ result = [c \in Call |-> result[c]]
  /\ handler = [c \in Call |-> handler[c]]
  /\ answer = [c \in Call |-> answer[c]]
  /\ client = [c \in Call |-> client[c]]
  /\ seen = [c \in Call |-> seen[c]]
  /\ measured = [c \in Call |-> measured[c]]
  /\ \A c \in Call : IsResult(answer[c])

\* A client runs for a leg under way.  A summary that no error spoils is one of
\* this leg, measured to its end, so all the legs of an answer are; an answer is sent with an error or with all the legs.
WholeOf(c) ==
  /\ client[c] # "none" => handler[c] \in {"stream", "plain"}
  /\ Success(seen[c]) => handler[c] \in {"stream", "plain"} /\ Leg(c) \in measured[c]
  /\ answer[c].legs \subseteq measured[c]
  /\ handler[c] = "over" => answer[c].err \/ AllRun(c)
  /\ call[c] = "done" /\ ~result[c].err
       => result[c].legs = LegsOf(c) /\ LegsOf(c) \subseteq measured[c]

WholeInv == Shape /\ \A c \in Call : WholeOf(c)

\* A step of call c leaves the other calls as they are.
Others(c) ==
  \A d \in Call \ {c} :
    /\ call'[d] = call[d] /\ result'[d] = result[d] /\ handler'[d] = handler[d]
    /\ answer'[d] = answer[d] /\ client'[d] = client[d] /\ seen'[d] = seen[d]
    /\ measured'[d] = measured[d]

\* The parts of the invariant that speak of one call follow its own variables.
LEMMA OthersKeep ==
  ASSUME WholeInv, NEW c \in Call, Others(c), want' = want, Shape', WholeOf(c)'
  PROVE  WholeInv'
<1>1. ASSUME NEW d \in Call \ {c} PROVE WholeOf(d)'
  BY <1>1 DEF WholeInv, WholeOf, Others, Success, Leg, AllRun, LegsOf
<1>. QED
  BY <1>1 DEF WholeInv

\* The two ways a result grows.
LEMMA ResultForms ==
  \A r, l : /\ IsResult(WithErr(r)) /\ WithErr(r).err /\ WithErr(r).legs = r.legs
           /\ IsResult(WithLeg(r, l)) /\ WithLeg(r, l).legs = r.legs \cup {l}
BY DEF IsResult, WithErr, WithLeg

\* Initially nothing has been asked, run or read.
LEMMA InitWhole == TestInit => WholeInv
BY DEF TestInit, WholeInv, Shape, WholeOf, IsResult, Nothing, Success

\* The caller's steps and those that only watch the connection.
LEMMA CallerKeeps ==
  ASSUME WholeInv, NEW c \in Call,
         SpeedTest(c) \/ ReadAnswer(c) \/ HangUp(c) \/ Cancel(c)
  PROVE  WholeInv'
<1>1. want' = want /\ Shape' /\ Others(c)
  BY DEF WholeInv, Shape, Others, SpeedTest, ReadAnswer, HangUp, Cancel
<1>2. WholeOf(c)'
  BY DEF WholeInv, Shape, WholeOf, SpeedTest, ReadAnswer, HangUp, Cancel, Success, Leg,
     AllRun, LegsOf, Failed
<1>. QED
  BY <1>1, <1>2, OthersKeep

\* The handler's steps.
LEMMA HandlerKeeps ==
  ASSUME WholeInv, NEW c \in Call, Accept(c) \/ Handler(c)
  PROVE  WholeInv'
<1>1. want' = want /\ Others(c) /\ measured' = measured
  BY DEF WholeInv, Shape, Others, Accept, Handler, StartClient, StartClientFails, Outcome,
     PlainOutcome, EndLeg, Answer
<1>2. CASE Accept(c)
  <2>1. Shape'
    BY <1>2 DEF WholeInv, Shape, Accept, IsResult, Nothing, Failed
  <2>2. WholeOf(c)'
    BY <1>2 DEF WholeInv, Shape, WholeOf, Accept, Nothing, Failed, Success, Leg, AllRun, LegsOf
  <2>. QED
    BY <1>1, <2>1, <2>2, OthersKeep
<1>3. CASE StartClient(c) \/ StartClientFails(c)
  <2>1. Shape'
    <3>1. CASE StartClient(c)
      BY <3>1 DEF WholeInv, Shape, StartClient, IsResult
    <3>2. CASE StartClientFails(c)
      BY <3>2, ResultForms DEF WholeInv, Shape, StartClientFails
    <3>. QED
      BY <1>3, <3>1, <3>2
  <2>2. WholeOf(c)'
    BY <1>3, ResultForms DEF WholeInv, Shape, WholeOf, StartClient, StartClientFails, Success,
       Leg, AllRun, LegsOf
  <2>. QED
    BY <1>1, <2>1, <2>2, OthersKeep
<1>4. CASE Outcome(c) \/ PlainOutcome(c)
  <2>1. /\ Shape' /\ seen'[c] = {} /\ handler'[c] # "over"
        /\ client'[c] # "none" => handler'[c] = "plain"
    <3>1. /\ seen'[c] = {} /\ handler'[c] # "over"
          /\ client'[c] # "none" => handler'[c] = "plain"
      BY <1>4 DEF WholeInv, Shape, Outcome, PlainOutcome, EndLeg
    <3>2. PICK r : IsResult(r) /\ answer' = [answer EXCEPT ![c] = r]
      <4>1. CASE answer' = answer
        <5>1. answer' = [answer EXCEPT ![c] = answer[c]]
          BY <4>1 DEF WholeInv, Shape
        <5>. QED
          BY <5>1 DEF WholeInv, Shape
      <4>. QED
        BY <1>4, <4>1, ResultForms DEF Outcome, PlainOutcome, EndLeg
    <3>3. /\ answer' = [d \in Call |-> answer'[d]]
          /\ \A d \in Call : IsResult(answer'[d])
      BY <3>2 DEF WholeInv, Shape
    <3>4. /\ handler' = [d \in Call |-> handler'[d]]
          /\ client' = [d \in Call |-> client'[d]]
          /\ seen' = [d \in Call |-> seen'[d]]
      BY <1>4 DEF WholeInv, Shape, Outcome, PlainOutcome, EndLeg
    <3>. QED
      BY <1>1, <1>4, <3>1, <3>3, <3>4 DEF WholeInv, Shape, Outcome, PlainOutcome, EndLeg
  <2>2. \/ answer'[c].legs = answer[c].legs
        \/ Success(seen[c]) /\ answer'[c].legs = answer[c].legs \cup {Leg(c)}
    BY <1>4, ResultForms DEF WholeInv, Shape, Outcome, PlainOutcome, EndLeg, Success, Parsed
  <2>3. call' = call /\ result' = result
    BY <1>4 DEF Outcome, PlainOutcome, EndLeg
  <2>4. WholeOf(c)'
    BY <1>1, <2>1, <2>2, <2>3 DEF WholeInv, WholeOf, Success, LegsOf
  <2>. QED
    BY <1>1, <2>1, <2>4, OthersKeep
<1>5. CASE Answer(c)
  <2>1. Shape'
    BY <1>5 DEF WholeInv, Shape, Answer
  <2>2. WholeOf(c)'
    BY <1>5 DEF WholeInv, Shape, WholeOf, Answer, Success, Leg, AllRun, LegsOf
  <2>. QED
    BY <1>1, <2>1, <2>2, OthersKeep
<1>. QED
  BY <1>2, <1>3, <1>4, <1>5 DEF Handler

\* The client's steps: only a measured leg leaves a summary without an error.
LEMMA ClientKeeps ==
  ASSUME WholeInv, NEW c \in Call,
         Connect(c) \/ Measure(c) \/ ClientFails(c) \/ Kill(c)
  PROVE  WholeInv'
<1>1. /\ want' = want /\ call' = call /\ result' = result
      /\ handler' = handler /\ answer' = answer /\ Others(c)
  BY DEF WholeInv, Shape, Others, Connect, Measure, ClientFails, Kill, Ends
<1>2. CASE Connect(c) \/ Kill(c)
  <2>1. /\ Shape' /\ client[c] # "none" /\ measured' = measured
        /\ Success(seen'[c]) => Success(seen[c])
    BY <1>2 DEF WholeInv, Shape, Connect, Kill, Ends, Success
  <2>. QED
    BY <1>1, <2>1, OthersKeep DEF WholeInv, WholeOf, Success, Leg, AllRun, LegsOf
<1>3. CASE Measure(c)
  <2>1. Shape' /\ handler[c] \in {"stream", "plain"} /\ measured'[c] = measured[c] \cup {Leg(c)}
    BY <1>3 DEF WholeInv, Shape, WholeOf, Measure, Ends
  <2>. QED
    BY <1>1, <2>1, OthersKeep DEF WholeInv, WholeOf, Success, Leg, AllRun, LegsOf
<1>4. CASE ClientFails(c)
  <2>1. PICK o : /\ Ends(c, o)
                 /\ \/ o = {"failed"}
                    \/ o \in FailureOf(c)
    BY <1>4 DEF ClientFails
  <2>2. Success(o) => Success(seen[c])
    BY <2>1 DEF WholeInv, Shape, FailureOf, Success
  <2>3. Shape' /\ client[c] # "none" /\ measured' = measured /\ seen'[c] = o
    BY <1>4, <2>1, <2>2 DEF WholeInv, Shape, Ends, ClientFails
  <2>. QED
    BY <1>1, <2>2, <2>3, OthersKeep DEF WholeInv, WholeOf, Success, Leg, AllRun, LegsOf
<1>. QED
  BY <1>2, <1>3, <1>4

\* Every step keeps the invariant.
LEMMA NextWhole == WholeInv /\ [TestNext]_allVars => WholeInv'
<1>. SUFFICES ASSUME WholeInv, [TestNext]_allVars PROVE WholeInv'
  OBVIOUS
<1>1. ASSUME UNCHANGED testVars PROVE WholeInv'
  BY <1>1 DEF WholeInv, Shape, WholeOf, testVars, IsResult, Success, Leg, AllRun, LegsOf
<1>2. ASSUME NEW s \in Server, ServerEnds(s) PROVE WholeInv'
  BY <1>2 DEF ServerEnds, WholeInv, Shape, WholeOf, IsResult, Success, Leg, AllRun, LegsOf
<1>3. ASSUME UNCHANGED allVars PROVE WholeInv'
  BY <1>1, <1>3 DEF allVars
<1>. QED
  BY <1>1, <1>2, <1>3, CallerKeeps, HandlerKeeps, ClientKeeps DEF TestNext

\* A result without an error is whole, for any set of calls and requests and
\* whatever happens to clients, servers and connections.
THEOREM ResultsWhole == TestSpec => []ResultWhole
<1>1. WholeInv => ResultWhole
  BY DEF WholeInv, WholeOf, ResultWhole
<1>. QED
  BY <1>1, InitWhole, NextWhole, PTL DEF TestSpec

-----------------------------------------------------------------------------
(* The tests leave the servers to themselves.                                *)

LEMMA TestStepIsServerStep == [TestNext]_allVars => [Next]_vars
<1>. SUFFICES ASSUME TestNext PROVE [Next]_vars
  BY DEF allVars
<1>1. ASSUME NEW s \in Server, Loop(s) \/ CallStop(s) \/ ReturnStop(s) PROVE Next
  BY <1>1 DEF Next
<1>2. ASSUME NEW s \in Server, ServerEnds(s) PROVE Next
  BY <1>2 DEF Next, ServerEnds
<1>. QED
  BY <1>1, <1>2 DEF TestNext

\* A Stop that returned left no process behind in the composition either: the
\* clients of the tests, their deaths and restarts do not keep a server alive.
THEOREM NothingLeftByTests == TestSpec => []StopLeavesNothing
<1>1. TestInit => Init
  BY DEF TestInit
<1>2. TypeOK /\ ServerInv /\ [TestNext]_allVars => TypeOK' /\ ServerInv'
  BY TestStepIsServerStep, TypeNext, ServerInvNext
<1>3. ServerInv => StopLeavesNothing
  BY DEF ServerInv, StopLeavesNothing
<1>. QED
  BY <1>1, <1>2, <1>3, TypeInit, ServerInvInit, PTL DEF TestSpec
=============================================================================
