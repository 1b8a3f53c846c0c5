--------------------------- MODULE EngineProperties ---------------------------
(***************************************************************************)
(* What makes the engine correct: invariants, action properties, liveness  *)
(* and the refinement of the protocol it promises to its host.             *)
(***************************************************************************)
EXTENDS Engine

(* The frames runSnapshot has not run yet, outside the one it is running.  *)
Remaining == Len(snap.frames) - index

(* The activations that EvalCode counted, above the one runSnapshot runs.  *)
EnteredAbove == {k \in 2..Len(active) : frame[active[k]].entered}

(* callDepth is right after any sequence of pauses, resumes, errors and    *)
(* returns: it is the number of frames outside the one being run plus the  *)
(* counted activations on the Go stack.  RestoreCallDepth, runSnapshot's   *)
(* ExitCall and EvalCode's deferred ExitCall must agree for that.          *)
DepthAccounting ==
    /\ control = "driver" => state.callDepth = Remaining
    /\ control \notin {"host", "driver"} =>
          state.callDepth = Remaining + Cardinality(EnteredAbove)

(* The frames of the program that are under way: paused, running, waiting. *)
LiveFrames ==
       {active[k] : k \in 1..Len(active)}
  \cup {ext.paused[k] : k \in 1..Len(ext.paused)}
  \cup {snap.frames[k] : k \in {i \in 1..Len(snap.frames) : i > index}}

(* The depth limit holds for the whole program and not only for the part   *)
(* of it that runs since the last Resume: never are more function calls    *)
(* under way than MaxCallDepth.  Generators are not counted by the code    *)
(* and not counted here.                                                   *)
DepthLimited ==
    Cardinality({f \in LiveFrames : frame[f].entered}) <= MaxCallDepth

(* Pausing and resuming keeps the program's call stack: the frames in a    *)
(* snapshot, the paused frames and the Go stack are each linked callee to  *)
(* caller, they join without a gap and end in the module's frame.  The     *)
(* merge of paused and remaining frames must drop, repeat or swap none.    *)
CallStackKept ==
    /\ \A k \in 1..(Len(snap.frames) - 1) :
          frame[snap.frames[k]].parent = snap.frames[k + 1]
    /\ snap.frames # <<>> => snap.frames[Len(snap.frames)] = 1
    /\ \A k \in 2..Len(active) : frame[active[k]].parent = active[k - 1]
    /\ active # <<>> => active[1] = snap.frames[index]
    /\ \A k \in 1..(Len(ext.paused) - 1) :
          frame[ext.paused[k]].parent = ext.paused[k + 1]
    /\ ext.paused # <<>> => ext.paused[Len(ext.paused)] = Innermost

(* A frame waits for exactly the frame inside it, the innermost one of a   *)
(* snapshot for the call the host was asked for.                           *)
WaitsFor(outer, inner) == frame[outer].want \in {From("frame", inner),
                                                 From("builtin", inner)}
EveryFrameWaits ==
    /\ \A k \in 1..(Len(snap.frames) - 1) : k >= index =>
          WaitsFor(snap.frames[k + 1], snap.frames[k])
    /\ control = "host" /\ reply.kind = "call" =>
          /\ snap.frames # <<>>
          /\ frame[snap.frames[1]].want = From("host", reply.call)

(* Whatever lands on an operand stack is the result of the call made       *)
(* there: the callee's, or the host's answer to that very call, after any  *)
(* number of pauses on the way.  (For a call of a builtin see              *)
(* BuiltinResultsReachTheirCallSite.)                                      *)
ResultsReachTheirCallSite ==
    \A f \in FrameId :
        frame[f].got # Nothing /\ frame[f].want.by # "builtin"
            => frame[f].got = frame[f].want

(* The last reply carries all that was printed since Run, over all pauses, *)
(* and no more than the limit.                                             *)
OutputDelivered ==
    /\ state.outputBytes <= MaxOutputBytes
    /\ reply.kind \in {"complete", "error"} => reply.stdout = state.outputBytes

(* A spent instruction budget is final: handlers, loops that swallow       *)
(* errors, pauses and resumes notwithstanding, the execution ends as an    *)
(* error, and the program makes no more external calls on the way.         *)
ExhaustedRunFails ==
    state.instructionCount > MaxInstructions ~> reply.kind = "error"

(* So is the cancellation of the context of the run while it executes.     *)
InterruptedRunFails ==
    control = "opcode" /\ state.hostContext \in done ~> reply.kind = "error"

(* Run, Resume and ResumeWithError return, whatever the program does: the  *)
(* budget stops it if nothing else does.                                   *)
EveryCallReturns == control # "host" ~> control = "host"

(* The engine implements the protocol it promises to its host.             *)
Phase ==
    CASE reply.kind = "refused" -> "refused"
      [] reply.kind \in {"complete", "error"} -> "finished"
      [] reply.kind = "call" -> "waiting"
      [] OTHER -> IF pyCtx = "none" THEN "new" ELSE "running"

Held == pyCtx = "open" \/ snap.stdoutFile \/ snap.stdoutPath

Protocol == INSTANCE HostProtocol
                WITH CallIds <- 1..MaxInstructions,
                     phase <- Phase, asked <- reply.call, held <- Held

ImplementsHostProtocol == Protocol!Spec
-------------------------------------------------------------------------------
(* What the documentation says of the engine and the code does not do.     *)

(* An exception reaches the handlers of every frame outside the one that   *)
(* raises it: an execution fails only when no frame has a handler left.    *)
ExceptionsReachHandlers ==
    [][Fail /\ err = "program" =>
          \A k \in (index + 1)..Len(snap.frames) :
              frame[snap.frames[k]].blocks = 0]_vars

(* Every external call of the program reaches the host.                    *)
ExternalCallsReachHost ==
    [][control = "pause" /\ ext.paused # <<>> => control' \in {"pause", "host"}]_vars

(* A call of a builtin gets the builtin's result, also when a function the *)
(* builtin called paused.                                                  *)
BuiltinResultsReachTheirCallSite ==
    \A f \in FrameId : frame[f].got # Nothing => frame[f].got = frame[f].want

(* The context given to Resume stops the program it resumes.               *)
CallContextStopsProgram ==
    [][control = "opcode" /\ callCtx \in done =>
          state'.instructionCount = state.instructionCount]_vars
===============================================================================
