-------------------------------- MODULE Engine --------------------------------
(***************************************************************************)
(* The pause/resume engine of Taipan: RunWithLimits, Resume,               *)
(* ResumeWithError and runSnapshot (taipan.go), the execution budget       *)
(* (py/execution.go), the interpreter loop as far as frames enter, leave   *)
(* and pause (vm/eval.go, vm/ext_call.go).                                 *)
(*                                                                         *)
(* A Python frame is an id; `frame` maps ids to what the engine needs of   *)
(* the heap object.  What the program does is left open: at every opcode   *)
(* the innermost frame may step, call, call the host, print, raise,        *)
(* return, enter or leave a try block.  Everything that Go decides, such   *)
(* as who is told, what is counted and what is closed, is not left open.   *)
(*                                                                         *)
(* One goroutine runs the engine; the host's contexts are cancelled by     *)
(* others, between any two of its steps.                                   *)
(***************************************************************************)
EXTENDS Naturals, Sequences, FiniteSets

CONSTANTS
    Contexts,        \* the host's context.Context values
    MaxInstructions, \* Limits.MaxInstructions, after normalizeLimits
    MaxCallDepth,    \* Limits.MaxCallDepth
    MaxOutputBytes,  \* Limits.MaxOutputBytes
    Sizes,           \* the sizes of the outputs that print() writes
    MaxFrames,       \* bound: Python frames created in one execution
    MaxBlocks,       \* bound: nested try blocks of one frame
    Calls            \* the ways a frame calls another, a subset of CallKinds

(* How a frame was entered.  via: "call" by CALL_FUNCTION of its caller,   *)
(* "builtin" by Go code that CALL_FUNCTION of its caller runs (map, list,  *)
(* sorted, __build_class__ ...), "iter" by FOR_ITER of its caller.         *)
(* entered: whether EvalCode ran it and counted it (a generator's frame is *)
(* driven by VmRunFrame and is not counted).                               *)
CallKinds == {[via |-> "call", entered |-> TRUE]}
       \cup [via : {"builtin", "iter"}, entered : BOOLEAN]

ASSUME LimitsAssumption ==
    /\ MaxInstructions \in Nat \ {0}
    /\ MaxCallDepth \in Nat \ {0}
    /\ MaxOutputBytes \in Nat \ {0}

ASSUME BoundsAssumption ==
    /\ Sizes \subseteq Nat
    /\ MaxFrames \in Nat \ {0}
    /\ MaxBlocks \in Nat
    /\ Calls \subseteq CallKinds

FrameId == 1..MaxFrames

(* Where a value on an operand stack comes from: the frame, the builtin    *)
(* working for the call that created the frame, or the host's answer to an *)
(* external call.  "error" is ResumeWithError's injected exception.        *)
Origin == [by : {"none", "frame", "builtin", "host", "error"}, of : Nat]
Nothing == [by |-> "none", of |-> 0]
From(by, n) == [by |-> by, of |-> n]

VARIABLES
    snap,     \* Snapshot: frames, innermost first; the captured output
    state,    \* ExecutionState: the counters and the context of the run
    frame,    \* the Frame objects
    created,  \* how many of them exist
    active,   \* the runFrame activations on the Go stack, innermost last
    index,    \* the frame of snap.frames that runSnapshot is at, 0 outside
    control,  \* what the engine is doing
    result,   \* what runSnapshot pushes on the next frame it runs
    err,      \* the error that leaves the innermost frame
    ext,      \* FrameExitExtCall: the call in flight and its paused frames
    calls,    \* external calls made by the program so far
    reply,    \* the RunProgress the host holds
    callCtx,  \* the context of the API call in progress
    done,     \* the contexts that are cancelled
    pyCtx     \* the interpreter context: "none", "open", "closed"

vars == <<snap, state, frame, created, active, index, control, result, err,
          ext, calls, reply, callCtx, done, pyCtx>>

States == [instructionCount : Nat, callDepth : Nat, outputBytes : Nat,
           hostContext : Contexts]

Snapshots == [frames : Seq(FrameId), stdoutFile : BOOLEAN,
              stdoutPath : BOOLEAN, bytes : Nat]

Frames == [parent : FrameId \cup {0}, via : {"none", "call", "builtin", "iter"},
           entered : BOOLEAN, blocks : Nat, want : Origin, got : Origin]

NoFrame == [parent |-> 0, via |-> "none", entered |-> FALSE, blocks |-> 0,
            want |-> Nothing, got |-> Nothing]

Controls == {"host", "driver", "inject", "opcode", "return", "raise", "pause"}

Replies == [kind : {"none", "refused", "call", "complete", "error"},
            call : Nat, stdout : Nat]

TypeOK ==
    /\ snap \in Snapshots
    /\ state \in States
    /\ frame \in [FrameId -> Frames]
    /\ created \in 0..MaxFrames
    /\ active \in Seq(FrameId)
    /\ index \in Nat
    /\ control \in Controls
    /\ result \in Origin
    /\ err \in {"none", "program", "limit"}
    /\ ext \in [call : Nat, paused : Seq(FrameId)]
    /\ calls \in Nat
    /\ reply \in Replies
    /\ callCtx \in Contexts
    /\ done \in SUBSET Contexts
    /\ pyCtx \in {"none", "open", "closed"}

-------------------------------------------------------------------------------
(* py.NewFrame, for a frame that p calls in the way k.                     *)
NewFrame(p, k) == [parent |-> p, via |-> k.via, entered |-> k.entered,
                   blocks |-> 0, want |-> Nothing, got |-> Nothing]

(* The operand stack of a frame at a call, and with the value that came    *)
(* for it; the block stack after PushBlock and PopBlock.                   *)
Waiting(fr, origin) == [fr EXCEPT !.want = origin, !.got = Nothing]
Given(fr, origin) == [fr EXCEPT !.got = origin]
LoopEnded(fr) == [fr EXCEPT !.want = Nothing]
PushBlock(fr) == [fr EXCEPT !.blocks = @ + 1]
PopBlock(fr) == [fr EXCEPT !.blocks = @ - 1]

(* The innermost activation and the activations around it.                 *)
Innermost == active[Len(active)]
Outer == SubSeq(active, 1, Len(active) - 1)
Caller == active[Len(active) - 1]

(* ExecutionState.ExitCall.                                                *)
ExitCall(s) ==
    IF s.callDepth = 0 THEN s ELSE [s EXCEPT !.callDepth = @ - 1]

(* ExecutionState.RestoreCallDepth, for the frames of a snapshot; and ways *)
(* to get it wrong: count one frame too few, keep the old depth, start     *)
(* from a fresh ExecutionState.                                            *)
RestoreOneTooFew(s, depth) == [s EXCEPT !.callDepth = depth - 1]
RestoreNothing(s, depth) == s
RestoreAfresh(s, depth) == [s EXCEPT !.callDepth = depth, !.outputBytes = 0]
RestoreCallDepth(s, depth) == [s EXCEPT !.callDepth = depth]

(* The context that ExecutionState.CheckContext consults is the one that   *)
(* RunWithLimits stored, whatever context a later Resume is given.         *)
Interrupted == state.hostContext \in done

(* ExecutionState.BeforeOpcode lets one more opcode run, and counts it;    *)
(* without the context, without counting, with a count that starts again   *)
(* once the limit was reported.                                            *)
BeforeOpcodeAnyContext == state.instructionCount < MaxInstructions
BeforeOpcode == ~Interrupted /\ state.instructionCount < MaxInstructions
NotCounted == state
CountedAfresh ==
    [state EXCEPT !.instructionCount = IF @ > MaxInstructions THEN 0 ELSE @ + 1]
Counted == [state EXCEPT !.instructionCount = @ + 1]

(* ExecutionState.EnterCall and ReserveOutput, after BeforeOpcode.         *)
EnterCall == [Counted EXCEPT !.callDepth = @ + 1]
ReserveOutput(n) == [Counted EXCEPT !.outputBytes = @ + n]

(* closeSnapshot: close and remove the capture file, drop the frames,      *)
(* close the interpreter context, and end the API call with a last reply.  *)
FileLeft == [frames |-> <<>>, stdoutFile |-> FALSE,
             stdoutPath |-> snap.stdoutPath, bytes |-> snap.bytes]
ClosedSnapshot == [frames |-> <<>>, stdoutFile |-> FALSE,
                   stdoutPath |-> FALSE, bytes |-> 0]
CloseSnapshot(kind) ==
    /\ snap' = ClosedSnapshot
    /\ pyCtx' = "closed"
    /\ reply' = [reply EXCEPT !.kind = kind, !.stdout = snap.bytes]
    /\ control' = "host"
    /\ index' = 0
    /\ active' = <<>>
    /\ result' = Nothing

(* An exception comes up in frame f: the block stack has a handler for it  *)
(* (runFrame's unwinding, TryBlockSetupExcept and TryBlockSetupFinally) or *)
(* it leaves the frame.                                                    *)
Raise(f, e) ==
    \/ /\ frame[f].blocks > 0
       /\ frame' = [frame EXCEPT ![f] = PopBlock(@)]
       /\ control' = "opcode"
       /\ err' = "none"
    \/ /\ frame[f].blocks = 0
       /\ control' = "raise"
       /\ err' = e
       /\ UNCHANGED frame
-------------------------------------------------------------------------------
Init ==
    /\ snap = [frames |-> <<>>, stdoutFile |-> FALSE, stdoutPath |-> FALSE,
               bytes |-> 0]
    /\ state \in [instructionCount : {0}, callDepth : {0}, outputBytes : {0},
                  hostContext : Contexts]
    /\ frame = [f \in FrameId |-> NoFrame]
    /\ created = 0
    /\ active = <<>>
    /\ index = 0
    /\ control = "host"
    /\ result = Nothing
    /\ err = "none"
    /\ ext = [call |-> 0, paused |-> <<>>]
    /\ calls = 0
    /\ reply = [kind |-> "none", call |-> 0, stdout |-> 0]
    /\ callCtx = state.hostContext
    /\ done = {}
    /\ pyCtx = "none"

(* RunWithLimits, up to the first frame: SetExecutionState, the capture    *)
(* file, the module frame, and runSnapshot's RestoreCallDepth.             *)
Run ==
    /\ control = "host" /\ reply.kind = "none" /\ pyCtx = "none"
    /\ created' = 1
    /\ snap' = [frames |-> <<1>>, stdoutFile |-> TRUE, stdoutPath |-> TRUE,
                bytes |-> 0]
    /\ state' = RestoreCallDepth(state, 0)
    /\ pyCtx' = "open"
    /\ control' = "driver"
    /\ index' = 1
    /\ result' = Nothing
    /\ UNCHANGED <<frame, active, err, ext, calls, reply, callCtx, done>>

(* RunWithLimits gives up before it has a frame.  A nil program leaves     *)
(* nothing behind, a failing set-up closes the context it made, and a      *)
(* global that is also an external function closes the context but keeps   *)
(* the capture file it had opened.                                         *)
RefuseProgram == UNCHANGED <<snap, pyCtx>>
RefuseSetup == pyCtx' = "closed" /\ UNCHANGED snap
RefuseGlobal ==
    /\ pyCtx' = "closed"
    /\ snap' = [snap EXCEPT !.stdoutFile = TRUE, !.stdoutPath = TRUE]

Refuse ==
    /\ control = "host" /\ reply.kind = "none" /\ pyCtx = "none"
    /\ RefuseProgram \/ RefuseSetup \/ RefuseGlobal
    /\ reply' = [reply EXCEPT !.kind = "refused"]
    /\ UNCHANGED <<state, frame, created, active, index, control, result, err,
                   ext, calls, callCtx, done>>

(* Resume and ResumeWithError, up to the first frame.  The snapshot does   *)
(* not know which FunctionCall it is resumed for.                          *)
Resume(by) ==
    /\ control = "host" /\ reply.kind = "call"
    /\ snap.frames # <<>>
    /\ \E c \in Contexts : callCtx' = c
    /\ state' = RestoreCallDepth(state, Len(snap.frames) - 1)
    /\ result' = From(by, reply.call)
    /\ reply' = [reply EXCEPT !.kind = "none"]
    /\ control' = "driver"
    /\ index' = 1
    /\ UNCHANGED <<snap, frame, created, active, err, ext, calls, done, pyCtx>>

ResumeWithResult == Resume("host")
ResumeWithError == Resume("error")

(* Another goroutine cancels a context the host has handed over.           *)
Cancel(c) ==
    /\ c \notin done
    /\ done' = done \cup {c}
    /\ UNCHANGED <<snap, state, frame, created, active, index, control, result,
                   err, ext, calls, reply, callCtx, pyCtx>>
-------------------------------------------------------------------------------
(* runSnapshot between two frames: the context of this API call decides    *)
(* whether the next frame runs at all.                                     *)
DriverAborts ==
    /\ control = "driver" /\ callCtx \in done
    /\ CloseSnapshot("error")
    /\ UNCHANGED <<state, frame, created, err, ext, calls, callCtx, done>>

(* The injected exception is pending when the first frame starts.          *)
DriverInjects ==
    /\ control = "driver" /\ callCtx \notin done
    /\ result.by = "error"
    /\ active' = <<snap.frames[index]>>
    /\ control' = "inject"
    /\ UNCHANGED <<snap, state, frame, created, index, result, err, ext, calls,
                   reply, callCtx, done, pyCtx>>

(* Otherwise the result of the frame inside it, or the host's answer, is   *)
(* pushed on the stack of the frame.                                       *)
DriverRuns ==
    /\ control = "driver" /\ callCtx \notin done
    /\ result.by # "error"
    /\ active' = <<snap.frames[index]>>
    /\ frame' = IF result = Nothing THEN frame
                ELSE [frame EXCEPT ![snap.frames[index]] = Given(@, result)]
    /\ control' = "opcode"
    /\ UNCHANGED <<snap, state, created, index, result, err, ext, calls, reply,
                   callCtx, done, pyCtx>>
-------------------------------------------------------------------------------
(* runFrame's loop: BeforeOpcode refuses, and its error leaves the frame   *)
(* past every handler of the frame.                                        *)
BudgetRefuses ==
    /\ control \in {"opcode", "inject"}
    /\ \/ Interrupted /\ UNCHANGED state
       \/ /\ ~Interrupted
          /\ state.instructionCount >= MaxInstructions
          /\ state' = Counted
    /\ control' = "raise"
    /\ err' = "limit"
    /\ UNCHANGED <<snap, frame, created, active, index, result, ext, calls,
                   reply, callCtx, done, pyCtx>>

(* The exception that ResumeWithError injects meets the block stack.       *)
Inject ==
    /\ control = "inject" /\ BeforeOpcode /\ state' = Counted
    /\ Raise(Innermost, "program")
    /\ UNCHANGED <<snap, created, active, index, result, ext, calls, reply,
                   callCtx, done, pyCtx>>

(* An opcode that concerns its own frame only.                             *)
Step ==
    /\ control = "opcode" /\ BeforeOpcode /\ state' = Counted
    /\ UNCHANGED <<snap, frame, created, active, index, control, result, err,
                   ext, calls, reply, callCtx, done, pyCtx>>

(* SETUP_EXCEPT and SETUP_FINALLY; POP_BLOCK.                              *)
EnterTry ==
    /\ control = "opcode" /\ BeforeOpcode /\ state' = Counted
    /\ frame[Innermost].blocks < MaxBlocks
    /\ frame' = [frame EXCEPT ![Innermost] = PushBlock(@)]
    /\ UNCHANGED <<snap, created, active, index, control, result, err, ext,
                   calls, reply, callCtx, done, pyCtx>>

LeaveTry ==
    /\ control = "opcode" /\ BeforeOpcode /\ state' = Counted
    /\ frame[Innermost].blocks > 0
    /\ frame' = [frame EXCEPT ![Innermost] = PopBlock(@)]
    /\ UNCHANGED <<snap, created, active, index, control, result, err, ext,
                   calls, reply, callCtx, done, pyCtx>>

(* An opcode whose handler returns an error.                               *)
OpcodeRaises ==
    /\ control = "opcode" /\ BeforeOpcode /\ state' = Counted
    /\ Raise(Innermost, "program")
    /\ UNCHANGED <<snap, created, active, index, result, ext, calls, reply,
                   callCtx, done, pyCtx>>

(* CALL_FUNCTION or FOR_ITER runs a Python frame: EvalCode counts it, when *)
(* it is EvalCode that runs it.  The caller now waits for its result.      *)
Call(k) ==
    /\ control = "opcode" /\ BeforeOpcode
    /\ created < MaxFrames
    /\ \/ k.entered /\ state.callDepth < MaxCallDepth /\ state' = EnterCall
       \/ ~k.entered /\ state' = Counted
    /\ created' = created + 1
    /\ LET f == created + 1
           waiting == IF k.via = "builtin" THEN From("builtin", f)
                                           ELSE From("frame", f)
       IN  /\ frame' = [frame EXCEPT
                ![Innermost] = Waiting(@, waiting),
                ![f] = NewFrame(Innermost, k)]
           /\ active' = Append(active, f)
    /\ UNCHANGED <<snap, index, control, result, err, ext, calls, reply,
                   callCtx, done, pyCtx>>

(* EnterCall is at the limit: the call raises in its caller.               *)
CallRefused ==
    /\ control = "opcode" /\ BeforeOpcode /\ state' = Counted
    /\ state.callDepth >= MaxCallDepth
    /\ Raise(Innermost, "program")
    /\ UNCHANGED <<snap, created, active, index, result, ext, calls, reply,
                   callCtx, done, pyCtx>>

(* print(): reserve the bytes, then write them to the capture file.        *)
Output(n) ==
    /\ control = "opcode" /\ BeforeOpcode
    /\ state.outputBytes + n <= MaxOutputBytes
    /\ state' = ReserveOutput(n)
    /\ snap' = [snap EXCEPT !.bytes = @ + n]
    /\ UNCHANGED <<frame, created, active, index, control, result, err, ext,
                   calls, reply, callCtx, done, pyCtx>>

(* ReserveOutput is at the limit: nothing is written, print() raises.      *)
OutputRefused(n) ==
    /\ control = "opcode" /\ BeforeOpcode /\ state' = Counted
    /\ state.outputBytes + n > MaxOutputBytes
    /\ Raise(Innermost, "program")
    /\ UNCHANGED <<snap, created, active, index, result, ext, calls, reply,
                   callCtx, done, pyCtx>>

(* CALL_FUNCTION finds an ExtFunction: the frame starts to pause.          *)
CallExternal ==
    /\ control = "opcode" /\ BeforeOpcode /\ state' = Counted
    /\ calls' = calls + 1
    /\ frame' = [frame EXCEPT
                    ![Innermost] = Waiting(@, From("host", calls + 1))]
    /\ ext' = [call |-> calls + 1, paused |-> <<Innermost>>]
    /\ control' = "pause"
    /\ UNCHANGED <<snap, created, active, index, result, err, reply, callCtx,
                   done, pyCtx>>

(* RETURN_VALUE, or YIELD_VALUE in a generator's frame.                    *)
OpcodeReturns ==
    /\ control = "opcode" /\ BeforeOpcode /\ state' = Counted
    /\ control' = "return"
    /\ UNCHANGED <<snap, frame, created, active, index, result, err, ext, calls,
                   reply, callCtx, done, pyCtx>>
-------------------------------------------------------------------------------
(* The frame inside has left: EvalCode's deferred ExitCall, if it entered. *)
LeaveFrame ==
    /\ Len(active) > 1
    /\ active' = Outer
    /\ state' = IF frame[Innermost].entered THEN ExitCall(state) ELSE state

(* A result goes to the caller on the Go stack: through the builtin that   *)
(* asked for it, or straight to the operand stack.                         *)
ReturnToCaller ==
    /\ control = "return" /\ LeaveFrame
    /\ frame' = [frame EXCEPT ![Caller] = Given(@,
            IF frame[Innermost].via = "builtin" THEN From("builtin", Innermost)
                                                ELSE From("frame", Innermost))]
    /\ control' = "opcode"
    /\ UNCHANGED <<snap, created, index, result, err, ext, calls, reply,
                   callCtx, done, pyCtx>>

(* runSnapshot gets the result of a frame it ran and goes on outwards.     *)
FirstResult == result
FrameResult == From("frame", Innermost)
ReturnToDriver ==
    /\ control = "return" /\ Len(active) = 1
    /\ index < Len(snap.frames)
    /\ state' = ExitCall(state)
    /\ result' = FrameResult
    /\ index' = index + 1
    /\ active' = <<>>
    /\ control' = "driver"
    /\ UNCHANGED <<snap, frame, created, err, ext, calls, reply, callCtx, done,
                   pyCtx>>

(* The outermost frame has returned.                                       *)
Complete ==
    /\ control = "return" /\ Len(active) = 1
    /\ index = Len(snap.frames)
    /\ CloseSnapshot("complete")
    /\ UNCHANGED <<state, frame, created, err, ext, calls, callCtx, done>>

(* An error reaches the CALL_FUNCTION of the caller, which raises it there *)
RaiseInCaller ==
    /\ control = "raise" /\ LeaveFrame
    /\ frame[Innermost].via # "iter"
    /\ Raise(Caller, err)
    /\ UNCHANGED <<snap, created, index, result, ext, calls, reply, callCtx,
                   done, pyCtx>>

(* or its FOR_ITER, which takes any error for the end of the loop.         *)
RaiseEndsLoop ==
    /\ control = "raise" /\ LeaveFrame
    /\ frame[Innermost].via = "iter"
    /\ frame' = [frame EXCEPT ![Caller] = LoopEnded(@)]
    /\ control' = "opcode"
    /\ err' = "none"
    /\ UNCHANGED <<snap, created, index, result, ext, calls, reply, callCtx,
                   done, pyCtx>>

(* An error that leaves a frame run by runSnapshot ends the execution: the *)
(* frames outside it are not asked.                                        *)
Fail ==
    /\ control = "raise" /\ Len(active) = 1
    /\ CloseSnapshot("error")
    /\ UNCHANGED <<state, frame, created, err, ext, calls, callCtx, done>>

(* The pause goes outwards through CALL_FUNCTION, which adds its frame.    *)
PauseCaller ==
    /\ control = "pause" /\ LeaveFrame
    /\ frame[Innermost].via # "iter"
    /\ ext' = [ext EXCEPT !.paused = Append(@, Caller)]
    /\ UNCHANGED <<snap, frame, created, index, control, result, err, calls,
                   reply, callCtx, done, pyCtx>>

(* FOR_ITER takes the pause, too, for the end of the loop.                 *)
PauseEndsLoop ==
    /\ control = "pause" /\ LeaveFrame
    /\ frame[Innermost].via = "iter"
    /\ frame' = [frame EXCEPT ![Caller] = LoopEnded(@)]
    /\ ext' = [call |-> 0, paused |-> <<>>]
    /\ control' = "opcode"
    /\ UNCHANGED <<snap, created, index, result, err, calls, reply, callCtx,
                   done, pyCtx>>

(* mergePausedFrames: the paused frames, then those not yet run; with the  *)
(* frame just run once more, or with those not yet run in front.           *)
MergeRunFrameAgain ==
    ext.paused \o SubSeq(snap.frames, index, Len(snap.frames))
MergeOuterFirst ==
    SubSeq(snap.frames, index + 1, Len(snap.frames)) \o ext.paused
MergePausedFrames ==
    ext.paused \o SubSeq(snap.frames, index + 1, Len(snap.frames))

(* runSnapshot hands the call to the host.                                 *)
Pause ==
    /\ control = "pause" /\ Len(active) = 1
    /\ snap' = [snap EXCEPT !.frames = MergePausedFrames]
    /\ reply' = [kind |-> "call", call |-> ext.call, stdout |-> 0]
    /\ ext' = [call |-> 0, paused |-> <<>>]
    /\ control' = "host"
    /\ index' = 0
    /\ active' = <<>>
    /\ result' = Nothing
    /\ UNCHANGED <<state, frame, created, err, calls, callCtx, done, pyCtx>>
-------------------------------------------------------------------------------
Opcode ==
    \/ BudgetRefuses \/ Inject \/ Step \/ EnterTry \/ LeaveTry
    \/ OpcodeRaises \/ CallRefused \/ CallExternal \/ OpcodeReturns
    \/ \E k \in Calls : Call(k)
    \/ \E n \in Sizes : Output(n) \/ OutputRefused(n)

Leave ==
    \/ ReturnToCaller \/ ReturnToDriver \/ Complete
    \/ RaiseInCaller \/ RaiseEndsLoop \/ Fail
    \/ PauseCaller \/ PauseEndsLoop \/ Pause

Driver == DriverAborts \/ DriverInjects \/ DriverRuns

(* What the engine's own goroutine does, and what the host does to it.     *)
EngineStep == Driver \/ Opcode \/ Leave

HostStep ==
    \/ Run \/ Refuse \/ ResumeWithResult \/ ResumeWithError
    \/ \E c \in Contexts : Cancel(c)

Next == EngineStep \/ HostStep

(* An API call runs on the goroutine of its caller until it returns; the   *)
(* host may leave a FunctionCall unanswered for ever.                      *)
Spec == Init /\ [][Next]_vars /\ WF_vars(EngineStep)
===============================================================================
