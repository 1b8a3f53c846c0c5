----------------------------- MODULE EngineProofs -----------------------------
(***************************************************************************)
(* Proofs, for every value of the constants, of type correctness and of    *)
(* the safety of the engine.                                               *)
(***************************************************************************)
EXTENDS EngineProperties, FiniteSetTheorems, SequenceTheorems, TLAPS

(* Where runSnapshot and the Go stack are, by what the engine is doing.    *)
Shape ==
    /\ control = "host" => index = 0 /\ active = <<>>
    /\ control # "host" => index \in 1..Len(snap.frames)
    /\ control = "driver" => active = <<>>
    /\ control \notin {"host", "driver"} => active # <<>>
    /\ pyCtx = "none" => control = "host" /\ created = 0 /\ snap.frames = <<>>

Errs == {"none", "program", "limit"}
-------------------------------------------------------------------------------
(* The counters: what each operation of ExecutionState keeps.              *)
LEMMA CountedType ==
    ASSUME state \in States
    PROVE  /\ Counted \in States
           /\ Counted.callDepth = state.callDepth
           /\ Counted.outputBytes = state.outputBytes
           /\ Counted.instructionCount = state.instructionCount + 1
           /\ Counted.hostContext = state.hostContext
  BY DEF States, Counted

LEMMA EnterCallType ==
    ASSUME state \in States
    PROVE  /\ EnterCall \in States
           /\ EnterCall.callDepth = state.callDepth + 1
           /\ EnterCall.outputBytes = state.outputBytes
           /\ EnterCall.instructionCount = state.instructionCount + 1
<1> DEFINE c == Counted
<1>1. /\ c \in States /\ c.callDepth = state.callDepth
      /\ c.outputBytes = state.outputBytes
      /\ c.instructionCount = state.instructionCount + 1
  BY CountedType
<1>2. EnterCall = [c EXCEPT !.callDepth = c.callDepth + 1]
  BY DEF EnterCall
<1> HIDE DEF c
<1> QED BY <1>1, <1>2 DEF States

LEMMA ReserveOutputType ==
    ASSUME state \in States, NEW n \in Nat
    PROVE  /\ ReserveOutput(n) \in States
           /\ ReserveOutput(n).callDepth = state.callDepth
           /\ ReserveOutput(n).outputBytes = state.outputBytes + n
           /\ ReserveOutput(n).instructionCount = state.instructionCount + 1
<1> DEFINE c == Counted
<1>1. /\ c \in States /\ c.callDepth = state.callDepth
      /\ c.outputBytes = state.outputBytes
      /\ c.instructionCount = state.instructionCount + 1
  BY CountedType
<1>2. ReserveOutput(n) = [c EXCEPT !.outputBytes = c.outputBytes + n]
  BY DEF ReserveOutput
<1> HIDE DEF c
<1> QED BY <1>1, <1>2 DEF States

LEMMA RestoreType ==
    ASSUME state \in States, NEW d \in Nat
    PROVE  /\ RestoreCallDepth(state, d) \in States
           /\ RestoreCallDepth(state, d).callDepth = d
           /\ RestoreCallDepth(state, d).outputBytes = state.outputBytes
           /\ RestoreCallDepth(state, d).instructionCount
                = state.instructionCount
  BY DEF States, RestoreCallDepth

LEMMA ExitCallType ==
    ASSUME state \in States
    PROVE  /\ ExitCall(state) \in States
           /\ state.callDepth # 0
                => ExitCall(state).callDepth = state.callDepth - 1
           /\ ExitCall(state).outputBytes = state.outputBytes
           /\ ExitCall(state).instructionCount = state.instructionCount
  BY DEF States, ExitCall
-------------------------------------------------------------------------------
(* The frames: what each operation on one keeps.                           *)
Linked(a, b) == a.parent = b.parent /\ a.via = b.via /\ a.entered = b.entered

LEMMA OriginType ==
    /\ Nothing \in Origin
    /\ \A by \in {"frame", "builtin", "host", "error"}, n \in Nat :
          From(by, n) \in Origin
  BY DEF Nothing, From, Origin

LEMMA FrameOps ==
    ASSUME NEW fr \in Frames, NEW o \in Origin
    PROVE  /\ Waiting(fr, o) \in Frames /\ Linked(Waiting(fr, o), fr)
           /\ Given(fr, o) \in Frames /\ Linked(Given(fr, o), fr)
           /\ LoopEnded(fr) \in Frames /\ Linked(LoopEnded(fr), fr)
           /\ PushBlock(fr) \in Frames /\ Linked(PushBlock(fr), fr)
           /\ fr.blocks > 0 =>
                 PopBlock(fr) \in Frames /\ Linked(PopBlock(fr), fr)
<1>1. Waiting(fr, o) \in Frames /\ Linked(Waiting(fr, o), fr)
  BY OriginType DEF Waiting, Frames, Linked
<1>2. Given(fr, o) \in Frames /\ Linked(Given(fr, o), fr)
  BY DEF Given, Frames, Linked
<1>3. LoopEnded(fr) \in Frames /\ Linked(LoopEnded(fr), fr)
  BY OriginType DEF LoopEnded, Frames, Linked
<1>4. PushBlock(fr) \in Frames /\ Linked(PushBlock(fr), fr)
  BY DEF PushBlock, Frames, Linked
<1>5. fr.blocks > 0 => PopBlock(fr) \in Frames /\ Linked(PopBlock(fr), fr)
  BY DEF PopBlock, Frames, Linked
<1> QED BY <1>1, <1>2, <1>3, <1>4, <1>5

LEMMA NewFrameType ==
    ASSUME NEW p \in FrameId, NEW k \in Calls
    PROVE  /\ NewFrame(p, k) \in Frames
           /\ NewFrame(p, k).parent = p
           /\ NewFrame(p, k).entered = k.entered
<1>1. k.via \in {"call", "builtin", "iter"} /\ k.entered \in BOOLEAN
  <2>1. k \in CallKinds
    BY BoundsAssumption
  <2>2. CASE k = [via |-> "call", entered |-> TRUE]
    BY <2>2
  <2>3. CASE k \in [via : {"builtin", "iter"}, entered : BOOLEAN]
    BY <2>3
  <2> QED BY <2>1, <2>2, <2>3 DEF CallKinds
<1>2. NewFrame(p, k) \in Frames
  BY <1>1, OriginType DEF NewFrame, Frames
<1> QED BY <1>2 DEF NewFrame

LEMMA RaiseType ==
    ASSUME frame \in [FrameId -> Frames], NEW f \in FrameId, NEW e \in Errs,
           Raise(f, e)
    PROVE  /\ frame' \in [FrameId -> Frames]
           /\ \A g \in FrameId : Linked(frame'[g], frame[g])
           /\ control' \in {"opcode", "raise"}
           /\ err' \in Errs
<1>1. CASE frame[f].blocks > 0 /\ frame' = [frame EXCEPT ![f] = PopBlock(@)]
           /\ control' = "opcode" /\ err' = "none"
  <2>1. PopBlock(frame[f]) \in Frames /\ Linked(PopBlock(frame[f]), frame[f])
    BY <1>1, FrameOps, OriginType
  <2> QED BY <1>1, <2>1 DEF Linked, Errs
<1>2. CASE UNCHANGED frame /\ control' = "raise" /\ err' = e
  BY <1>2 DEF Linked
<1> QED BY <1>1, <1>2 DEF Raise
-------------------------------------------------------------------------------
(* The sequences: a stack without its top, and the merge of two chains.    *)
LEMMA OuterType ==
    ASSUME NEW S, NEW s \in Seq(S), Len(s) > 1
    PROVE  /\ SubSeq(s, 1, Len(s) - 1) \in Seq(S)
           /\ SubSeq(s, 1, Len(s) - 1) # <<>>
           /\ Len(SubSeq(s, 1, Len(s) - 1)) = Len(s) - 1
           /\ \A k \in 1..(Len(s) - 1) : SubSeq(s, 1, Len(s) - 1)[k] = s[k]
           /\ s[Len(s)] \in S
           /\ s[Len(s) - 1] \in S
<1> DEFINE m == Len(s) - 1
<1>1. m \in Nat /\ m >= 1 /\ m <= Len(s)
  OBVIOUS
<1>2. \A k \in 1..m : s[k] \in S
  OBVIOUS
<1>3. /\ SubSeq(s, 1, m) \in Seq(S)
      /\ Len(SubSeq(s, 1, m)) = IF 1 <= m THEN m - 1 + 1 ELSE 0
      /\ \A k \in 1..(m - 1 + 1) : SubSeq(s, 1, m)[k] = s[1 + k - 1]
  BY <1>1, <1>2, SubSeqProperties
<1>4. s[Len(s)] \in S /\ s[Len(s) - 1] \in S
  OBVIOUS
<1> HIDE DEF m
<1>5. Len(SubSeq(s, 1, m)) = m /\ SubSeq(s, 1, m) # <<>>
  BY <1>1, <1>3
<1>6. \A k \in 1..m : SubSeq(s, 1, m)[k] = s[k]
  BY <1>1, <1>3
<1> QED BY <1>3, <1>4, <1>5, <1>6 DEF m

LEMMA RestType ==
    ASSUME NEW S, NEW s \in Seq(S), NEW i \in 1..Len(s)
    PROVE  /\ SubSeq(s, i + 1, Len(s)) \in Seq(S)
           /\ Len(SubSeq(s, i + 1, Len(s))) = Len(s) - i
           /\ \A k \in 1..(Len(s) - i) :
                 SubSeq(s, i + 1, Len(s))[k] = s[i + k]
<1>1. \A k \in (i + 1)..Len(s) : s[k] \in S
  OBVIOUS
<1>2. /\ SubSeq(s, i + 1, Len(s)) \in Seq(S)
      /\ Len(SubSeq(s, i + 1, Len(s)))
            = IF i + 1 <= Len(s) THEN Len(s) - (i + 1) + 1 ELSE 0
      /\ \A k \in 1..(Len(s) - (i + 1) + 1) :
            SubSeq(s, i + 1, Len(s))[k] = s[(i + 1) + k - 1]
  BY <1>1, SubSeqProperties
<1> QED BY <1>2

LEMMA MergeType ==
    ASSUME NEW S, NEW s \in Seq(S), NEW t \in Seq(S)
    PROVE  /\ s \o t \in Seq(S)
           /\ Len(s \o t) = Len(s) + Len(t)
           /\ \A k \in 1..Len(s) : (s \o t)[k] = s[k]
           /\ \A k \in 1..Len(t) : (s \o t)[Len(s) + k] = t[k]
  OBVIOUS

LEMMA PushType ==
    ASSUME NEW S, NEW s \in Seq(S), NEW x \in S
    PROVE  /\ Append(s, x) \in Seq(S)
           /\ Append(s, x) # <<>>
           /\ Len(Append(s, x)) = Len(s) + 1
           /\ \A k \in 1..Len(s) : Append(s, x)[k] = s[k]
           /\ Append(s, x)[Len(s) + 1] = x
  OBVIOUS
-------------------------------------------------------------------------------
(* Every frame that is referred to exists.                                 *)
Exist(s) == \A k \in 1..Len(s) : s[k] <= created
Existing == Exist(snap.frames) /\ Exist(active) /\ Exist(ext.paused)

TypeInv == TypeOK /\ Shape /\ Existing

LEMMA TypeInit == Init => TypeInv
  BY BoundsAssumption, OriginType
     DEF Init, TypeInv, TypeOK, Shape, Existing, Exist, Snapshots, States,
         NoFrame, Frames, Controls, Replies

(* A step that touches neither the snapshot's frames nor the Go stack.     *)
LEMMA TypeKept ==
    ASSUME TypeInv,
           UNCHANGED <<snap, created, active, index, result, ext, calls,
                       reply, callCtx, done, pyCtx>>,
           state' \in States, frame' \in [FrameId -> Frames], err' \in Errs,
           control \notin {"host", "driver"},
           control' \in Controls \ {"host", "driver"}
    PROVE  TypeInv'
  BY DEF TypeInv, TypeOK, Shape, Existing, Exist, Errs

(* The frames on top of the Go stack.                                      *)
LEMMA StackTop ==
    ASSUME TypeInv, control \notin {"host", "driver"}
    PROVE  /\ Innermost \in FrameId
           /\ frame[Innermost] \in Frames
           /\ Len(active) > 1 => Caller \in FrameId /\ frame[Caller] \in Frames
<1>1. active \in Seq(FrameId) /\ active # <<>> /\ frame \in [FrameId -> Frames]
  BY DEF TypeInv, TypeOK, Shape
<1>2. active[Len(active)] \in FrameId
  BY <1>1
<1>3. Len(active) > 1 => active[Len(active) - 1] \in FrameId
  BY <1>1
<1> QED BY <1>1, <1>2, <1>3 DEF Innermost, Caller
LEMMA ExistLonger ==
    ASSUME NEW s \in Seq(FrameId), NEW c \in Nat, NEW d \in Nat, c < d,
           \A k \in 1..Len(s) : s[k] <= c
    PROVE  \A k \in 1..Len(s) : s[k] \in Nat /\ s[k] <= d
<1> SUFFICES ASSUME NEW k \in 1..Len(s) PROVE s[k] \in Nat /\ s[k] <= d
  OBVIOUS
<1>1. s[k] \in FrameId
  OBVIOUS
<1>2. s[k] \in Nat /\ s[k] <= c
  BY <1>1, BoundsAssumption DEF FrameId
<1> QED BY <1>2

LEMMA SnapOps ==
    ASSUME snap \in Snapshots
    PROVE  /\ \A n \in Nat : LET s == [snap EXCEPT !.bytes = @ + n]
                             IN  /\ s \in Snapshots
                                 /\ s.frames = snap.frames
                                 /\ s.bytes = snap.bytes + n
           /\ \A q \in Seq(FrameId) : LET s == [snap EXCEPT !.frames = q]
                                      IN  /\ s \in Snapshots
                                          /\ s.frames = q
                                          /\ s.bytes = snap.bytes
           /\ LET s == [snap EXCEPT !.stdoutFile = TRUE, !.stdoutPath = TRUE]
              IN  s \in Snapshots /\ s.frames = snap.frames
           /\ ClosedSnapshot \in Snapshots /\ ClosedSnapshot.frames = <<>>
           /\ snap.frames \in Seq(FrameId) /\ snap.bytes \in Nat
<1>1. \A n \in Nat : LET s == [snap EXCEPT !.bytes = @ + n]
                     IN  /\ s \in Snapshots
                         /\ s.frames = snap.frames
                         /\ s.bytes = snap.bytes + n
  BY DEF Snapshots
<1>2. \A q \in Seq(FrameId) : LET s == [snap EXCEPT !.frames = q]
                              IN  /\ s \in Snapshots
                                  /\ s.frames = q
                                  /\ s.bytes = snap.bytes
  BY DEF Snapshots
<1>3. LET s == [snap EXCEPT !.stdoutFile = TRUE, !.stdoutPath = TRUE]
      IN  s \in Snapshots /\ s.frames = snap.frames
  BY DEF Snapshots
<1>4. ClosedSnapshot \in Snapshots /\ ClosedSnapshot.frames = <<>>
  <2>1. <<>> \in Seq(FrameId)
    OBVIOUS
  <2> QED BY <2>1 DEF Snapshots, ClosedSnapshot
<1>5. snap.frames \in Seq(FrameId) /\ snap.bytes \in Nat
  BY DEF Snapshots
<1> QED BY <1>1, <1>2, <1>3, <1>4, <1>5

LEMMA ReplyOps ==
    ASSUME reply \in Replies, NEW k \in {"none", "refused", "complete", "error"}
    PROVE  /\ [reply EXCEPT !.kind = k] \in Replies
           /\ [reply EXCEPT !.kind = k].kind = k
           /\ [reply EXCEPT !.kind = k].call = reply.call
           /\ \A n \in Nat :
                LET r == [reply EXCEPT !.kind = k, !.stdout = n]
                IN  /\ r \in Replies /\ r.kind = k
                    /\ r.call = reply.call /\ r.stdout = n
           /\ reply.call \in Nat
<1>1. /\ [reply EXCEPT !.kind = k] \in Replies
      /\ [reply EXCEPT !.kind = k].kind = k
      /\ [reply EXCEPT !.kind = k].call = reply.call
  BY DEF Replies
<1>2. \A n \in Nat :
        LET r == [reply EXCEPT !.kind = k, !.stdout = n]
        IN  r \in Replies /\ r.kind = k /\ r.call = reply.call /\ r.stdout = n
  BY DEF Replies
<1>3. reply.call \in Nat
  BY DEF Replies
<1> QED BY <1>1, <1>2, <1>3
-------------------------------------------------------------------------------
(* The steps, by what they do to the Go stack and the snapshot.            *)

(* An activation leaves the Go stack for its caller.                       *)
LEMMA TypeLeave ==
    ASSUME TypeInv, LeaveFrame, control \notin {"host", "driver"},
           UNCHANGED <<snap, created, index, result, calls, reply, callCtx,
                       done, pyCtx>>,
           frame' \in [FrameId -> Frames], err' \in Errs,
           control' \in Controls \ {"host", "driver"},
           ext' \in [call : Nat, paused : Seq(FrameId)],
           \A k \in 1..Len(ext'.paused) : ext'.paused[k] <= created
    PROVE  TypeInv'
<1>1. /\ active \in Seq(FrameId) /\ Len(active) > 1
      /\ active' = SubSeq(active, 1, Len(active) - 1)
      /\ state \in States
  BY DEF TypeInv, TypeOK, LeaveFrame, Outer
<1>2. /\ active' \in Seq(FrameId) /\ active' # <<>>
      /\ Len(active') = Len(active) - 1
      /\ \A k \in 1..(Len(active) - 1) : active'[k] = active[k]
  BY <1>1, OuterType
<1>3. state' \in States
  BY <1>1, ExitCallType DEF LeaveFrame
<1>4. \A k \in 1..Len(active') : active'[k] <= created
  <2>1. \A k \in 1..Len(active) : active[k] <= created
    BY DEF TypeInv, Existing, Exist
  <2> QED BY <1>1, <1>2, <2>1
<1>5. TypeOK'
  BY <1>2, <1>3 DEF TypeInv, TypeOK, Errs
<1>6. Shape'
  BY <1>2 DEF TypeInv, Shape, Controls
<1>7. Existing'
  BY <1>4 DEF TypeInv, Existing, Exist
<1> QED BY <1>5, <1>6, <1>7 DEF TypeInv

(* The execution ends.                                                     *)
LEMMA TypeClose ==
    ASSUME TypeInv, NEW k \in {"complete", "error"}, CloseSnapshot(k),
           UNCHANGED <<state, frame, created, err, ext, calls, callCtx, done>>
    PROVE  TypeInv'
<1>1. snap \in Snapshots /\ reply \in Replies
  BY DEF TypeInv, TypeOK
<1>2. snap' \in Snapshots /\ snap'.frames = <<>> /\ snap.bytes \in Nat
  BY <1>1, SnapOps DEF CloseSnapshot
<1>3. reply' \in Replies
  BY <1>1, <1>2, ReplyOps DEF CloseSnapshot
<1>4. TypeOK'
  BY <1>2, <1>3, OriginType DEF TypeInv, TypeOK, CloseSnapshot, Controls
<1>5. Shape'
  BY <1>2 DEF CloseSnapshot, Shape
<1>6. Existing'
  BY <1>2 DEF TypeInv, Existing, Exist, CloseSnapshot
<1> QED BY <1>4, <1>5, <1>6 DEF TypeInv

(* runSnapshot starts a frame.                                             *)
LEMMA TypeStart ==
    ASSUME TypeInv, control = "driver", active' = <<snap.frames[index]>>,
           frame' \in [FrameId -> Frames],
           control' \in {"inject", "opcode"},
           UNCHANGED <<snap, state, created, index, result, err, ext, calls,
                       reply, callCtx, done, pyCtx>>
    PROVE  TypeInv'
<1>1. snap.frames \in Seq(FrameId) /\ index \in 1..Len(snap.frames)
  BY SnapOps DEF TypeInv, TypeOK, Shape
<1>2. snap.frames[index] \in FrameId /\ snap.frames[index] <= created
  BY <1>1 DEF TypeInv, Existing, Exist
<1>3. active' \in Seq(FrameId) /\ active' # <<>> /\ Len(active') = 1
      /\ active'[1] = snap.frames[index]
  BY <1>2
<1>4. TypeOK'
  BY <1>3 DEF TypeInv, TypeOK, Controls
<1>5. Shape'
  BY <1>1, <1>3 DEF TypeInv, Shape
<1>6. Existing'
  BY <1>2, <1>3 DEF TypeInv, Existing, Exist
<1> QED BY <1>4, <1>5, <1>6 DEF TypeInv
(* The steps one by one.                                                   *)
LEMMA TypeOpcode == ASSUME TypeInv, Opcode PROVE TypeInv'
<1> USE DEF Controls, Errs
<1>0. /\ state \in States /\ frame \in [FrameId -> Frames] /\ err \in Errs
      /\ Counted \in States /\ control \in Controls
      /\ snap \in Snapshots
  BY CountedType DEF TypeInv, TypeOK
<1>a. ASSUME control \notin {"host", "driver"} PROVE Innermost \in FrameId
  BY <1>a, StackTop
<1>1. CASE BudgetRefuses
  BY <1>0, <1>1, TypeKept DEF BudgetRefuses
<1>2. CASE Inject
  BY <1>0, <1>a, <1>2, RaiseType, TypeKept DEF Inject
<1>3. CASE Step
  BY <1>0, <1>3, TypeKept DEF Step
<1>4. CASE EnterTry
  <2>1. PushBlock(frame[Innermost]) \in Frames
    BY <1>0, <1>a, <1>4, FrameOps, OriginType DEF EnterTry
  <2> QED BY <1>0, <1>4, <2>1, TypeKept DEF EnterTry
<1>5. CASE LeaveTry
  <2>1. PopBlock(frame[Innermost]) \in Frames
    BY <1>0, <1>a, <1>5, FrameOps, OriginType DEF LeaveTry
  <2> QED BY <1>0, <1>5, <2>1, TypeKept DEF LeaveTry
<1>6. CASE OpcodeRaises
  BY <1>0, <1>a, <1>6, RaiseType, TypeKept DEF OpcodeRaises
<1>7. CASE CallRefused
  BY <1>0, <1>a, <1>7, RaiseType, TypeKept DEF CallRefused
<1>8. CASE CallExternal
  <2>1. Waiting(frame[Innermost], From("host", calls + 1)) \in Frames
    <3>1. calls + 1 \in Nat
      BY DEF TypeInv, TypeOK
    <3>2. From("host", calls + 1) \in Origin
      BY <3>1, OriginType
    <3> QED BY <1>0, <1>a, <1>8, <3>2, FrameOps DEF CallExternal
  <2>2. frame' \in [FrameId -> Frames]
    BY <1>0, <1>8, <2>1 DEF CallExternal
  <2>3. ext' = [call |-> calls + 1, paused |-> <<Innermost>>]
    BY <1>8 DEF CallExternal
  <2>4. Innermost \in FrameId /\ Innermost <= created
    <3>1. active \in Seq(FrameId) /\ active # <<>>
      BY <1>8 DEF TypeInv, TypeOK, Shape, CallExternal
    <3>2. Len(active) \in 1..Len(active)
      BY <3>1
    <3> QED BY <1>a, <1>8, <3>2
            DEF CallExternal, TypeInv, Existing, Exist, Innermost
  <2>5. /\ <<Innermost>> \in Seq(FrameId)
        /\ \A k \in 1..Len(<<Innermost>>) : <<Innermost>>[k] <= created
    BY <2>4
  <2>6. TypeOK'
    BY <1>0, <1>8, <2>2, <2>3, <2>5 DEF CallExternal, TypeInv, TypeOK
  <2>7. Shape'
    BY <1>8 DEF CallExternal, TypeInv, Shape
  <2>8. Existing'
    BY <1>8, <2>3, <2>5 DEF CallExternal, TypeInv, Existing, Exist
  <2> QED BY <2>6, <2>7, <2>8 DEF TypeInv
<1>9. CASE OpcodeReturns
  BY <1>0, <1>9, TypeKept DEF OpcodeReturns
<1>10. ASSUME NEW k \in Calls, Call(k) PROVE TypeInv'
  <2> DEFINE f == created + 1
             w == IF k.via = "builtin" THEN From("builtin", f)
                                       ELSE From("frame", f)
  <2>1. /\ f \in FrameId /\ f \in Nat /\ created \in Nat /\ created < f
        /\ active \in Seq(FrameId) /\ active # <<>> /\ f <= MaxFrames
        /\ control = "opcode"
    BY <1>10, BoundsAssumption DEF Call, TypeInv, TypeOK, Shape, FrameId
  <2>2. w \in Origin
    BY <2>1, OriginType
  <2>3. /\ frame' = [frame EXCEPT ![Innermost] = Waiting(@, w),
                                  ![f] = NewFrame(Innermost, k)]
        /\ active' = Append(active, f) /\ created' = f
    BY <1>10 DEF Call
  <2> HIDE DEF f, w
  <2>4. Waiting(frame[Innermost], w) \in Frames
    BY <1>0, <1>a, <2>1, <2>2, FrameOps
  <2>5. NewFrame(Innermost, k) \in Frames
    BY <1>a, <1>10, <2>1, NewFrameType
  <2>6. frame' \in [FrameId -> Frames]
    BY <1>0, <2>3, <2>4, <2>5
  <2>7. /\ active' \in Seq(FrameId) /\ active' # <<>>
        /\ \A j \in 1..Len(active') : active'[j] <= f
    <3>1. \A j \in 1..Len(active) : active[j] <= created
      BY DEF TypeInv, Existing, Exist
    <3>2. /\ Append(active, f) \in Seq(FrameId) /\ Append(active, f) # <<>>
          /\ Len(Append(active, f)) = Len(active) + 1
          /\ \A j \in 1..Len(active) : Append(active, f)[j] = active[j]
          /\ Append(active, f)[Len(active) + 1] = f
      BY <2>1, PushType
    <3>3. \A j \in 1..Len(active) : active[j] \in Nat /\ active[j] <= f
      BY <2>1, <3>1, ExistLonger
    <3> QED BY <2>1, <2>3, <3>2, <3>3
  <2>8. state' \in States
    BY <1>0, <1>10, EnterCallType DEF Call
  <2>9. TypeOK'
    <3>1. UNCHANGED <<snap, index, control, result, err, ext, calls, reply,
                      callCtx, done, pyCtx>>
      BY <1>10 DEF Call
    <3>2. created' \in 0..MaxFrames
      BY <2>1, <2>3, BoundsAssumption
    <3> QED BY <2>6, <2>7, <2>8, <3>1, <3>2 DEF TypeInv, TypeOK
  <2>10. Shape'
    BY <1>10, <2>1, <2>7 DEF Call, TypeInv, Shape
  <2>11. Existing'
    <3>1. /\ snap.frames \in Seq(FrameId)
          /\ ext.paused \in Seq(FrameId)
      BY SnapOps DEF TypeInv, TypeOK
    <3>2. /\ \A j \in 1..Len(snap.frames) :
                snap.frames[j] \in Nat /\ snap.frames[j] <= f
          /\ \A j \in 1..Len(ext.paused) :
                ext.paused[j] \in Nat /\ ext.paused[j] <= f
      <4>1. /\ \A j \in 1..Len(snap.frames) : snap.frames[j] <= created
            /\ \A j \in 1..Len(ext.paused) : ext.paused[j] <= created
        BY DEF TypeInv, Existing, Exist
      <4> QED BY <2>1, <3>1, <4>1, ExistLonger
    <3> QED BY <1>10, <2>3, <2>7, <3>2 DEF Call, Existing, Exist
  <2> QED BY <2>9, <2>10, <2>11 DEF TypeInv
<1>11. ASSUME NEW n \in Sizes, Output(n) PROVE TypeInv'
  <2>1. n \in Nat
    BY BoundsAssumption
  <2>2. state' \in States
    BY <1>0, <1>11, <2>1, ReserveOutputType DEF Output
  <2>3. snap' \in Snapshots /\ snap'.frames = snap.frames
    BY <1>0, <1>11, <2>1, SnapOps DEF Output
  <2>4. TypeOK'
    BY <1>11, <2>2, <2>3 DEF Output, TypeInv, TypeOK
  <2>5. Shape'
    BY <1>11, <2>3 DEF Output, TypeInv, Shape
  <2>6. Existing'
    BY <1>11, <2>3 DEF Output, TypeInv, Existing, Exist
  <2> QED BY <2>4, <2>5, <2>6 DEF TypeInv
<1>12. ASSUME NEW n \in Sizes, OutputRefused(n) PROVE TypeInv'
  BY <1>0, <1>a, <1>12, RaiseType, TypeKept DEF OutputRefused
<1> QED BY <1>1, <1>2, <1>3, <1>4, <1>5, <1>6, <1>7, <1>8, <1>9, <1>10,
           <1>11, <1>12 DEF Opcode

LEMMA TypeDriver == ASSUME TypeInv, Driver PROVE TypeInv'
<1>0. /\ frame \in [FrameId -> Frames] /\ snap \in Snapshots
      /\ result \in Origin
  BY DEF TypeInv, TypeOK
<1>1. CASE DriverAborts
  BY <1>1, TypeClose DEF DriverAborts
<1>2. CASE DriverInjects
  BY <1>0, <1>2, TypeStart DEF DriverInjects
<1>3. CASE DriverRuns
  <2>1. snap.frames[index] \in FrameId
    BY <1>0, <1>3, SnapOps DEF DriverRuns, TypeInv, Shape
  <2>2. Given(frame[snap.frames[index]], result) \in Frames
    BY <1>0, <2>1, FrameOps
  <2>3. frame' \in [FrameId -> Frames]
    BY <1>0, <1>3, <2>1, <2>2 DEF DriverRuns
  <2> QED BY <1>3, <2>3, TypeStart DEF DriverRuns
<1> QED BY <1>1, <1>2, <1>3 DEF Driver
LEMMA TypeLeaveStep == ASSUME TypeInv, Leave PROVE TypeInv'
<1> USE DEF Controls, Errs
<1>0. /\ state \in States /\ frame \in [FrameId -> Frames] /\ err \in Errs
      /\ snap \in Snapshots /\ ext \in [call : Nat, paused : Seq(FrameId)]
      /\ \A k \in 1..Len(ext.paused) : ext.paused[k] <= created
  BY DEF TypeInv, TypeOK, Existing, Exist
<1>a. ASSUME control \notin {"host", "driver"}, LeaveFrame
      PROVE  /\ Innermost \in FrameId /\ Caller \in FrameId
             /\ frame[Caller] \in Frames
  BY <1>a, StackTop DEF LeaveFrame
<1>1. CASE ReturnToCaller
  <2>0. Innermost \in FrameId /\ Caller \in FrameId /\ frame[Caller] \in Frames
    BY <1>a, <1>1 DEF ReturnToCaller
  <2> DEFINE v == IF frame[Innermost].via = "builtin"
                    THEN From("builtin", Innermost)
                    ELSE From("frame", Innermost)
  <2>1. v \in Origin
    BY <2>0, OriginType, BoundsAssumption DEF FrameId
  <2>2. frame' = [frame EXCEPT ![Caller] = Given(@, v)]
    BY <1>1 DEF ReturnToCaller
  <2> HIDE DEF v
  <2>3. frame' \in [FrameId -> Frames]
    BY <1>0, <2>0, <2>1, <2>2, FrameOps
  <2> QED BY <1>0, <1>1, <2>3, TypeLeave DEF ReturnToCaller
<1>2. CASE ReturnToDriver
  <2>1. /\ index \in Nat /\ index \in 1..Len(snap.frames)
        /\ snap.frames \in Seq(FrameId) /\ Innermost \in FrameId
    BY <1>0, <1>2, SnapOps, StackTop
       DEF ReturnToDriver, TypeInv, TypeOK, Shape
  <2>2. result' \in Origin
    BY <1>2, <2>1, OriginType, BoundsAssumption
       DEF ReturnToDriver, FrameResult, FrameId
  <2>3. state' \in States
    BY <1>0, <1>2, ExitCallType DEF ReturnToDriver
  <2>4. index' \in Nat /\ index' \in 1..Len(snap.frames)
    BY <1>2, <2>1 DEF ReturnToDriver
  <2>5. <<>> \in Seq(FrameId)
    OBVIOUS
  <2>6. TypeOK'
    BY <1>2, <2>2, <2>3, <2>4, <2>5 DEF ReturnToDriver, TypeInv, TypeOK
  <2>7. Shape'
    BY <1>2, <2>4 DEF ReturnToDriver, TypeInv, Shape
  <2>8. Existing'
    BY <1>2 DEF ReturnToDriver, TypeInv, Existing, Exist
  <2> QED BY <2>6, <2>7, <2>8 DEF TypeInv
<1>3. CASE Complete
  BY <1>3, TypeClose DEF Complete
<1>4. CASE RaiseInCaller
  BY <1>0, <1>a, <1>4, RaiseType, TypeLeave DEF RaiseInCaller
<1>5. ASSUME RaiseEndsLoop \/ PauseEndsLoop
      PROVE  frame' \in [FrameId -> Frames]
  <2>1. Caller \in FrameId /\ LoopEnded(frame[Caller]) \in Frames
    BY <1>a, <1>5, FrameOps, OriginType DEF RaiseEndsLoop, PauseEndsLoop
  <2> QED BY <1>0, <1>5, <2>1 DEF RaiseEndsLoop, PauseEndsLoop
<1>6. CASE RaiseEndsLoop
  BY <1>0, <1>5, <1>6, TypeLeave DEF RaiseEndsLoop
<1>7. CASE Fail
  BY <1>7, TypeClose DEF Fail
<1>8. CASE PauseCaller
  <2>1. Caller \in FrameId /\ Caller <= created
    <3>1. Caller \in FrameId /\ Len(active) > 1 /\ active \in Seq(FrameId)
      BY <1>a, <1>8 DEF PauseCaller, LeaveFrame, TypeInv, TypeOK
    <3>2. Len(active) - 1 \in 1..Len(active)
      BY <3>1
    <3> QED BY <3>1, <3>2 DEF Caller, TypeInv, Existing, Exist
  <2>2. /\ Append(ext.paused, Caller) \in Seq(FrameId)
        /\ Len(Append(ext.paused, Caller)) = Len(ext.paused) + 1
        /\ \A k \in 1..Len(ext.paused) :
              Append(ext.paused, Caller)[k] = ext.paused[k]
        /\ Append(ext.paused, Caller)[Len(ext.paused) + 1] = Caller
    BY <1>0, <2>1, PushType
  <2> DEFINE q == Append(ext.paused, Caller)
  <2>3. ext' = [ext EXCEPT !.paused = q]
    BY <1>8 DEF PauseCaller
  <2>4. Len(ext.paused) \in Nat
    BY <1>0
  <2>5. \A k \in 1..Len(q) : q[k] <= created
    BY <1>0, <2>1, <2>2, <2>4
  <2>6. ext' \in [call : Nat, paused : Seq(FrameId)] /\ ext'.paused = q
    BY <1>0, <2>2, <2>3
  <2> HIDE DEF q
  <2> QED BY <1>0, <1>8, <2>5, <2>6, TypeLeave DEF PauseCaller
<1>9. CASE PauseEndsLoop
  <2>1. /\ ext' \in [call : Nat, paused : Seq(FrameId)]
        /\ \A k \in 1..Len(ext'.paused) : ext'.paused[k] <= created
    BY <1>9 DEF PauseEndsLoop
  <2> QED BY <1>0, <1>5, <1>9, <2>1, TypeLeave DEF PauseEndsLoop
<1>10. CASE Pause
  <2>1. /\ index \in 1..Len(snap.frames) /\ snap.frames \in Seq(FrameId)
        /\ \A k \in 1..Len(snap.frames) : snap.frames[k] <= created
    BY <1>0, <1>10, SnapOps DEF Pause, TypeInv, Shape, Existing, Exist
  <2> DEFINE r == SubSeq(snap.frames, index + 1, Len(snap.frames))
  <2>2. /\ r \in Seq(FrameId) /\ Len(r) = Len(snap.frames) - index
        /\ \A k \in 1..(Len(snap.frames) - index) :
              r[k] = snap.frames[index + k]
    BY <2>1, RestType
  <2> HIDE DEF r
  <2>3. \A k \in 1..Len(r) : r[k] <= created
    BY <2>1, <2>2
  <2>4. MergePausedFrames = ext.paused \o r
    BY DEF MergePausedFrames, r
  <2>5. /\ ext.paused \o r \in Seq(FrameId)
        /\ Len(ext.paused \o r) = Len(ext.paused) + Len(r)
        /\ \A k \in 1..Len(ext.paused) : (ext.paused \o r)[k] = ext.paused[k]
        /\ \A k \in 1..Len(r) : (ext.paused \o r)[Len(ext.paused) + k] = r[k]
    <3> DEFINE p == ext.paused
    <3>1. p \in Seq(FrameId)
      BY <1>0
    <3> HIDE DEF p
    <3>2. /\ p \o r \in Seq(FrameId)
          /\ Len(p \o r) = Len(p) + Len(r)
          /\ \A k \in 1..Len(p) : (p \o r)[k] = p[k]
          /\ \A k \in 1..Len(r) : (p \o r)[Len(p) + k] = r[k]
      <4>1. r \in Seq(FrameId)
        BY <2>2
      <4> QED BY <3>1, <4>1, MergeType
    <3> QED BY <3>2 DEF p
  <2>6. \A k \in 1..Len(ext.paused \o r) : (ext.paused \o r)[k] <= created
    <3>1. Len(ext.paused) \in Nat /\ Len(r) \in Nat
      BY <1>0, <2>2
    <3> SUFFICES ASSUME NEW k \in 1..Len(ext.paused \o r)
                 PROVE  (ext.paused \o r)[k] <= created
      OBVIOUS
    <3>2. CASE k \in 1..Len(ext.paused)
      BY <1>0, <2>5, <3>2
    <3>3. CASE k \notin 1..Len(ext.paused)
      <4>1. k - Len(ext.paused) \in 1..Len(r)
        BY <2>5, <3>1, <3>3
      <4>2. k = Len(ext.paused) + (k - Len(ext.paused))
        BY <3>1
      <4> QED BY <2>3, <2>5, <4>1, <4>2
    <3> QED BY <3>2, <3>3
  <2>7. /\ snap' \in Snapshots /\ snap'.frames = ext.paused \o r
    BY <1>0, <1>10, <2>4, <2>5, SnapOps DEF Pause
  <2>8. reply' \in Replies
    BY <1>0, <1>10 DEF Pause, Replies
  <2>9. ext' \in [call : Nat, paused : Seq(FrameId)] /\ ext'.paused = <<>>
    BY <1>10 DEF Pause
  <2>10. TypeOK'
    BY <1>10, <2>7, <2>8, <2>9, OriginType DEF Pause, TypeInv, TypeOK
  <2>11. Shape'
    BY <1>10 DEF Pause, TypeInv, Shape
  <2>12. Existing'
    BY <1>10, <2>6, <2>7, <2>9 DEF Pause, Existing, Exist
  <2> QED BY <2>10, <2>11, <2>12 DEF TypeInv
<1> QED BY <1>1, <1>2, <1>3, <1>4, <1>6, <1>7, <1>8, <1>9, <1>10 DEF Leave

LEMMA TypeHost == ASSUME TypeInv, HostStep PROVE TypeInv'
<1>0. /\ state \in States /\ snap \in Snapshots /\ reply \in Replies
      /\ snap.frames \in Seq(FrameId)
  BY SnapOps DEF TypeInv, TypeOK
<1>1. CASE Run
  <2>1. state' \in States
    BY <1>0, <1>1, RestoreType DEF Run
  <2>2. 1 \in FrameId /\ <<1>> \in Seq(FrameId) /\ 1 \in 0..MaxFrames
        /\ Len(<<1>>) = 1
    BY BoundsAssumption DEF FrameId
  <2>3. snap' \in Snapshots /\ snap'.frames = <<1>>
    BY <1>1, <2>2 DEF Run, Snapshots
  <2>4. TypeOK'
    BY <1>1, <2>1, <2>2, <2>3, OriginType DEF Run, TypeInv, TypeOK, Controls
  <2>5. Shape'
    BY <1>1, <2>3 DEF Run, TypeInv, Shape
  <2>6. Existing'
    <3>1. active = <<>>
      BY <1>1 DEF Run, TypeInv, Shape
    <3>2. ext.paused \in Seq(FrameId) /\ created \in Nat
      BY DEF TypeInv, TypeOK
    <3>3. \A k \in 1..Len(ext.paused) : ext.paused[k] <= 1
      <4>1. \A k \in 1..Len(ext.paused) : ext.paused[k] <= created
        BY DEF TypeInv, Existing, Exist
      <4>2. created = 0
        BY <1>1 DEF Run, TypeInv, Shape
      <4>3. ASSUME NEW k \in 1..Len(ext.paused) PROVE ext.paused[k] <= 1
        <5>1. ext.paused[k] \in FrameId /\ ext.paused[k] <= 0
          BY <3>2, <4>1, <4>2
        <5> QED BY <5>1, BoundsAssumption DEF FrameId
      <4> QED BY <4>3
    <3> QED BY <1>1, <2>3, <3>1, <3>3 DEF Run, Existing, Exist
  <2> QED BY <2>4, <2>5, <2>6 DEF TypeInv
<1>2. CASE Refuse
  <2>1. /\ snap' \in Snapshots /\ snap'.frames = snap.frames
        /\ pyCtx' \in {"none", "open", "closed"}
    <3>1. pyCtx \in {"none", "open", "closed"}
      BY DEF TypeInv, TypeOK
    <3>2. CASE RefuseProgram
      BY <1>0, <3>1, <3>2 DEF RefuseProgram
    <3>3. CASE RefuseSetup
      BY <1>0, <3>3 DEF RefuseSetup
    <3>4. CASE RefuseGlobal
      BY <1>0, <3>4, SnapOps DEF RefuseGlobal
    <3> QED BY <1>2, <3>2, <3>3, <3>4 DEF Refuse
  <2>2. reply' \in Replies
    BY <1>0, <1>2, ReplyOps DEF Refuse
  <2>3. TypeOK'
    BY <1>2, <2>1, <2>2 DEF Refuse, TypeInv, TypeOK
  <2>4. Shape'
    BY <1>2, <2>1 DEF Refuse, TypeInv, Shape
  <2>5. Existing'
    BY <1>2, <2>1 DEF Refuse, TypeInv, Existing, Exist
  <2> QED BY <2>3, <2>4, <2>5 DEF TypeInv
<1>3. ASSUME NEW by \in {"host", "error"}, Resume(by) PROVE TypeInv'
  <2>1. Len(snap.frames) \in Nat /\ Len(snap.frames) >= 1
    BY <1>0, <1>3 DEF Resume
  <2>2. state' \in States
    BY <1>0, <1>3, <2>1, RestoreType DEF Resume
  <2>3. result' \in Origin
    BY <1>0, <1>3, ReplyOps, OriginType DEF Resume
  <2>4. reply' \in Replies
    BY <1>0, <1>3, ReplyOps DEF Resume
  <2>5. callCtx' \in Contexts
    BY <1>3 DEF Resume
  <2>6. TypeOK'
    BY <1>3, <2>2, <2>3, <2>4, <2>5 DEF Resume, TypeInv, TypeOK, Controls
  <2>7. Shape'
    BY <1>3, <2>1 DEF Resume, TypeInv, Shape
  <2>8. Existing'
    BY <1>3 DEF Resume, TypeInv, Existing, Exist
  <2> QED BY <2>6, <2>7, <2>8 DEF TypeInv
<1>4. ASSUME NEW c \in Contexts, Cancel(c) PROVE TypeInv'
  BY <1>4 DEF Cancel, TypeInv, TypeOK, Shape, Existing, Exist
<1> QED BY <1>1, <1>2, <1>3, <1>4
        DEF HostStep, ResumeWithResult, ResumeWithError

LEMMA TypeStep == ASSUME TypeInv, [Next]_vars PROVE TypeInv'
<1>1. CASE UNCHANGED vars
  BY <1>1 DEF vars, TypeInv, TypeOK, Shape, Existing, Exist
<1> QED BY <1>1, TypeDriver, TypeOpcode, TypeLeaveStep, TypeHost
        DEF Next, EngineStep

(* The state has the types the code gives it, an activation is on the Go   *)
(* stack exactly while a frame runs, and no frame is mentioned, by the     *)
(* snapshot, the stack or a pause in flight, before NewFrame made it.      *)
THEOREM EngineTypeCorrect == Spec => []TypeInv
<1>1. Init => TypeInv
  BY TypeInit
<1>2. TypeInv /\ [Next]_vars => TypeInv'
  BY TypeStep
<1> QED BY <1>1, <1>2, PTL DEF Spec

THEOREM EngineTypeOK == Spec => []TypeOK
<1>1. TypeInv => TypeOK
  BY DEF TypeInv
<1> QED BY <1>1, EngineTypeCorrect, PTL
-------------------------------------------------------------------------------
(* The program's call stack.                                               *)

(* A frame that exists keeps its caller and the way it was entered.        *)
LinksKept == \A g \in FrameId : g <= created => Linked(frame'[g], frame[g])

LEMMA LinksStep == ASSUME TypeInv, [Next]_vars PROVE LinksKept
<1>0. /\ frame \in [FrameId -> Frames] /\ result \in Origin
      /\ snap \in Snapshots /\ created \in Nat /\ calls \in Nat
  BY DEF TypeInv, TypeOK
<1>a. ASSUME UNCHANGED frame PROVE LinksKept
  BY <1>a DEF LinksKept, Linked
<1>b. ASSUME NEW f \in FrameId, NEW fr \in Frames, Linked(fr, frame[f]),
             frame' = [frame EXCEPT ![f] = fr]
      PROVE  LinksKept
  BY <1>0, <1>b DEF LinksKept, Linked
<1>c. ASSUME NEW f \in FrameId, NEW e \in Errs, Raise(f, e) PROVE LinksKept
  BY <1>0, <1>c, RaiseType DEF LinksKept
<1>d. control \notin {"host", "driver"} => Innermost \in FrameId
  BY StackTop
<1>1. CASE EnterTry
  BY <1>0, <1>b, <1>d, <1>1, FrameOps, OriginType DEF EnterTry
<1>2. CASE LeaveTry
  BY <1>0, <1>b, <1>d, <1>2, FrameOps, OriginType DEF LeaveTry
<1>3. CASE CallExternal
  <2>1. From("host", calls + 1) \in Origin
    BY <1>0, OriginType
  <2> QED BY <1>0, <1>b, <1>d, <1>3, <2>1, FrameOps DEF CallExternal
<1>4. ASSUME NEW k \in Calls, Call(k) PROVE LinksKept
  <2> DEFINE f == created + 1
             w == IF k.via = "builtin" THEN From("builtin", f)
                                       ELSE From("frame", f)
  <2>1. frame' = [frame EXCEPT ![Innermost] = Waiting(@, w),
                               ![f] = NewFrame(Innermost, k)]
    BY <1>4 DEF Call
  <2>2. w \in Origin /\ f \notin 1..created /\ Innermost \in FrameId
    BY <1>0, <1>d, <1>4, OriginType DEF Call
  <2> HIDE DEF w
  <2>3. Linked(Waiting(frame[Innermost], w), frame[Innermost])
    BY <1>0, <2>2, FrameOps
  <2>4. ASSUME NEW g \in FrameId, g <= created
        PROVE  Linked(frame'[g], frame[g])
    <3>1. g # f
      BY <1>0, <2>4, BoundsAssumption DEF FrameId
    <3>2. CASE g = Innermost
      BY <1>0, <2>1, <2>3, <3>1, <3>2
    <3>3. CASE g # Innermost
      BY <1>0, <2>1, <3>1, <3>3 DEF Linked
    <3> QED BY <3>2, <3>3
  <2> QED BY <2>4 DEF LinksKept
<1>5. CASE DriverRuns
  <2>1. snap.frames[index] \in FrameId
    BY <1>0, <1>5, SnapOps DEF DriverRuns, TypeInv, Shape
  <2> QED BY <1>0, <1>a, <1>b, <1>5, <2>1, FrameOps DEF DriverRuns
<1>6. ASSUME LeaveFrame, control \notin {"host", "driver"},
             RaiseInCaller \/ RaiseEndsLoop \/ PauseEndsLoop \/ ReturnToCaller
      PROVE  LinksKept
  <2>0. Innermost \in FrameId /\ Caller \in FrameId /\ err \in Errs
    BY <1>6, StackTop DEF LeaveFrame, TypeInv, TypeOK, Errs
  <2>1. CASE RaiseInCaller
    BY <1>c, <2>0, <2>1 DEF RaiseInCaller
  <2>2. CASE RaiseEndsLoop \/ PauseEndsLoop
    BY <1>0, <1>b, <2>0, <2>2, FrameOps, OriginType
       DEF RaiseEndsLoop, PauseEndsLoop
  <2>3. CASE ReturnToCaller
    <3> DEFINE v == IF frame[Innermost].via = "builtin"
                      THEN From("builtin", Innermost)
                      ELSE From("frame", Innermost)
    <3>1. v \in Origin
      BY <2>0, OriginType, BoundsAssumption DEF FrameId
    <3>2. frame' = [frame EXCEPT ![Caller] = Given(@, v)]
      BY <2>3 DEF ReturnToCaller
    <3> HIDE DEF v
    <3> QED BY <1>0, <1>b, <2>0, <3>1, <3>2, FrameOps
  <2> QED BY <1>6, <2>1, <2>2, <2>3
<1>7. ASSUME NEW n \in Sizes, Output(n) \/ OutputRefused(n) PROVE LinksKept
  BY <1>a, <1>c, <1>d, <1>7 DEF Output, OutputRefused, Errs
<1>8. CASE Opcode
  BY <1>a, <1>c, <1>d, <1>1, <1>2, <1>3, <1>4, <1>7, <1>8
     DEF Opcode, BudgetRefuses, Inject, Step, OpcodeRaises, CallRefused,
         OpcodeReturns, Errs
<1>9. CASE Driver
  BY <1>a, <1>5, <1>9 DEF Driver, DriverAborts, DriverInjects
<1>10. CASE Leave
  BY <1>a, <1>6, <1>10
     DEF Leave, ReturnToCaller, ReturnToDriver, Complete, RaiseInCaller,
         RaiseEndsLoop, Fail, PauseCaller, PauseEndsLoop, Pause
<1>11. CASE HostStep
  BY <1>a, <1>11
     DEF HostStep, Run, Refuse, ResumeWithResult, ResumeWithError, Resume,
         Cancel
<1>12. CASE UNCHANGED vars
  BY <1>a, <1>12 DEF vars
<1> QED BY <1>8, <1>9, <1>10, <1>11, <1>12 DEF Next, EngineStep
(* A call stack read outwards (callee before caller) and inwards.          *)
Outwards(s) == \A k \in 1..(Len(s) - 1) : frame[s[k]].parent = s[k + 1]
Inwards(s) == \A k \in 2..Len(s) : frame[s[k]].parent = s[k - 1]

(* No frame is paused but while a pause goes outwards.                     *)
PauseInFlight == control # "pause" => ext.paused = <<>>

StackInv == TypeInv /\ CallStackKept /\ PauseInFlight

LEMMA CallStackParts ==
    CallStackKept <=>
      /\ Outwards(snap.frames)
      /\ snap.frames # <<>> => snap.frames[Len(snap.frames)] = 1
      /\ Inwards(active)
      /\ active # <<>> => active[1] = snap.frames[index]
      /\ Outwards(ext.paused)
      /\ ext.paused # <<>> => ext.paused[Len(ext.paused)] = Innermost
  BY DEF CallStackKept, Outwards, Inwards

LEMMA ChainsKept ==
    ASSUME LinksKept, NEW s \in Seq(FrameId), Exist(s)
    PROVE  /\ Outwards(s) =>
                \A k \in 1..(Len(s) - 1) : frame'[s[k]].parent = s[k + 1]
           /\ Inwards(s) =>
                \A k \in 2..Len(s) : frame'[s[k]].parent = s[k - 1]
<1>1. \A k \in 1..Len(s) :
         s[k] \in FrameId /\ frame'[s[k]].parent = frame[s[k]].parent
  BY DEF LinksKept, Linked, Exist
<1>2. \A k \in 1..(Len(s) - 1) : k \in 1..Len(s)
  OBVIOUS
<1>3. \A k \in 2..Len(s) : k \in 1..Len(s)
  OBVIOUS
<1> QED BY <1>1, <1>2, <1>3 DEF Outwards, Inwards

LEMMA SequencesOf ==
    ASSUME TypeInv
    PROVE  /\ snap.frames \in Seq(FrameId) /\ Exist(snap.frames)
           /\ active \in Seq(FrameId) /\ Exist(active)
           /\ ext.paused \in Seq(FrameId) /\ Exist(ext.paused)
           /\ Len(snap.frames) \in Nat /\ Len(active) \in Nat
           /\ Len(ext.paused) \in Nat
<1>1. snap.frames \in Seq(FrameId)
  BY SnapOps DEF TypeInv, TypeOK
<1>2. active \in Seq(FrameId) /\ ext.paused \in Seq(FrameId)
  BY DEF TypeInv, TypeOK
<1>3. Len(snap.frames) \in Nat /\ Len(active) \in Nat /\ Len(ext.paused) \in Nat
  BY <1>1, <1>2
<1> QED BY <1>1, <1>2, <1>3 DEF TypeInv, Existing

LEMMA StackInit == Init => StackInv
<1> SUFFICES ASSUME Init PROVE StackInv
  OBVIOUS
<1>1. TypeInv
  BY TypeInit
<1> QED BY <1>1 DEF Init, StackInv, CallStackKept, PauseInFlight

(* A step that leaves the call stack as it is.                             *)
LEMMA StackUnchanged ==
    ASSUME StackInv, LinksKept, TypeInv',
           UNCHANGED <<snap.frames, active, index, ext>>,
           control # "pause"
    PROVE  StackInv'
<1>1. /\ Outwards(snap.frames) /\ Inwards(active)
      /\ ext.paused = <<>> /\ CallStackKept
  BY CallStackParts DEF StackInv, PauseInFlight
<1>2. /\ \A k \in 1..(Len(snap.frames) - 1) :
            frame'[snap.frames[k]].parent = snap.frames[k + 1]
      /\ \A k \in 2..Len(active) : frame'[active[k]].parent = active[k - 1]
  BY <1>1, ChainsKept, SequencesOf DEF StackInv
<1>3. CallStackKept'
  BY <1>1, <1>2 DEF CallStackKept
<1> QED BY <1>1, <1>3 DEF StackInv, PauseInFlight

(* runSnapshot starts a frame.                                             *)
LEMMA StackStart ==
    ASSUME StackInv, LinksKept, TypeInv', control = "driver",
           active' = <<snap.frames[index]>>,
           UNCHANGED <<snap, index, ext>>
    PROVE  StackInv'
<1>1. Outwards(snap.frames) /\ ext.paused = <<>> /\ CallStackKept
  BY CallStackParts DEF StackInv, PauseInFlight
<1>2. \A k \in 1..(Len(snap.frames) - 1) :
            frame'[snap.frames[k]].parent = snap.frames[k + 1]
  BY <1>1, ChainsKept, SequencesOf DEF StackInv
<1>3. Len(active') = 1 /\ active'[1] = snap.frames[index]
  OBVIOUS
<1>4. CallStackKept'
  BY <1>1, <1>2, <1>3 DEF CallStackKept
<1> QED BY <1>1, <1>4 DEF StackInv, PauseInFlight

(* The execution ends.                                                     *)
LEMMA StackClose ==
    ASSUME StackInv, TypeInv', control # "pause",
           NEW k \in {"complete", "error"}, CloseSnapshot(k), UNCHANGED ext
    PROVE  StackInv'
<1>1. ext.paused = <<>>
  BY DEF StackInv, PauseInFlight
<1>2. snap'.frames = <<>> /\ active' = <<>>
  BY DEF CloseSnapshot, ClosedSnapshot
<1> QED BY <1>1, <1>2 DEF StackInv, PauseInFlight, CallStackKept

(* An activation leaves the Go stack, and nothing is paused.               *)
LEMMA StackLeave ==
    ASSUME StackInv, LinksKept, TypeInv', LeaveFrame,
           UNCHANGED <<snap, index>>, ext'.paused = <<>>
    PROVE  StackInv'
<1>1. /\ active \in Seq(FrameId) /\ Len(active) > 1 /\ Len(active) \in Nat
      /\ active' = SubSeq(active, 1, Len(active) - 1)
  BY SequencesOf DEF StackInv, LeaveFrame, Outer
<1>2. /\ active' # <<>> /\ Len(active') = Len(active) - 1
      /\ \A k \in 1..(Len(active) - 1) : active'[k] = active[k]
  BY <1>1, OuterType
<1>3. Outwards(snap.frames) /\ Inwards(active) /\ CallStackKept
  BY CallStackParts DEF StackInv
<1>4. /\ \A k \in 1..(Len(snap.frames) - 1) :
            frame'[snap.frames[k]].parent = snap.frames[k + 1]
      /\ \A k \in 2..Len(active) : frame'[active[k]].parent = active[k - 1]
  BY <1>3, ChainsKept, SequencesOf DEF StackInv
<1>5. \A k \in 2..Len(active') : frame'[active'[k]].parent = active'[k - 1]
  <2> SUFFICES ASSUME NEW k \in 2..Len(active')
               PROVE  frame'[active'[k]].parent = active'[k - 1]
    OBVIOUS
  <2>1. /\ k \in 2..Len(active) /\ k \in 1..(Len(active) - 1)
        /\ k - 1 \in 1..(Len(active) - 1)
    BY <1>1, <1>2
  <2>2. active'[k] = active[k] /\ active'[k - 1] = active[k - 1]
    BY <1>2, <2>1
  <2> QED BY <1>4, <2>1, <2>2
<1>6. active'[1] = snap.frames[index]
  <2>1. active # <<>> /\ 1 \in 1..(Len(active) - 1)
    BY <1>1
  <2> QED BY <1>2, <1>3, <2>1 DEF CallStackKept
<1>7. CallStackKept'
  BY <1>3, <1>4, <1>5, <1>6 DEF CallStackKept
<1> QED BY <1>7 DEF StackInv, PauseInFlight
(* A frame calls another.                                                  *)
LEMMA StackCall ==
    ASSUME StackInv, LinksKept, TypeInv', NEW k \in Calls, Call(k)
    PROVE  StackInv'
<1> DEFINE f == created + 1
<1>0. /\ Outwards(snap.frames) /\ Inwards(active) /\ CallStackKept
      /\ ext.paused = <<>> /\ frame \in [FrameId -> Frames]
  BY CallStackParts DEF StackInv, PauseInFlight, TypeInv, TypeOK, Call
<1>1. /\ active \in Seq(FrameId) /\ active # <<>> /\ Len(active) \in Nat
      /\ f \in FrameId /\ created \in Nat
  BY SequencesOf, BoundsAssumption
     DEF StackInv, Call, TypeInv, TypeOK, Shape, FrameId
<1>2. /\ active' = Append(active, f)
      /\ frame'[f] = NewFrame(Innermost, k)
  BY <1>0, <1>1 DEF Call
<1> HIDE DEF f
<1>3. /\ Len(active') = Len(active) + 1 /\ active'[Len(active) + 1] = f
      /\ \A j \in 1..Len(active) : active'[j] = active[j]
  BY <1>1, <1>2, PushType
<1>4. /\ \A j \in 1..(Len(snap.frames) - 1) :
            frame'[snap.frames[j]].parent = snap.frames[j + 1]
      /\ \A j \in 2..Len(active) : frame'[active[j]].parent = active[j - 1]
  BY <1>0, ChainsKept, SequencesOf DEF StackInv
<1>5. \A j \in 2..Len(active') : frame'[active'[j]].parent = active'[j - 1]
  <2> SUFFICES ASSUME NEW j \in 2..Len(active')
               PROVE  frame'[active'[j]].parent = active'[j - 1]
    OBVIOUS
  <2>1. CASE j \in 2..Len(active)
    <3>1. j \in 1..Len(active) /\ j - 1 \in 1..Len(active)
      BY <1>1, <2>1
    <3> QED BY <1>3, <1>4, <2>1, <3>1
  <2>2. CASE j \notin 2..Len(active)
    <3>1. j = Len(active) + 1 /\ j - 1 = Len(active)
          /\ Len(active) \in 1..Len(active)
      BY <1>1, <1>3, <2>2
    <3>2. active'[j] = f /\ active'[j - 1] = Innermost
      BY <1>3, <3>1 DEF Innermost
    <3> QED BY <1>2, <3>2, NewFrameType DEF NewFrame
  <2> QED BY <2>1, <2>2
<1>6. active'[1] = snap.frames[index]
  <2>1. 1 \in 1..Len(active)
    BY <1>1
  <2> QED BY <1>0, <1>1, <1>3, <2>1 DEF CallStackKept
<1>7. UNCHANGED <<snap, index, ext, control>>
  BY DEF Call
<1>8. CallStackKept'
  BY <1>0, <1>4, <1>5, <1>6, <1>7 DEF CallStackKept
<1> QED BY <1>0, <1>7, <1>8 DEF StackInv, PauseInFlight

(* A frame calls the host.                                                 *)
LEMMA StackCallExternal ==
    ASSUME StackInv, LinksKept, TypeInv', CallExternal PROVE StackInv'
<1>0. Outwards(snap.frames) /\ Inwards(active) /\ CallStackKept
  BY CallStackParts DEF StackInv
<1>1. /\ \A j \in 1..(Len(snap.frames) - 1) :
            frame'[snap.frames[j]].parent = snap.frames[j + 1]
      /\ \A j \in 2..Len(active) : frame'[active[j]].parent = active[j - 1]
  BY <1>0, ChainsKept, SequencesOf DEF StackInv
<1>2. /\ UNCHANGED <<snap, active, index>>
      /\ ext'.paused = <<Innermost>> /\ control' = "pause"
  BY DEF CallExternal
<1>3. /\ Len(ext'.paused) = 1 /\ ext'.paused[Len(ext'.paused)] = Innermost
      /\ Innermost' = Innermost
  BY <1>2 DEF Innermost
<1>4. CallStackKept'
  BY <1>0, <1>1, <1>2, <1>3 DEF CallStackKept
<1> QED BY <1>2, <1>4 DEF StackInv, PauseInFlight

(* The pause reaches the caller.                                           *)
LEMMA StackPauseCaller ==
    ASSUME StackInv, LinksKept, TypeInv', PauseCaller PROVE StackInv'
<1>0. /\ Outwards(snap.frames) /\ Inwards(active) /\ Outwards(ext.paused)
      /\ CallStackKept
      /\ ext \in [call : Nat, paused : Seq(FrameId)]
      /\ ext.paused \in Seq(FrameId) /\ Len(ext.paused) \in Nat
  BY CallStackParts, SequencesOf DEF StackInv, TypeInv, TypeOK
<1>1. /\ active \in Seq(FrameId) /\ Len(active) > 1 /\ Len(active) \in Nat
      /\ active' = SubSeq(active, 1, Len(active) - 1)
      /\ UNCHANGED <<snap, frame, index, control>>
      /\ ext' = [ext EXCEPT !.paused = Append(ext.paused, Caller)]
      /\ control = "pause"
  BY SequencesOf DEF StackInv, PauseCaller, LeaveFrame, Outer
<1>2. /\ active' # <<>> /\ Len(active') = Len(active) - 1
      /\ \A k \in 1..(Len(active) - 1) : active'[k] = active[k]
      /\ Caller \in FrameId
  BY <1>1, OuterType DEF Caller
<1>3. \A k \in 2..Len(active') : frame[active'[k]].parent = active'[k - 1]
  <2> SUFFICES ASSUME NEW k \in 2..Len(active')
               PROVE  frame[active'[k]].parent = active'[k - 1]
    OBVIOUS
  <2>1. /\ k \in 2..Len(active) /\ k \in 1..(Len(active) - 1)
        /\ k - 1 \in 1..(Len(active) - 1)
    BY <1>1, <1>2
  <2> QED BY <1>0, <1>2, <2>1 DEF Inwards
<1>4. active'[1] = snap.frames[index]
  <2>1. active # <<>> /\ 1 \in 1..(Len(active) - 1)
    BY <1>1
  <2> QED BY <1>0, <1>2, <2>1 DEF CallStackKept
<1>5. frame[Innermost].parent = Caller /\ Innermost' = Caller
  <2>1. Len(active) \in 2..Len(active) /\ Len(active) - 1 \in 1..(Len(active) - 1)
    BY <1>1
  <2> QED BY <1>0, <1>2, <2>1 DEF Inwards, Innermost, Caller
<1> DEFINE p == ext.paused
           q == Append(p, Caller)
<1>6. ext'.paused = q /\ p \in Seq(FrameId) /\ Len(p) \in Nat
  BY <1>0, <1>1
<1>7. p # <<>> => p[Len(p)] = Innermost
  BY <1>0 DEF CallStackKept
<1>8. \A k \in 1..(Len(p) - 1) : frame[p[k]].parent = p[k + 1]
  BY <1>0 DEF Outwards
<1>9. /\ Len(q) = Len(p) + 1 /\ q[Len(p) + 1] = Caller
      /\ \A k \in 1..Len(p) : q[k] = p[k]
  BY <1>0, <1>2, PushType
<1> HIDE DEF p, q
<1>10. \A k \in 1..(Len(q) - 1) : frame[q[k]].parent = q[k + 1]
  <2> SUFFICES ASSUME NEW k \in 1..(Len(q) - 1)
               PROVE  frame[q[k]].parent = q[k + 1]
    OBVIOUS
  <2>1. CASE k \in 1..(Len(p) - 1)
    <3>1. k \in 1..Len(p) /\ k + 1 \in 1..Len(p)
      BY <1>6, <2>1
    <3> QED BY <1>8, <1>9, <2>1, <3>1
  <2>2. CASE k \notin 1..(Len(p) - 1)
    <3>1. k = Len(p) /\ k \in 1..Len(p) /\ p # <<>>
      BY <1>6, <1>9, <2>2
    <3> QED BY <1>5, <1>7, <1>9, <3>1
  <2> QED BY <2>1, <2>2
<1>11. CallStackKept'
  BY <1>0, <1>1, <1>3, <1>4, <1>5, <1>6, <1>9, <1>10 DEF CallStackKept
<1> QED BY <1>1, <1>11 DEF StackInv, PauseInFlight
(* runSnapshot merges the paused frames into the snapshot.                 *)
LEMMA StackPause ==
    ASSUME StackInv, TypeInv', Pause PROVE StackInv'
<1> DEFINE p == ext.paused
           s == snap.frames
           r == SubSeq(s, index + 1, Len(s))
           m == p \o r
<1>0. /\ Outwards(s) /\ Outwards(p) /\ CallStackKept
      /\ p \in Seq(FrameId) /\ Len(p) \in Nat
      /\ s \in Seq(FrameId) /\ Len(s) \in Nat
      /\ active # <<>> /\ Len(active) = 1 /\ index \in 1..Len(s)
      /\ snap \in Snapshots
  BY CallStackParts, SequencesOf
     DEF StackInv, Pause, TypeInv, TypeOK, Shape
<1>1. /\ active' = <<>> /\ UNCHANGED frame /\ ext'.paused = <<>>
      /\ control' = "host" /\ snap' = [snap EXCEPT !.frames = m]
  BY DEF Pause, MergePausedFrames
<1>2. Innermost = s[index]
  BY <1>0 DEF Innermost, CallStackKept
<1>3. /\ p # <<>> => p[Len(p)] = s[index]
      /\ \A k \in 1..(Len(p) - 1) : frame[p[k]].parent = p[k + 1]
      /\ \A k \in 1..(Len(s) - 1) : frame[s[k]].parent = s[k + 1]
      /\ s # <<>> => s[Len(s)] = 1
  BY <1>0, <1>2 DEF CallStackKept, Outwards
<1> HIDE DEF p, s
<1>4. /\ r \in Seq(FrameId) /\ Len(r) = Len(s) - index
      /\ \A k \in 1..(Len(s) - index) : r[k] = s[index + k]
  BY <1>0, RestType
<1> HIDE DEF r
<1>5. /\ m \in Seq(FrameId) /\ Len(m) = Len(p) + Len(r)
      /\ \A k \in 1..Len(p) : m[k] = p[k]
      /\ \A k \in 1..Len(r) : m[Len(p) + k] = r[k]
  <2>1. p \in Seq(FrameId) /\ r \in Seq(FrameId)
    BY <1>0, <1>4
  <2> QED BY <2>1, MergeType
<1> HIDE DEF m
<1>6. snap'.frames = m
  <2>1. snap \in Snapshots /\ m \in Seq(FrameId)
    BY <1>0, <1>5
  <2> QED BY <1>1, <2>1, SnapOps
<1>7. \A k \in 1..(Len(m) - 1) : frame[m[k]].parent = m[k + 1]
  <2> SUFFICES ASSUME NEW k \in 1..(Len(m) - 1)
               PROVE  frame[m[k]].parent = m[k + 1]
    OBVIOUS
  <2>0. Len(r) \in Nat /\ Len(r) = Len(s) - index /\ index \in Nat
    BY <1>0, <1>4
  <2>1. CASE k \in 1..(Len(p) - 1)
    <3>1. k \in 1..Len(p) /\ k + 1 \in 1..Len(p)
      BY <1>0, <2>1
    <3> QED BY <1>3, <1>5, <2>1, <3>1
  <2>2. CASE k = Len(p)
    <3>1. k \in 1..Len(p) /\ 1 \in 1..Len(r) /\ p # <<>>
          /\ index \in 1..(Len(s) - 1)
      BY <1>0, <1>5, <2>0, <2>2
    <3>2. m[k] = s[index] /\ m[k + 1] = s[index + 1]
      BY <1>3, <1>4, <1>5, <2>0, <2>2, <3>1
    <3> QED BY <1>3, <3>1, <3>2
  <2>3. CASE k > Len(p)
    <3> DEFINE j == k - Len(p)
    <3>1. /\ j \in 1..Len(r) /\ j + 1 \in 1..Len(r)
          /\ k = Len(p) + j /\ k + 1 = Len(p) + (j + 1)
          /\ index + j \in 1..(Len(s) - 1)
          /\ index + (j + 1) = (index + j) + 1
      BY <1>0, <1>5, <2>0, <2>3
    <3> HIDE DEF j
    <3>2. m[k] = s[index + j] /\ m[k + 1] = s[index + (j + 1)]
      BY <1>4, <1>5, <2>0, <3>1
    <3> QED BY <1>3, <3>1, <3>2
  <2> QED BY <1>0, <2>1, <2>2, <2>3
<1>8. m # <<>> => m[Len(m)] = 1
  <2>0. Len(r) \in Nat /\ Len(r) = Len(s) - index /\ index \in Nat /\ s # <<>>
    BY <1>0, <1>4
  <2>1. CASE Len(r) = 0
    <3>0. Len(s) \in Nat /\ Len(p) \in Nat /\ Len(m) = Len(p) + Len(r)
      BY <1>0, <1>5
    <3>1. index = Len(s) /\ Len(m) = Len(p)
      BY <2>0, <2>1, <3>0
    <3>2. CASE p = <<>>
      <4>1. Len(m) = 0
        BY <1>0, <3>1, <3>2
      <4>2. m = <<>>
        BY <1>5, <4>1
      <4> QED BY <4>2
    <3>3. CASE p # <<>>
      <4>1. Len(p) \in 1..Len(p)
        BY <1>0, <3>3
      <4> QED BY <1>3, <1>5, <2>0, <3>1, <3>3, <4>1
    <3> QED BY <3>2, <3>3
  <2>2. CASE Len(r) # 0
    <3>1. Len(r) \in 1..Len(r) /\ index + Len(r) = Len(s)
      BY <1>0, <2>0, <2>2
    <3>2. m[Len(m)] = r[Len(r)] /\ r[Len(r)] = s[Len(s)]
      BY <1>4, <1>5, <2>0, <3>1
    <3> QED BY <1>3, <2>0, <3>2
  <2> QED BY <2>1, <2>2
<1>9. CallStackKept'
  BY <1>1, <1>6, <1>7, <1>8 DEF CallStackKept
<1> QED BY <1>1, <1>9 DEF StackInv, PauseInFlight

LEMMA StackStep == ASSUME StackInv, [Next]_vars PROVE StackInv'
<1>0. TypeInv /\ TypeInv' /\ LinksKept /\ snap \in Snapshots
  BY TypeStep, LinksStep DEF StackInv, TypeInv, TypeOK
<1>1. CASE UNCHANGED vars
  BY <1>1 DEF vars, StackInv, TypeInv, TypeOK, Shape, Existing, Exist,
              CallStackKept, PauseInFlight, Innermost
<1>2. CASE Driver
  <2>1. CASE DriverAborts
    BY <1>0, <2>1, StackClose DEF DriverAborts
  <2>2. CASE DriverInjects \/ DriverRuns
    BY <1>0, <2>2, StackStart DEF DriverInjects, DriverRuns
  <2> QED BY <1>2, <2>1, <2>2 DEF Driver
<1>3. CASE Opcode
  <2>1. CASE CallExternal
    BY <1>0, <2>1, StackCallExternal
  <2>2. ASSUME NEW k \in Calls, Call(k) PROVE StackInv'
    BY <1>0, <2>2, StackCall
  <2>3. ASSUME NEW n \in Sizes, Output(n) PROVE StackInv'
    <3>1. snap'.frames = snap.frames
      BY <1>0, <2>3, SnapOps, BoundsAssumption DEF Output
    <3> QED BY <1>0, <2>3, <3>1, StackUnchanged DEF Output
  <2>4. ASSUME NEW n \in Sizes, OutputRefused(n) PROVE StackInv'
    BY <1>0, <2>4, StackUnchanged DEF OutputRefused
  <2> QED BY <1>0, <1>3, <2>1, <2>2, <2>3, <2>4, StackUnchanged
          DEF Opcode, BudgetRefuses, Inject, Step, EnterTry, LeaveTry,
              OpcodeRaises, CallRefused, OpcodeReturns
<1>4. CASE Leave
  <2>1. CASE Pause
    BY <1>0, <2>1, StackPause
  <2>2. CASE PauseCaller
    BY <1>0, <2>2, StackPauseCaller
  <2>3. CASE Complete \/ Fail
    BY <1>0, <2>3, StackClose DEF Complete, Fail
  <2>4. CASE PauseEndsLoop
    <3>1. ext'.paused = <<>>
      BY <2>4 DEF PauseEndsLoop
    <3> QED BY <1>0, <2>4, <3>1, StackLeave DEF PauseEndsLoop
  <2>5. CASE ReturnToCaller \/ RaiseInCaller \/ RaiseEndsLoop
    <3>1. ext'.paused = <<>>
      BY <2>5 DEF ReturnToCaller, RaiseInCaller, RaiseEndsLoop, StackInv,
                  PauseInFlight
    <3> QED BY <1>0, <2>5, <3>1, StackLeave
            DEF ReturnToCaller, RaiseInCaller, RaiseEndsLoop
  <2>6. CASE ReturnToDriver
    <3>1. /\ active' = <<>> /\ control' = "driver"
          /\ UNCHANGED <<snap, frame, ext>> /\ ext.paused = <<>>
      BY <2>6 DEF ReturnToDriver, StackInv, PauseInFlight
    <3> QED BY <1>0, <3>1 DEF StackInv, CallStackKept, PauseInFlight
  <2> QED BY <1>4, <2>1, <2>2, <2>3, <2>4, <2>5, <2>6 DEF Leave
<1>5. CASE HostStep
  <2>0. CASE Run
    <3>1. /\ snap'.frames = <<1>> /\ Len(<<1>>) = 1
          /\ active' = <<>> /\ ext'.paused = <<>> /\ control' = "driver"
      BY <2>0 DEF Run, StackInv, PauseInFlight, TypeInv, Shape
    <3>2. snap'.frames[Len(snap'.frames)] = 1
      BY <3>1
    <3> QED BY <1>0, <3>1, <3>2 DEF StackInv, CallStackKept, PauseInFlight
  <2>1. CASE Refuse
    <3>1. snap'.frames = snap.frames
      BY <1>0, <2>1, SnapOps
         DEF Refuse, RefuseProgram, RefuseSetup, RefuseGlobal
    <3> QED BY <1>0, <2>1, <3>1, StackUnchanged DEF Refuse
  <2>2. CASE ResumeWithResult \/ ResumeWithError
    <3>1. /\ UNCHANGED <<snap, frame, active, ext>> /\ control' = "driver"
          /\ active = <<>> /\ ext.paused = <<>>
      BY <2>2 DEF ResumeWithResult, ResumeWithError, Resume, StackInv,
                  PauseInFlight, TypeInv, Shape
    <3> QED BY <1>0, <3>1 DEF StackInv, CallStackKept, PauseInFlight
  <2>3. ASSUME NEW c \in Contexts, Cancel(c) PROVE StackInv'
    BY <1>0, <2>3
       DEF Cancel, StackInv, CallStackKept, PauseInFlight, Innermost
  <2> QED BY <1>5, <2>0, <2>1, <2>2, <2>3 DEF HostStep
<1> QED BY <1>1, <1>2, <1>3, <1>4, <1>5 DEF Next, EngineStep

(* Over any number of pauses, resumes, errors and returns, in programs of  *)
(* any depth: the snapshot, the paused frames and the Go stack together    *)
(* are the program's call stack, callee to caller, down to the module's    *)
(* frame; mergePausedFrames drops, repeats and swaps none of it.           *)
THEOREM EngineCallStackKept == Spec => []CallStackKept
<1>1. Init => StackInv
  BY StackInit
<1>2. StackInv /\ [Next]_vars => StackInv'
  BY StackStep
<1>3. StackInv => CallStackKept
  BY DEF StackInv
<1> QED BY <1>1, <1>2, <1>3, PTL DEF Spec
===============================================================================
