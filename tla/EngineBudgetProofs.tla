-------------------------- MODULE EngineBudgetProofs --------------------------
(***************************************************************************)
(* Proofs about the execution budget of the engine and about what it owes  *)
(* its host: callDepth counts the program's call stack, whatever was       *)
(* paused, resumed, raised or refused; the captured output is delivered in *)
(* full; every step of the engine is one of HostProtocol or hidden from    *)
(* the host.  (That the engine comes back is liveness and is left to TLC.) *)
(***************************************************************************)
EXTENDS EngineProofs

DepthInv == StackInv /\ DepthAccounting

(* The depth of the part of the call stack that is on the Go stack.        *)
Above == Cardinality(EnteredAbove)
-------------------------------------------------------------------------------
LEMMA AboveType ==
    ASSUME TypeInv
    PROVE  /\ IsFiniteSet(EnteredAbove) /\ Above \in Nat
           /\ Remaining \in Int
           /\ control # "host" => Remaining \in Nat
           /\ Len(active) <= 1 => Above = 0
<1>1. Len(active) \in Nat /\ Len(snap.frames) \in Nat
  BY SequencesOf
<1>2. IsFiniteSet(2..Len(active))
  BY <1>1, FS_Interval
<1>3. EnteredAbove \in SUBSET (2..Len(active))
  BY DEF EnteredAbove
<1>4. IsFiniteSet(EnteredAbove) /\ Above \in Nat
  BY <1>2, <1>3, FS_Subset, FS_CardinalityType DEF Above
<1>5. ASSUME Len(active) <= 1 PROVE Above = 0
  <2>1. EnteredAbove = {}
    BY <1>1, <1>5 DEF EnteredAbove
  <2> QED BY <2>1, FS_EmptySet DEF Above
<1>6. Remaining \in Int /\ (control # "host" => Remaining \in Nat)
  BY <1>1 DEF Remaining, TypeInv, TypeOK, Shape
<1> QED BY <1>4, <1>5, <1>6

(* What each change of the Go stack does to the count.                     *)
LEMMA AboveUnchanged ==
    ASSUME TypeInv, LinksKept, UNCHANGED active
    PROVE  Above' = Above
<1>1. \A k \in 1..Len(active) :
         active[k] \in FrameId /\ frame'[active[k]].entered
                                    = frame[active[k]].entered
  BY SequencesOf DEF Exist, LinksKept, Linked
<1>2. \A k \in 2..Len(active) : k \in 1..Len(active)
  OBVIOUS
<1>3. EnteredAbove' = EnteredAbove
  BY <1>1, <1>2 DEF EnteredAbove
<1> QED BY <1>3 DEF Above

LEMMA AboveLeave ==
    ASSUME TypeInv, LinksKept, Len(active) > 1, active' = Outer
    PROVE  /\ frame[Innermost].entered =>
                 Above > 0 /\ Above' = Above - 1
           /\ ~frame[Innermost].entered => Above' = Above
<1> DEFINE n == Len(active)
<1>1. active \in Seq(FrameId) /\ n \in Nat /\ n > 1
  BY SequencesOf
<1>2. /\ Len(active') = n - 1
      /\ \A k \in 1..(n - 1) : active'[k] = active[k]
  BY <1>1, OuterType DEF Outer
<1>3. \A k \in 1..n :
         active[k] \in FrameId /\ frame'[active[k]].entered
                                    = frame[active[k]].entered
  BY SequencesOf DEF Exist, LinksKept, Linked
<1>4. EnteredAbove' = EnteredAbove \ {n}
  <2> HIDE DEF n
  <2>1. EnteredAbove = {k \in 2..n : frame[active[k]].entered}
    BY DEF EnteredAbove, n
  <2>2. EnteredAbove' = {k \in 2..(n - 1) : frame'[active'[k]].entered}
    BY <1>2 DEF EnteredAbove
  <2>3. \A k \in 2..(n - 1) :
           frame'[active'[k]].entered = frame[active[k]].entered
    BY <1>1, <1>2, <1>3
  <2>4. 2..(n - 1) = (2..n) \ {n}
    BY <1>1
  <2> QED BY <2>1, <2>2, <2>3, <2>4
<1>5. n \in EnteredAbove <=> frame[Innermost].entered
  BY <1>1 DEF EnteredAbove, Innermost
<1>6. IsFiniteSet(EnteredAbove) /\ Above \in Nat
  BY AboveType
<1>7. Above' = IF n \in EnteredAbove THEN Above - 1 ELSE Above
  BY <1>4, <1>6, FS_RemoveElement DEF Above
<1>8. n \in EnteredAbove => Above # 0
  BY <1>6, FS_EmptySet DEF Above
<1> HIDE DEF n
<1> QED BY <1>5, <1>6, <1>7, <1>8

LEMMA AboveCall ==
    ASSUME TypeInv, LinksKept, NEW k \in Calls, Call(k)
    PROVE  Above' = IF k.entered THEN Above + 1 ELSE Above
<1> DEFINE n == Len(active)
           f == created + 1
<1>0. frame \in [FrameId -> Frames] /\ created \in Nat /\ f \in FrameId
  BY BoundsAssumption DEF TypeInv, TypeOK, Call, FrameId
<1>1. active \in Seq(FrameId) /\ n \in Nat /\ n >= 1 /\ Innermost \in FrameId
  BY SequencesOf, StackTop DEF TypeInv, Shape, Call
<1>2. active' = Append(active, f) /\ frame'[f] = NewFrame(Innermost, k)
  BY <1>0 DEF Call
<1> HIDE DEF f
<1>3. /\ Len(active') = n + 1 /\ active'[n + 1] = f
      /\ \A j \in 1..n : active'[j] = active[j]
  BY <1>0, <1>1, <1>2, PushType
<1>4. \A j \in 1..n :
         active[j] \in FrameId /\ frame'[active[j]].entered
                                    = frame[active[j]].entered
  BY SequencesOf DEF Exist, LinksKept, Linked
<1>5. frame'[active'[n + 1]].entered = k.entered
  BY <1>1, <1>2, <1>3, NewFrameType
<1>6. k.entered \in BOOLEAN
  <2>1. k \in CallKinds
    BY BoundsAssumption
  <2>2. CASE k = [via |-> "call", entered |-> TRUE]
    BY <2>2
  <2>3. CASE k \in [via : {"builtin", "iter"}, entered : BOOLEAN]
    BY <2>3
  <2> QED BY <2>1, <2>2, <2>3 DEF CallKinds
<1> HIDE DEF n
<1>7. EnteredAbove = {j \in 2..n : frame[active[j]].entered}
  BY DEF EnteredAbove, n
<1>8. EnteredAbove' = {j \in 2..(n + 1) : frame'[active'[j]].entered}
  BY <1>3 DEF EnteredAbove
<1>9. \A j \in 2..n : frame'[active'[j]].entered = frame[active[j]].entered
  BY <1>1, <1>3, <1>4
<1>10. 2..(n + 1) = (2..n) \cup {n + 1} /\ n + 1 \notin 2..n
  BY <1>1
<1>11. IsFiniteSet(EnteredAbove) /\ Above \in Nat /\ n + 1 \notin EnteredAbove
  BY <1>7, <1>10, AboveType
<1>12. CASE k.entered
  <2>1. EnteredAbove' = EnteredAbove \cup {n + 1}
    BY <1>5, <1>7, <1>8, <1>9, <1>10, <1>12
  <2> QED BY <1>11, <1>12, <2>1, FS_AddElement DEF Above
<1>13. CASE ~k.entered
  <2>1. EnteredAbove' = EnteredAbove
    BY <1>5, <1>7, <1>8, <1>9, <1>10, <1>13
  <2> QED BY <1>13, <2>1 DEF Above
<1> QED BY <1>12, <1>13
-------------------------------------------------------------------------------
LEMMA DepthInit == Init => DepthInv
<1> SUFFICES ASSUME Init PROVE DepthInv
  OBVIOUS
<1>1. StackInv
  BY StackInit
<1> QED BY <1>1 DEF Init, DepthInv, DepthAccounting

(* A step that leaves the stacks and the depth as they are.                *)
LEMMA DepthUnchanged ==
    ASSUME DepthInv, LinksKept, StackInv',
           UNCHANGED <<snap.frames, active, index>>,
           control \notin {"host", "driver"},
           control' \notin {"host", "driver"},
           state'.callDepth = state.callDepth
    PROVE  DepthInv'
<1>1. Above' = Above
  BY AboveUnchanged DEF DepthInv, StackInv
<1>2. Remaining' = Remaining
  BY DEF Remaining
<1> QED BY <1>1, <1>2 DEF DepthInv, DepthAccounting, Above

(* EvalCode's ExitCall, when an activation leaves for its caller.          *)
LEMMA DepthLeave ==
    ASSUME DepthInv, LinksKept, StackInv', LeaveFrame, UNCHANGED <<snap, index>>,
           control \notin {"host", "driver"},
           control' \notin {"host", "driver"}
    PROVE  DepthInv'
<1>1. /\ state \in States /\ Above \in Nat /\ Remaining \in Nat
      /\ state.callDepth = Remaining + Above
  BY AboveType DEF DepthInv, StackInv, TypeInv, TypeOK, DepthAccounting, Above
<1>2. /\ frame[Innermost].entered => Above > 0 /\ Above' = Above - 1
      /\ ~frame[Innermost].entered => Above' = Above
  BY AboveLeave DEF DepthInv, StackInv, LeaveFrame
<1>3. state'.callDepth = Remaining + Above'
  <2>1. CASE frame[Innermost].entered
    <3>1. state' = ExitCall(state)
      BY <2>1 DEF LeaveFrame
    <3>2. state.callDepth # 0
      BY <1>1, <1>2, <2>1
    <3> QED BY <1>1, <1>2, <2>1, <3>1, <3>2, ExitCallType
  <2>2. CASE ~frame[Innermost].entered
    <3>1. state' = state
      BY <2>2 DEF LeaveFrame
    <3> QED BY <1>1, <1>2, <2>2, <3>1
  <2> QED BY <2>1, <2>2
<1>4. Remaining' = Remaining
  BY DEF Remaining
<1> QED BY <1>3, <1>4 DEF DepthInv, DepthAccounting, Above

(* EvalCode's EnterCall.                                                   *)
LEMMA DepthCall ==
    ASSUME DepthInv, LinksKept, StackInv', NEW k \in Calls, Call(k)
    PROVE  DepthInv'
<1>1. /\ state \in States /\ Above \in Nat /\ Remaining \in Nat
      /\ state.callDepth = Remaining + Above
  BY AboveType
     DEF DepthInv, StackInv, TypeInv, TypeOK, DepthAccounting, Above, Call
<1>2. Above' = IF k.entered THEN Above + 1 ELSE Above
  BY AboveCall DEF DepthInv, StackInv
<1>3. state'.callDepth = Remaining + Above'
  <2>1. CASE k.entered
    BY <1>1, <1>2, <2>1, EnterCallType DEF Call
  <2>2. CASE ~k.entered
    BY <1>1, <1>2, <2>2, CountedType DEF Call
  <2> QED BY <2>1, <2>2
<1>4. Remaining' = Remaining /\ control' = "opcode"
  BY DEF Remaining, Call
<1> QED BY <1>3, <1>4 DEF DepthInv, DepthAccounting, Above

LEMMA DepthStep == ASSUME DepthInv, [Next]_vars PROVE DepthInv'
<1>0. /\ StackInv /\ StackInv' /\ TypeInv /\ TypeInv' /\ LinksKept
      /\ state \in States /\ snap \in Snapshots /\ Counted.callDepth = state.callDepth
  BY StackStep, LinksStep, CountedType DEF DepthInv, StackInv, TypeInv, TypeOK
<1>1. CASE UNCHANGED vars
  BY <1>0, <1>1
     DEF vars, DepthInv, DepthAccounting, Remaining, EnteredAbove
<1>2. CASE Driver
  <2>1. CASE DriverAborts
    BY <1>0, <2>1 DEF DriverAborts, CloseSnapshot, DepthInv, DepthAccounting
  <2>2. CASE DriverInjects \/ DriverRuns
    <3>1. Len(active') = 1
      BY <2>2 DEF DriverInjects, DriverRuns
    <3>2. Above' = 0
      <4>1. EnteredAbove' = {}
        BY <3>1 DEF EnteredAbove
      <4> QED BY <4>1, FS_EmptySet DEF Above
    <3>3. state'.callDepth = Remaining /\ Remaining' = Remaining
          /\ control' \in {"inject", "opcode"}
      BY <2>2 DEF DriverInjects, DriverRuns, DepthInv, DepthAccounting,
                  Remaining
    <3>4. Remaining \in Nat
      BY <1>0, <2>2, AboveType DEF DriverInjects, DriverRuns
    <3> QED BY <1>0, <3>2, <3>3, <3>4 DEF DepthInv, DepthAccounting, Above
  <2> QED BY <1>2, <2>1, <2>2 DEF Driver
<1>3. CASE Opcode
  <2>1. ASSUME NEW k \in Calls, Call(k) PROVE DepthInv'
    BY <1>0, <2>1, DepthCall
  <2>2. ASSUME NEW n \in Sizes, Output(n) PROVE DepthInv'
    <3>1. snap'.frames = snap.frames
      BY <1>0, <2>2, SnapOps, BoundsAssumption DEF Output
    <3>2. state'.callDepth = state.callDepth
      BY <1>0, <2>2, ReserveOutputType, BoundsAssumption DEF Output
    <3> QED BY <1>0, <2>2, <3>1, <3>2, DepthUnchanged DEF Output
  <2>3. CASE BudgetRefuses
    <3>1. state'.callDepth = state.callDepth
      BY <1>0, <2>3 DEF BudgetRefuses
    <3> QED BY <1>0, <2>3, <3>1, DepthUnchanged DEF BudgetRefuses
  <2>4. ASSUME Inject \/ OpcodeRaises \/ CallRefused
                 \/ \E n \in Sizes : OutputRefused(n)
        PROVE  DepthInv'
    <3>1. control' \in {"opcode", "raise"}
      BY <2>4 DEF Inject, OpcodeRaises, CallRefused, OutputRefused, Raise
    <3> QED BY <1>0, <2>4, <3>1, DepthUnchanged
            DEF Inject, OpcodeRaises, CallRefused, OutputRefused
  <2>5. CASE Step \/ EnterTry \/ LeaveTry \/ CallExternal \/ OpcodeReturns
    BY <1>0, <2>5, DepthUnchanged
       DEF Step, EnterTry, LeaveTry, CallExternal, OpcodeReturns
  <2> QED BY <1>3, <2>1, <2>2, <2>3, <2>4, <2>5 DEF Opcode
<1>4. CASE Leave
  <2>1. CASE Pause \/ Complete \/ Fail
    BY <1>0, <2>1
       DEF Pause, Complete, Fail, CloseSnapshot, DepthInv, DepthAccounting
  <2>2. CASE RaiseInCaller
    <3>1. control' \in {"opcode", "raise"}
      BY <2>2 DEF RaiseInCaller, Raise
    <3> QED BY <1>0, <2>2, <3>1, DepthLeave DEF RaiseInCaller
  <2>3. CASE ReturnToCaller \/ RaiseEndsLoop \/ PauseCaller \/ PauseEndsLoop
    BY <1>0, <2>3, DepthLeave
       DEF ReturnToCaller, RaiseEndsLoop, PauseCaller, PauseEndsLoop
  <2>4. CASE ReturnToDriver
    <3>1. /\ Above = 0 /\ state.callDepth = Remaining + Above
      BY <1>0, <2>4, AboveType
         DEF ReturnToDriver, DepthInv, DepthAccounting, Above
    <3>2. /\ Remaining \in Nat /\ Remaining > 0
          /\ Remaining' = Remaining - 1
      <4>1. index \in Nat /\ Len(snap.frames) \in Nat
        BY <1>0, SequencesOf DEF TypeInv, TypeOK
      <4> QED BY <2>4, <4>1 DEF ReturnToDriver, Remaining
    <3>3. state' = ExitCall(state) /\ control' = "driver"
      BY <2>4 DEF ReturnToDriver
    <3>4. state'.callDepth = state.callDepth - 1
      BY <1>0, <3>1, <3>2, <3>3, ExitCallType
    <3> QED BY <1>0, <3>1, <3>2, <3>3, <3>4 DEF DepthInv, DepthAccounting
  <2> QED BY <1>4, <2>1, <2>2, <2>3, <2>4 DEF Leave
<1>5. CASE HostStep
  <2>1. CASE Run
    <3>1. /\ state'.callDepth = 0 /\ control' = "driver" /\ index' = 1
          /\ snap'.frames = <<1>>
      BY <1>0, <2>1, RestoreType DEF Run
    <3>2. Remaining' = 0
      BY <3>1 DEF Remaining
    <3> QED BY <1>0, <3>1, <3>2 DEF DepthInv, DepthAccounting
  <2>2. CASE Refuse
    BY <1>0, <2>2 DEF Refuse, DepthInv, DepthAccounting
  <2>3. CASE ResumeWithResult \/ ResumeWithError
    <3>1. /\ snap.frames # <<>> /\ UNCHANGED snap
          /\ control' = "driver" /\ index' = 1
          /\ state' = RestoreCallDepth(state, Len(snap.frames) - 1)
      BY <2>3 DEF ResumeWithResult, ResumeWithError, Resume
    <3>2. Len(snap.frames) - 1 \in Nat
      BY <1>0, <3>1, SequencesOf
    <3>3. state'.callDepth = Len(snap.frames) - 1
      BY <1>0, <3>1, <3>2, RestoreType
    <3> QED BY <1>0, <3>1, <3>3 DEF DepthInv, DepthAccounting, Remaining
  <2>4. ASSUME NEW c \in Contexts, Cancel(c) PROVE DepthInv'
    BY <1>0, <2>4 DEF Cancel, DepthInv, DepthAccounting, Remaining,
                      EnteredAbove
  <2> QED BY <1>5, <2>1, <2>2, <2>3, <2>4 DEF HostStep
<1> QED BY <1>1, <1>2, <1>3, <1>4, <1>5 DEF Next, EngineStep

(* callDepth is the depth of the program's call stack in every reachable   *)
(* state: the frames runSnapshot has still to run plus the activations     *)
(* that EvalCode counted.  RestoreCallDepth, runSnapshot's ExitCall and    *)
(* EvalCode's deferred ExitCall, which also runs when a frame pauses,      *)
(* never drift, and the count never reaches ExitCall at zero.              *)
THEOREM EngineDepthAccounting == Spec => []DepthAccounting
<1>1. Init => DepthInv
  BY DepthInit
<1>2. DepthInv /\ [Next]_vars => DepthInv'
  BY DepthStep
<1>3. DepthInv => DepthAccounting
  BY DEF DepthInv
<1> QED BY <1>1, <1>2, <1>3, PTL DEF Spec
-------------------------------------------------------------------------------
(* The limit.  callDepth is compared with it when a function is entered,   *)
(* so what must be bounded in between is the number of frames themselves:  *)
(* those of the Go stack, of the pause in flight, and of the snapshot from *)
(* the one that is run next outwards.                                      *)
UnderWay ==
       {active[k] : k \in 1..Len(active)}
  \cup {ext.paused[k] : k \in 1..Len(ext.paused)}
  \cup {snap.frames[k] : k \in {i \in 1..Len(snap.frames) : i >= index}}
EnteredUnderWay == {f \in UnderWay : frame[f].entered}

LimitInv == /\ DepthInv
            /\ ~frame[1].entered
            /\ Cardinality(EnteredUnderWay) <= MaxCallDepth

(* As many values as there are indices, at most.                           *)
LEMMA ImageBound ==
    ASSUME NEW S, IsFiniteSet(S), NEW f
    PROVE  /\ IsFiniteSet({f[x] : x \in S})
           /\ Cardinality({f[x] : x \in S}) <= Cardinality(S)
<1> DEFINE T == {f[x] : x \in S}
           g == [x \in S |-> f[x]]
<1>1. g \in Surjection(S, T)
  BY DEF Surjection
<1> HIDE DEF g
<1> QED BY <1>1, FS_Surjection

LEMMA UnderWayType ==
    ASSUME TypeInv
    PROVE  /\ \A f \in UnderWay : f \in FrameId /\ f <= created
           /\ IsFiniteSet(UnderWay) /\ IsFiniteSet(EnteredUnderWay)
           /\ Cardinality(EnteredUnderWay) \in Nat
<1>1. \A f \in UnderWay : f \in FrameId /\ f <= created
  <2> SUFFICES ASSUME NEW f \in UnderWay PROVE f \in FrameId /\ f <= created
    OBVIOUS
  <2>1. CASE \E k \in 1..Len(active) : f = active[k]
    BY <2>1, SequencesOf DEF Exist
  <2>2. CASE \E k \in 1..Len(ext.paused) : f = ext.paused[k]
    BY <2>2, SequencesOf DEF Exist
  <2>3. CASE \E k \in 1..Len(snap.frames) : f = snap.frames[k]
    BY <2>3, SequencesOf DEF Exist
  <2> QED BY <2>1, <2>2, <2>3 DEF UnderWay
<1>2. IsFiniteSet(FrameId)
  BY FS_Interval, BoundsAssumption DEF FrameId
<1>3. IsFiniteSet(UnderWay)
  <2>1. UnderWay \in SUBSET FrameId
    BY <1>1
  <2> QED BY <1>2, <2>1, FS_Subset
<1>4. IsFiniteSet(EnteredUnderWay)
  <2>1. EnteredUnderWay \in SUBSET UnderWay
    BY DEF EnteredUnderWay
  <2> QED BY <1>3, <2>1, FS_Subset
<1> QED BY <1>1, <1>3, <1>4, FS_CardinalityType

LEMMA LimitInit == Init => LimitInv
<1> SUFFICES ASSUME Init PROVE LimitInv
  OBVIOUS
<1>1. DepthInv
  BY DepthInit
<1>2. frame[1] = NoFrame
  BY BoundsAssumption DEF Init, FrameId
<1>3. UnderWay = {}
  BY DEF Init, UnderWay
<1>4. Cardinality(EnteredUnderWay) = 0
  BY <1>3, FS_EmptySet DEF EnteredUnderWay
<1> QED BY <1>1, <1>2, <1>4, LimitsAssumption DEF LimitInv, NoFrame

(* The module's frame is not counted.                                      *)
LEMMA ModuleUncounted ==
    ASSUME LimitInv, LinksKept, Next PROVE ~frame'[1].entered
<1>1. TypeInv /\ created \in Nat /\ 1 \in FrameId
  BY BoundsAssumption DEF LimitInv, DepthInv, StackInv, TypeInv, TypeOK, FrameId
<1>2. CASE created >= 1
  BY <1>1, <1>2 DEF LimitInv, LinksKept, Linked
<1>3. CASE created = 0
  <2>1. control = "host"
    <3> SUFFICES ASSUME control # "host" PROVE FALSE
      OBVIOUS
    <3>1. /\ index \in 1..Len(snap.frames) /\ snap.frames \in Seq(FrameId)
          /\ Exist(snap.frames)
      BY <1>1, SequencesOf DEF TypeInv, Shape
    <3>2. snap.frames[index] \in FrameId /\ snap.frames[index] <= created
      BY <3>1 DEF Exist
    <3> QED BY <1>3, <3>2, BoundsAssumption DEF FrameId
  <2>2. UNCHANGED frame
    BY <2>1 DEF Next, EngineStep, Driver, Opcode, Leave, HostStep, DriverAborts,
                DriverInjects, DriverRuns, BudgetRefuses, Inject, Step, EnterTry,
                LeaveTry, OpcodeRaises, CallRefused, CallExternal,
                OpcodeReturns, Call, Output, OutputRefused, ReturnToCaller,
                ReturnToDriver, Complete, RaiseInCaller, RaiseEndsLoop, Fail,
                PauseCaller, PauseEndsLoop, Pause, Run, Refuse,
                ResumeWithResult, ResumeWithError, Resume, Cancel
  <2> QED BY <2>2 DEF LimitInv
<1> QED BY <1>1, <1>2, <1>3

(* A step that puts no frame under way, but for the module's.              *)
LEMMA LimitKept ==
    ASSUME LimitInv, LinksKept, DepthInv', ~frame'[1].entered,
           UnderWay' \subseteq UnderWay \cup {1}
    PROVE  LimitInv'
<1>1. TypeInv /\ TypeInv'
  BY DEF LimitInv, DepthInv, StackInv
<1>2. \A f \in UnderWay :
         f \in FrameId /\ frame'[f].entered = frame[f].entered
  BY <1>1, UnderWayType DEF LinksKept, Linked
<1>3. EnteredUnderWay' \subseteq EnteredUnderWay
  BY <1>2 DEF EnteredUnderWay
<1>4. /\ IsFiniteSet(EnteredUnderWay) /\ Cardinality(EnteredUnderWay) \in Nat
      /\ EnteredUnderWay' \in SUBSET EnteredUnderWay
  BY <1>1, <1>3, UnderWayType
<1>5. Cardinality(EnteredUnderWay') <= Cardinality(EnteredUnderWay)
  BY <1>4, FS_Subset
<1>6. Cardinality(EnteredUnderWay') \in Nat
  BY <1>4, FS_Subset, FS_CardinalityType
<1> QED BY <1>4, <1>5, <1>6, LimitsAssumption DEF LimitInv

(* What the steps that leave a frame or pause it do to the frames under    *)
(* way.                                                                    *)
LEMMA UnderWayLeave ==
    ASSUME StackInv, LeaveFrame, UNCHANGED <<snap, index>>,
           \/ ext'.paused = <<>>
           \/ PauseCaller
    PROVE  UnderWay' \subseteq UnderWay
<1>1. /\ active \in Seq(FrameId) /\ Len(active) > 1 /\ Len(active) \in Nat
      /\ active' = SubSeq(active, 1, Len(active) - 1)
      /\ ext.paused \in Seq(FrameId) /\ Len(ext.paused) \in Nat
  BY SequencesOf DEF StackInv, LeaveFrame, Outer
<1>2. /\ Len(active') = Len(active) - 1
      /\ \A k \in 1..(Len(active) - 1) : active'[k] = active[k]
  BY <1>1, OuterType
<1>3. {active'[k] : k \in 1..Len(active')} \subseteq UnderWay
  <2> SUFFICES ASSUME NEW k \in 1..Len(active') PROVE active'[k] \in UnderWay
    OBVIOUS
  <2>1. k \in 1..Len(active) /\ active'[k] = active[k]
    BY <1>1, <1>2
  <2> QED BY <2>1 DEF UnderWay
<1>4. {ext'.paused[k] : k \in 1..Len(ext'.paused)} \subseteq UnderWay
  <2>1. CASE ext'.paused = <<>>
    BY <2>1
  <2>2. CASE PauseCaller
    <3> DEFINE q == Append(ext.paused, Caller)
    <3>0. Caller \in FrameId /\ Caller \in UnderWay
      <4>1. Len(active) - 1 \in 1..Len(active)
        BY <1>1
      <4> QED BY <1>1, <4>1 DEF Caller, UnderWay
    <3>1. ext'.paused = q
      BY <2>2 DEF PauseCaller, StackInv, TypeInv, TypeOK
    <3>2. /\ Len(q) = Len(ext.paused) + 1
          /\ q[Len(ext.paused) + 1] = Caller
          /\ \A k \in 1..Len(ext.paused) : q[k] = ext.paused[k]
      BY <1>1, <3>0, PushType
    <3> HIDE DEF q
    <3> SUFFICES ASSUME NEW k \in 1..Len(q) PROVE q[k] \in UnderWay
      BY <3>1
    <3>3. CASE k \in 1..Len(ext.paused)
      BY <3>2, <3>3 DEF UnderWay
    <3>4. CASE k \notin 1..Len(ext.paused)
      <4>1. k = Len(ext.paused) + 1
        BY <1>1, <3>2, <3>4
      <4> QED BY <3>0, <3>2, <4>1
    <3> QED BY <3>3, <3>4
  <2> QED BY <2>1, <2>2
<1> QED BY <1>3, <1>4 DEF UnderWay

LEMMA UnderWayPause ==
    ASSUME StackInv, Pause PROVE UnderWay' \subseteq UnderWay
<1> DEFINE p == ext.paused
           s == snap.frames
           r == SubSeq(s, index + 1, Len(s))
           m == p \o r
<1>1. /\ p \in Seq(FrameId) /\ Len(p) \in Nat
      /\ s \in Seq(FrameId) /\ Len(s) \in Nat /\ index \in 1..Len(s)
      /\ snap \in Snapshots
  BY SequencesOf DEF StackInv, Pause, TypeInv, TypeOK, Shape
<1>2. /\ active' = <<>> /\ ext'.paused = <<>>
      /\ snap' = [snap EXCEPT !.frames = m]
  BY DEF Pause, MergePausedFrames
<1>3. /\ \A k \in 1..Len(p) : p[k] \in UnderWay
      /\ \A k \in 1..Len(s) : k >= index => s[k] \in UnderWay
  BY DEF UnderWay
<1> HIDE DEF p, s
<1>4. /\ r \in Seq(FrameId) /\ Len(r) = Len(s) - index
      /\ \A k \in 1..(Len(s) - index) : r[k] = s[index + k]
  BY <1>1, RestType
<1> HIDE DEF r
<1>5. /\ m \in Seq(FrameId) /\ Len(m) = Len(p) + Len(r)
      /\ \A k \in 1..Len(p) : m[k] = p[k]
      /\ \A k \in 1..Len(r) : m[Len(p) + k] = r[k]
  <2>1. p \in Seq(FrameId) /\ r \in Seq(FrameId)
    BY <1>1, <1>4
  <2> QED BY <2>1, MergeType
<1> HIDE DEF m
<1>6. snap'.frames = m
  BY <1>1, <1>2, <1>5, SnapOps
<1>7. \A k \in 1..Len(m) : m[k] \in UnderWay
  <2> SUFFICES ASSUME NEW k \in 1..Len(m) PROVE m[k] \in UnderWay
    OBVIOUS
  <2>1. CASE k \in 1..Len(p)
    BY <1>3, <1>5, <2>1
  <2>2. CASE k \notin 1..Len(p)
    <3> DEFINE j == k - Len(p)
    <3>1. /\ j \in 1..Len(r) /\ k = Len(p) + j
          /\ index + j \in 1..Len(s) /\ index + j >= index
      BY <1>1, <1>4, <1>5, <2>2
    <3> HIDE DEF j
    <3>2. m[k] = s[index + j]
      BY <1>4, <1>5, <3>1
    <3> QED BY <1>3, <3>1, <3>2
  <2> QED BY <2>1, <2>2
<1>8. UnderWay' \subseteq {m[k] : k \in 1..Len(m)}
  BY <1>2, <1>6 DEF UnderWay
<1> QED BY <1>7, <1>8

(* EnterCall admits a call below the limit, and the depth it counts bounds *)
(* the frames: each is counted above the frame that runSnapshot is at, or  *)
(* is one of those from there outwards, the last of which is the module's. *)
LEMMA LimitCall ==
    ASSUME LimitInv, LinksKept, DepthInv', ~frame'[1].entered,
           NEW k \in Calls, Call(k)
    PROVE  LimitInv'
<1>1. /\ StackInv' /\ TypeInv' /\ StackInv /\ TypeInv /\ state \in States
      /\ UNCHANGED <<snap, index, ext, control>> /\ control = "opcode"
      /\ ext.paused = <<>>
  BY DEF LimitInv, DepthInv, StackInv, TypeInv, TypeOK, PauseInFlight, Call
<1>2. CASE k.entered
  <2> DEFINE A == {active'[j] : j \in EnteredAbove'}
             S == {snap.frames[j] : j \in index..(Len(snap.frames) - 1)}
  <2>1. /\ Len(snap.frames) \in Nat /\ index \in 1..Len(snap.frames)
        /\ snap.frames[Len(snap.frames)] = 1
        /\ active' # <<>> /\ active'[1] = snap.frames[index]
        /\ snap.frames # <<>>
    <3>1. /\ snap.frames \in Seq(FrameId) /\ Len(snap.frames) \in Nat
          /\ index \in 1..Len(snap.frames)
      BY <1>1, SequencesOf DEF TypeInv, Shape
    <3>2. snap.frames # <<>> /\ snap.frames[Len(snap.frames)] = 1
      BY <1>1, <3>1 DEF StackInv, CallStackKept
    <3>3. active' # <<>>
      BY <1>1 DEF TypeInv, Shape
    <3>4. active'[1] = snap.frames[index]
      BY <1>1, <3>3 DEF StackInv, CallStackKept
    <3> QED BY <3>1, <3>2, <3>3, <3>4
  <2>2. EnteredUnderWay' \subseteq A \cup S
    <3> SUFFICES ASSUME NEW f \in UnderWay', frame'[f].entered
                 PROVE  f \in A \cup S
      BY DEF EnteredUnderWay
    <3>0. f # 1
      OBVIOUS
    <3>1. ASSUME NEW j \in 1..Len(snap.frames), j >= index, f = snap.frames[j]
          PROVE  f \in S
      <4>1. j # Len(snap.frames)
        BY <2>1, <3>0, <3>1
      <4>2. j \in index..(Len(snap.frames) - 1)
        BY <2>1, <3>1, <4>1
      <4> QED BY <3>1, <4>2
    <3>2. ASSUME NEW j \in 1..Len(active'), f = active'[j]
          PROVE  f \in A \cup S
      <4>1. CASE j = 1
        BY <2>1, <3>1, <3>2, <4>1
      <4>2. CASE j # 1
        <5>1. j \in 2..Len(active')
          BY <3>2, <4>2
        <5>2. j \in EnteredAbove'
          BY <3>2, <5>1 DEF EnteredAbove
        <5> QED BY <3>2, <5>2
      <4> QED BY <4>1, <4>2
    <3>3. \/ \E j \in 1..Len(active') : f = active'[j]
          \/ \E j \in 1..Len(snap.frames) : j >= index /\ f = snap.frames[j]
      BY <1>1 DEF UnderWay
    <3> QED BY <3>1, <3>2, <3>3
  <2>3. IsFiniteSet(A) /\ Cardinality(A) <= Above' /\ Above' \in Nat
    <3>1. IsFiniteSet(EnteredAbove') /\ Above' \in Nat
      <4>1. Len(active') \in Nat
        BY <1>1 DEF TypeInv, TypeOK
      <4>2. IsFiniteSet(2..Len(active'))
        BY <4>1, FS_Interval
      <4>3. EnteredAbove' \in SUBSET (2..Len(active'))
        BY DEF EnteredAbove
      <4>4. IsFiniteSet(EnteredAbove')
        BY <4>2, <4>3, FS_Subset
      <4> QED BY <4>4, FS_CardinalityType DEF Above
    <3>2. /\ IsFiniteSet({active'[j] : j \in EnteredAbove'})
          /\ Cardinality({active'[j] : j \in EnteredAbove'})
                <= Cardinality(EnteredAbove')
      BY <3>1, ImageBound
    <3> QED BY <3>1, <3>2 DEF Above
  <2>4. /\ IsFiniteSet(S)
        /\ Cardinality(S) <= Len(snap.frames) - index
    <3> DEFINE I == index..(Len(snap.frames) - 1)
    <3>1. IsFiniteSet(I) /\ Cardinality(I) = Len(snap.frames) - index
      <4>1. index \in Int /\ Len(snap.frames) - 1 \in Int
        BY <2>1
      <4>2. /\ IsFiniteSet(I)
            /\ Cardinality(I) = IF index > Len(snap.frames) - 1 THEN 0
                                ELSE (Len(snap.frames) - 1) - index + 1
        BY <4>1, FS_Interval
      <4> HIDE DEF I
      <4> QED BY <2>1, <4>2
    <3> HIDE DEF I
    <3>2. /\ IsFiniteSet({snap.frames[j] : j \in I})
          /\ Cardinality({snap.frames[j] : j \in I}) <= Cardinality(I)
      BY <3>1, ImageBound
    <3> QED BY <3>1, <3>2 DEF I
  <2>5. /\ Len(snap.frames) - index = Remaining'
        /\ Remaining' + Above' = state'.callDepth
        /\ state'.callDepth <= MaxCallDepth
    <3>1. Len(snap.frames) - index = Remaining'
      BY <1>1 DEF Remaining
    <3>2. control' \notin {"host", "driver"}
      BY <1>1
    <3>3. state'.callDepth = Remaining' + Above'
      BY <3>2 DEF DepthInv, DepthAccounting, Above
    <3>4. state'.callDepth = state.callDepth + 1
          /\ state.callDepth < MaxCallDepth
      BY <1>1, <1>2, EnterCallType DEF Call
    <3>5. state.callDepth \in Nat
      BY <1>1 DEF States
    <3>6. Remaining' \in Int /\ Above' \in Nat
      BY <2>1, <2>3, <3>1
    <3>7. state'.callDepth <= MaxCallDepth
      BY <3>4, <3>5, LimitsAssumption
    <3> QED BY <3>1, <3>3, <3>7
  <2> HIDE DEF A, S
  <2>6. /\ IsFiniteSet(A \cup S)
        /\ Cardinality(A \cup S)
              = Cardinality(A) + Cardinality(S) - Cardinality(A \cap S)
        /\ Cardinality(A) \in Nat /\ Cardinality(S) \in Nat
    BY <2>3, <2>4, FS_Union, FS_CardinalityType
  <2>7. Cardinality(A \cap S) \in Nat
    <3>1. A \cap S \in SUBSET A
      OBVIOUS
    <3> QED BY <2>3, <3>1, FS_Subset, FS_CardinalityType
  <2>8. /\ Cardinality(EnteredUnderWay') <= Cardinality(A \cup S)
        /\ Cardinality(EnteredUnderWay') \in Nat
    BY <2>2, <2>6, FS_Subset, FS_CardinalityType
  <2>9. Remaining' \in Int
    BY <2>1, <2>5
  <2>10. Cardinality(EnteredUnderWay') <= MaxCallDepth
    BY <2>3, <2>4, <2>5, <2>6, <2>7, <2>8, <2>9, LimitsAssumption
  <2> QED BY <2>10 DEF LimitInv
<1>3. CASE ~k.entered
  <2> DEFINE f == created + 1
  <2>1. /\ active \in Seq(FrameId) /\ f \in FrameId
        /\ created \in Nat /\ Len(active) \in Nat
    BY <1>1, SequencesOf, BoundsAssumption DEF Call, TypeInv, TypeOK, FrameId
  <2>2. /\ active' = Append(active, f) /\ frame'[f] = NewFrame(Innermost, k)
    BY <1>1, <2>1 DEF Call, TypeInv, TypeOK
  <2> HIDE DEF f
  <2>3. /\ Len(active') = Len(active) + 1 /\ active'[Len(active) + 1] = f
        /\ \A j \in 1..Len(active) : active'[j] = active[j]
    BY <2>1, <2>2, PushType
  <2>4. UnderWay' \subseteq UnderWay \cup {f}
    <3> SUFFICES ASSUME NEW g \in UnderWay', g # f PROVE g \in UnderWay
      OBVIOUS
    <3>1. ASSUME NEW j \in 1..Len(active'), g = active'[j] PROVE g \in UnderWay
      <4>1. j \in 1..Len(active)
        BY <2>1, <2>3, <3>1
      <4> QED BY <2>3, <3>1, <4>1 DEF UnderWay
    <3> QED BY <1>1, <3>1 DEF UnderWay
  <2>5. ~frame'[f].entered
    BY <1>3, <2>2 DEF NewFrame
  <2>6. \A g \in UnderWay :
           g \in FrameId /\ frame'[g].entered = frame[g].entered
    BY <1>1, UnderWayType DEF LinksKept, Linked
  <2>7. EnteredUnderWay' \subseteq EnteredUnderWay
    BY <2>4, <2>5, <2>6 DEF EnteredUnderWay
  <2>8. /\ IsFiniteSet(EnteredUnderWay) /\ Cardinality(EnteredUnderWay) \in Nat
        /\ EnteredUnderWay' \in SUBSET EnteredUnderWay
    BY <1>1, <2>7, UnderWayType
  <2>9. /\ Cardinality(EnteredUnderWay') <= Cardinality(EnteredUnderWay)
        /\ Cardinality(EnteredUnderWay') \in Nat
    BY <2>8, FS_Subset, FS_CardinalityType
  <2> QED BY <2>8, <2>9, LimitsAssumption DEF LimitInv
<1> QED BY <1>2, <1>3

LEMMA LimitStep == ASSUME LimitInv, [Next]_vars PROVE LimitInv'
<1>0. /\ StackInv /\ TypeInv /\ LinksKept /\ DepthInv'
      /\ snap \in Snapshots /\ frame \in [FrameId -> Frames]
  BY DepthStep, LinksStep DEF LimitInv, DepthInv, StackInv, TypeInv, TypeOK
<1>1. CASE UNCHANGED vars
  BY <1>0, <1>1 DEF vars, LimitInv, EnteredUnderWay, UnderWay
<1>a. ASSUME Next, UnderWay' \subseteq UnderWay \cup {1} PROVE LimitInv'
  BY <1>0, <1>a, ModuleUncounted, LimitKept
<1>b. ASSUME Next, UNCHANGED <<snap.frames, active, ext, index>>
      PROVE  LimitInv'
  <2>1. UnderWay' = UnderWay
    BY <1>b DEF UnderWay
  <2> QED BY <1>a, <1>b, <2>1
<1>c. ASSUME Next, control # "pause", NEW k \in {"complete", "error"},
             CloseSnapshot(k), UNCHANGED ext
      PROVE  LimitInv'
  <2>1. /\ snap'.frames = <<>> /\ active' = <<>> /\ ext'.paused = <<>>
    BY <1>0, <1>c DEF CloseSnapshot, ClosedSnapshot, StackInv, PauseInFlight
  <2>2. UnderWay' = {}
    BY <2>1 DEF UnderWay
  <2> QED BY <1>a, <1>c, <2>2
<1>2. ASSUME Next, Driver PROVE LimitInv'
  <2>1. CASE DriverAborts
    BY <1>2, <1>c, <2>1 DEF DriverAborts
  <2>2. CASE DriverInjects \/ DriverRuns
    <3>1. /\ active' = <<snap.frames[index]>> /\ UNCHANGED <<snap, ext, index>>
          /\ index \in 1..Len(snap.frames) /\ index \in Nat
      BY <1>0, <2>2 DEF DriverInjects, DriverRuns, TypeInv, TypeOK, Shape
    <3>2. snap.frames[index] \in UnderWay
      BY <3>1 DEF UnderWay
    <3>3. Len(active') = 1 /\ active'[1] = snap.frames[index]
      BY <3>1
    <3>4. UnderWay' \subseteq UnderWay \cup {snap.frames[index]}
      BY <3>1, <3>3 DEF UnderWay
    <3> QED BY <1>2, <1>a, <3>2, <3>4
  <2> QED BY <1>2, <2>1, <2>2 DEF Driver
<1>3. ASSUME Next, Opcode PROVE LimitInv'
  <2>1. ASSUME NEW k \in Calls, Call(k) PROVE LimitInv'
    BY <1>0, <1>3, <2>1, ModuleUncounted, LimitCall
  <2>2. ASSUME NEW n \in Sizes, Output(n) PROVE LimitInv'
    <3>1. snap'.frames = snap.frames
      BY <1>0, <2>2, SnapOps, BoundsAssumption DEF Output
    <3> QED BY <1>3, <1>b, <2>2, <3>1 DEF Output
  <2>3. CASE CallExternal
    <3>1. /\ ext'.paused = <<Innermost>> /\ Len(ext'.paused) = 1
          /\ ext'.paused[1] = Innermost
          /\ UNCHANGED <<snap, active, index>>
      BY <2>3 DEF CallExternal
    <3>2. Innermost \in UnderWay
      <4>1. active # <<>> /\ active \in Seq(FrameId)
        BY <1>0, <2>3, SequencesOf DEF CallExternal, TypeInv, Shape
      <4>2. Len(active) \in 1..Len(active)
        BY <4>1
      <4> QED BY <4>2 DEF UnderWay, Innermost
    <3>3. UnderWay' \subseteq UnderWay \cup {Innermost}
      BY <3>1 DEF UnderWay
    <3> QED BY <1>3, <1>a, <3>2, <3>3
  <2> QED BY <1>3, <1>b, <2>1, <2>2, <2>3
          DEF Opcode, BudgetRefuses, Inject, Step, EnterTry, LeaveTry,
              OpcodeRaises, CallRefused, OutputRefused, OpcodeReturns
<1>4. ASSUME Next, Leave PROVE LimitInv'
  <2>1. CASE Complete \/ Fail
    BY <1>4, <1>c, <2>1 DEF Complete, Fail
  <2>2. CASE Pause
    BY <1>0, <1>4, <1>a, <2>2, UnderWayPause
  <2>3. CASE ReturnToCaller \/ RaiseInCaller \/ RaiseEndsLoop \/ PauseEndsLoop
             \/ PauseCaller
    <3>1. /\ LeaveFrame /\ UNCHANGED <<snap, index>>
          /\ ext'.paused = <<>> \/ PauseCaller
      BY <1>0, <2>3
         DEF ReturnToCaller, RaiseInCaller, RaiseEndsLoop, PauseEndsLoop,
             PauseCaller, StackInv, PauseInFlight
    <3> QED BY <1>0, <1>4, <1>a, <3>1, UnderWayLeave
  <2>4. CASE ReturnToDriver
    <3>1. /\ active' = <<>> /\ UNCHANGED <<snap, ext>> /\ index' = index + 1
          /\ index \in Nat
      BY <1>0, <2>4 DEF ReturnToDriver, TypeInv, TypeOK
    <3>2. \A i \in 1..Len(snap.frames) : i >= index' => i >= index
      BY <3>1
    <3>3. UnderWay' \subseteq UnderWay
      BY <3>1, <3>2 DEF UnderWay
    <3> QED BY <1>4, <1>a, <3>3
  <2> QED BY <1>4, <2>1, <2>2, <2>3, <2>4 DEF Leave
<1>5. ASSUME Next, HostStep PROVE LimitInv'
  <2>1. CASE Run
    <3>1. /\ snap'.frames = <<1>> /\ Len(snap'.frames) = 1 /\ snap'.frames[1] = 1
          /\ active' = <<>> /\ ext'.paused = <<>>
      BY <1>0, <2>1 DEF Run, StackInv, PauseInFlight, TypeInv, Shape
    <3>2. UnderWay' \subseteq {1}
      BY <3>1 DEF UnderWay
    <3> QED BY <1>5, <1>a, <3>2
  <2>2. CASE Refuse
    <3>1. snap'.frames = snap.frames
      BY <1>0, <2>2, SnapOps
         DEF Refuse, RefuseProgram, RefuseSetup, RefuseGlobal
    <3> QED BY <1>5, <1>b, <2>2, <3>1 DEF Refuse
  <2>3. CASE ResumeWithResult \/ ResumeWithError
    <3>1. /\ UNCHANGED <<snap, active, ext>> /\ index = 0
      BY <1>0, <2>3
         DEF ResumeWithResult, ResumeWithError, Resume, TypeInv, Shape
    <3>2. \A i \in 1..Len(snap.frames) : i >= index
      BY <3>1
    <3>3. UnderWay' \subseteq UnderWay
      BY <3>1, <3>2 DEF UnderWay
    <3> QED BY <1>5, <1>a, <3>3
  <2>4. ASSUME NEW c \in Contexts, Cancel(c) PROVE LimitInv'
    BY <1>5, <1>b, <2>4 DEF Cancel
  <2> QED BY <1>5, <2>1, <2>2, <2>3, <2>4 DEF HostStep
<1> QED BY <1>1, <1>2, <1>3, <1>4, <1>5 DEF Next, EngineStep

(* Never are more function calls under way than MaxCallDepth, over all     *)
(* pauses and resumes: EnterCall's comparison of a counter bounds the      *)
(* number of frames, the paused ones and those outside included.           *)
THEOREM EngineDepthLimited == Spec => []DepthLimited
<1>1. Init => LimitInv
  BY LimitInit
<1>2. LimitInv /\ [Next]_vars => LimitInv'
  BY LimitStep
<1>3. LimitInv => DepthLimited
  <2> SUFFICES ASSUME LimitInv PROVE DepthLimited
    OBVIOUS
  <2> DEFINE L == {f \in LiveFrames : frame[f].entered}
  <2>1. TypeInv /\ index \in Nat
    BY DEF LimitInv, DepthInv, StackInv, TypeInv, TypeOK
  <2>2. \A i \in 1..Len(snap.frames) : i > index => i >= index
    BY <2>1
  <2>3. LiveFrames \subseteq UnderWay
    BY <2>2 DEF LiveFrames, UnderWay
  <2>4. L \in SUBSET EnteredUnderWay
    BY <2>3 DEF EnteredUnderWay
  <2>5. /\ IsFiniteSet(EnteredUnderWay)
        /\ Cardinality(EnteredUnderWay) \in Nat
    BY <2>1, UnderWayType
  <2>6. /\ Cardinality(L) <= Cardinality(EnteredUnderWay)
        /\ Cardinality(L) \in Nat
    BY <2>4, <2>5, FS_Subset, FS_CardinalityType
  <2>7. Cardinality(L) <= MaxCallDepth
    BY <2>5, <2>6, LimitsAssumption DEF LimitInv
  <2> QED BY <2>7 DEF DepthLimited
<1> QED BY <1>1, <1>2, <1>3, PTL DEF Spec
-------------------------------------------------------------------------------

(* The execution is under way as long as its interpreter context is open;  *)
(* the host holds a reply exactly when the engine is idle.                 *)
Lifetime ==
    /\ control # "host" => reply.kind = "none" /\ pyCtx = "open"
    /\ reply.kind = "call" => pyCtx = "open"
    /\ reply.kind \in {"refused", "complete", "error"} => control = "host"
    /\ reply.kind \in {"complete", "error"} => pyCtx = "closed"
    /\ reply.kind = "none" => \/ control # "host"
                              \/ pyCtx = "none" /\ reply.call = 0

(* The capture file holds what was reserved, until it is read.             *)
Captured ==
    /\ pyCtx = "none" => state.outputBytes = 0
    /\ pyCtx = "open" => snap.bytes = state.outputBytes

(* External calls are numbered, and each costs an instruction.             *)
CallsCounted ==
    /\ reply.call <= calls
    /\ calls <= state.instructionCount
    /\ calls <= MaxInstructions
    /\ control = "pause" => ext.call = calls /\ reply.call < calls

HostInv == /\ TypeInv
           /\ Lifetime
           /\ Captured
           /\ CallsCounted
           /\ OutputDelivered
-------------------------------------------------------------------------------
LEMMA HostInit == Init => HostInv
<1> SUFFICES ASSUME Init PROVE HostInv
  OBVIOUS
<1>1. TypeInv
  BY TypeInit
<1>2. /\ state.instructionCount = 0 /\ state.outputBytes = 0
  BY DEF Init
<1>3. /\ control = "host" /\ pyCtx = "none" /\ calls = 0
      /\ reply.kind = "none" /\ reply.call = 0
  BY DEF Init
<1> QED BY <1>1, <1>2, <1>3, LimitsAssumption
        DEF HostInv, Lifetime, Captured, CallsCounted, OutputDelivered

(* What a step of the engine may do to the counters, the output and the    *)
(* calls, short of asking the host.                                        *)
LEMMA HostWorks ==
    ASSUME HostInv, TypeInv', control # "host", control' # "host",
           control' = "pause" =>
              ext'.call = calls' /\ reply.call < calls',
           UNCHANGED <<reply, pyCtx>>,
           state'.outputBytes <= MaxOutputBytes,
           snap'.bytes - snap.bytes
              = state'.outputBytes - state.outputBytes,
           calls <= calls', calls' <= MaxInstructions,
           calls' <= state'.instructionCount
    PROVE  HostInv'
<1>1. /\ reply.call \in Nat /\ calls \in Nat /\ calls' \in Nat
      /\ snap.bytes \in Nat /\ snap'.bytes \in Nat
      /\ state.outputBytes \in Nat /\ state'.outputBytes \in Nat
  BY DEF HostInv, TypeInv, TypeOK, Replies, Snapshots, States
<1>2. Lifetime'
  BY DEF HostInv, Lifetime
<1>3. Captured'
  BY <1>1 DEF HostInv, Captured, Lifetime
<1>4. CallsCounted'
  BY <1>1 DEF HostInv, CallsCounted
<1>5. OutputDelivered'
  BY DEF HostInv, OutputDelivered, Lifetime
<1> QED BY <1>2, <1>3, <1>4, <1>5 DEF HostInv

(* The same, for the many steps that print nothing and call nobody.        *)
LEMMA HostQuiet ==
    ASSUME HostInv, TypeInv', control # "host", control' # "host",
           control' = "pause" => control = "pause" /\ ext'.call = ext.call,
           UNCHANGED <<snap, reply, pyCtx, calls>>,
           state'.outputBytes = state.outputBytes,
           state'.instructionCount >= state.instructionCount
    PROVE  HostInv'
<1>1. /\ reply.call \in Nat /\ calls \in Nat
      /\ snap.bytes \in Nat /\ state.outputBytes \in Nat
      /\ state.instructionCount \in Nat /\ state'.instructionCount \in Nat
  BY DEF HostInv, TypeInv, TypeOK, Replies, Snapshots, States
<1>2. /\ control' = "pause" =>
            ext'.call = calls' /\ reply.call < calls'
      /\ calls <= calls' /\ calls' <= MaxInstructions
      /\ calls' <= state'.instructionCount
  BY <1>1, LimitsAssumption DEF HostInv, CallsCounted
<1>3. /\ state'.outputBytes <= MaxOutputBytes
      /\ snap'.bytes - snap.bytes
            = state'.outputBytes - state.outputBytes
  BY <1>1 DEF HostInv, OutputDelivered
<1> QED BY <1>2, <1>3, HostWorks

(* The execution ends.                                                     *)
LEMMA HostClose ==
    ASSUME HostInv, TypeInv', control # "host",
           NEW k \in {"complete", "error"}, CloseSnapshot(k),
           UNCHANGED <<state, calls>>
    PROVE  /\ HostInv'
           /\ reply'.kind = k /\ reply'.call = reply.call
           /\ pyCtx' = "closed" /\ snap' = ClosedSnapshot
<1>1. /\ reply \in Replies /\ snap.bytes \in Nat /\ snap \in Snapshots
  BY SnapOps DEF HostInv, TypeInv, TypeOK
<1>2. /\ reply'.kind = k /\ reply'.call = reply.call
      /\ reply'.stdout = snap.bytes
      /\ control' = "host" /\ pyCtx' = "closed" /\ snap' = ClosedSnapshot
  <2> DEFINE r == [reply EXCEPT !.kind = k, !.stdout = snap.bytes]
  <2>1. /\ reply' = r
        /\ control' = "host" /\ pyCtx' = "closed" /\ snap' = ClosedSnapshot
    BY DEF CloseSnapshot
  <2>2. /\ r.kind = k /\ r.call = reply.call /\ r.stdout = snap.bytes
    BY <1>1 DEF Replies
  <2> QED BY <2>1, <2>2
<1>3. Lifetime'
  BY <1>2 DEF Lifetime
<1>4. Captured'
  BY <1>2 DEF Captured
<1>5. CallsCounted'
  BY <1>2 DEF HostInv, CallsCounted
<1>6. OutputDelivered'
  BY <1>2 DEF HostInv, OutputDelivered, Captured, Lifetime
<1> QED BY <1>2, <1>3, <1>4, <1>5, <1>6 DEF HostInv
LEMMA HostOpcode == ASSUME HostInv, Opcode PROVE HostInv'
<1>0. /\ state \in States /\ snap \in Snapshots /\ Nothing \in Origin
      /\ frame \in [FrameId -> Frames] /\ TypeInv
  BY OriginType DEF HostInv, TypeInv, TypeOK
<1>1. TypeInv' /\ Counted.outputBytes = state.outputBytes
      /\ Counted.instructionCount = state.instructionCount + 1
      /\ EnterCall.outputBytes = state.outputBytes
      /\ EnterCall.instructionCount = state.instructionCount + 1
  BY <1>0, TypeOpcode, CountedType, EnterCallType
<1>2. /\ state.instructionCount \in Nat /\ state.outputBytes \in Nat
      /\ calls \in Nat /\ reply.call \in Nat /\ snap.bytes \in Nat
  BY <1>0 DEF States, Snapshots, HostInv, TypeInv, TypeOK, Replies
<1>3. /\ calls <= state.instructionCount /\ reply.call <= calls
      /\ calls <= MaxInstructions
  BY DEF HostInv, CallsCounted
<1>4. state.outputBytes <= MaxOutputBytes
  BY DEF HostInv, OutputDelivered
<1>a. ASSUME control \in {"opcode", "inject"},
             control' \in {"opcode", "raise", "return"},
             state' = state \/ state' = Counted \/ state' = EnterCall,
             UNCHANGED <<snap, reply, pyCtx, calls>>
      PROVE  HostInv'
  <2>1. /\ state'.outputBytes = state.outputBytes
        /\ state'.instructionCount >= state.instructionCount
    BY <1>1, <1>2, <1>a
  <2> QED BY <1>1, <1>a, <2>1, HostQuiet
<1>b. ASSUME NEW e \in Errs, Raise(Innermost, e)
      PROVE  control' \in {"opcode", "raise"}
  BY <1>b DEF Raise
<1>c. CASE CallExternal
  <2>1. state.instructionCount < MaxInstructions
    BY <1>c DEF CallExternal, BeforeOpcode
  <2>2. /\ control # "host" /\ control' = "pause" /\ state' = Counted
        /\ calls' = calls + 1
        /\ UNCHANGED <<snap, reply, pyCtx>>
    BY <1>c DEF CallExternal
  <2>3. ext'.call = calls + 1
    BY <1>c DEF CallExternal
  <2>4. /\ ext'.call = calls' /\ reply.call < calls'
        /\ calls <= calls' /\ calls' <= MaxInstructions
        /\ calls' <= state'.instructionCount
    BY <1>1, <1>2, <1>3, <2>1, <2>2, <2>3, LimitsAssumption
  <2>5. /\ state'.outputBytes <= MaxOutputBytes
        /\ snap'.bytes - snap.bytes = state'.outputBytes - state.outputBytes
    BY <1>1, <1>2, <1>4, <2>2
  <2> QED BY <1>1, <2>2, <2>4, <2>5, HostWorks
<1>d. ASSUME NEW n \in Sizes, Output(n) PROVE HostInv'
  <2>0. n \in Nat
    BY BoundsAssumption
  <2>1. /\ control = "opcode" /\ state' = ReserveOutput(n)
        /\ snap' = [snap EXCEPT !.bytes = @ + n]
        /\ state.outputBytes + n <= MaxOutputBytes
        /\ UNCHANGED <<reply, pyCtx, calls, control>>
    BY <1>d DEF Output
  <2>2. /\ state'.outputBytes = state.outputBytes + n
        /\ state'.instructionCount = state.instructionCount + 1
    BY <1>0, <2>0, <2>1, ReserveOutputType
  <2>3. snap'.bytes = snap.bytes + n
    BY <1>0, <2>0, <2>1, SnapOps
  <2>4. /\ state'.outputBytes <= MaxOutputBytes
        /\ snap'.bytes - snap.bytes = state'.outputBytes - state.outputBytes
        /\ calls <= calls' /\ calls' <= MaxInstructions
        /\ calls' <= state'.instructionCount
    BY <1>2, <1>3, <2>0, <2>1, <2>2, <2>3, LimitsAssumption
  <2> QED BY <1>1, <2>1, <2>4, HostWorks
<1>e. ASSUME NEW n \in Sizes, OutputRefused(n) PROVE HostInv'
  BY <1>a, <1>b, <1>e DEF OutputRefused, Errs
<1>f. ASSUME NEW k \in Calls, Call(k) PROVE HostInv'
  BY <1>a, <1>f DEF Call
<1>g. CASE Inject \/ OpcodeRaises \/ CallRefused
  BY <1>a, <1>b, <1>g DEF Inject, OpcodeRaises, CallRefused, Errs
<1>h. CASE BudgetRefuses \/ Step \/ EnterTry \/ LeaveTry \/ OpcodeReturns
  BY <1>a, <1>h DEF BudgetRefuses, Step, EnterTry, LeaveTry, OpcodeReturns
<1> QED BY <1>c, <1>d, <1>e, <1>f, <1>g, <1>h DEF Opcode

LEMMA HostDriver == ASSUME HostInv, Driver PROVE HostInv'
<1>1. TypeInv' /\ TypeInv
  BY TypeDriver DEF HostInv
<1>2. CASE DriverAborts
  BY <1>1, <1>2, HostClose DEF DriverAborts
<1>3. CASE DriverInjects \/ DriverRuns
  <2>1. /\ control # "host" /\ control' \in {"inject", "opcode"}
        /\ UNCHANGED <<snap, state, reply, pyCtx, calls>>
    BY <1>3 DEF DriverInjects, DriverRuns
  <2>2. state.instructionCount \in Nat
    BY <1>1 DEF TypeInv, TypeOK, States
  <2> QED BY <1>1, <2>1, <2>2, HostQuiet
<1> QED BY <1>2, <1>3 DEF Driver

(* The host is asked: the frames change, the captured output does not.     *)
LEMMA HostPause == ASSUME HostInv, TypeInv', Pause
                   PROVE  /\ HostInv'
                          /\ reply'.kind = "call"
                          /\ reply'.call \in 1..MaxInstructions
                          /\ reply'.call > reply.call
                          /\ pyCtx = "open" /\ pyCtx' = "open"
<1>1. /\ snap \in Snapshots /\ calls \in Nat /\ reply.call \in Nat
  BY DEF HostInv, TypeInv, TypeOK, Replies
<1>2. /\ MergePausedFrames \in Seq(FrameId)
  <2>1. /\ snap' \in Snapshots /\ snap' = [snap EXCEPT !.frames = MergePausedFrames]
    BY DEF TypeInv, TypeOK, Pause
  <2>2. snap'.frames = MergePausedFrames /\ snap'.frames \in Seq(FrameId)
    BY <1>1, <2>1 DEF Snapshots
  <2> QED BY <2>2
<1>3. snap'.bytes = snap.bytes
  BY <1>1, <1>2, SnapOps DEF Pause
<1>4. /\ control = "pause" /\ control' = "host"
      /\ UNCHANGED <<state, calls, pyCtx>>
      /\ reply'.kind = "call" /\ reply'.call = ext.call
  BY DEF Pause
<1>5. /\ pyCtx = "open" /\ ext.call = calls /\ reply.call < calls
      /\ calls <= MaxInstructions /\ calls <= state.instructionCount
      /\ snap.bytes = state.outputBytes /\ state.outputBytes <= MaxOutputBytes
  BY <1>4 DEF HostInv, Lifetime, Captured, CallsCounted, OutputDelivered
<1>6. Lifetime'
  BY <1>4, <1>5 DEF Lifetime
<1>7. Captured'
  BY <1>3, <1>4, <1>5 DEF Captured
<1>8. CallsCounted'
  BY <1>1, <1>4, <1>5 DEF CallsCounted
<1>9. OutputDelivered'
  BY <1>4, <1>5 DEF OutputDelivered
<1>10. reply'.call \in 1..MaxInstructions /\ reply'.call > reply.call
  BY <1>1, <1>4, <1>5, LimitsAssumption
<1> QED BY <1>4, <1>5, <1>6, <1>7, <1>8, <1>9, <1>10 DEF HostInv

LEMMA HostLeave == ASSUME HostInv, Leave PROVE HostInv'
<1>1. TypeInv' /\ TypeInv /\ state \in States
  BY TypeLeaveStep DEF HostInv, TypeInv, TypeOK
<1>2. /\ ExitCall(state).outputBytes = state.outputBytes
      /\ ExitCall(state).instructionCount = state.instructionCount
      /\ state.instructionCount \in Nat
  BY <1>1, ExitCallType DEF States
<1>3. CASE Complete \/ Fail
  BY <1>1, <1>3, HostClose DEF Complete, Fail
<1>4. CASE Pause
  BY <1>1, <1>4, HostPause
<1>a. ASSUME control \in {"return", "raise", "pause"}, control' # "host",
             control' = "pause" => control = "pause" /\ ext'.call = ext.call,
             UNCHANGED <<snap, reply, pyCtx, calls>>,
             state' = state \/ state' = ExitCall(state)
      PROVE  HostInv'
  <2>1. /\ state'.outputBytes = state.outputBytes
        /\ state'.instructionCount >= state.instructionCount
    BY <1>2, <1>a
  <2> QED BY <1>1, <1>a, <2>1, HostQuiet
<1>5. LeaveFrame => state' = state \/ state' = ExitCall(state)
  BY DEF LeaveFrame
<1>6. CASE ReturnToCaller \/ ReturnToDriver
  BY <1>a, <1>5, <1>6 DEF ReturnToCaller, ReturnToDriver
<1>7. CASE RaiseInCaller \/ RaiseEndsLoop \/ PauseEndsLoop
  BY <1>a, <1>5, <1>7 DEF RaiseInCaller, RaiseEndsLoop, PauseEndsLoop, Raise
<1>8. CASE PauseCaller
  <2>1. ext'.call = ext.call
    BY <1>1, <1>8 DEF PauseCaller, TypeInv, TypeOK
  <2> QED BY <1>a, <1>5, <1>8, <2>1 DEF PauseCaller
<1> QED BY <1>3, <1>4, <1>6, <1>7, <1>8 DEF Leave
LEMMA HostHost == ASSUME HostInv, HostStep PROVE HostInv'
<1>1. /\ TypeInv' /\ TypeInv /\ state \in States /\ reply \in Replies
      /\ snap \in Snapshots
  BY TypeHost DEF HostInv, TypeInv, TypeOK
<1>2. \A k \in {"none", "refused"} :
         /\ [reply EXCEPT !.kind = k].kind = k
         /\ [reply EXCEPT !.kind = k].call = reply.call
  <2> SUFFICES ASSUME NEW k \in {"none", "refused"}
               PROVE  /\ [reply EXCEPT !.kind = k].kind = k
                      /\ [reply EXCEPT !.kind = k].call = reply.call
    OBVIOUS
  <2> QED BY <1>1 DEF Replies
<1>3. \A d \in Nat :
         /\ RestoreCallDepth(state, d).outputBytes = state.outputBytes
         /\ RestoreCallDepth(state, d).instructionCount = state.instructionCount
  BY <1>1, RestoreType
<1>4. CASE Run
  <2>1. /\ control' = "driver" /\ pyCtx' = "open" /\ pyCtx = "none"
        /\ control = "host" /\ reply.kind = "none"
        /\ UNCHANGED <<calls, reply>> /\ state' = RestoreCallDepth(state, 0)
        /\ snap'.bytes = 0
    BY <1>4 DEF Run
  <2>2. /\ state'.outputBytes = state.outputBytes
        /\ state'.instructionCount = state.instructionCount
    BY <1>3, <2>1
  <2> QED BY <1>1, <2>1, <2>2
          DEF HostInv, Lifetime, Captured, CallsCounted, OutputDelivered
<1>5. CASE Refuse
  <2>1. /\ reply'.kind = "refused" /\ reply'.call = reply.call
        /\ control' = "host" /\ pyCtx' \in {"none", "closed"}
        /\ pyCtx = "none" /\ UNCHANGED <<state, calls>>
    BY <1>2, <1>5 DEF Refuse, RefuseProgram, RefuseSetup, RefuseGlobal
  <2> QED BY <1>1, <2>1
          DEF HostInv, Lifetime, Captured, CallsCounted, OutputDelivered
<1>6. ASSUME NEW by \in {"host", "error"}, Resume(by) PROVE HostInv'
  <2>1. Len(snap.frames) - 1 \in Nat
    BY <1>1, <1>6, SequencesOf DEF Resume
  <2>2. /\ reply'.kind = "none" /\ reply'.call = reply.call
        /\ control' = "driver" /\ control = "host" /\ reply.kind = "call"
        /\ UNCHANGED <<snap, calls, pyCtx>>
    BY <1>2, <1>6 DEF Resume
  <2>3. /\ state'.outputBytes = state.outputBytes
        /\ state'.instructionCount = state.instructionCount
    BY <1>3, <1>6, <2>1 DEF Resume
  <2> QED BY <1>1, <2>2, <2>3
          DEF HostInv, Lifetime, Captured, CallsCounted, OutputDelivered
<1>7. ASSUME NEW c \in Contexts, Cancel(c) PROVE HostInv'
  BY <1>1, <1>7
     DEF Cancel, HostInv, Lifetime, Captured, CallsCounted, OutputDelivered
<1> QED BY <1>4, <1>5, <1>6, <1>7
        DEF HostStep, ResumeWithResult, ResumeWithError

LEMMA HostStays == ASSUME HostInv, [Next]_vars PROVE HostInv'
<1>1. CASE UNCHANGED vars
  <2>1. TypeInv'
    BY TypeStep DEF HostInv
  <2> QED BY <1>1, <2>1 DEF vars, HostInv, Lifetime, Captured, CallsCounted,
                            OutputDelivered
<1> QED BY <1>1, HostDriver, HostOpcode, HostLeave, HostHost
        DEF Next, EngineStep

(* The last reply of an execution carries all that its program printed,    *)
(* over all pauses and resumes, and never more than the limit.             *)
THEOREM EngineOutputDelivered == Spec => []OutputDelivered
<1>1. Init => HostInv
  BY HostInit
<1>2. HostInv /\ [Next]_vars => HostInv'
  BY HostStays
<1>3. HostInv => OutputDelivered
  BY DEF HostInv
<1> QED BY <1>1, <1>2, <1>3, PTL DEF Spec
-------------------------------------------------------------------------------
(* What the host sees of a step: the protocol's step, or nothing.          *)
LEMMA SeenInit == Init => Protocol!Init
  BY DEF Init, Protocol!Init, Phase, Held

LEMMA SeenHidden ==
    ASSUME HostInv, HostInv', control # "host", control' # "host",
           UNCHANGED <<reply, pyCtx>>
    PROVE  UNCHANGED Protocol!hostVars
<1>1. /\ reply.kind = "none" /\ pyCtx = "open"
      /\ reply'.kind = "none" /\ pyCtx' = "open"
  BY DEF HostInv, Lifetime
<1>2. Phase = "running" /\ Phase' = "running" /\ Held = TRUE /\ Held' = TRUE
  BY <1>1 DEF Phase, Held
<1> QED BY <1>2 DEF Protocol!hostVars

LEMMA SeenClose ==
    ASSUME HostInv, TypeInv', control # "host",
           NEW k \in {"complete", "error"}, CloseSnapshot(k),
           UNCHANGED <<state, calls>>
    PROVE  Protocol!Finish
<1>1. /\ reply.kind = "none" /\ pyCtx = "open"
  BY DEF HostInv, Lifetime
<1>2. /\ reply'.kind = k /\ reply'.call = reply.call
      /\ pyCtx' = "closed" /\ snap' = ClosedSnapshot
  BY HostClose
<1>3. Phase = "running" /\ Phase' = "finished" /\ Held' = FALSE
  BY <1>1, <1>2 DEF Phase, Held, ClosedSnapshot
<1> QED BY <1>2, <1>3 DEF Protocol!Finish

LEMMA SeenPause ==
    ASSUME HostInv, TypeInv', Pause PROVE Protocol!Ask
<1>1. /\ reply'.kind = "call" /\ reply'.call \in 1..MaxInstructions
      /\ reply'.call > reply.call /\ pyCtx = "open" /\ pyCtx' = "open"
  BY HostPause
<1>2. reply.kind = "none"
  BY DEF HostInv, Lifetime, Pause
<1>3. /\ Phase = "running" /\ Phase' = "waiting" /\ Held = TRUE /\ Held' = TRUE
  BY <1>1, <1>2 DEF Phase, Held
<1> QED BY <1>1, <1>3 DEF Protocol!Ask
LEMMA SeenStep == ASSUME HostInv, [Next]_vars
                  PROVE  [Protocol!Next]_(Protocol!hostVars)
<1>0. HostInv' /\ TypeInv' /\ reply \in Replies
  BY HostStays DEF HostInv, TypeInv, TypeOK
<1>1. CASE UNCHANGED vars
  BY <1>1 DEF vars, Protocol!hostVars, Phase, Held
<1>2. CASE DriverAborts \/ Complete \/ Fail
  <2>1. Protocol!Finish
    BY <1>0, <1>2, SeenClose DEF DriverAborts, Complete, Fail
  <2> QED BY <2>1 DEF Protocol!Next, Protocol!ComeBack
<1>3. CASE Pause
  <2>1. Protocol!Ask
    BY <1>0, <1>3, SeenPause
  <2> QED BY <2>1 DEF Protocol!Next, Protocol!ComeBack
<1>4. CASE Driver
  BY <1>0, <1>2, <1>4, SeenHidden DEF Driver, DriverInjects, DriverRuns
<1>5. CASE Opcode
  BY <1>0, <1>5, SeenHidden
     DEF Opcode, BudgetRefuses, Inject, Step, EnterTry, LeaveTry, OpcodeRaises,
         Call, CallRefused, Output, OutputRefused, CallExternal, OpcodeReturns,
         Raise
<1>6. CASE Leave
  BY <1>0, <1>2, <1>3, <1>6, SeenHidden
     DEF Leave, ReturnToCaller, ReturnToDriver, RaiseInCaller, RaiseEndsLoop,
         PauseCaller, PauseEndsLoop, Raise
<1>7. CASE Run
  <2>1. /\ reply.kind = "none" /\ pyCtx = "none" /\ pyCtx' = "open"
        /\ reply' = reply
    BY <1>7 DEF Run
  <2>2. Phase = "new" /\ Phase' = "running" /\ Held' = TRUE
    BY <2>1 DEF Phase, Held
  <2>3. Protocol!Start
    BY <2>1, <2>2 DEF Protocol!Start
  <2> QED BY <2>3 DEF Protocol!Next
<1>8. CASE Refuse
  <2>1. /\ reply.kind = "none" /\ pyCtx = "none"
        /\ reply'.kind = "refused" /\ reply'.call = reply.call
    BY <1>0, <1>8, ReplyOps DEF Refuse
  <2>2. Phase = "new" /\ Phase' = "refused" /\ Held' \in BOOLEAN
    BY <2>1 DEF Phase, Held
  <2>3. Protocol!Refuse
    BY <2>1, <2>2 DEF Protocol!Refuse
  <2> QED BY <2>3 DEF Protocol!Next
<1>9. ASSUME NEW by \in {"host", "error"}, Resume(by)
      PROVE  [Protocol!Next]_(Protocol!hostVars)
  <2>1. /\ reply.kind = "call" /\ UNCHANGED pyCtx
        /\ reply'.kind = "none" /\ reply'.call = reply.call
    BY <1>0, <1>9, ReplyOps DEF Resume
  <2>2. pyCtx = "open"
    BY <2>1 DEF HostInv, Lifetime
  <2>3. /\ Phase = "waiting" /\ Phase' = "running"
        /\ Held = TRUE /\ Held' = TRUE
    BY <2>1, <2>2 DEF Phase, Held
  <2>4. Protocol!Answer
    BY <2>1, <2>3 DEF Protocol!Answer
  <2> QED BY <2>4 DEF Protocol!Next
<1>10. ASSUME NEW c \in Contexts, Cancel(c)
       PROVE  UNCHANGED Protocol!hostVars
  BY <1>10 DEF Cancel, Protocol!hostVars, Phase, Held
<1> QED BY <1>1, <1>4, <1>5, <1>6, <1>7, <1>8, <1>9, <1>10
        DEF Next, EngineStep, HostStep, ResumeWithResult, ResumeWithError

(* Whatever the program, the host's answers and the cancellations: the     *)
(* engine starts where the protocol it promises to its host starts, and    *)
(* each of its steps is one of the protocol's or hidden from the host.     *)
THEOREM EngineKeepsProtocol ==
    Spec => Protocol!Init /\ [][Protocol!Next]_(Protocol!hostVars)
<1>1. Init => HostInv
  BY HostInit
<1>2. HostInv /\ [Next]_vars => HostInv'
  BY HostStays
<1>3. Init => Protocol!Init
  BY SeenInit
<1>4. HostInv /\ [Next]_vars => [Protocol!Next]_(Protocol!hostVars)
  BY SeenStep
<1> QED BY <1>1, <1>2, <1>3, <1>4, PTL DEF Spec
===============================================================================
