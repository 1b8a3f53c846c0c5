-------------------------- MODULE EngineCallSiteProofs --------------------------
(***************************************************************************)
(* Proofs that a pause does not confuse the frames of a program: every     *)
(* frame waits for the frame inside it, in the snapshot, in the pause in   *)
(* flight and on the Go stack, and what is pushed on an operand stack is   *)
(* what the call made there waits for.                                     *)
(***************************************************************************)
EXTENDS EngineProofs

(* What the caller of frame g waits for, by the way it called g; and that  *)
(* frame o waits for frame i and has been given nothing yet.  The frame    *)
(* objects are a parameter: a step gives others.                           *)
Awaited(fr, g) ==
    IF fr[g].via = "builtin" THEN From("builtin", g) ELSE From("frame", g)
Waits(fr, o, i) == fr[o].want = Awaited(fr, i) /\ fr[o].got = Nothing

(* A frame is younger than its caller: no frame is twice on a chain.       *)
Descending(s) == \A j, k \in 1..Len(s) : j < k => s[k] < s[j]
Ascending(s) == \A j, k \in 1..Len(s) : j < k => s[j] < s[k]
Ordered ==
    Descending(snap.frames) /\ Ascending(active) /\ Descending(ext.paused)

(* The three chains, each frame waiting for the one inside it.             *)
SnapWaits(fr) ==
    \A k \in 1..(Len(snap.frames) - 1) :
        k >= index => Waits(fr, snap.frames[k + 1], snap.frames[k])
ActiveWaits(fr) ==
    \A k \in 1..(Len(active) - 1) : Waits(fr, active[k], active[k + 1])
PausedWaits(fr) ==
    \A k \in 1..(Len(ext.paused) - 1) :
        Waits(fr, ext.paused[k + 1], ext.paused[k])
ChainsWait == SnapWaits(frame) /\ ActiveWaits(frame) /\ PausedWaits(frame)

(* What the innermost frame waits for: the host, while a call of the host  *)
(* is in flight or unanswered; then what runSnapshot has for it.           *)
AsksHost ==
    /\ control = "pause" =>
          /\ ext.paused # <<>>
          /\ frame[ext.paused[1]].want = From("host", ext.call)
    /\ control = "host" /\ reply.kind = "call" =>
          /\ snap.frames # <<>>
          /\ frame[snap.frames[1]].want = From("host", reply.call)
Delivers ==
    control = "driver" =>
        \/ result = Nothing
        \/ result.by = "error"
        \/ result = frame[snap.frames[index]].want
        \/ frame[snap.frames[index]].want.by = "builtin"

WaitInv == /\ StackInv
           /\ Ordered
           /\ ChainsWait
           /\ AsksHost
           /\ Delivers
           /\ ResultsReachTheirCallSite
-------------------------------------------------------------------------------
LEMMA WaitInit == Init => WaitInv
<1> SUFFICES ASSUME Init PROVE WaitInv
  OBVIOUS
<1>1. StackInv
  BY StackInit
<1>2. /\ snap.frames = <<>> /\ active = <<>> /\ ext.paused = <<>>
      /\ control = "host" /\ reply.kind = "none"
      /\ frame = [f \in FrameId |-> NoFrame]
  BY DEF Init
<1>3. Ordered
  BY <1>2 DEF Ordered, Descending, Ascending
<1>4. ChainsWait
  BY <1>2 DEF ChainsWait, SnapWaits, ActiveWaits, PausedWaits
<1>5. ResultsReachTheirCallSite
  BY <1>2 DEF ResultsReachTheirCallSite, NoFrame
<1> QED BY <1>1, <1>2, <1>3, <1>4, <1>5 DEF WaitInv, AsksHost, Delivers

(* What the operations on a frame do to what it waits for and was given.   *)
SameStack(a, b) == a.want = b.want /\ a.got = b.got

LEMMA OriginsApart ==
    ASSUME NEW m, NEW n
    PROVE  /\ From("frame", m) # Nothing /\ From("builtin", m) # Nothing
           /\ From("host", m) # Nothing
           /\ From("builtin", m).by = "builtin"
           /\ From("frame", m).by = "frame" /\ From("host", m).by = "host"
           /\ Nothing.by = "none"
  BY DEF From, Nothing

LEMMA StackOps ==
    ASSUME NEW fr \in Frames, NEW o \in Origin
    PROVE  /\ Waiting(fr, o).want = o /\ Waiting(fr, o).got = Nothing
           /\ Given(fr, o).want = fr.want /\ Given(fr, o).got = o
           /\ LoopEnded(fr).want = Nothing /\ LoopEnded(fr).got = fr.got
           /\ SameStack(PushBlock(fr), fr)
           /\ SameStack(PopBlock(fr), fr)
  BY DEF Frames, Waiting, Given, LoopEnded, PushBlock, PopBlock, SameStack

(* The step leaves alone what the frames older than b wait for.            *)
Untouched(b) == \A g \in FrameId : g < b => SameStack(frame'[g], frame[g])
AllUntouched == \A g \in FrameId : SameStack(frame'[g], frame[g])

LEMMA RaiseStack ==
    ASSUME frame \in [FrameId -> Frames], NEW f \in FrameId, NEW e, Raise(f, e)
    PROVE  AllUntouched
<1>1. CASE frame' = [frame EXCEPT ![f] = PopBlock(@)]
  <2>1. SameStack(PopBlock(frame[f]), frame[f])
    BY StackOps, OriginType
  <2> QED BY <1>1, <2>1 DEF AllUntouched, SameStack
<1>2. CASE UNCHANGED frame
  BY <1>2 DEF AllUntouched, SameStack
<1> QED BY <1>1, <1>2 DEF Raise
-------------------------------------------------------------------------------
(* What of the chains a step keeps, by how young a frame it touches.       *)
LEMMA WaitsKept ==
    ASSUME LinksKept, NEW o \in FrameId, NEW i \in FrameId, i <= created,
           SameStack(frame'[o], frame[o]), Waits(frame, o, i)
    PROVE  Waits(frame', o, i)
<1>1. frame'[i].via = frame[i].via
  BY DEF LinksKept, Linked
<1> QED BY <1>1 DEF Waits, Awaited, SameStack

LEMMA SnapWaitsKept ==
    ASSUME WaitInv, LinksKept, control # "host", Untouched(snap.frames[index])
    PROVE  SnapWaits(frame')
<1> DEFINE s == snap.frames
<1>1. /\ s \in Seq(FrameId) /\ Len(s) \in Nat /\ Exist(s)
      /\ index \in 1..Len(s) /\ Descending(s) /\ SnapWaits(frame)
  BY SequencesOf
     DEF WaitInv, StackInv, TypeInv, Shape, Ordered, ChainsWait
<1> SUFFICES ASSUME NEW k \in 1..(Len(s) - 1), k >= index
             PROVE  Waits(frame', s[k + 1], s[k])
  BY DEF SnapWaits
<1>2. Waits(frame, s[k + 1], s[k])
  BY <1>1 DEF SnapWaits
<1> HIDE DEF s
<1>3. /\ k \in 1..Len(s) /\ k + 1 \in 1..Len(s) /\ index < k + 1
      /\ s[k] \in FrameId /\ s[k + 1] \in FrameId /\ s[k] <= created
  BY <1>1 DEF Exist
<1>4. s[k + 1] < s[index]
  BY <1>1, <1>3 DEF Descending
<1>5. SameStack(frame'[s[k + 1]], frame[s[k + 1]])
  BY <1>3, <1>4 DEF Untouched, s
<1> QED BY <1>2, <1>3, <1>5, WaitsKept

LEMMA ActiveWaitsKept ==
    ASSUME WaitInv, LinksKept, NEW n \in 1..Len(active), Untouched(active[n])
    PROVE  \A k \in 1..(n - 1) : Waits(frame', active[k], active[k + 1])
<1>1. /\ active \in Seq(FrameId) /\ Len(active) \in Nat /\ Exist(active)
      /\ Ascending(active) /\ ActiveWaits(frame)
  BY SequencesOf DEF WaitInv, StackInv, Ordered, ChainsWait
<1> SUFFICES ASSUME NEW k \in 1..(n - 1)
             PROVE  Waits(frame', active[k], active[k + 1])
  OBVIOUS
<1>2. /\ k \in 1..Len(active) /\ k + 1 \in 1..Len(active) /\ k < n
      /\ k \in 1..(Len(active) - 1)
      /\ active[k] \in FrameId /\ active[k + 1] \in FrameId
      /\ active[k + 1] <= created
  BY <1>1 DEF Exist
<1>3. active[k] < active[n]
  BY <1>1, <1>2 DEF Ascending
<1>4. SameStack(frame'[active[k]], frame[active[k]])
  BY <1>2, <1>3 DEF Untouched
<1>5. Waits(frame, active[k], active[k + 1])
  BY <1>1, <1>2 DEF ActiveWaits
<1> QED BY <1>2, <1>4, <1>5, WaitsKept

(* The Go stack stands on the frame that runSnapshot is at.                *)
LEMMA StandsOn ==
    ASSUME WaitInv, active # <<>>, NEW n \in 1..Len(active)
    PROVE  /\ active[1] = snap.frames[index]
           /\ Untouched(active[n]) => Untouched(snap.frames[index])
           /\ active[n] \in FrameId /\ active[n] \in Nat
<1>1. /\ active \in Seq(FrameId) /\ Len(active) \in Nat
      /\ Ascending(active) /\ active[1] = snap.frames[index]
  BY SequencesOf DEF WaitInv, StackInv, Ordered, CallStackKept
<1>2. 1 \in 1..Len(active) /\ active[1] \in FrameId /\ active[n] \in FrameId
  BY <1>1
<1>3. /\ active[1] \in Nat /\ active[n] \in Nat
      /\ \A g \in FrameId : g \in Nat
  BY <1>2, BoundsAssumption DEF FrameId
<1>4. active[1] <= active[n]
  <2>1. CASE n = 1
    BY <1>3, <2>1
  <2>2. CASE n # 1
    <3>1. 1 < n
      BY <1>1, <2>2
    <3>2. active[1] < active[n]
      BY <1>1, <1>2, <3>1 DEF Ascending
    <3> QED BY <1>3, <3>2
  <2> QED BY <2>1, <2>2
<1>5. Untouched(active[n]) => Untouched(active[1])
  BY <1>3, <1>4 DEF Untouched
<1> QED BY <1>1, <1>2, <1>3, <1>5
-------------------------------------------------------------------------------
(* A step of the innermost frame that leaves the chains as they are.       *)
LEMMA WaitsInside ==
    ASSUME WaitInv, LinksKept, StackInv', UNCHANGED <<snap.frames, active, index>>,
           control \notin {"host", "driver", "pause"},
           control' \notin {"host", "driver", "pause"},
           ext'.paused = <<>>, Untouched(Innermost), ResultsReachTheirCallSite'
    PROVE  WaitInv'
<1>1. /\ active # <<>> /\ Len(active) \in Nat /\ active \in Seq(FrameId)
  BY SequencesOf DEF WaitInv, StackInv, TypeInv, Shape
<1>2. Len(active) \in 1..Len(active)
  BY <1>1
<1>3. Untouched(snap.frames[index])
  BY <1>1, <1>2, StandsOn DEF Innermost
<1>4. SnapWaits(frame')
  BY <1>3, SnapWaitsKept
<1>5. ActiveWaits(frame')
  BY <1>1, <1>2, ActiveWaitsKept DEF Innermost, ActiveWaits
<1>6. ChainsWait'
  BY <1>4, <1>5 DEF ChainsWait, SnapWaits, ActiveWaits, PausedWaits
<1>7. Ordered'
  BY DEF WaitInv, Ordered, Descending, Ascending
<1> QED BY <1>6, <1>7 DEF WaitInv, AsksHost, Delivers

(* The same, when no frame is given anything or starts to wait.            *)
LEMMA ResultsKept ==
    ASSUME ResultsReachTheirCallSite, AllUntouched
    PROVE  ResultsReachTheirCallSite'
  BY DEF ResultsReachTheirCallSite, AllUntouched, SameStack

LEMMA WaitsUntouched ==
    ASSUME WaitInv, LinksKept, StackInv', UNCHANGED <<snap.frames, active, index>>,
           control \notin {"host", "driver", "pause"},
           control' \notin {"host", "driver", "pause"},
           UNCHANGED ext, AllUntouched
    PROVE  WaitInv'
<1>1. ResultsReachTheirCallSite'
  BY ResultsKept DEF WaitInv
<1>2. ext'.paused = <<>> /\ Untouched(Innermost)
  BY DEF WaitInv, StackInv, PauseInFlight, AllUntouched, Untouched
<1> QED BY <1>1, <1>2, WaitsInside
-------------------------------------------------------------------------------
(* The Go stack without its innermost activation.                          *)
LEMMA OuterOrdered ==
    ASSUME WaitInv, LeaveFrame, control \notin {"host", "driver"}
    PROVE  /\ active' # <<>> /\ Len(active') = Len(active) - 1
           /\ \A k \in 1..(Len(active) - 1) : active'[k] = active[k]
           /\ Ascending(active')
           /\ Len(active) - 1 \in 1..Len(active) /\ Len(active) \in 1..Len(active)
           /\ Len(active) \in Nat /\ active # <<>>
           /\ Innermost \in FrameId /\ Caller \in FrameId
           /\ Caller < Innermost /\ Innermost <= created /\ Caller <= created
           /\ Waits(frame, Caller, Innermost)
<1>1. /\ active \in Seq(FrameId) /\ Len(active) > 1 /\ Len(active) \in Nat
      /\ active' = SubSeq(active, 1, Len(active) - 1)
      /\ Ascending(active) /\ ActiveWaits(frame) /\ Exist(active)
  BY SequencesOf DEF WaitInv, StackInv, Ordered, ChainsWait, LeaveFrame, Outer
<1>2. /\ active' # <<>> /\ Len(active') = Len(active) - 1
      /\ \A k \in 1..(Len(active) - 1) : active'[k] = active[k]
  BY <1>1, OuterType
<1>3. Ascending(active')
  <2> SUFFICES ASSUME NEW j \in 1..Len(active'), NEW k \in 1..Len(active'), j < k
               PROVE  active'[j] < active'[k]
    BY DEF Ascending
  <2>1. /\ j \in 1..Len(active) /\ k \in 1..Len(active)
        /\ j \in 1..(Len(active) - 1) /\ k \in 1..(Len(active) - 1)
    BY <1>1, <1>2
  <2> QED BY <1>1, <1>2, <2>1 DEF Ascending
<1>4. /\ Len(active) - 1 \in 1..Len(active) /\ Len(active) \in 1..Len(active)
      /\ Len(active) - 1 \in 1..(Len(active) - 1) /\ active # <<>>
      /\ Len(active) - 1 < Len(active) /\ (Len(active) - 1) + 1 = Len(active)
  BY <1>1
<1>5. Caller < Innermost /\ Innermost <= created /\ Caller <= created
  BY <1>1, <1>4 DEF Ascending, Caller, Innermost, Exist
<1>6. Waits(frame, Caller, Innermost)
  BY <1>1, <1>4 DEF ActiveWaits, Caller, Innermost
<1>7. Innermost \in FrameId /\ Caller \in FrameId
  BY <1>1, <1>4 DEF Innermost, Caller
<1> QED BY <1>1, <1>2, <1>3, <1>4, <1>5, <1>6, <1>7

(* The frame inside has left, and its caller goes on or raises.            *)
LEMMA WaitsLeave ==
    ASSUME WaitInv, LinksKept, StackInv', LeaveFrame, UNCHANGED <<snap, index>>,
           control \notin {"host", "driver"},
           control' \notin {"host", "driver", "pause"},
           ext'.paused = <<>>, Untouched(Caller), ResultsReachTheirCallSite'
    PROVE  WaitInv'
<1>1. /\ Len(active') = Len(active) - 1 /\ Len(active) \in Nat
      /\ \A k \in 1..(Len(active) - 1) : active'[k] = active[k]
      /\ Ascending(active') /\ active # <<>>
      /\ Len(active) - 1 \in 1..Len(active) /\ Caller = active[Len(active) - 1]
  BY OuterOrdered DEF Caller
<1>2. Untouched(snap.frames[index])
  BY <1>1, StandsOn
<1>3. SnapWaits(frame')
  BY <1>2, SnapWaitsKept
<1>4. \A k \in 1..(Len(active) - 2) : Waits(frame', active[k], active[k + 1])
  BY <1>1, ActiveWaitsKept
<1>5. \A k \in 1..(Len(active') - 1) : Waits(frame', active'[k], active'[k + 1])
  <2> SUFFICES ASSUME NEW k \in 1..(Len(active') - 1)
               PROVE  Waits(frame', active'[k], active'[k + 1])
    OBVIOUS
  <2>1. /\ k \in 1..(Len(active) - 2) /\ k \in 1..(Len(active) - 1)
        /\ k + 1 \in 1..(Len(active) - 1)
    BY <1>1
  <2> QED BY <1>1, <1>4, <2>1
<1>6. ChainsWait'
  BY <1>3, <1>5 DEF ChainsWait, SnapWaits, ActiveWaits, PausedWaits
<1>7. Ordered'
  BY <1>1 DEF WaitInv, Ordered, Descending, Ascending
<1> QED BY <1>6, <1>7 DEF WaitInv, AsksHost, Delivers

(* A result is given to the caller, which waited for it.                   *)
LEMMA WaitsReturnToCaller ==
    ASSUME WaitInv, LinksKept, StackInv', ReturnToCaller PROVE WaitInv'
<1> DEFINE v == IF frame[Innermost].via = "builtin"
                  THEN From("builtin", Innermost)
                  ELSE From("frame", Innermost)
<1>1. /\ frame \in [FrameId -> Frames] /\ LeaveFrame /\ control = "return"
      /\ Caller \in FrameId /\ Innermost \in FrameId
      /\ Waits(frame, Caller, Innermost)
      /\ frame' = [frame EXCEPT ![Caller] = Given(@, v)]
  BY OuterOrdered DEF ReturnToCaller, WaitInv, StackInv, TypeInv, TypeOK
<1>2. v \in Origin /\ v = frame[Caller].want
  BY <1>1, OriginType, BoundsAssumption DEF FrameId, Waits, Awaited
<1> HIDE DEF v
<1>3. /\ frame'[Caller].got = v /\ frame'[Caller].want = v
      /\ \A g \in FrameId : g # Caller => frame'[g] = frame[g]
  BY <1>1, <1>2, StackOps
<1>4. ResultsReachTheirCallSite'
  BY <1>3 DEF WaitInv, ResultsReachTheirCallSite
<1>5. Untouched(Caller)
  BY <1>1, <1>3, BoundsAssumption DEF Untouched, SameStack, FrameId
<1>6. ext'.paused = <<>> /\ control' = "opcode" /\ UNCHANGED <<snap, index>>
  BY DEF ReturnToCaller, WaitInv, StackInv, PauseInFlight
<1> QED BY <1>1, <1>4, <1>5, <1>6, WaitsLeave

(* FOR_ITER takes an error or a pause for the end of the loop.             *)
LEMMA WaitsEndLoop ==
    ASSUME WaitInv, LinksKept, StackInv', RaiseEndsLoop \/ PauseEndsLoop
    PROVE  WaitInv'
<1>1. /\ frame \in [FrameId -> Frames] /\ LeaveFrame
      /\ control \in {"raise", "pause"}
      /\ Caller \in FrameId /\ Innermost \in FrameId
      /\ Waits(frame, Caller, Innermost)
      /\ frame' = [frame EXCEPT ![Caller] = LoopEnded(@)]
  BY OuterOrdered
     DEF RaiseEndsLoop, PauseEndsLoop, WaitInv, StackInv, TypeInv, TypeOK
<1>2. /\ frame'[Caller].got = Nothing
      /\ \A g \in FrameId : g # Caller => frame'[g] = frame[g]
  BY <1>1, StackOps, OriginType DEF Waits
<1>3. ResultsReachTheirCallSite'
  BY <1>2 DEF WaitInv, ResultsReachTheirCallSite
<1>4. Untouched(Caller)
  BY <1>1, <1>2, BoundsAssumption DEF Untouched, SameStack, FrameId
<1>5. ext'.paused = <<>> /\ control' = "opcode" /\ UNCHANGED <<snap, index>>
  BY DEF RaiseEndsLoop, PauseEndsLoop, WaitInv, StackInv, PauseInFlight
<1> QED BY <1>1, <1>3, <1>4, <1>5, WaitsLeave

(* CALL_FUNCTION of the caller raises.                                     *)
LEMMA WaitsRaiseInCaller ==
    ASSUME WaitInv, LinksKept, StackInv', RaiseInCaller PROVE WaitInv'
<1>1. /\ frame \in [FrameId -> Frames] /\ LeaveFrame /\ control = "raise"
      /\ Caller \in FrameId /\ Raise(Caller, err)
  BY OuterOrdered DEF RaiseInCaller, WaitInv, StackInv, TypeInv, TypeOK
<1>2. AllUntouched
  BY <1>1, RaiseStack
<1>3. ResultsReachTheirCallSite' /\ Untouched(Caller)
  BY <1>2, ResultsKept DEF WaitInv, AllUntouched, Untouched
<1>4. ext'.paused = <<>> /\ control' \in {"opcode", "raise"}
      /\ UNCHANGED <<snap, index>>
  BY <1>1 DEF RaiseInCaller, Raise, WaitInv, StackInv, PauseInFlight
<1> QED BY <1>1, <1>3, <1>4, WaitsLeave
-------------------------------------------------------------------------------
(* A frame calls another, and waits for it.                                *)
LEMMA WaitsCall ==
    ASSUME WaitInv, LinksKept, StackInv', NEW c \in Calls, Call(c)
    PROVE  WaitInv'
<1> DEFINE f == created + 1
           w == IF c.via = "builtin" THEN From("builtin", f) ELSE From("frame", f)
           n == Len(active)
<1>1. /\ active \in Seq(FrameId) /\ active # <<>> /\ n \in Nat /\ n \in 1..n
      /\ Exist(active) /\ Ascending(active) /\ created \in Nat /\ f \in FrameId
      /\ frame \in [FrameId -> Frames] /\ control = "opcode"
      /\ ext.paused = <<>> /\ created < f
  <2>1. /\ active # <<>> /\ control = "opcode" /\ Ascending(active)
        /\ ext.paused = <<>>
    BY DEF WaitInv, StackInv, TypeInv, Shape, Ordered, PauseInFlight, Call
  <2>2. /\ active \in Seq(FrameId) /\ n \in Nat /\ Exist(active)
        /\ frame \in [FrameId -> Frames]
    BY SequencesOf DEF WaitInv, StackInv, TypeInv, TypeOK
  <2>3. created \in 0..MaxFrames /\ created < MaxFrames
    BY DEF WaitInv, StackInv, TypeInv, TypeOK, Call
  <2>4. created \in Nat /\ created < f /\ f \in FrameId
    BY <2>3, BoundsAssumption DEF FrameId
  <2>5. n \in 1..n
    BY <2>1, <2>2
  <2> QED BY <2>1, <2>2, <2>4, <2>5
<1>2. /\ Innermost = active[n] /\ Innermost \in FrameId /\ Innermost <= created
      /\ Innermost \in Nat
  BY <1>1, BoundsAssumption DEF Innermost, Exist, FrameId
<1>3. /\ frame' = [frame EXCEPT ![Innermost] = Waiting(@, w),
                                ![f] = NewFrame(Innermost, c)]
      /\ active' = Append(active, f)
      /\ UNCHANGED <<snap, index, ext, control>>
  BY DEF Call
<1>4. w \in Origin
  BY <1>1, OriginType
<1> HIDE DEF w
<1>5. /\ frame'[f] = NewFrame(Innermost, c)
      /\ frame'[Innermost].want = w /\ frame'[Innermost].got = Nothing
      /\ \A g \in FrameId : g # f /\ g # Innermost => frame'[g] = frame[g]
  <2>1. f # Innermost
    BY <1>1, <1>2
  <2>2. frame'[Innermost] = Waiting(frame[Innermost], w)
    BY <1>1, <1>2, <1>3, <2>1
  <2> QED BY <1>1, <1>2, <1>3, <1>4, <2>1, <2>2, StackOps
<1>6. Waits(frame', Innermost, f)
  <2>1. w = Awaited(frame', f)
    BY <1>5 DEF w, Awaited, NewFrame
  <2> QED BY <1>5, <2>1 DEF Waits
<1>7. ResultsReachTheirCallSite'
  BY <1>5 DEF WaitInv, ResultsReachTheirCallSite, NewFrame
<1>8. Untouched(Innermost)
  <2> SUFFICES ASSUME NEW g \in FrameId, g < Innermost
               PROVE  SameStack(frame'[g], frame[g])
    BY DEF Untouched
  <2>1. g # f /\ g # Innermost
    BY <1>1, <1>2, BoundsAssumption DEF FrameId
  <2> QED BY <1>5, <2>1 DEF SameStack
<1>9. SnapWaits(frame')
  BY <1>1, <1>2, <1>8, StandsOn, SnapWaitsKept
<1>10. \A k \in 1..(n - 1) : Waits(frame', active[k], active[k + 1])
  BY <1>1, <1>2, <1>8, ActiveWaitsKept
<1> HIDE DEF f
<1>11. /\ Len(active') = n + 1 /\ active'[n + 1] = f
       /\ \A j \in 1..n : active'[j] = active[j]
  BY <1>1, <1>3, PushType
<1>12. \A k \in 1..(Len(active') - 1) : Waits(frame', active'[k], active'[k + 1])
  <2> HIDE DEF n
  <2> SUFFICES ASSUME NEW k \in 1..n
               PROVE  Waits(frame', active'[k], active'[k + 1])
    BY <1>1, <1>11
  <2>1. CASE k = n
    BY <1>1, <1>2, <1>6, <1>11, <2>1
  <2>2. CASE k # n
    <3>1. k \in 1..(n - 1) /\ k + 1 \in 1..n
      BY <1>1, <2>2
    <3> QED BY <1>10, <1>11, <3>1
  <2> QED BY <2>1, <2>2
<1>13. Ascending(active')
  <2> SUFFICES ASSUME NEW j \in 1..Len(active'), NEW k \in 1..Len(active'), j < k
               PROVE  active'[j] < active'[k]
    BY DEF Ascending
  <2>1. j \in 1..n
    BY <1>1, <1>11
  <2>2. CASE k \in 1..n
    BY <1>1, <1>11, <2>1, <2>2 DEF Ascending
  <2>3. CASE k \notin 1..n
    <3>1. k = n + 1 /\ active[j] <= created /\ active[j] \in Nat
      BY <1>1, <1>11, <2>1, <2>3, BoundsAssumption DEF Exist, FrameId
    <3>2. active[j] < f
      BY <1>1, <3>1, BoundsAssumption DEF FrameId
    <3> QED BY <1>11, <2>1, <3>1, <3>2
  <2> QED BY <2>2, <2>3
<1>14. ChainsWait'
  <2>1. SnapWaits(frame)'
    BY <1>3, <1>9 DEF SnapWaits
  <2>2. ActiveWaits(frame)'
    BY <1>12 DEF ActiveWaits
  <2>3. ext'.paused = <<>>
    BY <1>1, <1>3
  <2>4. PausedWaits(frame)'
    BY <2>3 DEF PausedWaits
  <2> QED BY <2>1, <2>2, <2>4 DEF ChainsWait
<1>15. Ordered'
  BY <1>3, <1>13 DEF WaitInv, Ordered, Descending, Ascending
<1> QED BY <1>1, <1>3, <1>7, <1>14, <1>15 DEF WaitInv, AsksHost, Delivers

(* A frame calls the host, and waits for its answer.                       *)
LEMMA WaitsCallExternal ==
    ASSUME WaitInv, LinksKept, StackInv', CallExternal PROVE WaitInv'
<1> DEFINE w == From("host", calls + 1)
<1>1. /\ active \in Seq(FrameId) /\ active # <<>> /\ Len(active) \in Nat
      /\ Len(active) \in 1..Len(active)
      /\ frame \in [FrameId -> Frames] /\ calls + 1 \in Nat
      /\ control = "opcode"
  BY SequencesOf
     DEF WaitInv, StackInv, TypeInv, TypeOK, Shape, CallExternal
<1>2. Innermost = active[Len(active)] /\ Innermost \in FrameId
  BY <1>1 DEF Innermost
<1>3. /\ frame' = [frame EXCEPT ![Innermost] = Waiting(@, w)]
      /\ ext' = [call |-> calls + 1, paused |-> <<Innermost>>]
      /\ control' = "pause" /\ UNCHANGED <<snap, active, index>>
  BY DEF CallExternal
<1>4. w \in Origin
  BY <1>1, OriginType
<1>5. /\ frame'[Innermost].want = w /\ frame'[Innermost].got = Nothing
      /\ \A g \in FrameId : g # Innermost => frame'[g] = frame[g]
  BY <1>1, <1>2, <1>3, <1>4, StackOps
<1>6. ResultsReachTheirCallSite'
  BY <1>5 DEF WaitInv, ResultsReachTheirCallSite
<1>7. Untouched(Innermost)
  BY <1>2, <1>5, BoundsAssumption DEF Untouched, SameStack, FrameId
<1>8. SnapWaits(frame')
  BY <1>1, <1>2, <1>7, StandsOn, SnapWaitsKept
<1>9. ActiveWaits(frame')
  BY <1>1, <1>2, <1>7, ActiveWaitsKept DEF ActiveWaits
<1>10. ext'.paused = <<Innermost>> /\ ext'.call = calls + 1 /\ Len(ext'.paused) = 1
       /\ ext'.paused[1] = Innermost /\ ext'.paused # <<>>
  BY <1>3
<1>11. ChainsWait'
  <2>1. SnapWaits(frame)'
    BY <1>3, <1>8 DEF SnapWaits
  <2>2. ActiveWaits(frame)'
    BY <1>3, <1>9 DEF ActiveWaits
  <2>3. PausedWaits(frame)'
    BY <1>10 DEF PausedWaits
  <2> QED BY <2>1, <2>2, <2>3 DEF ChainsWait
<1>12. Ordered'
  BY <1>3, <1>10 DEF WaitInv, Ordered, Descending, Ascending
<1>13. AsksHost' /\ Delivers'
  BY <1>3, <1>5, <1>10 DEF AsksHost, Delivers
<1> QED BY <1>6, <1>11, <1>12, <1>13 DEF WaitInv

(* The pause reaches the caller, which waits for the frame paused last.    *)
LEMMA WaitsPauseCaller ==
    ASSUME WaitInv, StackInv', PauseCaller PROVE WaitInv'
<1> DEFINE p == ext.paused
           q == Append(p, Caller)
<1>1. /\ LeaveFrame /\ control = "pause" /\ control' = "pause"
      /\ UNCHANGED <<snap, frame, index>> /\ ext' = [ext EXCEPT !.paused = q]
      /\ ext \in [call : Nat, paused : Seq(FrameId)]
      /\ p \in Seq(FrameId) /\ Len(p) \in Nat
      /\ Descending(p) /\ PausedWaits(frame) /\ Exist(p)
      /\ p # <<>> /\ p[Len(p)] = Innermost
      /\ frame[p[1]].want = From("host", ext.call)
  BY SequencesOf DEF PauseCaller, WaitInv, StackInv, TypeInv, TypeOK, Ordered,
                     ChainsWait, AsksHost, CallStackKept
<1>2. /\ active' # <<>> /\ Len(active') = Len(active) - 1
      /\ \A k \in 1..(Len(active) - 1) : active'[k] = active[k]
      /\ Ascending(active') /\ Len(active) \in Nat
      /\ Innermost \in FrameId /\ Caller \in FrameId /\ Caller < Innermost
      /\ Waits(frame, Caller, Innermost)
  BY <1>1, OuterOrdered
<1>3. ext'.paused = q /\ ext'.call = ext.call
  BY <1>1
<1>4. \A k \in 1..(Len(p) - 1) : Waits(frame, p[k + 1], p[k])
  BY <1>1 DEF PausedWaits
<1>5. frame[p[1]].want = From("host", ext.call) /\ 1 \in 1..Len(p)
      /\ Len(p) \in 1..Len(p)
  BY <1>1
<1> HIDE DEF p
<1>6. /\ Len(q) = Len(p) + 1 /\ q[Len(p) + 1] = Caller /\ q # <<>>
      /\ \A k \in 1..Len(p) : q[k] = p[k]
  BY <1>1, <1>2, PushType
<1> HIDE DEF q
<1>7. \A k \in 1..(Len(q) - 1) : Waits(frame, q[k + 1], q[k])
  <2> SUFFICES ASSUME NEW k \in 1..Len(p) PROVE Waits(frame, q[k + 1], q[k])
    BY <1>1, <1>6
  <2>1. CASE k = Len(p)
    BY <1>1, <1>2, <1>5, <1>6, <2>1
  <2>2. CASE k # Len(p)
    <3>1. k \in 1..(Len(p) - 1) /\ k + 1 \in 1..Len(p)
      BY <1>1, <2>2
    <3> QED BY <1>4, <1>6, <3>1
  <2> QED BY <2>1, <2>2
<1>8. Descending(q)
  <2> SUFFICES ASSUME NEW j \in 1..Len(q), NEW k \in 1..Len(q), j < k
               PROVE  q[k] < q[j]
    BY DEF Descending
  <2>1. j \in 1..Len(p)
    BY <1>1, <1>6
  <2>2. CASE k \in 1..Len(p)
    BY <1>1, <1>6, <2>1, <2>2 DEF Descending
  <2>3. CASE k \notin 1..Len(p)
    <3>1. k = Len(p) + 1
      BY <1>1, <1>6, <2>3
    <3>2. p[j] \in Nat /\ Caller \in Nat /\ Innermost \in Nat
      <4>1. p[j] \in FrameId
        BY <1>1, <2>1
      <4> QED BY <1>2, <4>1, BoundsAssumption DEF FrameId
    <3>3. Caller < p[j]
      <4>1. CASE j = Len(p)
        BY <1>1, <1>2, <4>1
      <4>2. CASE j # Len(p)
        <5>1. j < Len(p)
          BY <1>1, <2>1, <4>2
        <5>2. p[Len(p)] < p[j]
          BY <1>1, <1>5, <2>1, <5>1 DEF Descending
        <5> QED BY <1>1, <1>2, <3>2, <5>2
      <4> QED BY <4>1, <4>2
    <3> QED BY <1>6, <2>1, <3>1, <3>3
  <2> QED BY <2>2, <2>3
<1>9. ActiveWaits(frame)'
  <2> SUFFICES ASSUME NEW k \in 1..(Len(active') - 1)
               PROVE  Waits(frame', active'[k], active'[k + 1])
    BY DEF ActiveWaits
  <2>1. /\ k \in 1..(Len(active) - 1) /\ k + 1 \in 1..(Len(active) - 1)
    BY <1>2
  <2>2. Waits(frame, active[k], active[k + 1])
    BY <2>1 DEF WaitInv, ChainsWait, ActiveWaits
  <2> QED BY <1>1, <1>2, <2>1, <2>2
<1>10. ChainsWait'
  BY <1>1, <1>3, <1>7, <1>9 DEF WaitInv, ChainsWait, SnapWaits, PausedWaits
<1>11. Ordered'
  BY <1>1, <1>2, <1>3, <1>8 DEF WaitInv, Ordered, Descending, Ascending
<1>12. AsksHost' /\ Delivers'
  BY <1>1, <1>3, <1>5, <1>6 DEF AsksHost, Delivers
<1>13. ResultsReachTheirCallSite'
  BY <1>1 DEF WaitInv, ResultsReachTheirCallSite
<1> QED BY <1>10, <1>11, <1>12, <1>13 DEF WaitInv

(* runSnapshot merges the paused frames and those it has not run.          *)
LEMMA WaitsPause ==
    ASSUME WaitInv, StackInv', Pause PROVE WaitInv'
<1> DEFINE p == ext.paused
           s == snap.frames
           r == SubSeq(s, index + 1, Len(s))
           m == p \o r
<1>1. /\ p \in Seq(FrameId) /\ Len(p) \in Nat /\ p # <<>>
      /\ s \in Seq(FrameId) /\ Len(s) \in Nat /\ index \in 1..Len(s)
      /\ snap \in Snapshots /\ Descending(s) /\ Descending(p)
      /\ p[Len(p)] = s[index] /\ control = "pause"
  <2>1. control = "pause" /\ Len(active) = 1 /\ active # <<>>
    BY DEF Pause, WaitInv, StackInv, TypeInv, Shape
  <2>2. /\ p \in Seq(FrameId) /\ s \in Seq(FrameId) /\ snap \in Snapshots
        /\ Len(p) \in Nat /\ Len(s) \in Nat /\ index \in 1..Len(s)
    BY <2>1, SequencesOf DEF WaitInv, StackInv, TypeInv, TypeOK, Shape
  <2>3. /\ p # <<>> /\ Descending(s) /\ Descending(p)
    BY <2>1 DEF WaitInv, Ordered, AsksHost
  <2>4. p[Len(p)] = s[index]
    BY <2>1, <2>3 DEF WaitInv, StackInv, CallStackKept, Innermost
  <2> QED BY <2>1, <2>2, <2>3, <2>4
<1>2. /\ \A k \in 1..(Len(p) - 1) : Waits(frame, p[k + 1], p[k])
      /\ \A k \in 1..(Len(s) - 1) : k >= index => Waits(frame, s[k + 1], s[k])
      /\ frame[p[1]].want = From("host", ext.call)
  BY <1>1 DEF WaitInv, ChainsWait, SnapWaits, PausedWaits, AsksHost
<1>3. /\ active' = <<>> /\ UNCHANGED frame /\ ext'.paused = <<>>
      /\ control' = "host" /\ snap' = [snap EXCEPT !.frames = m] /\ index' = 0
      /\ reply'.kind = "call" /\ reply'.call = ext.call
  BY DEF Pause, MergePausedFrames
<1> HIDE DEF p, s
<1>4. /\ r \in Seq(FrameId) /\ Len(r) = Len(s) - index
      /\ \A k \in 1..(Len(s) - index) : r[k] = s[index + k]
  BY <1>1, RestType
<1> HIDE DEF r
<1>5. /\ m \in Seq(FrameId) /\ Len(m) = Len(p) + Len(r)
      /\ \A k \in 1..Len(p) : m[k] = p[k]
      /\ \A k \in 1..Len(r) : m[Len(p) + k] = r[k]
  <2>1. p \in Seq(FrameId) /\ r \in Seq(FrameId)
    BY <1>1, <1>4
  <2> QED BY <2>1, MergeType
<1> HIDE DEF m
<1>6. snap'.frames = m
  BY <1>1, <1>3, <1>5, SnapOps
<1>7. /\ Len(p) \in 1..Len(p) /\ 1 \in 1..Len(p) /\ Len(r) \in Nat
      /\ index \in Nat
  BY <1>1, <1>4
<1>8. ASSUME NEW k \in 1..Len(m), k > Len(p)
      PROVE  /\ k - Len(p) \in 1..Len(r) /\ index + (k - Len(p)) \in 1..Len(s)
             /\ m[k] = s[index + (k - Len(p))]
  <2> DEFINE j == k - Len(p)
  <2>1. j \in 1..Len(r) /\ k = Len(p) + j /\ index + j \in 1..Len(s)
    BY <1>1, <1>4, <1>5, <1>7, <1>8
  <2> HIDE DEF j
  <2>2. m[k] = s[index + j]
    BY <1>1, <1>4, <1>5, <1>7, <2>1
  <2> QED BY <2>1, <2>2 DEF j
<1>9. \A k \in 1..(Len(m) - 1) : Waits(frame, m[k + 1], m[k])
  <2> SUFFICES ASSUME NEW k \in 1..(Len(m) - 1)
               PROVE  Waits(frame, m[k + 1], m[k])
    OBVIOUS
  <2>0. k \in Nat /\ k \in 1..Len(m) /\ k + 1 \in 1..Len(m)
    BY <1>1, <1>5, <1>7
  <2>1. CASE k < Len(p)
    <3>1. k \in 1..(Len(p) - 1) /\ k \in 1..Len(p) /\ k + 1 \in 1..Len(p)
      BY <1>1, <2>0, <2>1
    <3> QED BY <1>2, <1>5, <3>1
  <2>2. CASE k = Len(p)
    <3>1. k + 1 > Len(p) /\ (k + 1) - Len(p) = 1
      BY <1>1, <2>2
    <3>2. m[k + 1] = s[index + 1] /\ index + 1 \in 1..Len(s)
      BY <1>8, <2>0, <3>1
    <3>3. m[k] = s[index] /\ index \in 1..(Len(s) - 1)
      BY <1>1, <1>5, <1>7, <2>2, <3>2
    <3> QED BY <1>2, <1>7, <3>2, <3>3
  <2>3. CASE k > Len(p)
    <3> DEFINE j == index + (k - Len(p))
    <3>1. j \in 1..Len(s) /\ m[k] = s[j]
      BY <1>8, <2>0, <2>3
    <3>2. k + 1 > Len(p) /\ index + ((k + 1) - Len(p)) = j + 1
      BY <1>1, <1>7, <2>0, <2>3
    <3>3. j + 1 \in 1..Len(s) /\ m[k + 1] = s[j + 1]
      BY <1>8, <2>0, <3>2
    <3>4. j \in 1..(Len(s) - 1) /\ j >= index
      BY <1>1, <1>7, <2>0, <2>3, <3>1, <3>3
    <3> HIDE DEF j
    <3> QED BY <1>2, <3>1, <3>3, <3>4
  <2> QED BY <1>1, <2>0, <2>1, <2>2, <2>3
<1>10. Descending(m)
  <2> SUFFICES ASSUME NEW j \in 1..Len(m), NEW k \in 1..Len(m), j < k
               PROVE  m[k] < m[j]
    BY DEF Descending
  <2>0. j \in Nat /\ k \in Nat
    BY <1>1, <1>5, <1>7
  <2>1. CASE k <= Len(p)
    <3>1. j \in 1..Len(p) /\ k \in 1..Len(p)
      BY <1>1, <2>0, <2>1
    <3> QED BY <1>1, <1>5, <3>1 DEF Descending
  <2>2. CASE j > Len(p)
    <3> DEFINE a == index + (j - Len(p))
               b == index + (k - Len(p))
    <3>1. a \in 1..Len(s) /\ m[j] = s[a]
      BY <1>8, <2>2
    <3>2. k > Len(p)
      BY <1>1, <2>0, <2>2
    <3>3. b \in 1..Len(s) /\ m[k] = s[b]
      BY <1>8, <3>2
    <3>4. a < b
      BY <1>1, <1>7, <2>0
    <3> HIDE DEF a, b
    <3> QED BY <1>1, <3>1, <3>3, <3>4 DEF Descending
  <2>3. CASE j <= Len(p) /\ k > Len(p)
    <3> DEFINE b == index + (k - Len(p))
    <3>1. b \in 1..Len(s) /\ m[k] = s[b] /\ index < b
      BY <1>1, <1>7, <1>8, <2>0, <2>3
    <3>2. j \in 1..Len(p) /\ m[j] = p[j]
      BY <1>1, <1>5, <2>0, <2>3
    <3> HIDE DEF b
    <3>3. s[b] < s[index] /\ s[index] = p[Len(p)]
      BY <1>1, <3>1 DEF Descending
    <3>4. s[b] \in Nat /\ p[j] \in Nat /\ p[Len(p)] \in Nat
      <4>1. s[b] \in FrameId /\ p[j] \in FrameId /\ p[Len(p)] \in FrameId
        BY <1>1, <1>7, <3>1, <3>2
      <4> QED BY <4>1, BoundsAssumption DEF FrameId
    <3>5. CASE j = Len(p)
      BY <3>1, <3>2, <3>3, <3>5
    <3>6. CASE j # Len(p)
      <4>1. j < Len(p)
        BY <1>1, <3>2, <3>6
      <4>2. p[Len(p)] < p[j]
        BY <1>1, <1>7, <3>2, <4>1 DEF Descending
      <4> QED BY <3>1, <3>2, <3>3, <3>4, <4>2
    <3> QED BY <3>5, <3>6
  <2> QED BY <1>1, <2>0, <2>1, <2>2, <2>3
<1>11. ChainsWait'
  <2>1. SnapWaits(frame)'
    BY <1>3, <1>6, <1>9 DEF SnapWaits
  <2>2. ActiveWaits(frame)' /\ PausedWaits(frame)'
    BY <1>3 DEF ActiveWaits, PausedWaits
  <2> QED BY <2>1, <2>2 DEF ChainsWait
<1>12. Ordered'
  BY <1>3, <1>6, <1>10 DEF Ordered, Descending, Ascending
<1>13. AsksHost' /\ Delivers'
  <2>1. m # <<>> /\ m[1] = p[1]
    BY <1>5, <1>7
  <2> QED BY <1>2, <1>3, <1>6, <2>1 DEF AsksHost, Delivers
<1>14. ResultsReachTheirCallSite'
  BY <1>3 DEF WaitInv, ResultsReachTheirCallSite
<1> QED BY <1>11, <1>12, <1>13, <1>14 DEF WaitInv
-------------------------------------------------------------------------------
(* runSnapshot starts a frame; what it pushes there is waited for.         *)
LEMMA WaitsStart ==
    ASSUME WaitInv, LinksKept, StackInv', DriverInjects \/ DriverRuns
    PROVE  WaitInv'
<1> DEFINE f == snap.frames[index]
<1>1. /\ control = "driver" /\ ext.paused = <<>> /\ index \in 1..Len(snap.frames)
      /\ frame \in [FrameId -> Frames] /\ result \in Origin
      /\ snap.frames \in Seq(FrameId)
  BY SequencesOf
     DEF DriverInjects, DriverRuns, WaitInv, StackInv, PauseInFlight, TypeInv,
         TypeOK, Shape
<1>2. f \in FrameId
  BY <1>1
<1>3. /\ active' = <<f>> /\ UNCHANGED <<snap, index, ext>>
      /\ control' \in {"inject", "opcode"}
  BY DEF DriverInjects, DriverRuns
<1>4. Untouched(f) /\ ResultsReachTheirCallSite'
  <2>1. CASE UNCHANGED frame
    BY <2>1 DEF Untouched, SameStack, WaitInv, ResultsReachTheirCallSite
  <2>2. CASE DriverRuns /\ result # Nothing
    <3>1. frame' = [frame EXCEPT ![f] = Given(@, result)] /\ result.by # "error"
      BY <2>2 DEF DriverRuns
    <3>2. result = frame[f].want \/ frame[f].want.by = "builtin"
      BY <1>1, <2>2, <3>1 DEF WaitInv, Delivers
    <3> HIDE DEF f
    <3>3. /\ frame'[f].got = result /\ frame'[f].want = frame[f].want
          /\ \A g \in FrameId : g # f => frame'[g] = frame[g]
      BY <1>1, <1>2, <3>1, StackOps
    <3>4. Untouched(f)
      BY <1>2, <3>3, BoundsAssumption DEF Untouched, SameStack, FrameId
    <3> QED BY <3>2, <3>3, <3>4 DEF WaitInv, ResultsReachTheirCallSite
  <2> QED BY <2>1, <2>2 DEF DriverInjects, DriverRuns
<1>5. SnapWaits(frame')
  BY <1>1, <1>4, SnapWaitsKept
<1>6. Len(active') = 1
  BY <1>3
<1>7. ChainsWait'
  <2>1. SnapWaits(frame)'
    BY <1>3, <1>5 DEF SnapWaits
  <2>2. ActiveWaits(frame)' /\ PausedWaits(frame)'
    BY <1>1, <1>3, <1>6 DEF ActiveWaits, PausedWaits
  <2> QED BY <2>1, <2>2 DEF ChainsWait
<1>8. Ordered'
  BY <1>3, <1>6 DEF WaitInv, Ordered, Descending, Ascending
<1> QED BY <1>3, <1>4, <1>7, <1>8 DEF WaitInv, AsksHost, Delivers

(* The execution ends.                                                     *)
LEMMA WaitsClose ==
    ASSUME WaitInv, StackInv', control # "pause",
           NEW k \in {"complete", "error"}, CloseSnapshot(k),
           UNCHANGED <<frame, ext>>
    PROVE  WaitInv'
<1>1. /\ snap'.frames = <<>> /\ active' = <<>> /\ ext'.paused = <<>>
      /\ control' = "host"
  BY DEF CloseSnapshot, ClosedSnapshot, WaitInv, StackInv, PauseInFlight
<1>2. reply'.kind = k
  <2>1. reply \in Replies
    BY DEF WaitInv, StackInv, TypeInv, TypeOK
  <2> QED BY <2>1 DEF CloseSnapshot, Replies
<1>3. Ordered' /\ ChainsWait'
  BY <1>1 DEF Ordered, Descending, Ascending, ChainsWait, SnapWaits, ActiveWaits,
              PausedWaits
<1>4. ResultsReachTheirCallSite'
  BY DEF WaitInv, ResultsReachTheirCallSite
<1> QED BY <1>1, <1>2, <1>3, <1>4 DEF WaitInv, AsksHost, Delivers

(* runSnapshot has the result of a frame for the one outside it.           *)
LEMMA WaitsReturnToDriver ==
    ASSUME WaitInv, StackInv', ReturnToDriver PROVE WaitInv'
<1>1. /\ control = "return" /\ Len(active) = 1 /\ active # <<>>
      /\ index < Len(snap.frames) /\ index \in 1..Len(snap.frames)
      /\ Len(snap.frames) \in Nat
  BY SequencesOf DEF ReturnToDriver, WaitInv, StackInv, TypeInv, Shape
<1>2. Innermost = snap.frames[index] /\ index \in 1..(Len(snap.frames) - 1)
  BY <1>1 DEF WaitInv, StackInv, CallStackKept, Innermost
<1>3. Waits(frame, snap.frames[index + 1], snap.frames[index])
  BY <1>1, <1>2 DEF WaitInv, ChainsWait, SnapWaits
<1>4. /\ UNCHANGED <<snap, frame, ext, reply>> /\ active' = <<>>
      /\ index' = index + 1 /\ control' = "driver"
      /\ result' = From("frame", Innermost)
  BY DEF ReturnToDriver, FrameResult
<1>5. Delivers'
  <2>1. \/ result' = frame[snap.frames[index + 1]].want
        \/ frame[snap.frames[index + 1]].want.by = "builtin"
    BY <1>2, <1>3, <1>4, OriginsApart DEF Waits, Awaited
  <2> QED BY <1>4, <2>1 DEF Delivers
<1>6. \A k \in 1..(Len(snap.frames) - 1) : k >= index + 1 => k >= index
  BY <1>1
<1>7. SnapWaits(frame)'
  BY <1>4, <1>6 DEF WaitInv, ChainsWait, SnapWaits
<1>8. ActiveWaits(frame)' /\ PausedWaits(frame)'
  BY <1>4 DEF WaitInv, ChainsWait, ActiveWaits, PausedWaits
<1>9. Ordered' /\ ResultsReachTheirCallSite' /\ AsksHost'
  BY <1>4 DEF WaitInv, Ordered, Descending, Ascending,
              ResultsReachTheirCallSite, AsksHost
<1> QED BY <1>5, <1>7, <1>8, <1>9 DEF WaitInv, ChainsWait

(* The host starts, resumes or cancels.                                    *)
LEMMA WaitsHost ==
    ASSUME WaitInv, StackInv', HostStep PROVE WaitInv'
<1>1. CASE Run
  <2>1. /\ snap'.frames = <<1>> /\ index' = 1 /\ Len(snap'.frames) = 1
        /\ active = <<>> /\ ext.paused = <<>> /\ control' = "driver"
        /\ result' = Nothing /\ UNCHANGED <<frame, active, ext>>
    BY <1>1 DEF Run, WaitInv, StackInv, PauseInFlight, TypeInv, Shape
  <2>2. Ordered'
    BY <2>1 DEF Ordered, Descending, Ascending
  <2>3. ChainsWait'
    BY <2>1 DEF ChainsWait, SnapWaits, ActiveWaits, PausedWaits
  <2> QED BY <2>1, <2>2, <2>3
          DEF WaitInv, AsksHost, Delivers, ResultsReachTheirCallSite
<1>2. CASE Refuse
  <2>1. /\ snap'.frames = snap.frames
        /\ UNCHANGED <<frame, active, ext, index, control>>
        /\ control = "host"
    BY <1>2, SnapOps DEF Refuse, RefuseProgram, RefuseSetup, RefuseGlobal,
                         WaitInv, StackInv, TypeInv, TypeOK
  <2>2. reply'.kind = "refused"
    BY <1>2, ReplyOps DEF Refuse, WaitInv, StackInv, TypeInv, TypeOK
  <2>3. Ordered'
    BY <2>1 DEF WaitInv, Ordered, Descending, Ascending
  <2>4. ChainsWait'
    BY <2>1 DEF WaitInv, ChainsWait, SnapWaits, ActiveWaits, PausedWaits
  <2> QED BY <2>1, <2>2, <2>3, <2>4
          DEF WaitInv, AsksHost, Delivers, ResultsReachTheirCallSite
<1>3. ASSUME NEW by \in {"host", "error"}, Resume(by) PROVE WaitInv'
  <2>1. /\ snap.frames # <<>> /\ control = "host" /\ reply.kind = "call"
        /\ control' = "driver" /\ index' = 1
        /\ result' = From(by, reply.call)
        /\ UNCHANGED <<snap, frame, active, ext>>
    BY <1>3 DEF Resume
  <2>2. frame[snap.frames[1]].want = From("host", reply.call)
    BY <2>1 DEF WaitInv, AsksHost
  <2>3. Delivers'
    BY <2>1, <2>2 DEF Delivers, From
  <2>4. \A k \in 1..(Len(snap.frames) - 1) : k >= index
    BY <2>1 DEF WaitInv, StackInv, TypeInv, Shape
  <2>5. Ordered'
    BY <2>1 DEF WaitInv, Ordered, Descending, Ascending
  <2>6. ChainsWait'
    BY <2>1, <2>4 DEF WaitInv, ChainsWait, SnapWaits, ActiveWaits, PausedWaits
  <2> QED BY <2>1, <2>3, <2>5, <2>6
          DEF WaitInv, AsksHost, ResultsReachTheirCallSite
<1>4. ASSUME NEW c \in Contexts, Cancel(c) PROVE WaitInv'
  BY <1>4 DEF Cancel, WaitInv, Ordered, Descending, Ascending, ChainsWait,
              SnapWaits, ActiveWaits, PausedWaits, AsksHost, Delivers,
              ResultsReachTheirCallSite
<1> QED BY <1>1, <1>2, <1>3, <1>4
        DEF HostStep, ResumeWithResult, ResumeWithError

(* The steps that go on inside a frame and call nobody.                    *)
LEMMA WaitsInFrame ==
    ASSUME WaitInv, LinksKept, StackInv',
           \/ BudgetRefuses \/ Inject \/ Step \/ EnterTry \/ LeaveTry
           \/ OpcodeRaises \/ CallRefused \/ OpcodeReturns
           \/ \E n \in Sizes : Output(n) \/ OutputRefused(n)
    PROVE  WaitInv'
<1>1. /\ control \in {"opcode", "inject"}
      /\ UNCHANGED <<snap.frames, active, index, ext>>
      /\ control' \notin {"host", "driver", "pause"}
  <2>1. ASSUME NEW f, NEW e, Raise(f, e) PROVE control' \in {"opcode", "raise"}
    BY <2>1 DEF Raise
  <2>2. ASSUME NEW n \in Sizes, Output(n) PROVE snap'.frames = snap.frames
    BY <2>2, SnapOps, BoundsAssumption
       DEF Output, WaitInv, StackInv, TypeInv, TypeOK
  <2> QED BY <2>1, <2>2
          DEF BudgetRefuses, Inject, Step, EnterTry, LeaveTry, OpcodeRaises,
              CallRefused, OpcodeReturns, Output, OutputRefused
<1>2. Innermost \in FrameId /\ frame \in [FrameId -> Frames]
  BY <1>1, StackTop DEF WaitInv, StackInv, TypeInv, TypeOK
<1>3. AllUntouched
  <2>1. CASE UNCHANGED frame
    BY <2>1 DEF AllUntouched, SameStack
  <2>2. CASE \E e \in {"program"} : Raise(Innermost, e)
    BY <1>2, <2>2, RaiseStack
  <2>3. CASE EnterTry \/ LeaveTry
    <3>1. /\ SameStack(PushBlock(frame[Innermost]), frame[Innermost])
          /\ SameStack(PopBlock(frame[Innermost]), frame[Innermost])
      BY <1>2, StackOps, OriginType
    <3> QED BY <1>2, <2>3, <3>1
            DEF EnterTry, LeaveTry, AllUntouched, SameStack
  <2> QED BY <2>1, <2>2, <2>3
          DEF BudgetRefuses, Inject, Step, OpcodeRaises,
              CallRefused, OpcodeReturns, Output, OutputRefused
<1> QED BY <1>1, <1>3, WaitsUntouched

LEMMA WaitStep == ASSUME WaitInv, [Next]_vars PROVE WaitInv'
<1>0. StackInv /\ StackInv' /\ LinksKept
  BY StackStep, LinksStep DEF WaitInv, StackInv
<1>1. CASE UNCHANGED vars
  BY <1>0, <1>1
     DEF vars, WaitInv, Ordered, Descending, Ascending, ChainsWait, SnapWaits,
         ActiveWaits, PausedWaits, AsksHost, Delivers,
         ResultsReachTheirCallSite
<1>2. CASE Driver
  BY <1>0, <1>2, WaitsClose, WaitsStart DEF Driver, DriverAborts
<1>3. CASE Opcode
  BY <1>0, <1>3, WaitsCall, WaitsCallExternal, WaitsInFrame DEF Opcode
<1>4. CASE Leave
  <2>1. CASE Complete \/ Fail
    BY <1>0, <2>1, WaitsClose DEF Complete, Fail
  <2> QED BY <1>0, <1>4, <2>1, WaitsReturnToCaller, WaitsReturnToDriver,
             WaitsRaiseInCaller, WaitsEndLoop, WaitsPauseCaller, WaitsPause
          DEF Leave
<1>5. CASE HostStep
  BY <1>0, <1>5, WaitsHost
<1> QED BY <1>1, <1>2, <1>3, <1>4, <1>5 DEF Next, EngineStep

THEOREM EngineWaits == Spec => []WaitInv
  BY WaitInit, WaitStep, PTL DEF Spec
-------------------------------------------------------------------------------
(* A frame in a snapshot waits for exactly the frame inside it, and the    *)
(* innermost one for the call the host is asked to answer, however often   *)
(* the program was paused, merged and resumed before.                      *)
THEOREM EngineFramesWait == Spec => []EveryFrameWaits
<1>1. WaitInv => EveryFrameWaits
  BY DEF WaitInv, ChainsWait, SnapWaits, Waits, Awaited, WaitsFor, AsksHost,
         EveryFrameWaits
<1> QED BY <1>1, EngineWaits, PTL

(* What runSnapshot and the frames of the Go stack push on an operand      *)
(* stack is the result of the call made there: the callee's, or the host's *)
(* answer to that very call (builtins that call back apart).               *)
THEOREM EngineResults == Spec => []ResultsReachTheirCallSite
<1>1. WaitInv => ResultsReachTheirCallSite
  BY DEF WaitInv
<1> QED BY <1>1, EngineWaits, PTL
===============================================================================
