---------------------------- MODULE UnwinderProofs ----------------------------
(***************************************************************************)
(* Code that a verifier accepts (FrameShapes) is executed safely by        *)
(* Unwinder: whatever the world answers, however often it is asked, and    *)
(* for programs of any length and nesting.                                 *)
(*                                                                         *)
(* The invariant: some shape of the program's set describes the frame as   *)
(* it is, exactly for the blocks and slot by slot for the values.          *)
(***************************************************************************)
EXTENDS FrameShapes, TLAPS

\* Each program has a set of shapes that passes the check.
ProgramsVerified == \A p \in Programs : \E shapes : Verified(p.code, shapes)

Shapes == CHOOSE shapes : Verified(prog.code, shapes)

-------------------------------------------------------------------------------
(* The invariant.                                                          *)

FrameIs(a) == blocks = a.blocks /\ SlotsHold(a.slots, stack)

\* A running frame is at one of its shapes; in the middle of unwinding, the
\* value on its way is what the shape says.
RunsInShape ==
    status = "running" =>
        \E a \in Shapes :
            /\ FrameIs(a) /\ a.why = why
            /\ why = WhyNot => a.at = lasti
            /\ why \in {WhyReturn, WhyContinue} => Is(a.ret, retval)

\* A paused frame has a shape to go on in whatever the host answers: a result,
\* or an error, which is named by the call that was logged last.
PausesInShape ==
    status = "paused" =>
        /\ why = WhyNot
        /\ log # <<>> /\ log[Len(log)] # 0
        /\ \E slots \in Seq(Slot) :
            /\ SlotsHold(slots, stack)
            /\ Runs(lasti, blocks, Append(slots, V("int", 0))) \in Shapes
            /\ Raises(blocks, slots) \in Shapes

EndsEmpty == status \in {"returned", "raised"} => blocks = <<>>

\* An exception is being raised exactly when the frame unwinds for it.
RaisesWhy ==
    /\ curexc = Info(curexc.type)
    /\ status \in {"running", "paused"} => (IsSet(curexc) <=> why = WhyException)

HandlesOnly == exc = Info(exc.type) /\ (IsSet(exc) => Handles(blocks))

ShapeInv ==
    /\ TypeOK /\ prog \in Programs
    /\ RunsInShape /\ PausesInShape /\ EndsEmpty
    /\ RaisesWhy /\ HandlesOnly

-------------------------------------------------------------------------------
(* Slots and stacks.                                                       *)

USE DEF None, Nil, V, NoExc, Named, Something, Anything, Raised, Kept, Clear,
        WhyNot, WhyException, WhyReturn, WhyBreak, WhyContinue, WhyYield,
        WhySilenced

\* What a slot says of a value still holds when others are pushed or popped
\* above it.
LEMMA SlotsPopped ==
    ASSUME NEW slots \in Seq(Slot), NEW s \in Seq(Value), SlotsHold(slots, s),
           NEW n \in 0 .. Len(s)
    PROVE  SlotsHold(SubSeq(slots, 1, n), SubSeq(s, 1, n))
BY DEF SlotsHold, Holds, Is

LEMMA SlotsPushed ==
    ASSUME NEW slots \in Seq(Slot), NEW s \in Seq(Value), SlotsHold(slots, s),
           NEW slot \in Slot, NEW v \in Value, Holds(slot, Append(s, v), Len(s) + 1)
    PROVE  SlotsHold(Append(slots, slot), Append(s, v))
BY DEF SlotsHold, Holds, Is

LEMMA SlotsCut ==
    ASSUME NEW slots \in Seq(Slot), NEW s \in Seq(Value), SlotsHold(slots, s),
           NEW n \in 0 .. Len(s)
    PROVE  /\ SlotsHold(Cut(slots, n), SubSeq(s, 1, Len(s) - n))
           /\ Cut(slots, n) \in Seq(Slot)
           /\ SubSeq(s, 1, Len(s) - n) \in Seq(Value)
<1>1. Len(slots) = Len(s) /\ Len(s) - n \in 0 .. Len(s)
  BY DEF SlotsHold
<1> QED
  BY <1>1, SlotsPopped DEF Cut

\* Popping n values and pushing one that a slot of its own describes.
LEMMA SlotsReplaced ==
    ASSUME NEW slots \in Seq(Slot), NEW s \in Seq(Value), SlotsHold(slots, s),
           NEW n \in 0 .. Len(s), NEW slot \in Slot, NEW v \in Value,
           Is(slot, v), slot.is \notin {"raised", "kept", "clear"}
    PROVE  /\ SlotsHold(Append(Cut(slots, n), slot),
                        Append(SubSeq(s, 1, Len(s) - n), v))
           /\ Append(SubSeq(s, 1, Len(s) - n), v) \in Seq(Value)
<1> DEFINE c == Cut(slots, n)
           t == SubSeq(s, 1, Len(s) - n)
<1>1. SlotsHold(c, t) /\ c \in Seq(Slot) /\ t \in Seq(Value)
  BY SlotsCut
<1>2. Holds(slot, Append(t, v), Len(t) + 1)
  BY <1>1 DEF Holds
<1>3. SlotsHold(Append(c, slot), Append(t, v))
  BY <1>1, <1>2, SlotsPushed
<1> QED
  BY <1>1, <1>3

LEMMA SubSeqLen ==
    ASSUME NEW S, NEW s \in Seq(S), NEW n \in 0 .. Len(s)
    PROVE  /\ Len(SubSeq(s, 1, n)) = n /\ SubSeq(s, 1, n) \in Seq(S)
           /\ \A i \in 1 .. n : SubSeq(s, 1, n)[i] = s[i]
OBVIOUS

LEMMA WholeSeq ==
    ASSUME NEW S, NEW s \in Seq(S) PROVE SubSeq(s, 1, Len(s)) = s
OBVIOUS

LEMMA LastReplaced ==
    ASSUME NEW S, NEW s \in Seq(S), Len(s) >= 1
    PROVE  Append(SubSeq(s, 1, Len(s) - 1), s[Len(s)]) = s
OBVIOUS

LEMMA SubSeqValues ==
    ASSUME NEW S, NEW s \in Seq(S), NEW m \in 1 .. Len(s) + 1, NEW n \in 0 .. Len(s), m <= n + 1
    PROVE  /\ Len(SubSeq(s, m, n)) = n - m + 1 /\ SubSeq(s, m, n) \in Seq(S)
           /\ \A i \in 1 .. n - m + 1 : SubSeq(s, m, n)[i] = s[m + i - 1]
OBVIOUS

LEMMA ConcatValues == ASSUME NEW S, NEW s \in Seq(S), NEW t \in Seq(S)
    PROVE /\ s \o t \in Seq(S) /\ Len(s \o t) = Len(s) + Len(t)
         /\ \A i \in 1 .. Len(s) + Len(t) : (s \o t)[i] = IF i <= Len(s) THEN s[i] ELSE t[i - Len(s)]
OBVIOUS

LEMMA RemoveAtValues ==
    ASSUME NEW S, NEW s \in Seq(S), NEW i \in 1 .. Len(s)
    PROVE  /\ RemoveAt(s, i) \in Seq(S) /\ Len(RemoveAt(s, i)) = Len(s) - 1
           /\ \A k \in 1 .. Len(s) - 1 :
                RemoveAt(s, i)[k] = IF k < i THEN s[k] ELSE s[k + 1]
<1> DEFINE a == SubSeq(s, 1, i - 1)
           b == SubSeq(s, i + 1, Len(s))
<1>1. /\ a \in Seq(S) /\ Len(a) = i - 1
      /\ \A k \in 1 .. i - 1 : a[k] = s[k]
  <2>1. 1 \in 1 .. Len(s) + 1 /\ i - 1 \in 0 .. Len(s) /\ 1 <= (i - 1) + 1
    OBVIOUS
  <2> QED
    BY <2>1, SubSeqValues
<1>2. /\ b \in Seq(S) /\ Len(b) = Len(s) - i
      /\ \A k \in 1 .. Len(s) - i : b[k] = s[i + k]
  <2>1. i + 1 \in 1 .. Len(s) + 1 /\ Len(s) \in 0 .. Len(s) /\ i + 1 <= Len(s) + 1
    OBVIOUS
  <2> QED
    BY <2>1, SubSeqValues
<1>3. RemoveAt(s, i) = a \o b
  BY DEF RemoveAt
<1> HIDE DEF a, b
<1>4. /\ a \o b \in Seq(S) /\ Len(a \o b) = Len(a) + Len(b)
      /\ \A k \in 1 .. Len(a) + Len(b) :
            (a \o b)[k] = IF k <= Len(a) THEN a[k] ELSE b[k - Len(a)]
  BY <1>1, <1>2, ConcatValues
<1>5. ASSUME NEW k \in 1 .. Len(s) - 1
      PROVE  (a \o b)[k] = IF k < i THEN s[k] ELSE s[k + 1]
  <2>1. (a \o b)[k] = IF k < i THEN a[k] ELSE b[k - (i - 1)]
    BY <1>1, <1>2, <1>4
  <2>2. CASE k < i
    BY <1>1, <2>1, <2>2
  <2>3. CASE ~(k < i)
    <3>1. PICK j \in 1 .. Len(s) - i : j = k - (i - 1)
      BY <2>3
    <3>2. i + j = k + 1
      BY <3>1
    <3>3. b[j] = s[i + j]
      BY <1>2
    <3>4. (a \o b)[k] = b[j]
      BY <2>1, <2>3, <3>1
    <3> QED
      BY <2>3, <3>2, <3>3, <3>4
  <2> QED
    BY <2>2, <2>3
<1> QED
  BY <1>1, <1>2, <1>3, <1>4, <1>5

\* The values of s \o t, for tuples t: what SMT finds only one after the other.
LEMMA FourMoreValues ==
    ASSUME NEW S, NEW s \in Seq(S), NEW a \in S, NEW b \in S, NEW c \in S,
           NEW d \in S
    PROVE  /\ s \o <<a, b, c, d>> \in Seq(S)
           /\ Len(s \o <<a, b, c, d>>) = Len(s) + 4
           /\ \A k \in 1 .. Len(s) : (s \o <<a, b, c, d>>)[k] = s[k]
           /\ (s \o <<a, b, c, d>>)[Len(s) + 1] = a
           /\ (s \o <<a, b, c, d>>)[Len(s) + 2] = b
           /\ (s \o <<a, b, c, d>>)[Len(s) + 3] = c
           /\ (s \o <<a, b, c, d>>)[Len(s) + 4] = d
OBVIOUS

LEMMA ThreeMoreValues ==
    ASSUME NEW S, NEW s \in Seq(S), NEW a \in S, NEW b \in S, NEW c \in S
    PROVE  /\ s \o <<a, b, c>> \in Seq(S)
           /\ Len(s \o <<a, b, c>>) = Len(s) + 3
           /\ \A k \in 1 .. Len(s) : (s \o <<a, b, c>>)[k] = s[k]
           /\ (s \o <<a, b, c>>)[Len(s) + 1] = a
           /\ (s \o <<a, b, c>>)[Len(s) + 2] = b
           /\ (s \o <<a, b, c>>)[Len(s) + 3] = c
OBVIOUS

LEMMA NotEmpty ==
    ASSUME NEW S, NEW s \in Seq(S)
    PROVE  /\ s # <<>> <=> Len(s) >= 1
           /\ s # <<>> => Last(s) = s[Len(s)] /\ Last(s) \in S
                          /\ Front(s) = SubSeq(s, 1, Len(s) - 1)
                          /\ Front(s) \in Seq(S) /\ Len(Front(s)) = Len(s) - 1
<1>1. s # <<>> <=> Len(s) >= 1
  OBVIOUS
<1>2. ASSUME Len(s) >= 1
      PROVE  /\ Last(s) = s[Len(s)] /\ Last(s) \in S
             /\ Front(s) = SubSeq(s, 1, Len(s) - 1)
             /\ Front(s) \in Seq(S)
  BY <1>2 DEF Last, Front
<1>3. ASSUME Len(s) >= 1
      PROVE  Len(Front(s)) = Len(s) - 1
  <2>1. Len(s) - 1 \in 0 .. Len(s)
    BY <1>3
  <2>2. Len(SubSeq(s, 1, Len(s) - 1)) = Len(s) - 1
    BY <2>1, SubSeqLen
  <2> QED
    BY <2>2 DEF Front
<1> QED
  BY <1>1, <1>2, <1>3

-------------------------------------------------------------------------------
(* Shapes of the program, and what they say at an instruction.             *)

LEMMA ShapesVerified ==
    ASSUME ProgramsVerified, prog \in Programs
    PROVE  Verified(prog.code, Shapes)
BY DEF ProgramsVerified, Shapes

LEMMA ShapesKept == ASSUME prog' = prog PROVE Shapes' = Shapes
BY DEF Shapes

\* What the shape at an instruction gives its opcode.
Here(slots) ==
    /\ slots \in Seq(Slot) /\ SlotsHold(slots, stack)
    /\ Nested(blocks, slots)
    /\ Accepts(Instr.op, Arg, blocks, slots)
    /\ Steps(Instr.op, Arg, lasti, blocks, slots) \subseteq Shapes

LEMMA AtInstruction ==
    ASSUME ProgramsVerified, ShapeInv, status = "running", why = WhyNot
    PROVE  /\ lasti < Len(prog.code) /\ Instr \in Instruction
           /\ \E slots : Here(slots)
<1>1. Verified(prog.code, Shapes)
  BY ShapesVerified DEF ShapeInv
<1>2. PICK a \in Shapes : FrameIs(a) /\ a.why = why /\ a.at = lasti
  BY DEF ShapeInv, RunsInShape
<1>3. /\ a \in Shape /\ Lawful(prog.code, a) /\ Leads(prog.code, a) \subseteq Shapes
  BY <1>1 DEF Verified
<1>4. lasti < Len(prog.code) /\ Instr \in Instruction
  <2>1. lasti < Len(prog.code) /\ lasti \in Nat
    BY <1>2, <1>3 DEF Lawful, ShapeInv, TypeOK
  <2>2. prog.code \in Seq(Instruction)
    BY CodeIsCode DEF ShapeInv
  <2> QED
    BY <2>1, <2>2 DEF Instr
<1>5. Here(a.slots)
  <2>1. a.slots \in Seq(Slot) /\ SlotsHold(a.slots, stack)
    BY <1>2, <1>3 DEF Shape, FrameIs
  <2>2. Nested(blocks, a.slots) /\ Accepts(Instr.op, Arg, blocks, a.slots)
    BY <1>2, <1>3 DEF Lawful, FrameIs, Instr, Arg
  <2>3. Steps(Instr.op, Arg, lasti, blocks, a.slots) \subseteq Shapes
    BY <1>2, <1>3 DEF Leads, FrameIs, Instr, Arg
  <2> QED
    BY <2>1, <2>2, <2>3 DEF Here
<1> QED
  BY <1>4, <1>5

\* A step to a shape of the program keeps the invariant: one that goes on,
LEMMA RunsOn ==
    ASSUME ProgramsVerified, ShapeInv, status' = "running", prog' = prog,
           why' = WhyNot,
           NEW slots, Runs(lasti', blocks', slots) \in Shapes,
           SlotsHold(slots, stack'), stack' \in Seq(Value),
           retval' \in Value, log' \in Seq(Nat),
           answers' \in Seq(0 .. 2), Len(answers') <= MaxAnswers,
           curexc' = NoExc,
           exc' \in Exception, HandlesOnly'
    PROVE  ShapeInv'
<1>0. PICK a : a = Runs(lasti', blocks', slots)
  OBVIOUS
<1>1. a \in Shape
  BY <1>0, ShapesVerified DEF Verified, ShapeInv
<1>2. lasti' \in Nat /\ blocks' \in Seq(Block)
  BY <1>0, <1>1 DEF Runs, Shape
<1>3. TypeOK'
  BY <1>2 DEF TypeOK, Info, Exception
<1>4. RunsInShape'
  <2>1. a \in Shapes'
    BY <1>0, ShapesKept
  <2>2. FrameIs(a)'
    BY <1>0 DEF FrameIs, Runs
  <2>3. a.why = why' /\ a.at = lasti'
    BY <1>0 DEF Runs
  <2> QED
    BY <2>1, <2>2, <2>3 DEF RunsInShape
<1>5. RaisesWhy'
  BY DEF RaisesWhy, Info, IsSet
<1> QED
  BY <1>3, <1>4, <1>5 DEF ShapeInv, PausesInShape, EndsEmpty

\* and one that unwinds.
LEMMA UnwindsOn ==
    ASSUME ProgramsVerified, ShapeInv, status' = "running", prog' = prog,
           why' \in {WhyException, WhyReturn, WhyBreak, WhyContinue},
           NEW slots, NEW ret, Unwinds(why', ret, blocks', slots) \in Shapes,
           why' \in {WhyReturn, WhyContinue} => Is(ret, retval'),
           lasti' \in Nat, SlotsHold(slots, stack'), stack' \in Seq(Value),
           retval' \in Value, log' \in Seq(Nat),
           answers' \in Seq(0 .. 2), Len(answers') <= MaxAnswers,
           curexc' \in Exception, RaisesWhy',
           exc' \in Exception, HandlesOnly'
    PROVE  ShapeInv'
<1>0. PICK a : a = Unwinds(why', ret, blocks', slots)
  OBVIOUS
<1>1. a \in Shape
  BY <1>0, ShapesVerified DEF Verified, ShapeInv
<1>2. blocks' \in Seq(Block)
  BY <1>0, <1>1 DEF Unwinds, Shape
<1>3. TypeOK'
  BY <1>2 DEF TypeOK
<1>4. RunsInShape'
  <2>1. a \in Shapes'
    BY <1>0, ShapesKept
  <2>2. FrameIs(a)'
    BY <1>0 DEF FrameIs, Unwinds
  <2>3. a.why = why' /\ a.ret = ret
    BY <1>0 DEF Unwinds
  <2> QED
    BY <2>1, <2>2, <2>3 DEF RunsInShape
<1> QED
  BY <1>3, <1>4 DEF ShapeInv, PausesInShape, EndsEmpty

\* An opcode that leaves the Vm alone has only the stacks to answer for.
LEMMA MovesOn ==
    ASSUME ProgramsVerified, ShapeInv, status = "running", why = WhyNot,
           UNCHANGED <<prog, vmVars, status>>,
           NEW slots, Runs(lasti', blocks', slots) \in Shapes,
           SlotsHold(slots, stack'), stack' \in Seq(Value),
           log' \in Seq(Nat),
           answers' \in Seq(0 .. 2), Len(answers') <= MaxAnswers,
           Handles(blocks) => Handles(blocks')
    PROVE  ShapeInv'
<1>1. curexc = NoExc
  BY DEF ShapeInv, RaisesWhy, IsSet, Info
<1>2. curexc' = NoExc /\ why' = WhyNot /\ status' = "running" /\ prog' = prog
  BY <1>1 DEF vmVars
<1>3. retval' \in Value /\ exc' \in Exception
  BY DEF ShapeInv, TypeOK, vmVars
<1>4. HandlesOnly'
  BY DEF ShapeInv, HandlesOnly, vmVars, Info, IsSet
<1> QED
  BY <1>2, <1>3, <1>4, RunsOn

LEMMA AnswersTyped ==
    ASSUME TypeOK, NEW a \in 0 .. 2, NEW choices, Answer(a, choices)
    PROVE  answers' \in Seq(0 .. 2) /\ Len(answers') <= MaxAnswers
<1>1. answers \in Seq(0 .. 2) /\ Len(answers) <= MaxAnswers
  BY DEF TypeOK
<1>2. CASE Len(answers) < MaxAnswers
  <2>1. answers' = Append(answers, a)
    BY <1>2 DEF Answer
  <2>2. answers' \in Seq(0 .. 2) /\ Len(answers') = Len(answers) + 1
    BY <1>1, <2>1
  <2> QED
    BY <1>2, <2>2, AnswersBound
<1>3. CASE ~(Len(answers) < MaxAnswers)
  BY <1>1, <1>3 DEF Answer
<1> QED
  BY <1>2, <1>3

\* The stack under n values, and the stack with one more, as the shape sees it.
LEMMA BelowHolds ==
    ASSUME ShapeInv, NEW slots, Here(slots), NEW n \in Nat, n <= Depth
    PROVE  /\ SlotsHold(Cut(slots, n), Below(n))
           /\ Below(n) \in Seq(Value) /\ Cut(slots, n) \in Seq(Slot)
<1>1. stack \in Seq(Value) /\ n \in 0 .. Len(stack)
  BY DEF ShapeInv, TypeOK, Depth
<1> QED
  BY <1>1, SlotsCut DEF Here, Below, Depth

LEMMA PushedHolds ==
    ASSUME ShapeInv, NEW slots, Here(slots),
           NEW slot \in Slot, NEW v \in Value,
           Is(slot, v), slot.is \notin {"raised", "kept", "clear"}
    PROVE  /\ SlotsHold(Append(slots, slot), Append(stack, v))
           /\ Append(stack, v) \in Seq(Value)
<1>1. stack \in Seq(Value)
  BY DEF ShapeInv, TypeOK
<1>2. Append(stack, v)[Len(stack) + 1] = v /\ Append(stack, v) \in Seq(Value)
  BY <1>1
<1>3. Holds(slot, Append(stack, v), Len(stack) + 1)
  BY <1>2 DEF Holds
<1> QED
  BY <1>1, <1>2, <1>3, SlotsPushed DEF Here

\* The values an opcode finds, one by one.
LEMMA FoundValues ==
    ASSUME ShapeInv, NEW slots, Here(slots)
    PROVE  /\ stack \in Seq(Value) /\ Len(slots) = Depth /\ Depth \in Nat
           /\ \A k \in 1 .. Depth : stack[k] \in Value /\ Holds(slots[k], stack, k)
           /\ Depth >= 1 => /\ Top \in Value /\ Top.n \in Nat
                            /\ Holds(LastSlot(slots), stack, Depth)
<1>1. stack \in Seq(Value) /\ Len(slots) = Depth /\ Depth \in Nat
  BY DEF ShapeInv, TypeOK, Here, SlotsHold, Depth
<1>2. \A k \in 1 .. Depth : stack[k] \in Value /\ Holds(slots[k], stack, k)
  BY <1>1 DEF Here, SlotsHold, Depth
<1>3. Depth >= 1 => Top \in Value /\ Holds(LastSlot(slots), stack, Depth)
  BY <1>1, <1>2 DEF Top, LastSlot
<1>4. Depth >= 1 => Top.n \in Nat
  BY <1>3 DEF Value
<1> QED
  BY <1>1, <1>2, <1>3, <1>4

-------------------------------------------------------------------------------
(* Opcodes that move values.                                               *)

LEMMA LoadKeeps ==
    ASSUME ProgramsVerified, ShapeInv, LoadConst \/ LoadName
    PROVE  ShapeInv'
<1>1. status = "running" /\ why = WhyNot
  BY DEF LoadConst, LoadName, At, Fetching
<1>2. PICK slots : Here(slots)
  BY <1>1, AtInstruction
<1>3. Arg \in Nat
  BY <1>1, AtInstruction DEF Instruction, Arg
<1>4. PICK slot \in Slot, v \in Value :
        /\ Runs(lasti + 1, blocks, Append(slots, slot)) \in Shapes
        /\ stack' = Append(stack, v)
        /\ Is(slot, v) /\ slot.is \notin {"raised", "kept", "clear"}
  <2>1. CASE LoadConst
    <3> DEFINE w == IF Arg = 0 THEN None ELSE V("int", Arg)
    <3>1. w \in Slot /\ w \in Value /\ Is(w, w) /\ w.is \notin {"raised", "kept", "clear"}
      BY <1>3 DEF Slot, Value, Kinds, Is, Solid
    <3>2. Runs(lasti + 1, blocks, Append(slots, w)) \in Shapes
      BY <1>2, <2>1 DEF Here, Steps, LoadConst, At
    <3> QED
      BY <2>1, <3>1, <3>2 DEF LoadConst
  <2>2. CASE LoadName
    <3> DEFINE w == IF Arg = 0 THEN Something ELSE Named
    <3>1. w \in Slot /\ V("obj", Arg) \in Value /\ Is(w, V("obj", Arg))
          /\ w.is \notin {"raised", "kept", "clear"}
      BY <1>3 DEF Slot, Value, Kinds, Is, Solid
    <3>2. Runs(lasti + 1, blocks, Append(slots, w)) \in Shapes
      BY <1>2, <2>2 DEF Here, Steps, LoadName, At
    <3> QED
      BY <2>2, <3>1, <3>2 DEF LoadName
  <2> QED
    BY <2>1, <2>2
<1>5. SlotsHold(Append(slots, slot), stack') /\ stack' \in Seq(Value)
  BY <1>2, <1>4, PushedHolds
<1>6. /\ UNCHANGED <<prog, vmVars, status, blocks, world>> /\ lasti' = lasti + 1
  BY DEF LoadConst, LoadName, Step, Goto
<1> QED
  BY <1>1, <1>4, <1>5, <1>6, MovesOn DEF world, ShapeInv, TypeOK

\* StoreName, PopTop and DeleteName.
LEMMA DropKeeps ==
    ASSUME ProgramsVerified, ShapeInv, StoreName \/ PopTop
    PROVE  ShapeInv'
<1>1. status = "running" /\ why = WhyNot
  BY DEF StoreName, PopTop, Ready, At, Fetching
<1>2. PICK slots : Here(slots)
  BY <1>1, AtInstruction
<1>3. stack \in Seq(Value) /\ Len(stack) >= 1
  BY <1>2 DEF Here, Accepts, SlotsHold, StoreName, PopTop, Ready, At, ShapeInv, TypeOK
<1>4. Runs(lasti + 1, blocks, Cut(slots, 1)) \in Shapes
  BY <1>2 DEF Here, Steps, StoreName, PopTop, Ready, At
<1>5. SlotsHold(Cut(slots, 1), stack') /\ stack' \in Seq(Value)
  BY <1>2, <1>3, BelowHolds DEF Depth, StoreName, PopTop
<1>6. log' \in Seq(Nat)
  <2>1. Top \in Value
    BY <1>3 DEF Top, Depth
  <2>2. Top.n \in Nat
    BY <2>1 DEF Value
  <2>3. log \in Seq(Nat)
    BY DEF ShapeInv, TypeOK
  <2>4. log' = log \/ log' = Append(log, Top.n)
    BY DEF StoreName, PopTop, world
  <2> QED
    BY <2>2, <2>3, <2>4
<1>7. UNCHANGED <<prog, vmVars, status, blocks, answers>> /\ lasti' = lasti + 1
  BY DEF StoreName, PopTop, Step, Goto, world
<1> QED
  BY <1>1, <1>4, <1>5, <1>6, <1>7, MovesOn DEF ShapeInv, TypeOK

LEMMA DeleteNameKeeps ==
    ASSUME ProgramsVerified, ShapeInv, DeleteName
    PROVE  ShapeInv'
<1>1. status = "running" /\ why = WhyNot
  BY DEF DeleteName, At, Fetching
<1>2. PICK slots : Here(slots)
  BY <1>1, AtInstruction
<1>3. Runs(lasti + 1, blocks, slots) \in Shapes
  BY <1>2 DEF Here, Steps, DeleteName, At
<1>4. UNCHANGED <<prog, vmVars, status, stack, blocks, world>> /\ lasti' = lasti + 1
  BY DEF DeleteName, Step, Goto
<1> QED
  BY <1>1, <1>2, <1>3, <1>4, MovesOn DEF Here, world, ShapeInv, TypeOK

\* A copy of the type of an exception can be raised like any named value.
LEMMA DupTopKeeps ==
    ASSUME ProgramsVerified, ShapeInv, DupTop
    PROVE  ShapeInv'
<1>1. status = "running" /\ why = WhyNot
  BY DEF DupTop, Ready, At, Fetching
<1>2. PICK slots : Here(slots)
  BY <1>1, AtInstruction
<1>3. stack \in Seq(Value) /\ Len(stack) >= 1 /\ Len(slots) = Depth
  BY <1>2 DEF Here, Accepts, SlotsHold, DupTop, Ready, At, ShapeInv, TypeOK, Depth
<1> DEFINE slot == IF LastSlot(slots) \in {Named, Raised} THEN Named ELSE Anything
<1>4. Runs(lasti + 1, blocks, Append(slots, slot)) \in Shapes
  BY <1>2 DEF Here, Steps, DupTop, Ready, At
<1>5. slot \in Slot /\ slot.is \notin {"raised", "kept", "clear"}
  BY DEF Slot
<1>6. Top \in Value /\ Is(slot, Top)
  <2>1. Holds(LastSlot(slots), stack, Depth)
    BY <1>2, <1>3 DEF Here, SlotsHold, LastSlot, Depth
  <2>2. LastSlot(slots) = Named => Top # Nil /\ Top.n # 0
    BY <2>1 DEF Holds, Is, Solid, Top
  <2>3. LastSlot(slots) = Raised => Top # Nil /\ Top.n # 0
    BY <2>1 DEF Holds, Top, TypeEntry
  <2> QED
    BY <1>3, <2>2, <2>3 DEF Is, Solid, Top, Depth
<1>7. SlotsHold(Append(slots, slot), stack') /\ stack' \in Seq(Value)
  BY <1>2, <1>5, <1>6, PushedHolds DEF DupTop
<1>8. UNCHANGED <<prog, vmVars, status, blocks, world>> /\ lasti' = lasti + 1
  BY DEF DupTop, Step, Goto
<1> QED
  BY <1>1, <1>4, <1>7, <1>8, MovesOn DEF world, ShapeInv, TypeOK

\* CompareOp and GetIter put a value of their own in the place of others.
LEMMA ComputeKeeps ==
    ASSUME ProgramsVerified, ShapeInv, CompareOp \/ GetIter
    PROVE  ShapeInv'
<1>1. status = "running" /\ why = WhyNot
  BY DEF CompareOp, GetIter, Ready, At, Fetching
<1>2. PICK slots : Here(slots)
  BY <1>1, AtInstruction
<1>3. PICK n \in 1 .. 2 :
        /\ Depth >= n /\ Runs(lasti + 1, blocks, Append(Cut(slots, n), Something)) \in Shapes
        /\ \E v \in Value : stack' = Append(Below(n), v) /\ v # Nil
  <2>1. stack \in Seq(Value) /\ Len(slots) = Depth /\ slots \in Seq(Slot)
    BY <1>2 DEF Here, SlotsHold, ShapeInv, TypeOK, Depth
  <2>2. CASE CompareOp
    <3>1. Depth >= 2 /\ Runs(lasti + 1, blocks, Append(Cut(slots, 2), Something)) \in Shapes
      BY <1>2, <2>1, <2>2 DEF Here, Accepts, Steps, CompareOp, Ready, At
    <3>2. V("bool", 0) \in Value /\ V("bool", 1) \in Value
          /\ V("bool", 0) # Nil /\ V("bool", 1) # Nil
      BY DEF Value, Kinds
    <3>3. \E v \in Value : stack' = Append(Below(2), v) /\ v # Nil
      BY <2>2, <3>2 DEF CompareOp
    <3> QED
      BY <3>1, <3>3
  <2>3. CASE GetIter
    <3>1. Depth >= 1 /\ Runs(lasti + 1, blocks, Append(Cut(slots, 1), Something)) \in Shapes
      BY <1>2, <2>1, <2>3 DEF Here, Accepts, Steps, GetIter, Ready, At
    <3>2. V("iter", Top.n) \in Value /\ V("iter", Top.n) # Nil
      <4>1. Top \in Value
        BY <2>1, <3>1 DEF Top, Depth
      <4> QED
        BY <4>1 DEF Value, Kinds
    <3> QED
      BY <2>3, <3>1, <3>2 DEF GetIter
  <2> QED
    BY <2>2, <2>3
<1>4. Something \in Slot /\ Something.is \notin {"raised", "kept", "clear"}
      /\ \A v \in Value : v # Nil => Is(Something, v)
  BY DEF Slot, Is, Solid
<1>5. SlotsHold(Append(Cut(slots, n), Something), stack') /\ stack' \in Seq(Value)
  <2>1. n \in 0 .. Len(stack) /\ stack \in Seq(Value)
    BY <1>3 DEF Depth, ShapeInv, TypeOK
  <2> QED
    BY <1>2, <1>3, <1>4, <2>1, SlotsReplaced DEF Here, Below, Depth
<1>6. UNCHANGED <<prog, vmVars, status, blocks, world>> /\ lasti' = lasti + 1
  BY DEF CompareOp, GetIter, Step, Goto
<1> QED
  BY <1>1, <1>3, <1>5, <1>6, MovesOn DEF world, ShapeInv, TypeOK

\* An iterator has another item, or the loop is left with it.
LEMMA ForIterKeeps ==
    ASSUME ProgramsVerified, ShapeInv, ForIter
    PROVE  ShapeInv'
<1>1. status = "running" /\ why = WhyNot
  BY DEF ForIter, Ready, At, Fetching
<1>2. PICK slots : Here(slots)
  BY <1>1, AtInstruction
<1>3. Depth >= 1 /\ Depth \in Nat
  BY <1>2, FoundValues DEF Here, Accepts, ForIter, Ready, At
<1>4. /\ Runs(lasti + 1, blocks, Append(slots, V("int", 0))) \in Shapes
      /\ Runs(lasti + 1 + Arg, blocks, Cut(slots, 1)) \in Shapes
  BY <1>2 DEF Here, Steps, ForIter, Ready, At
<1>5. /\ SlotsHold(Append(slots, V("int", 0)), Append(stack, V("int", 0)))
      /\ Append(stack, V("int", 0)) \in Seq(Value)
  <2>1. V("int", 0) \in Slot /\ V("int", 0) \in Value /\ Is(V("int", 0), V("int", 0))
    BY DEF Slot, Value, Kinds, Is, Solid
  <2> QED
    BY <1>2, <2>1, PushedHolds
<1>6. SlotsHold(Cut(slots, 1), Below(1)) /\ Below(1) \in Seq(Value)
  BY <1>2, <1>3, BelowHolds
<1>7. UNCHANGED <<prog, blocks, vmVars, status, log>>
  BY DEF ForIter
<1>8. answers' \in Seq(0 .. 2) /\ Len(answers') <= MaxAnswers
  BY AnswersTyped DEF ForIter, ShapeInv
<1>9. \/ stack' = Append(stack, V("int", 0)) /\ lasti' = lasti + 1
      \/ stack' = Below(1) /\ lasti' = lasti + 1 + Arg
  BY DEF ForIter, Step, Goto
<1> QED
  BY <1>1, <1>4, <1>5, <1>6, <1>7, <1>8, <1>9, MovesOn DEF ShapeInv, TypeOK

-------------------------------------------------------------------------------
(* Jumps and blocks.                                                       *)

LEMMA JumpKeeps ==
    ASSUME ProgramsVerified, ShapeInv, JumpForward \/ JumpAbsolute
    PROVE  ShapeInv'
<1>1. status = "running" /\ why = WhyNot
  BY DEF JumpForward, JumpAbsolute, At, Fetching
<1>2. PICK slots : Here(slots)
  BY <1>1, AtInstruction
<1>3. Runs(lasti', blocks, slots) \in Shapes
  <2>1. CASE JumpForward
    BY <1>2, <2>1 DEF Here, Steps, JumpForward, At, Goto
  <2>2. CASE JumpAbsolute
    BY <1>2, <2>2 DEF Here, Steps, JumpAbsolute, At, Goto
  <2> QED
    BY <2>1, <2>2
<1>4. UNCHANGED <<prog, stack, blocks, vmVars, status, world>>
  BY DEF JumpForward, JumpAbsolute
<1> QED
  BY <1>1, <1>2, <1>3, <1>4, MovesOn DEF Here, world, ShapeInv, TypeOK

LEMMA PopJumpIfFalseKeeps ==
    ASSUME ProgramsVerified, ShapeInv, PopJumpIfFalse
    PROVE  ShapeInv'
<1>1. status = "running" /\ why = WhyNot
  BY DEF PopJumpIfFalse, Ready, At, Fetching
<1>2. PICK slots : Here(slots)
  BY <1>1, AtInstruction
<1>3. Depth >= 1
  BY <1>2, FoundValues DEF Here, Accepts, PopJumpIfFalse, Ready, At
<1>4. Runs(lasti', blocks, Cut(slots, 1)) \in Shapes
  BY <1>2 DEF Here, Steps, PopJumpIfFalse, Ready, At, Goto
<1>5. SlotsHold(Cut(slots, 1), stack') /\ stack' \in Seq(Value)
  BY <1>2, <1>3, BelowHolds DEF PopJumpIfFalse
<1>6. answers' \in Seq(0 .. 2) /\ Len(answers') <= MaxAnswers
  <2>1. PICK truth \in 0 .. 1 :
            IF Top.is = "bool" THEN truth = Top.n /\ UNCHANGED answers
                               ELSE Answer(truth, {0, 1})
    BY DEF PopJumpIfFalse
  <2>2. CASE UNCHANGED answers
    BY <2>2 DEF ShapeInv, TypeOK
  <2>3. CASE Answer(truth, {0, 1})
    BY <2>3, AnswersTyped DEF ShapeInv
  <2> QED
    BY <2>1, <2>2, <2>3
<1>7. UNCHANGED <<prog, blocks, vmVars, status, log>>
  BY DEF PopJumpIfFalse
<1> QED
  BY <1>1, <1>4, <1>5, <1>6, <1>7, MovesOn DEF ShapeInv, TypeOK

LEMMA HandlesMore ==
    ASSUME NEW bs \in Seq(Block), NEW b
    PROVE  /\ Handles(bs) => Handles(Append(bs, b))
           /\ b.type = "handler" => Handles(Append(bs, b))
<1>1. /\ Len(Append(bs, b)) = Len(bs) + 1
      /\ Append(bs, b)[Len(bs) + 1] = b
      /\ \A i \in 1 .. Len(bs) : Append(bs, b)[i] = bs[i]
  OBVIOUS
<1> QED
  BY <1>1 DEF Handles

\* Without its last block, unless that is a handler, a block stack handles what
\* it did; and what the blocks below handle, the whole handles.
LEMMA HandlesFront ==
    ASSUME NEW bs \in Seq(Block), Len(bs) >= 1
    PROVE  /\ Handles(Front(bs)) => Handles(bs)
           /\ Handles(bs) /\ Last(bs).type # "handler" => Handles(Front(bs))
<1>1. Len(bs) - 1 \in 0 .. Len(bs) /\ Front(bs) = SubSeq(bs, 1, Len(bs) - 1)
      /\ Last(bs) = bs[Len(bs)]
  BY DEF Front, Last
<1>2. /\ Len(Front(bs)) = Len(bs) - 1
      /\ \A i \in 1 .. Len(bs) - 1 : Front(bs)[i] = bs[i]
  BY <1>1, SubSeqLen
<1>3. Handles(Front(bs)) => Handles(bs)
  BY <1>2 DEF Handles
<1>4. ASSUME Handles(bs), Last(bs).type # "handler" PROVE Handles(Front(bs))
  <2>1. PICK i \in 1 .. Len(bs) : bs[i].type = "handler"
    BY <1>4 DEF Handles
  <2>2. i \in 1 .. Len(bs) - 1
    BY <1>1, <1>4, <2>1
  <2> QED
    BY <1>2, <2>1, <2>2 DEF Handles
<1> QED
  BY <1>3, <1>4

LEMMA SetupKeeps ==
    ASSUME ProgramsVerified, ShapeInv, SetupLoop \/ SetupExcept \/ SetupFinally
    PROVE  ShapeInv'
<1>1. PICK op \in {"SETUP_LOOP", "SETUP_EXCEPT", "SETUP_FINALLY"},
           type \in {"loop", "except", "finally"} :
        /\ Setup(op, type)
        /\ type = IF op = "SETUP_LOOP" THEN "loop"
                  ELSE IF op = "SETUP_EXCEPT" THEN "except" ELSE "finally"
  BY DEF SetupLoop, SetupExcept, SetupFinally
<1>2. status = "running" /\ why = WhyNot /\ Instr.op = op
  BY <1>1 DEF Setup, At, Fetching
<1>3. PICK slots : Here(slots)
  BY <1>2, AtInstruction
<1>4. blocks' = Append(blocks, NewBlock(op, Arg, lasti, slots))
  BY <1>1, <1>3, FoundValues DEF Setup, PushBlock, NewBlock
<1>5. Runs(lasti + 1, blocks', slots) \in Shapes
  BY <1>2, <1>3, <1>4 DEF Here, Steps
<1>6. UNCHANGED <<prog, stack, vmVars, status, world>> /\ lasti' = lasti + 1
  BY <1>1 DEF Setup, Step, Goto
<1>7. Handles(blocks) => Handles(blocks')
  BY <1>4, HandlesMore DEF ShapeInv, TypeOK
<1> QED
  BY <1>2, <1>3, <1>5, <1>6, <1>7, MovesOn DEF Here, world, ShapeInv, TypeOK

LEMMA PopBlockKeeps ==
    ASSUME ProgramsVerified, ShapeInv, PopBlock
    PROVE  ShapeInv'
<1>1. status = "running" /\ why = WhyNot
  BY DEF PopBlock, Ready, At, Fetching
<1>2. PICK slots : Here(slots)
  BY <1>1, AtInstruction
<1>3. Runs(lasti + 1, blocks', slots) \in Shapes
  BY <1>2 DEF Here, Steps, PopBlock, Ready, At
<1>4. Len(blocks) >= 1 /\ Last(blocks).type # "handler"
  BY <1>2 DEF Here, Accepts, InHandler, PopBlock, Ready, At
<1>5. Handles(blocks) => Handles(blocks')
  BY <1>4, HandlesFront DEF PopBlock, ShapeInv, TypeOK
<1>6. UNCHANGED <<prog, stack, vmVars, status, world>> /\ lasti' = lasti + 1
  BY DEF PopBlock, Step, Goto
<1> QED
  BY <1>1, <1>2, <1>3, <1>5, <1>6, MovesOn DEF Here, world, ShapeInv, TypeOK

-------------------------------------------------------------------------------
(* Leaving a handler.                                                      *)

\* The exception a handler restores is the one its entries name.
LEMMA EntrySaved ==
    ASSUME NEW b, NEW s, NEW slot, slot.is \in {"kept", "clear"},
           Holds(slot, s, b.level + 3), b.level \in Nat
    PROVE  /\ Saved(b, s) = Info(s[b.level + 3].n)
           /\ s[b.level + 3].is \in {"none", "type"}
<1> DEFINE k == b.level + 3
<1>1. s[k] = TypeEntry(s[k].n) /\ s[b.level + 2] = Entry("exc", s[k].n)
      /\ s[b.level + 1] = Entry("tb", s[k].n)
  BY DEF Holds
<1>2. CASE s[k].n = 0
  <2>1. s[k].is = "none" /\ s[b.level + 2].n = 0 /\ s[b.level + 1].is = "nil"
    BY <1>1, <1>2 DEF TypeEntry, Entry
  <2> QED
    BY <1>2, <2>1 DEF Saved, Info
<1>3. CASE s[k].n # 0
  <2>1. /\ s[k].is = "type" /\ s[b.level + 2].n = s[k].n
        /\ s[b.level + 1].is = "tb" /\ s[b.level + 1].n = s[k].n
    BY <1>1, <1>3 DEF TypeEntry, Entry
  <2> QED
    BY <1>3, <2>1 DEF Saved, Info
<1> QED
  BY <1>2, <1>3

\* Where the saved exception of a handler block is found: it is whole, and an
\* exception only if the handler is in another.
LEMMA HandlerLeft ==
    ASSUME NEW bs \in Seq(Block), InHandler(bs),
           NEW slots \in Seq(Slot), NEW s \in Seq(Value), SlotsHold(slots, s),
           Held(Last(bs)) <= Len(s),
           slots[Held(Last(bs))] \in
                IF Handles(Front(bs)) THEN {Kept, Clear} ELSE {Clear}
    PROVE  /\ HandlerIntact(Last(bs), s)
           /\ Saved(Last(bs), s) \in Exception
           /\ Saved(Last(bs), s) = Info(Saved(Last(bs), s).type)
           /\ IsSet(Saved(Last(bs), s)) => Handles(Front(bs))
           /\ SlotsHold(SubSeq(slots, 1, Last(bs).level),
                        SubSeq(s, 1, Last(bs).level))
           /\ SubSeq(s, 1, Last(bs).level) \in Seq(Value)
<1> DEFINE b == Last(bs)
           k == b.level + 3
<1>1. b \in Block /\ b.type = "handler"
  BY NotEmpty DEF InHandler
<1>2. b.level \in Nat /\ Held(b) = k
  BY <1>1 DEF Block, Held
<1>3. k \in 3 .. Len(s)
  BY <1>2
<1>4. Holds(slots[k], s, k) /\ slots[k].is \in {"kept", "clear"}
      /\ (~Handles(Front(bs)) => slots[k].is = "clear")
  BY <1>2, <1>3 DEF SlotsHold
<1>5. s[k].n \in Nat
  <2>1. s[k] \in Value
    BY <1>3
  <2> QED
    BY <2>1 DEF Value
<1>6. /\ s[k] = TypeEntry(s[k].n) /\ s[b.level + 2] = Entry("exc", s[k].n)
      /\ s[b.level + 1] = Entry("tb", s[k].n)
      /\ slots[k].is = "clear" => s[k].n = 0
  BY <1>2, <1>4 DEF Holds
<1>7. Saved(b, s) = Info(s[k].n)
  BY <1>2, <1>4, EntrySaved
<1>8. b.level \in 0 .. Len(s)
  BY <1>2, <1>3
<1> QED
  BY <1>2, <1>3, <1>4, <1>5, <1>6, <1>7, <1>8, SlotsPopped
  DEF HandlerIntact, Exception, Info, IsSet

\* The same, of the frame's own stacks at an instruction.
LEMMA OwnHandlerLeft ==
    ASSUME ShapeInv, NEW slots, Here(slots), InHandler(blocks),
           NEW n \in Nat, n <= Depth, Held(Last(blocks)) <= Depth - n
    PROVE  /\ HandlerIntact(Last(blocks), Below(n))
           /\ Saved(Last(blocks), Below(n)) \in Exception
           /\ Saved(Last(blocks), Below(n)) = Info(Saved(Last(blocks), Below(n)).type)
           /\ IsSet(Saved(Last(blocks), Below(n))) => Handles(Front(blocks))
           /\ SlotsHold(SubSeq(slots, 1, Last(blocks).level),
                        SubSeq(stack, 1, Last(blocks).level))
           /\ SubSeq(stack, 1, Last(blocks).level) \in Seq(Value)
<1> DEFINE b == Last(blocks)
<1>1. blocks \in Seq(Block) /\ stack \in Seq(Value) /\ slots \in Seq(Slot)
      /\ SlotsHold(slots, stack) /\ Len(slots) = Len(stack)
  BY DEF ShapeInv, TypeOK, Here, SlotsHold
<1>2. b = blocks[Len(blocks)] /\ b \in Block /\ b.type = "handler"
      /\ Len(blocks) >= 1 /\ Front(blocks) = SubSeq(blocks, 1, Len(blocks) - 1)
  BY <1>1, NotEmpty DEF InHandler
<1>3. b.level \in Nat /\ Held(b) = b.level + 3
  BY <1>2 DEF Block, Held
<1>4. slots[Held(b)] \in IF Handles(Front(blocks)) THEN {Kept, Clear} ELSE {Clear}
  BY <1>2 DEF Here, Nested
<1>5. /\ Cut(slots, n) \in Seq(Slot) /\ Below(n) \in Seq(Value)
      /\ SlotsHold(Cut(slots, n), Below(n))
  BY BelowHolds
<1>6. Len(Below(n)) = Depth - n /\ Depth \in Nat
      /\ \A i \in 1 .. Depth - n : Cut(slots, n)[i] = slots[i]
  <2>1. Depth - n \in 0 .. Len(slots) /\ Depth = Len(stack) /\ Depth \in Nat
    BY <1>1 DEF Depth
  <2> QED
    BY <1>1, <2>1, SubSeqLen DEF Below, Cut
<1>7. Held(b) \in 1 .. Depth - n
  BY <1>3, <1>6
<1>8. Cut(slots, n)[Held(b)] = slots[Held(b)]
  BY <1>6, <1>7
<1>9. /\ HandlerIntact(b, Below(n))
      /\ Saved(b, Below(n)) \in Exception
      /\ Saved(b, Below(n)) = Info(Saved(b, Below(n)).type)
      /\ IsSet(Saved(b, Below(n))) => Handles(Front(blocks))
  BY <1>1, <1>4, <1>5, <1>6, <1>7, <1>8, HandlerLeft
<1>10. b.level \in 0 .. Len(stack)
  BY <1>3, <1>6, <1>7 DEF Depth
<1> QED
  BY <1>1, <1>9, <1>10, SlotsPopped, SubSeqLen

LEMMA PopExceptKeeps ==
    ASSUME ProgramsVerified, ShapeInv, PopExcept
    PROVE  ShapeInv'
<1>1. status = "running" /\ why = WhyNot
  BY DEF PopExcept, Ready, At, Fetching
<1>2. PICK slots : Here(slots)
  BY <1>1, AtInstruction
<1>3. InHandler(blocks)
  BY <1>2 DEF Here, Accepts, PopExcept, Ready, At
<1>4. blocks \in Seq(Block) /\ Len(blocks) >= 1 /\ Last(blocks) = blocks[Len(blocks)]
      /\ Last(blocks).type = "handler"
  BY <1>3, NotEmpty DEF ShapeInv, TypeOK, InHandler
<1>5. Below(0) = stack /\ Held(Last(blocks)) <= Depth
  <2>1. Depth \in Nat /\ Len(slots) = Depth /\ stack \in Seq(Value)
    BY <1>2, FoundValues
  <2>2. Held(Last(blocks)) <= Depth
    BY <1>2, <1>4, <2>1 DEF Here, Nested
  <2> QED
    BY <2>1, <2>2, WholeSeq DEF Below, Depth
<1>6. /\ exc' = Saved(Last(blocks), stack)
      /\ stack' = SubSeq(stack, 1, Last(blocks).level)
      /\ blocks' = Front(blocks) /\ lasti' = lasti + 1
      /\ UNCHANGED <<prog, retval, status, world, curexc, why>>
  BY <1>4 DEF PopExcept, UnwindExceptHandler, Step, Goto, NoRaise
<1>7. /\ exc' \in Exception /\ exc' = Info(exc'.type)
      /\ IsSet(exc') => Handles(blocks')
      /\ SlotsHold(SubSeq(slots, 1, Last(blocks).level), stack')
      /\ stack' \in Seq(Value)
  BY <1>2, <1>3, <1>5, <1>6, OwnHandlerLeft, FoundValues
<1>8. Runs(lasti', blocks', SubSeq(slots, 1, Last(blocks).level)) \in Shapes
  BY <1>2, <1>6 DEF Here, Steps, PopExcept, Ready, At
<1>9. curexc' = NoExc
  BY <1>1, <1>6 DEF ShapeInv, RaisesWhy, IsSet, Info
<1>10. HandlesOnly'
  BY <1>7 DEF HandlesOnly, IsSet
<1> QED
  BY <1>1, <1>6, <1>7, <1>8, <1>9, <1>10, RunsOn DEF world, ShapeInv, TypeOK

-------------------------------------------------------------------------------
(* The end of a finally clause.                                            *)

\* What END_FINALLY and WITH_CLEANUP find, as the shape has it.
LEMMA EntryFound ==
    ASSUME ShapeInv, NEW slots, Here(slots), Depth >= 1
    PROVE  /\ LastSlot(slots).is \in {"none", "int"} => LastSlot(slots) = Top
           /\ LastSlot(slots) = Raised =>
                /\ Depth >= 3 /\ Top.n \in Nat /\ Top.n # 0
                /\ Top = V("type", Top.n)
                /\ Peek(2) = V("exc", Top.n) /\ Peek(3) = V("tb", Top.n)
<1>1. /\ Holds(LastSlot(slots), stack, Depth) /\ Depth \in Nat
      /\ Top \in Value /\ Top.n \in Nat
  BY FoundValues
<1>2. LastSlot(slots).is \in {"none", "int"} => LastSlot(slots) = Top
  BY <1>1 DEF Holds, Is, Top
<1>3. LastSlot(slots) = Raised =>
        /\ Depth >= 3 /\ Top.n # 0
        /\ Top = TypeEntry(Top.n)
        /\ stack[Depth - 1] = Entry("exc", Top.n)
        /\ stack[Depth - 2] = Entry("tb", Top.n)
  BY <1>1 DEF Holds, Top
<1>4. Peek(2) = stack[Depth - 1] /\ Peek(3) = stack[Depth - 2]
  BY <1>1 DEF Peek
<1> QED
  BY <1>1, <1>2, <1>3, <1>4 DEF TypeEntry, Entry

LEMMA EndFinallyNormallyKeeps ==
    ASSUME ProgramsVerified, ShapeInv, EndFinallyNormally
    PROVE  ShapeInv'
<1>1. status = "running" /\ why = WhyNot /\ Instr.op = "END_FINALLY" /\ Top = None
  BY DEF EndFinallyNormally, Ready, At, Fetching
<1>2. PICK slots : Here(slots)
  BY <1>1, AtInstruction
<1>3. CanEndFinally(blocks, slots) /\ Depth >= 1
  BY <1>1, <1>2, FoundValues DEF Here, Accepts, CanEndFinally, EntryOK
<1>4. LastSlot(slots) = None
  BY <1>1, <1>2, <1>3, EntryFound DEF CanEndFinally, EntryOK, Carries
<1>5. Runs(lasti + 1, blocks, Cut(slots, 1)) \in Shapes
  BY <1>1, <1>2, <1>4 DEF Here, Steps, FinallyEnds
<1>6. SlotsHold(Cut(slots, 1), stack') /\ stack' \in Seq(Value)
  BY <1>2, <1>3, BelowHolds DEF EndFinallyNormally
<1>7. UNCHANGED <<prog, blocks, vmVars, status, world>> /\ lasti' = lasti + 1
  BY DEF EndFinallyNormally, Step, Goto
<1> QED
  BY <1>1, <1>5, <1>6, <1>7, MovesOn DEF world, ShapeInv, TypeOK

LEMMA EndFinallySilencedKeeps ==
    ASSUME ProgramsVerified, ShapeInv, EndFinallySilenced
    PROVE  ShapeInv'
<1>1. status = "running" /\ why = WhyNot /\ Instr.op = "END_FINALLY"
      /\ Top = V("int", WhySilenced)
  BY DEF EndFinallySilenced, Ready, At, Fetching
<1>2. PICK slots : Here(slots)
  BY <1>1, AtInstruction
<1>3. CanEndFinally(blocks, slots) /\ Depth >= 1 /\ Depth \in Nat
      /\ Len(slots) = Depth
  BY <1>1, <1>2, FoundValues DEF Here, Accepts, CanEndFinally, EntryOK
<1>4. LastSlot(slots) = V("int", WhySilenced)
  BY <1>1, <1>2, <1>3, EntryFound DEF CanEndFinally, EntryOK, Carries
<1>5. InHandler(blocks) /\ Held(Last(blocks)) < Depth
  BY <1>3, <1>4 DEF CanEndFinally, EntryOK, Carries
<1>6. Held(Last(blocks)) <= Depth - 1
  <2>1. Last(blocks) \in Block
    BY <1>5, NotEmpty DEF InHandler, ShapeInv, TypeOK
  <2>2. Held(Last(blocks)) \in Nat
    BY <2>1 DEF Held, Block
  <2> QED
    BY <1>3, <1>5, <2>2
<1>7. /\ exc' = Saved(Last(blocks), Below(1))
      /\ stack' = SubSeq(stack, 1, Last(blocks).level)
      /\ blocks' = Front(blocks) /\ lasti' = lasti + 1
      /\ UNCHANGED <<prog, why, retval, curexc, status, world>>
  BY DEF EndFinallySilenced, Step, Goto
<1>8. /\ exc' \in Exception /\ exc' = Info(exc'.type)
      /\ IsSet(exc') => Handles(blocks')
      /\ SlotsHold(SubSeq(slots, 1, Last(blocks).level), stack')
      /\ stack' \in Seq(Value)
  BY <1>2, <1>3, <1>5, <1>6, <1>7, OwnHandlerLeft
<1>9. Runs(lasti', blocks', SubSeq(slots, 1, Last(blocks).level)) \in Shapes
  BY <1>1, <1>2, <1>4, <1>7 DEF Here, Steps, FinallyEnds
<1>10. curexc' = NoExc
  BY <1>1, <1>7 DEF ShapeInv, RaisesWhy, IsSet, Info
<1>11. HandlesOnly'
  BY <1>8 DEF HandlesOnly, IsSet
<1> QED
  BY <1>1, <1>7, <1>8, <1>9, <1>10, <1>11, RunsOn DEF world, ShapeInv, TypeOK

\* return and continue go on with the value the finally clause kept for them.
LEMMA EndFinallyUnwindingKeeps ==
    ASSUME ProgramsVerified, ShapeInv, EndFinallyUnwinding
    PROVE  ShapeInv'
<1>1. status = "running" /\ why = WhyNot /\ Instr.op = "END_FINALLY"
      /\ Top.is = "int" /\ Top.n \notin {WhyException, WhyYield, WhySilenced}
  BY DEF EndFinallyUnwinding, Ready, At, Fetching
<1>2. PICK slots : Here(slots)
  BY <1>1, AtInstruction
<1>3. /\ CanEndFinally(blocks, slots) /\ Depth >= 1 /\ Depth \in Nat
      /\ Len(slots) = Depth
  BY <1>1, <1>2, FoundValues DEF Here, Accepts, CanEndFinally, EntryOK
<1> DEFINE top == LastSlot(slots)
           below == slots[Len(slots) - 1]
<1>4. top = Top
  BY <1>1, <1>2, <1>3, EntryFound DEF CanEndFinally, EntryOK, Carries
<1>5. /\ UNCHANGED <<prog, blocks, curexc, exc, status, world>>
      /\ lasti' = lasti + 1 /\ why' = Top.n
  BY DEF EndFinallyUnwinding, Step, Goto
<1>6. /\ lasti' \in Nat /\ status' = "running" /\ log' \in Seq(Nat)
      /\ answers' \in Seq(0 .. 2) /\ Len(answers') <= MaxAnswers
      /\ curexc' \in Exception /\ exc' \in Exception /\ HandlesOnly'
      /\ curexc = NoExc
  BY <1>1, <1>5 DEF world, ShapeInv, TypeOK, HandlesOnly, RaisesWhy, Info, IsSet
<1>7. FinallyEnds(lasti, blocks, slots) \in Shapes
  BY <1>1, <1>2 DEF Here, Steps
<1>8. CASE Carries(top)
  <2>1. /\ Depth >= 2 /\ top.n \in {WhyReturn, WhyContinue}
        /\ below.is \in Solid
    BY <1>1, <1>3, <1>4, <1>8 DEF CanEndFinally, EntryOK, Carries, Solid
  <2>2. Unwinds(Top.n, below, blocks, Cut(slots, 2)) \in Shapes
    BY <1>1, <1>4, <1>7, <1>8 DEF FinallyEnds, Carries
  <2>3. retval' = stack[Depth - 1] /\ stack' = Below(2)
    BY <1>3, <1>4, <2>1 DEF EndFinallyUnwinding, Peek
  <2>4. retval' \in Value /\ Holds(below, stack, Depth - 1)
    <3>1. Depth - 1 \in 1 .. Depth
      BY <1>3, <2>1
    <3> QED
      BY <1>2, <1>3, <2>3, <3>1, FoundValues
  <2>5. Is(below, retval')
    BY <2>1, <2>3, <2>4 DEF Holds, Solid
  <2>6. SlotsHold(Cut(slots, 2), stack') /\ stack' \in Seq(Value)
    BY <1>2, <2>1, <2>3, BelowHolds
  <2>7. why' \in {WhyReturn, WhyContinue}
    BY <1>4, <1>5, <2>1
  <2>8. RaisesWhy'
    BY <1>5, <1>6, <2>7 DEF RaisesWhy, Info, IsSet
  <2> QED
    BY <1>5, <1>6, <2>2, <2>4, <2>5, <2>6, <2>7, <2>8, UnwindsOn
<1>9. CASE ~Carries(top)
  <2>1. top = V("int", WhyBreak)
    BY <1>1, <1>3, <1>4, <1>9 DEF CanEndFinally, EntryOK
  <2>2. Unwinds(WhyBreak, None, blocks, Cut(slots, 1)) \in Shapes
    BY <1>7, <2>1 DEF FinallyEnds, Carries
  <2>3. retval' = retval /\ stack' = Below(1) /\ why' = WhyBreak
    BY <1>4, <1>5, <2>1 DEF EndFinallyUnwinding
  <2>4. SlotsHold(Cut(slots, 1), stack') /\ stack' \in Seq(Value)
    BY <1>2, <1>3, <2>3, BelowHolds
  <2>5. retval' \in Value
    BY <2>3 DEF ShapeInv, TypeOK
  <2>6. RaisesWhy'
    BY <1>5, <1>6, <2>3 DEF RaisesWhy, Info, IsSet
  <2>7. Unwinds(why', None, blocks', Cut(slots, 1)) \in Shapes
    BY <1>5, <2>2, <2>3
  <2> QED
    BY <1>5, <1>6, <2>3, <2>4, <2>5, <2>6, <2>7, UnwindsOn
<1> QED
  BY <1>8, <1>9

\* What is raised again is the exception whose entry was found.
LEMMA EndFinallyRaisingKeeps ==
    ASSUME ProgramsVerified, ShapeInv, EndFinallyRaising
    PROVE  ShapeInv'
<1>1. status = "running" /\ why = WhyNot /\ Instr.op = "END_FINALLY"
      /\ ~NoException
  BY DEF EndFinallyRaising, Ready, At, Fetching
<1>2. PICK slots : Here(slots)
  BY <1>1, AtInstruction
<1>3. CanEndFinally(blocks, slots) /\ Depth >= 1
  BY <1>1, <1>2, FoundValues DEF Here, Accepts, CanEndFinally, EntryOK
<1>4. LastSlot(slots) = Raised
  BY <1>1, <1>2, <1>3, EntryFound
  DEF CanEndFinally, EntryOK, Carries, NoException
<1>5. /\ Depth >= 3 /\ Top.n \in Nat /\ Top.n # 0 /\ Top = V("type", Top.n)
      /\ Peek(2) = V("exc", Top.n) /\ Peek(3) = V("tb", Top.n)
  BY <1>2, <1>3, <1>4, EntryFound
<1>6. curexc' = Info(Top.n) /\ why' = WhyException /\ stack' = Below(3)
  <2>1. /\ Top.is = "type" /\ Peek(2).n = Top.n
        /\ Peek(3).is = "tb" /\ Peek(3).n = Top.n
    BY <1>5
  <2> QED
    BY <2>1 DEF EndFinallyRaising, Info
<1>7. /\ UNCHANGED <<prog, blocks, retval, exc, status, world>>
      /\ lasti' = lasti + 1
  BY DEF EndFinallyRaising, Step, Goto
<1>8. /\ lasti' \in Nat /\ status' = "running" /\ log' \in Seq(Nat)
      /\ answers' \in Seq(0 .. 2) /\ Len(answers') <= MaxAnswers
      /\ exc' \in Exception /\ HandlesOnly' /\ retval' \in Value
  BY <1>1, <1>7 DEF world, ShapeInv, TypeOK, HandlesOnly, IsSet
<1>9. Unwinds(why', None, blocks', Cut(slots, 3)) \in Shapes
  BY <1>1, <1>2, <1>4, <1>6, <1>7 DEF Here, Steps, FinallyEnds
<1>10. SlotsHold(Cut(slots, 3), stack') /\ stack' \in Seq(Value)
  BY <1>2, <1>5, <1>6, BelowHolds
<1>11. curexc' \in Exception /\ RaisesWhy'
  BY <1>5, <1>6 DEF RaisesWhy, Info, IsSet, Exception
<1> QED
  BY <1>6, <1>7, <1>8, <1>9, <1>10, <1>11, UnwindsOn

-------------------------------------------------------------------------------
(* Opcodes that leave the normal flow.                                     *)

LEMMA LoopExitKeeps ==
    ASSUME ProgramsVerified, ShapeInv, BreakLoop \/ ContinueLoop
    PROVE  ShapeInv'
<1>1. status = "running" /\ why = WhyNot
  BY DEF BreakLoop, ContinueLoop, At, Fetching
<1>2. PICK slots : Here(slots)
  BY <1>1, AtInstruction
<1>3. Arg \in Nat
  BY <1>1, AtInstruction DEF Instruction, Arg
<1>4. PICK ret :
        /\ Unwinds(why', ret, blocks, slots) \in Shapes
        /\ why' \in {WhyBreak, WhyContinue}
        /\ retval' \in Value
        /\ why' = WhyContinue => Is(ret, retval')
  <2>1. CASE BreakLoop
    <3>1. Unwinds(WhyBreak, None, blocks, slots) \in Shapes
      BY <1>2, <2>1 DEF Here, Steps, BreakLoop, At
    <3> QED
      BY <2>1, <3>1 DEF BreakLoop, ShapeInv, TypeOK
  <2>2. CASE ContinueLoop
    <3>1. Unwinds(WhyContinue, V("int", Arg), blocks, slots) \in Shapes
      BY <1>2, <2>2 DEF Here, Steps, ContinueLoop, At
    <3>2. V("int", Arg) \in Value /\ Is(V("int", Arg), V("int", Arg))
      BY <1>3 DEF Value, Kinds, Is, Solid
    <3> QED
      BY <2>2, <3>1, <3>2 DEF ContinueLoop
  <2> QED
    BY <2>1, <2>2
<1>5. /\ UNCHANGED <<prog, stack, blocks, curexc, exc, status, world>>
      /\ lasti' = lasti + 1
  BY DEF BreakLoop, ContinueLoop, Step, Goto
<1>6. /\ lasti' \in Nat /\ status' = "running" /\ log' \in Seq(Nat)
      /\ answers' \in Seq(0 .. 2) /\ Len(answers') <= MaxAnswers
      /\ curexc' \in Exception /\ exc' \in Exception /\ HandlesOnly'
      /\ stack' \in Seq(Value) /\ curexc' = NoExc
  BY <1>1, <1>5 DEF world, ShapeInv, TypeOK, HandlesOnly, RaisesWhy, Info, IsSet
<1>7. RaisesWhy'
  BY <1>4, <1>6 DEF RaisesWhy, Info, IsSet
<1>8. SlotsHold(slots, stack') /\ Unwinds(why', ret, blocks', slots) \in Shapes
  BY <1>2, <1>4, <1>5 DEF Here
<1> QED
  BY <1>4, <1>5, <1>6, <1>7, <1>8, UnwindsOn

LEMMA ReturnValueKeeps ==
    ASSUME ProgramsVerified, ShapeInv, ReturnValue
    PROVE  ShapeInv'
<1>1. status = "running" /\ why = WhyNot
  BY DEF ReturnValue, Ready, At, Fetching
<1>2. PICK slots : Here(slots)
  BY <1>1, AtInstruction
<1>3. Depth >= 1 /\ LastSlot(slots).is \in Solid
  BY <1>2, FoundValues DEF Here, Accepts, ReturnValue, Ready, At
<1>4. retval' = Top /\ why' = WhyReturn /\ stack' = Below(1) /\ lasti' = lasti + 1
      /\ UNCHANGED <<prog, blocks, curexc, exc, status, world>>
  BY DEF ReturnValue, Step, Goto
<1>5. retval' \in Value /\ Is(LastSlot(slots), retval')
  BY <1>2, <1>3, <1>4, FoundValues DEF Holds, Solid, Top
<1>6. SlotsHold(Cut(slots, 1), stack') /\ stack' \in Seq(Value)
  BY <1>2, <1>3, <1>4, BelowHolds
<1>7. Unwinds(why', LastSlot(slots), blocks', Cut(slots, 1)) \in Shapes
  BY <1>2, <1>4 DEF Here, Steps, ReturnValue, Ready, At
<1>8. /\ lasti' \in Nat /\ status' = "running" /\ log' \in Seq(Nat)
      /\ answers' \in Seq(0 .. 2) /\ Len(answers') <= MaxAnswers
      /\ curexc' \in Exception /\ exc' \in Exception /\ HandlesOnly'
      /\ curexc' = NoExc
  BY <1>1, <1>4 DEF world, ShapeInv, TypeOK, HandlesOnly, RaisesWhy, Info, IsSet
<1>9. RaisesWhy'
  BY <1>4, <1>8 DEF RaisesWhy, Info, IsSet
<1> QED
  BY <1>4, <1>5, <1>6, <1>7, <1>8, <1>9, UnwindsOn

\* Whatever is raised has a number, so the frame has an exception in hand.
LEMMA RaiseKeeps ==
    ASSUME ProgramsVerified, ShapeInv, RaiseInstance \/ Reraise
    PROVE  ShapeInv'
<1>1. status = "running" /\ why = WhyNot
  BY DEF RaiseInstance, Reraise, Ready, At, Fetching
<1>2. PICK slots : Here(slots)
  BY <1>1, AtInstruction
<1>3. PICK n \in 0 .. 1 :
        /\ Arg = n /\ n <= Depth /\ stack' = Below(n)
        /\ Raises(blocks, Cut(slots, n)) \in Shapes
        /\ why' = WhyException
        /\ \E m \in Nat \ {0} : curexc' = Info(m)
  <2>1. CASE RaiseInstance
    <3>1. Depth >= 1 /\ LastSlot(slots) = Named
      BY <1>2, <2>1, FoundValues DEF Here, Accepts, RaiseInstance, Ready, At
    <3>2. Top.n \in Nat \ {0}
      BY <1>2, <3>1, FoundValues DEF Holds, Is, Solid, Top
    <3>3. Raises(blocks, Cut(slots, 1)) \in Shapes
      BY <1>2, <2>1 DEF Here, Steps, RaiseInstance, Ready, At
    <3> QED
      BY <2>1, <3>1, <3>2, <3>3 DEF RaiseInstance, Raise
  <2>2. CASE Reraise
    <3>1. stack' = Below(0) /\ 0 <= Depth
      BY <1>2, <2>2, FoundValues, WholeSeq DEF Reraise, Below, Depth
    <3>2. Raises(blocks, Cut(slots, 0)) \in Shapes
      BY <1>2, <2>2 DEF Here, Steps, Reraise, Ready, At
    <3>3. why' = WhyException /\ \E m \in Nat \ {0} : curexc' = Info(m)
      <4>1. CASE IsSet(exc)
        <5>1. exc.type \in Nat \ {0} /\ exc = Info(exc.type)
          BY <4>1 DEF IsSet, ShapeInv, TypeOK, Exception, HandlesOnly
        <5> QED
          BY <2>2, <4>1, <5>1 DEF Reraise
      <4>2. CASE ~IsSet(exc)
        BY <2>2, <4>2 DEF Reraise, Raise, RuntimeError
      <4> QED
        BY <4>1, <4>2
    <3> QED
      BY <2>2, <3>1, <3>2, <3>3 DEF Reraise
  <2> QED
    BY <2>1, <2>2
<1>4. SlotsHold(Cut(slots, n), stack') /\ stack' \in Seq(Value)
  BY <1>2, <1>3, BelowHolds
<1>5. UNCHANGED <<prog, blocks, retval, exc, status, world>> /\ lasti' = lasti + 1
  BY DEF RaiseInstance, Reraise, Step, Goto
<1>6. /\ lasti' \in Nat /\ status' = "running" /\ log' \in Seq(Nat)
      /\ answers' \in Seq(0 .. 2) /\ Len(answers') <= MaxAnswers
      /\ exc' \in Exception /\ HandlesOnly' /\ retval' \in Value
  BY <1>1, <1>5 DEF world, ShapeInv, TypeOK, HandlesOnly, IsSet
<1>7. curexc' \in Exception /\ RaisesWhy'
  BY <1>3 DEF RaisesWhy, Info, IsSet, Exception
<1>8. Unwinds(why', None, blocks', Cut(slots, n)) \in Shapes
  BY <1>3, <1>5 DEF Raises
<1> QED
  BY <1>3, <1>4, <1>5, <1>6, <1>7, <1>8, UnwindsOn

-------------------------------------------------------------------------------
(* A call of an external function, and the answer to it.                   *)

LEMMA CallFunctionKeeps ==
    ASSUME ProgramsVerified, ShapeInv, CallFunction
    PROVE  ShapeInv'
<1>1. status = "running" /\ why = WhyNot
  BY DEF CallFunction, Ready, At, Fetching
<1>2. PICK slots : Here(slots)
  BY <1>1, AtInstruction
<1>3. Depth >= 1 /\ LastSlot(slots) = Named
  BY <1>2, FoundValues DEF Here, Accepts, CallFunction, Ready, At
<1>4. /\ Runs(lasti + 1, blocks, Append(Cut(slots, 1), V("int", 0))) \in Shapes
      /\ Raises(blocks, Cut(slots, 1)) \in Shapes
  BY <1>2 DEF Here, Steps, CallFunction, Ready, At
<1>5. Top.n \in Nat /\ Top.n # 0
  BY <1>2, <1>3, FoundValues DEF Holds, Is, Solid, Top
<1>6. /\ SlotsHold(Cut(slots, 1), Below(1)) /\ Below(1) \in Seq(Value)
      /\ Cut(slots, 1) \in Seq(Slot)
  BY <1>2, <1>3, BelowHolds
<1>7. /\ log' = Append(log, Top.n) /\ stack' = Below(1) /\ lasti' = lasti + 1
      /\ status' = "paused" /\ retval' = Nil /\ curexc' = NoExc /\ exc' = NoExc
      /\ UNCHANGED <<prog, blocks, why, answers>>
  BY DEF CallFunction, Step, Goto
<1>8. log' \in Seq(Nat) /\ log' # <<>> /\ log'[Len(log')] = Top.n
  <2>1. log \in Seq(Nat)
    BY DEF ShapeInv, TypeOK
  <2> QED
    BY <1>5, <1>7, <2>1
<1>9. TypeOK'
  <2>1. Nil \in Value /\ NoExc \in Exception
    BY DEF Value, Kinds, Info, Exception
  <2> QED
    BY <1>6, <1>7, <1>8, <2>1 DEF TypeOK, ShapeInv
<1>10. PausesInShape'
  BY <1>1, <1>4, <1>5, <1>6, <1>7, <1>8, ShapesKept DEF PausesInShape
<1>11. RaisesWhy' /\ HandlesOnly'
  BY <1>1, <1>7 DEF RaisesWhy, HandlesOnly, Info, IsSet
<1> QED
  BY <1>7, <1>9, <1>10, <1>11 DEF ShapeInv, RunsInShape, EndsEmpty

LEMMA ResumeKeeps ==
    ASSUME ProgramsVerified, ShapeInv, Resume
    PROVE  ShapeInv'
<1>1. status = "paused" /\ why = WhyNot /\ log # <<>> /\ log[Len(log)] # 0
      /\ curexc = NoExc
  BY DEF Resume, ShapeInv, PausesInShape, RaisesWhy, IsSet, Info
<1>2. PICK slots \in Seq(Slot) :
        /\ SlotsHold(slots, stack)
        /\ Runs(lasti, blocks, Append(slots, V("int", 0))) \in Shapes
        /\ Raises(blocks, slots) \in Shapes
  BY <1>1 DEF ShapeInv, PausesInShape
<1>3. PICK ok \in 0 .. 1 :
        /\ Answer(ok, {0, 1})
        /\ IF ok = 1
           THEN stack' = Append(stack, V("int", 0)) /\ NoRaise
           ELSE Raise(Last(log)) /\ UNCHANGED stack
  BY DEF Resume
<1>4. status' = "running" /\ UNCHANGED <<prog, lasti, blocks, retval, exc, log>>
  BY DEF Resume
<1>5. /\ answers' \in Seq(0 .. 2) /\ Len(answers') <= MaxAnswers
  BY <1>3, AnswersTyped DEF ShapeInv
<1>6. /\ stack \in Seq(Value) /\ lasti' \in Nat /\ retval' \in Value
      /\ log' \in Seq(Nat) /\ exc' \in Exception /\ HandlesOnly'
  BY <1>4 DEF ShapeInv, TypeOK, HandlesOnly, IsSet
<1>7. CASE ok = 1
  <2>1. stack' = Append(stack, V("int", 0)) /\ why' = WhyNot /\ curexc' = NoExc
    BY <1>1, <1>3, <1>7 DEF NoRaise
  <2>2. /\ V("int", 0) \in Slot /\ V("int", 0) \in Value /\ stack' \in Seq(Value)
        /\ Append(stack, V("int", 0))[Len(stack) + 1] = V("int", 0)
    BY <1>6, <2>1 DEF Slot, Value, Kinds
  <2>3. Holds(V("int", 0), Append(stack, V("int", 0)), Len(stack) + 1)
    BY <2>2 DEF Holds, Is
  <2>4. SlotsHold(Append(slots, V("int", 0)), stack')
    BY <1>2, <1>6, <2>1, <2>2, <2>3, SlotsPushed
  <2> QED
    BY <1>2, <1>4, <1>5, <1>6, <2>1, <2>2, <2>4, RunsOn
<1>8. CASE ok # 1
  <2>1. curexc' = Info(log[Len(log)]) /\ why' = WhyException /\ stack' = stack
    BY <1>3, <1>8 DEF Raise, Last
  <2>2. log[Len(log)] \in Nat \ {0}
    BY <1>1, NotEmpty DEF ShapeInv, TypeOK
  <2>3. curexc' \in Exception /\ RaisesWhy'
    BY <2>1, <2>2 DEF RaisesWhy, Info, IsSet, Exception
  <2>4. Unwinds(why', None, blocks', slots) \in Shapes /\ SlotsHold(slots, stack')
    BY <1>2, <1>4, <2>1 DEF Raises
  <2> QED
    BY <1>4, <1>5, <1>6, <2>1, <2>3, <2>4, UnwindsOn
<1> QED
  BY <1>7, <1>8

-------------------------------------------------------------------------------
(* with statements.                                                        *)

LEMMA SetupWithKeeps ==
    ASSUME ProgramsVerified, ShapeInv, SetupWith
    PROVE  ShapeInv'
<1>1. status = "running" /\ why = WhyNot /\ Instr.op = "SETUP_WITH"
  BY DEF SetupWith, Ready, At, Fetching
<1>2. PICK slots : Here(slots)
  BY <1>1, AtInstruction
<1>3. /\ Depth >= 1 /\ Len(slots) = Depth /\ LastSlot(slots) = Named
      /\ stack \in Seq(Value) /\ slots \in Seq(Slot)
  BY <1>1, <1>2, FoundValues DEF Here, Accepts
<1>4. Top.n \in Nat /\ Top.n # 0
  BY <1>2, <1>3, FoundValues DEF Holds, Is, Solid, Top
<1>5. PICK exiting : exiting = Append(Below(1), V("exit", Top.n))
  OBVIOUS
<1>6. SlotsHold(slots, exiting) /\ exiting \in Seq(Value)
  <2>1. /\ V("exit", Top.n) \in Value /\ Named \in Slot
        /\ Is(Named, V("exit", Top.n)) /\ Named.is \notin {"raised", "kept", "clear"}
    BY <1>4 DEF Value, Kinds, Slot, Is, Solid
  <2>2. Append(Cut(slots, 1), Named) = slots
    BY <1>3, LastReplaced DEF Cut, LastSlot
  <2>3. 1 \in 0 .. Len(stack) /\ SlotsHold(slots, stack)
    BY <1>2, <1>3 DEF Depth, Here
  <2> QED
    BY <1>3, <1>5, <2>1, <2>2, <2>3, SlotsReplaced DEF Below, Depth
<1>7. PICK entered \in 0 .. 1 :
        /\ Answer(entered, {0, 1})
        /\ IF entered = 1
           THEN /\ PushBlock("finally", lasti + 1 + Arg, Depth)
                /\ stack' = Append(exiting, V("int", 0))
                /\ NoRaise
           ELSE /\ stack' = exiting
                /\ Raise(Top.n)
                /\ UNCHANGED blocks
  BY <1>5 DEF SetupWith
<1>8. /\ log' = Append(log, Top.n) /\ lasti' = lasti + 1
      /\ UNCHANGED <<prog, retval, exc, status>>
  BY DEF SetupWith, Step, Goto
<1>9. /\ lasti' \in Nat /\ status' = "running"
      /\ answers' \in Seq(0 .. 2) /\ Len(answers') <= MaxAnswers
      /\ exc' \in Exception /\ retval' \in Value /\ curexc = NoExc
  BY <1>1, <1>7, <1>8, AnswersTyped
  DEF ShapeInv, TypeOK, RaisesWhy, Info, IsSet
<1>10. log' \in Seq(Nat)
  <2>1. log \in Seq(Nat)
    BY DEF ShapeInv, TypeOK
  <2> QED
    BY <1>4, <1>8, <2>1
<1> DEFINE b == NewBlock("SETUP_WITH", Arg, lasti, slots)
<1>11. /\ Runs(lasti + 1, Append(blocks, b), Append(slots, V("int", 0))) \in Shapes
       /\ Raises(blocks, slots) \in Shapes
  BY <1>1, <1>2 DEF Here, Steps
<1>12. CASE entered = 1
  <2>1. /\ blocks' = Append(blocks, b) /\ stack' = Append(exiting, V("int", 0))
        /\ why' = WhyNot /\ curexc' = NoExc
    BY <1>1, <1>3, <1>7, <1>9, <1>12 DEF PushBlock, NewBlock, NoRaise
  <2>2. /\ V("int", 0) \in Slot /\ V("int", 0) \in Value /\ stack' \in Seq(Value)
        /\ Append(exiting, V("int", 0))[Len(exiting) + 1] = V("int", 0)
    BY <1>6, <2>1 DEF Slot, Value, Kinds
  <2>3. Holds(V("int", 0), Append(exiting, V("int", 0)), Len(exiting) + 1)
    BY <2>2 DEF Holds, Is
  <2>4. SlotsHold(Append(slots, V("int", 0)), stack')
    BY <1>3, <1>6, <2>1, <2>2, <2>3, SlotsPushed
  <2>5. HandlesOnly'
    <3>1. Handles(blocks) => Handles(blocks')
      BY <2>1, HandlesMore DEF ShapeInv, TypeOK
    <3> QED
      BY <1>8, <3>1 DEF ShapeInv, HandlesOnly, IsSet
  <2>6. Runs(lasti', blocks', Append(slots, V("int", 0))) \in Shapes
    BY <1>8, <1>11, <2>1
  <2> QED
    BY <1>8, <1>9, <1>10, <2>1, <2>2, <2>4, <2>5, <2>6, RunsOn
<1>13. CASE entered # 1
  <2>1. /\ stack' = exiting /\ blocks' = blocks
        /\ curexc' = Info(Top.n) /\ why' = WhyException
    BY <1>7, <1>13 DEF Raise
  <2>2. curexc' \in Exception /\ RaisesWhy' /\ HandlesOnly'
    BY <1>4, <1>8, <2>1
    DEF ShapeInv, RaisesWhy, HandlesOnly, Info, IsSet, Exception
  <2>3. Unwinds(why', None, blocks', slots) \in Shapes
    BY <1>11, <2>1 DEF Raises
  <2> QED
    BY <1>6, <1>8, <1>9, <1>10, <2>1, <2>2, <2>3, UnwindsOn
<1> QED
  BY <1>12, <1>13

\* Without an exception __exit__ leaves from under values that speak of
\* themselves only.
LEMMA GapClosedHolds ==
    ASSUME NEW slots \in Seq(Slot), NEW s \in Seq(Value), SlotsHold(slots, s),
           NEW i \in 1 .. Len(s),
           \A k \in i + 1 .. Len(s) : slots[k].is \in Solid
    PROVE  SlotsHold(RemoveAt(slots, i), RemoveAt(s, i)) /\ RemoveAt(s, i) \in Seq(Value)
<1>1. /\ RemoveAt(s, i) \in Seq(Value) /\ Len(RemoveAt(s, i)) = Len(s) - 1
      /\ \A k \in 1 .. Len(s) - 1 :
            RemoveAt(s, i)[k] = IF k < i THEN s[k] ELSE s[k + 1]
  BY RemoveAtValues
<1>2. /\ Len(slots) = Len(s) /\ Len(RemoveAt(slots, i)) = Len(s) - 1
      /\ \A k \in 1 .. Len(s) - 1 :
            RemoveAt(slots, i)[k] = IF k < i THEN slots[k] ELSE slots[k + 1]
  BY RemoveAtValues DEF SlotsHold
<1>3. PICK r, t : r = RemoveAt(s, i) /\ t = RemoveAt(slots, i)
  OBVIOUS
<1>4. ASSUME NEW k \in 1 .. Len(s) - 1
      PROVE  Holds(t[k], r, k)
  <2>1. CASE k < i
    <3>1. Holds(slots[k], s, k)
      BY DEF SlotsHold
    <3>2. t[k] = slots[k] /\ \A j \in 1 .. k : r[j] = s[j]
      BY <1>1, <1>2, <1>3, <2>1
    <3>3. t[k].is \in {"raised", "kept", "clear"} =>
            k >= 3 /\ r[k] = s[k] /\ r[k - 1] = s[k - 1] /\ r[k - 2] = s[k - 2]
      BY <3>1, <3>2 DEF Holds
    <3> QED
      BY <3>1, <3>2, <3>3 DEF Holds
  <2>2. CASE ~(k < i)
    <3>1. Holds(slots[k + 1], s, k + 1) /\ slots[k + 1].is \in Solid
      BY <2>2 DEF SlotsHold
    <3>2. t[k] = slots[k + 1] /\ r[k] = s[k + 1]
      BY <1>1, <1>2, <1>3, <2>2
    <3> QED
      BY <3>1, <3>2 DEF Holds, Solid
  <2> QED
    BY <2>1, <2>2
<1> QED
  BY <1>1, <1>2, <1>3, <1>4 DEF SlotsHold

\* What __exit__ answers decides between going on and raising; the stacks
\* are the same.
LEMMA CleansUpOn ==
    ASSUME ProgramsVerified, ShapeInv, WithCleanup, status = "running",
           why = WhyNot,
           NEW slots, Runs(lasti + 1, blocks', slots) \in Shapes,
           Unwinds(WhyException, None, blocks', slots) \in Shapes,
           Handles(blocks) => Handles(blocks'),
           SlotsHold(slots, GapClosed), GapClosed \in Seq(Value),
           Peek(ExitIsAt).n \in Nat, Peek(ExitIsAt).n # 0,
           ~NoException =>
                /\ slots \in Seq(Slot)
                /\ Runs(lasti + 1, blocks', Append(slots, V("int", WhySilenced))) \in Shapes
    PROVE  ShapeInv'
<1> DEFINE n == Peek(ExitIsAt).n
<1>1. PICK res \in 0 .. 2 :
        /\ Answer(res, {0, 1, 2})
        /\ IF res = 2 THEN Raise(n) ELSE NoRaise
        /\ stack' = IF res = 1 /\ ~NoException
                    THEN Append(GapClosed, V("int", WhySilenced))
                    ELSE GapClosed
  BY DEF WithCleanup
<1>2. /\ log' = Append(log, n) /\ lasti' = lasti + 1
      /\ UNCHANGED <<prog, retval, exc, status>>
  BY DEF WithCleanup, Step, Goto
<1>3. /\ lasti' \in Nat /\ status' = "running"
      /\ answers' \in Seq(0 .. 2) /\ Len(answers') <= MaxAnswers
      /\ exc' \in Exception /\ retval' \in Value /\ curexc = NoExc
      /\ HandlesOnly'
  BY <1>1, <1>2, AnswersTyped
  DEF ShapeInv, TypeOK, RaisesWhy, HandlesOnly, Info, IsSet
<1>4. log' \in Seq(Nat)
  <2>1. log \in Seq(Nat)
    BY DEF ShapeInv, TypeOK
  <2> QED
    BY <1>2, <2>1
<1>5. CASE res = 2
  <2>1. stack' = GapClosed /\ curexc' = Info(n) /\ why' = WhyException
    BY <1>1, <1>5 DEF Raise
  <2>2. curexc' \in Exception /\ RaisesWhy'
    BY <2>1 DEF RaisesWhy, Info, IsSet, Exception
  <2> QED
    BY <1>2, <1>3, <1>4, <2>1, <2>2, UnwindsOn
<1>6. CASE res # 2 /\ stack' = GapClosed
  <2>1. curexc' = NoExc /\ why' = WhyNot
    BY <1>1, <1>3, <1>6 DEF NoRaise
  <2> QED
    BY <1>2, <1>3, <1>4, <1>6, <2>1, RunsOn
<1>7. CASE res = 1 /\ ~NoException
  <2>1. PICK g : g = GapClosed
    OBVIOUS
  <2>2. curexc' = NoExc /\ why' = WhyNot /\ stack' = Append(g, V("int", WhySilenced))
    BY <1>1, <1>3, <1>7, <2>1 DEF NoRaise
  <2>3. /\ V("int", WhySilenced) \in Slot /\ V("int", WhySilenced) \in Value
        /\ g \in Seq(Value) /\ stack' \in Seq(Value) /\ SlotsHold(slots, g)
        /\ Append(g, V("int", WhySilenced))[Len(g) + 1] = V("int", WhySilenced)
    BY <2>1, <2>2 DEF Slot, Value, Kinds
  <2>4. Holds(V("int", WhySilenced), Append(g, V("int", WhySilenced)), Len(g) + 1)
    BY <2>3 DEF Holds, Is
  <2>5. SlotsHold(Append(slots, V("int", WhySilenced)), stack')
    BY <1>7, <2>2, <2>3, <2>4, SlotsPushed
  <2> QED
    BY <1>2, <1>3, <1>4, <1>7, <2>2, <2>3, <2>5, RunsOn
<1> QED
  BY <1>1, <1>5, <1>6, <1>7

LEMMA WithCleanupKeeps ==
    ASSUME ProgramsVerified, ShapeInv, WithCleanup
    PROVE  ShapeInv'
<1>1. status = "running" /\ why = WhyNot /\ Instr.op = "WITH_CLEANUP"
  BY DEF WithCleanup, Ready, At, Fetching
<1>2. PICK slots : Here(slots)
  BY <1>1, AtInstruction
<1>3. /\ CanCleanUp(blocks, slots) /\ EntryOK(slots) /\ Depth >= 1 /\ Depth \in Nat
      /\ Len(slots) = Depth /\ stack \in Seq(Value) /\ slots \in Seq(Slot)
      /\ SlotsHold(slots, stack)
  BY <1>1, <1>2, FoundValues DEF Here, Accepts, CanCleanUp, EntryOK
<1> DEFINE top == LastSlot(slots)
<1>4. CASE top # Raised
  <2>1. top = Top /\ NoException /\ ExitIsAt = ExitSlotAt(slots)
        /\ (Carries(top) <=> CarriesValue)
    BY <1>2, <1>3, <1>4, EntryFound
    DEF EntryOK, Carries, NoException, CarriesValue, ExitIsAt, ExitSlotAt
  <2>2. PICK x \in {2, 3} : x = ExitSlotAt(slots) /\ (x = 3 <=> Carries(top))
    BY <1>4 DEF ExitSlotAt
  <2>3. PICK i \in 1 .. Depth : i = Depth - x + 1 /\ slots[i] = Named
    BY <1>3, <2>2 DEF CanCleanUp
  <2>4. Peek(ExitIsAt).n \in Nat /\ Peek(ExitIsAt).n # 0
    <3>1. Peek(ExitIsAt) = stack[i]
      BY <2>1, <2>2, <2>3 DEF Peek
    <3>2. stack[i] \in Value /\ Holds(slots[i], stack, i)
      BY <1>2, FoundValues
    <3>3. stack[i].n \in Nat
      BY <3>2 DEF Value
    <3> QED
      BY <2>3, <3>1, <3>2, <3>3 DEF Holds, Is, Solid
  <2>5. \A k \in i + 1 .. Depth : slots[k].is \in Solid
    <3>1. top.is \in Solid /\ (Carries(top) => slots[Depth - 1].is \in Solid)
      BY <1>3, <1>4 DEF EntryOK, Carries, Solid
    <3>2. ASSUME NEW k \in i + 1 .. Depth
          PROVE  k = Depth \/ (k = Depth - 1 /\ Carries(top))
      <4>1. CASE x = 2
        BY <1>3, <2>3, <4>1
      <4>2. CASE x = 3
        <5>1. k = Depth \/ k = Depth - 1
          BY <1>3, <2>3, <4>2
        <5> QED
          BY <2>2, <4>2, <5>1
      <4> QED
        BY <4>1, <4>2
    <3> QED
      BY <1>3, <3>1, <3>2 DEF LastSlot
  <2>6. GapClosed = RemoveAt(stack, i)
    BY <1>3, <2>1, <2>2, <2>3 DEF GapClosed
  <2>7. SlotsHold(RemoveAt(slots, i), GapClosed) /\ GapClosed \in Seq(Value)
    BY <1>3, <2>5, <2>6, GapClosedHolds DEF Depth
  <2>8. blocks' = blocks
    BY <2>1 DEF WithCleanup, BlockLowered
  <2>9. /\ Runs(lasti + 1, blocks, RemoveAt(slots, i)) \in Shapes
        /\ Unwinds(WhyException, None, blocks, RemoveAt(slots, i)) \in Shapes
    <3>1. CleansUp(lasti, blocks, slots) \subseteq Shapes
      BY <1>1, <1>2, <1>4 DEF Here, Steps
    <3> QED
      BY <1>3, <2>2, <2>3, <3>1 DEF CleansUp
  <2> QED
    BY <1>1, <2>1, <2>4, <2>7, <2>8, <2>9, CleansUpOn
<1>5. CASE top = Raised
  <2>0. PICK e \in Nat : Depth = e + 7
    <3>1. ExitSlotAt(slots) = 7
      BY <1>5 DEF ExitSlotAt, Carries
    <3>2. Depth - 7 \in Nat /\ Depth = (Depth - 7) + 7
      BY <1>3, <3>1 DEF CanCleanUp
    <3> QED
      BY <3>2
  <2>1. /\ ~NoException /\ ExitIsAt = 7 /\ Depth >= 7 /\ slots[e + 1] = Named
        /\ InHandler(blocks) /\ Last(blocks).level = e + 1
    <3>1. Top.is = "type"
      BY <1>2, <1>3, <1>5, EntryFound
    <3> QED
      BY <1>3, <1>5, <2>0, <3>1
      DEF NoException, CarriesValue, ExitIsAt, CanCleanUp, ExitSlotAt, Carries
  <2>2. /\ \A k \in 1 .. e + 7 : stack[k] \in Value /\ Holds(slots[k], stack, k)
        /\ \A k \in 1 .. 7 : Peek(k) = stack[e + 8 - k] /\ Peek(k) \in Value
    BY <1>2, <2>0, FoundValues DEF Peek
  <2>3. Peek(ExitIsAt).n \in Nat /\ Peek(ExitIsAt).n # 0
    <3>1. Peek(7) = stack[e + 1] /\ Peek(7) \in Value
          /\ Holds(slots[e + 1], stack, e + 1)
      BY <2>0, <2>1, <2>2
    <3>2. Peek(7).n \in Nat
      BY <3>1 DEF Value
    <3> QED
      BY <2>0, <2>1, <3>1, <3>2 DEF Holds, Is, Solid
  <2>4. /\ blocks \in Seq(Block) /\ Len(blocks) >= 1
        /\ blocks[Len(blocks)].type = "handler"
        /\ blocks[Len(blocks)].level = e + 1
    BY <2>0, <2>1, NotEmpty DEF InHandler, ShapeInv, TypeOK
  <2>5. /\ blocks' = Lowered(blocks)
        /\ Handles(blocks')
    BY <2>0, <2>1, <2>4 DEF WithCleanup, BlockLowered, Lowered, Handles
  <2> DEFINE saved == slots[e + 4]
             cut   == Cut(slots, 7)
  <2>6. saved \in {Kept, Clear}
    <3>1. Held(blocks[Len(blocks)]) = e + 4
      BY <2>0, <2>4 DEF Held
    <3>2. slots[Held(blocks[Len(blocks)])] \in
            IF Handles(SubSeq(blocks, 1, Len(blocks) - 1)) THEN {Kept, Clear}
                                                           ELSE {Clear}
      BY <1>2, <2>4 DEF Here, Nested
    <3> QED
      BY <3>1, <3>2
  <2>7. PICK c : c = ExceptionClosed(slots)
    OBVIOUS
  <2>8. /\ Runs(lasti + 1, blocks', c) \in Shapes
         /\ Runs(lasti + 1, blocks', Append(c, V("int", WhySilenced))) \in Shapes
         /\ Unwinds(WhyException, None, blocks', c) \in Shapes
    <3>1. CleansUpException(lasti, blocks, slots) \subseteq Shapes
      BY <1>1, <1>2, <1>5 DEF Here, Steps
    <3> QED
      BY <2>5, <2>7, <3>1 DEF CleansUpException
  <2>9. /\ SlotsHold(cut, Below(7)) /\ Below(7) \in Seq(Value) /\ cut \in Seq(Slot)
        /\ Len(Below(7)) = e /\ Len(cut) = e
        /\ \A k \in 1 .. e : Below(7)[k] = stack[k] /\ cut[k] = slots[k]
    <3>1. e \in 0 .. Len(stack) /\ e \in 0 .. Len(slots)
      BY <1>3, <2>0 DEF Depth
    <3>2. /\ Below(7) = SubSeq(stack, 1, e) /\ cut = SubSeq(slots, 1, e)
      BY <1>3, <2>0 DEF Below, Cut
    <3>3. /\ SlotsHold(cut, Below(7)) /\ Below(7) \in Seq(Value) /\ cut \in Seq(Slot)
      BY <1>2, <2>1, BelowHolds
    <3> QED
      BY <1>3, <3>1, <3>2, <3>3, SubSeqLen
  <2>10. PICK g : g = GapClosed
    OBVIOUS
  <2>11. /\ g \in Seq(Value) /\ Len(g) = e + 7
         /\ \A k \in 1 .. e : g[k] = stack[k]
         /\ g[e + 1] = stack[e + 2] /\ g[e + 2] = stack[e + 3]
         /\ g[e + 3] = stack[e + 4]
         /\ g[e + 5] = stack[e + 5] /\ g[e + 6] = stack[e + 6]
         /\ g[e + 7] = stack[e + 7]
    <3>1. g = Below(7) \o <<Peek(6), Peek(5), Peek(4), Nil>>
                       \o <<Peek(3), Peek(2), Peek(1)>>
      BY <2>0, <2>1, <2>10 DEF GapClosed
    <3>2. Nil \in Value
      BY DEF Value, Kinds
    <3>3. /\ Peek(6) = stack[e + 2] /\ Peek(5) = stack[e + 3] /\ Peek(4) = stack[e + 4]
          /\ Peek(3) = stack[e + 5] /\ Peek(2) = stack[e + 6] /\ Peek(1) = stack[e + 7]
          /\ \A k \in 1 .. 7 : Peek(k) \in Value
      BY <2>2
    <3>4. PICK b \in Seq(Value), p1 \in Value, p2 \in Value, p3 \in Value,
               p4 \in Value, p5 \in Value, p6 \in Value, p7 \in Value :
            /\ b = Below(7) /\ p1 = Peek(6) /\ p2 = Peek(5) /\ p3 = Peek(4)
            /\ p4 = Nil /\ p5 = Peek(3) /\ p6 = Peek(2) /\ p7 = Peek(1)
      BY <2>9, <3>2, <3>3
    <3>5. g = b \o <<p1, p2, p3, p4>> \o <<p5, p6, p7>>
      BY <3>1, <3>4
    <3>6. /\ g \in Seq(Value) /\ Len(g) = Len(b) + 7
          /\ \A k \in 1 .. Len(b) : g[k] = b[k]
          /\ g[Len(b) + 1] = p1 /\ g[Len(b) + 2] = p2 /\ g[Len(b) + 3] = p3
          /\ g[Len(b) + 4] = p4 /\ g[Len(b) + 5] = p5 /\ g[Len(b) + 6] = p6
          /\ g[Len(b) + 7] = p7
      <4>1. PICK u : u = b \o <<p1, p2, p3, p4>>
        OBVIOUS
      <4>2. /\ u \in Seq(Value) /\ Len(u) = Len(b) + 4
            /\ \A k \in 1 .. Len(b) : u[k] = b[k]
            /\ u[Len(b) + 1] = p1 /\ u[Len(b) + 2] = p2 /\ u[Len(b) + 3] = p3
            /\ u[Len(b) + 4] = p4
        BY <4>1, FourMoreValues
      <4>3. /\ g \in Seq(Value) /\ Len(g) = Len(u) + 3
            /\ \A k \in 1 .. Len(u) : g[k] = u[k]
            /\ g[Len(u) + 1] = p5 /\ g[Len(u) + 2] = p6 /\ g[Len(u) + 3] = p7
        BY <3>5, <4>1, <4>2, ThreeMoreValues
      <4>4. PICK m \in Nat : m = Len(b)
        OBVIOUS
      <4>5. Len(u) = m + 4
        BY <4>2, <4>4
      <4>6. /\ (m + 4) + 1 = m + 5 /\ (m + 4) + 2 = m + 6 /\ (m + 4) + 3 = m + 7
            /\ \A k \in 1 .. m : k \in 1 .. m + 4
            /\ \A k \in 1 .. 4 : m + k \in 1 .. m + 4
        OBVIOUS
      <4> QED
        BY <4>2, <4>3, <4>4, <4>5, <4>6
    <3>7. Len(b) = e /\ \A k \in 1 .. e : b[k] = stack[k]
      BY <2>9, <3>4
    <3> QED
      BY <3>3, <3>4, <3>6, <3>7
  <2>12. /\ c \in Seq(Slot) /\ Len(c) = e + 7
         /\ \A k \in 1 .. e : c[k] = slots[k]
         /\ c[e + 1] = Anything /\ c[e + 2] = Anything
         /\ c[e + 3] = saved /\ c[e + 4] = Anything
         /\ c[e + 5] = Anything /\ c[e + 6] = Anything
         /\ c[e + 7] = Raised
    <3>1. Anything \in Slot /\ Raised \in Slot /\ saved \in Slot
      BY <2>6 DEF Slot
    <3>2. PICK b \in Seq(Slot), x \in Slot, y \in Slot, z \in Slot :
            b = cut /\ x = Anything /\ y = saved /\ z = Raised
      BY <2>9, <3>1
    <3>3. slots[Len(slots) - 3] = saved
      <4>1. Len(slots) - 3 = e + 4
        BY <1>3, <2>0
      <4> QED
        BY <4>1
    <3>4. c = b \o <<x, x, y, x>> \o <<x, x, z>>
      BY <2>7, <3>2, <3>3 DEF ExceptionClosed
    <3>5. /\ c \in Seq(Slot) /\ Len(c) = Len(b) + 7
          /\ \A k \in 1 .. Len(b) : c[k] = b[k]
          /\ c[Len(b) + 1] = x /\ c[Len(b) + 2] = x /\ c[Len(b) + 3] = y
          /\ c[Len(b) + 4] = x /\ c[Len(b) + 5] = x /\ c[Len(b) + 6] = x
          /\ c[Len(b) + 7] = z
      <4>1. PICK u : u = b \o <<x, x, y, x>>
        OBVIOUS
      <4>2. /\ u \in Seq(Slot) /\ Len(u) = Len(b) + 4
            /\ \A k \in 1 .. Len(b) : u[k] = b[k]
            /\ u[Len(b) + 1] = x /\ u[Len(b) + 2] = x /\ u[Len(b) + 3] = y
            /\ u[Len(b) + 4] = x
        BY <4>1, FourMoreValues
      <4>3. /\ c \in Seq(Slot) /\ Len(c) = Len(u) + 3
            /\ \A k \in 1 .. Len(u) : c[k] = u[k]
            /\ c[Len(u) + 1] = x /\ c[Len(u) + 2] = x /\ c[Len(u) + 3] = z
        BY <3>4, <4>1, <4>2, ThreeMoreValues
      <4>4. PICK m \in Nat : m = Len(b)
        OBVIOUS
      <4>5. Len(u) = m + 4
        BY <4>2, <4>4
      <4>6. /\ (m + 4) + 1 = m + 5 /\ (m + 4) + 2 = m + 6 /\ (m + 4) + 3 = m + 7
            /\ \A k \in 1 .. m : k \in 1 .. m + 4
            /\ \A k \in 1 .. 4 : m + k \in 1 .. m + 4
        OBVIOUS
      <4> QED
        BY <4>2, <4>3, <4>4, <4>5, <4>6
    <3>6. Len(b) = e /\ \A k \in 1 .. e : b[k] = slots[k]
      BY <2>9, <3>2
    <3> QED
      BY <3>2, <3>5, <3>6
  <2>13. SlotsHold(c, g)
    <3>1. ASSUME NEW k \in 1 .. e PROVE Holds(c[k], g, k)
      <4>1. Holds(slots[k], stack, k)
        BY <2>0, <2>2
      <4>2. c[k] = slots[k] /\ \A j \in 1 .. k : g[j] = stack[j]
        BY <2>0, <2>11, <2>12
      <4>3. c[k].is \in {"raised", "kept", "clear"} =>
                /\ k >= 3 /\ g[k] = stack[k]
                /\ g[k - 1] = stack[k - 1] /\ g[k - 2] = stack[k - 2]
        BY <4>1, <4>2 DEF Holds
      <4> QED
        BY <4>1, <4>2, <4>3 DEF Holds
    <3>2. Holds(c[e + 3], g, e + 3)
      <4>1. Holds(saved, stack, e + 4)
        BY <1>3, <2>0, <2>1, <2>2
      <4>2. /\ stack[e + 4] = TypeEntry(stack[e + 4].n)
            /\ stack[e + 3] = Entry("exc", stack[e + 4].n)
            /\ stack[e + 2] = Entry("tb", stack[e + 4].n)
            /\ saved.is = "clear" => stack[e + 4].n = 0
        BY <1>3, <2>0, <2>1, <2>6, <4>1 DEF Holds
      <4>3. e + 3 >= 3 /\ (e + 3) - 1 = e + 2 /\ (e + 3) - 2 = e + 1
        BY <2>0
      <4>4. /\ g[e + 3] = stack[e + 4] /\ g[e + 2] = stack[e + 3]
            /\ g[e + 1] = stack[e + 2] /\ c[e + 3] = saved
        BY <2>11, <2>12
      <4> QED
        BY <2>6, <4>2, <4>3, <4>4 DEF Holds
    <3>3. Holds(c[e + 7], g, e + 7)
      <4>1. Holds(Raised, stack, e + 7)
        BY <1>3, <1>5, <2>0, <2>2 DEF LastSlot
      <4>2. e + 7 >= 3 /\ (e + 7) - 1 = e + 6 /\ (e + 7) - 2 = e + 5
        BY <2>0
      <4>3. /\ g[e + 7] = stack[e + 7] /\ g[e + 6] = stack[e + 6]
            /\ g[e + 5] = stack[e + 5] /\ c[e + 7] = Raised
        BY <2>11, <2>12
      <4> QED
        BY <4>1, <4>2, <4>3 DEF Holds
    <3>4. ASSUME NEW k \in {e + 1, e + 2, e + 4, e + 5, e + 6}
          PROVE  Holds(c[k], g, k)
      <4>1. c[k] = Anything
        BY <2>12
      <4>2. Holds(Anything, g, k)
        BY DEF Holds, Is, Solid
      <4> QED
        BY <4>1, <4>2
    <3>5. \A k \in 1 .. e + 7 : Holds(c[k], g, k)
      <4>1. \A k \in 1 .. e + 7 : k \in 1 .. e \/ k = e + 3 \/ k = e + 7
                                \/ k \in {e + 1, e + 2, e + 4, e + 5, e + 6}
        BY <2>0
      <4> QED
        BY <3>1, <3>2, <3>3, <3>4, <4>1
    <3> QED
      BY <2>0, <2>11, <2>12, <3>5 DEF SlotsHold
  <2> QED
    BY <1>1, <2>0, <2>1, <2>3, <2>5, <2>8, <2>10, <2>11, <2>12, <2>13, CleansUpOn
<1> QED
  BY <1>4, <1>5

-------------------------------------------------------------------------------
(* The unwinding loop.                                                     *)

\* What the shape of a frame that unwinds says: ret of the value on its way.
Away(ret, slots) ==
    /\ ret \in Slot /\ slots \in Seq(Slot)
    /\ SlotsHold(slots, stack) /\ Nested(blocks, slots)
    /\ why \in {WhyReturn, WhyContinue} => Is(ret, retval)
    /\ why = WhyReturn => ret.is \in Solid
    /\ why = WhyContinue => ret.is = "int"
    /\ why \in {WhyBreak, WhyContinue} => Loops(blocks)
    /\ blocks # <<>> => Unwound(why, ret, blocks, slots) \in Shapes

LEMMA WhileUnwinding ==
    ASSUME ProgramsVerified, ShapeInv, status = "running", why # WhyNot
    PROVE  \E ret, slots : Away(ret, slots)
<1>1. Verified(prog.code, Shapes)
  BY ShapesVerified DEF ShapeInv
<1>2. PICK a \in Shapes :
        /\ FrameIs(a) /\ a.why = why
        /\ why \in {WhyReturn, WhyContinue} => Is(a.ret, retval)
  BY DEF ShapeInv, RunsInShape
<1>3. a \in Shape /\ Lawful(prog.code, a) /\ Leads(prog.code, a) \subseteq Shapes
  BY <1>1 DEF Verified
<1>4. a.ret \in Slot /\ a.slots \in Seq(Slot) /\ SlotsHold(a.slots, stack)
  BY <1>2, <1>3 DEF Shape, FrameIs
<1>5. /\ Nested(blocks, a.slots)
      /\ why = WhyReturn => a.ret.is \in Solid
      /\ why = WhyContinue => a.ret.is = "int"
      /\ why \in {WhyBreak, WhyContinue} => Loops(blocks)
  BY <1>2, <1>3 DEF Lawful, FrameIs
<1>6. blocks # <<>> => Unwound(why, a.ret, blocks, a.slots) \in Shapes
  BY <1>2, <1>3 DEF Leads, FrameIs
<1> QED
  BY <1>2, <1>4, <1>5, <1>6 DEF Away

\* The innermost block, and the values it leaves.
LEMMA InnerBlock ==
    ASSUME ShapeInv, Unwinding, NEW ret, NEW slots, Away(ret, slots)
    PROVE  /\ blocks \in Seq(Block) /\ Len(blocks) >= 1
           /\ Inner = blocks[Len(blocks)] /\ Inner \in Block
           /\ Front(blocks) = SubSeq(blocks, 1, Len(blocks) - 1)
           /\ Inner.level \in 0 .. Depth /\ Depth \in Nat
           /\ Held(Inner) <= Depth
           /\ Truncated = SubSeq(stack, 1, Inner.level)
           /\ Truncated \in Seq(Value) /\ Len(Truncated) = Inner.level
           /\ SubSeq(slots, 1, Inner.level) \in Seq(Slot)
           /\ SlotsHold(SubSeq(slots, 1, Inner.level), Truncated)
           /\ Unwound(why, ret, blocks, slots) \in Shapes
<1>1. blocks \in Seq(Block) /\ stack \in Seq(Value) /\ slots \in Seq(Slot)
      /\ SlotsHold(slots, stack) /\ Nested(blocks, slots) /\ blocks # <<>>
      /\ Unwound(why, ret, blocks, slots) \in Shapes
  BY DEF ShapeInv, TypeOK, Away, Unwinding
<1>2. /\ Len(blocks) >= 1 /\ Inner = blocks[Len(blocks)] /\ Inner \in Block
      /\ Front(blocks) = SubSeq(blocks, 1, Len(blocks) - 1)
  BY <1>1, NotEmpty DEF Inner
<1>3. Depth = Len(stack) /\ Depth \in Nat /\ Len(slots) = Depth
  BY <1>1 DEF Depth, SlotsHold
<1>4. Held(Inner) <= Depth
  BY <1>1, <1>2, <1>3 DEF Nested
<1>5. Inner.level \in 0 .. Depth
  <2>1. Inner.level \in Nat /\ Held(Inner) >= Inner.level /\ Held(Inner) \in Nat
    BY <1>2 DEF Block, Held
  <2> QED
    BY <1>3, <1>4, <2>1
<1>6. Truncated = SubSeq(stack, 1, Inner.level)
  BY <1>1, <1>3, <1>5, WholeSeq DEF Truncated
<1>7. /\ SubSeq(stack, 1, Inner.level) \in Seq(Value)
      /\ Len(SubSeq(stack, 1, Inner.level)) = Inner.level
      /\ SubSeq(slots, 1, Inner.level) \in Seq(Slot)
  BY <1>1, <1>3, <1>5, SubSeqLen
<1>8. SlotsHold(SubSeq(slots, 1, Inner.level), SubSeq(stack, 1, Inner.level))
  BY <1>1, <1>3, <1>5, SlotsPopped
<1> QED
  BY <1>1, <1>2, <1>3, <1>4, <1>5, <1>6, <1>7, <1>8

LEMMA UnwindContinuesKeeps ==
    ASSUME ProgramsVerified, ShapeInv, UnwindContinues
    PROVE  ShapeInv'
<1>1. Unwinding /\ status = "running" /\ why = WhyContinue /\ Inner.type = "loop"
  BY DEF UnwindContinues, Unwinding
<1>2. PICK ret, slots : Away(ret, slots)
  BY <1>1, WhileUnwinding
<1>3. retval = ret /\ SlotsHold(slots, stack)
  BY <1>1, <1>2 DEF Away, Is
<1>4. Runs(retval.n, blocks, slots) \in Shapes
  BY <1>1, <1>2, <1>3, InnerBlock DEF Unwound, Inner
<1>5. /\ lasti' = retval.n /\ why' = WhyNot
      /\ UNCHANGED <<prog, stack, blocks, retval, curexc, exc, status, world>>
  BY DEF UnwindContinues, Goto
<1>6. curexc' = NoExc /\ HandlesOnly'
  BY <1>1, <1>5 DEF ShapeInv, RaisesWhy, HandlesOnly, IsSet, Info
<1> QED
  BY <1>1, <1>3, <1>4, <1>5, <1>6, RunsOn DEF world, ShapeInv, TypeOK

LEMMA UnwindBreaksKeeps ==
    ASSUME ProgramsVerified, ShapeInv, UnwindBreaks
    PROVE  ShapeInv'
<1>1. Unwinding /\ status = "running" /\ why = WhyBreak /\ Inner.type = "loop"
  BY DEF UnwindBreaks, Unwinding
<1>2. PICK ret, slots : Away(ret, slots)
  BY <1>1, WhileUnwinding
<1>3. Runs(Inner.handler, Front(blocks), SubSeq(slots, 1, Inner.level)) \in Shapes
  BY <1>1, <1>2, InnerBlock DEF Unwound, Inner
<1>4. /\ lasti' = Inner.handler /\ why' = WhyNot
      /\ blocks' = Front(blocks) /\ stack' = Truncated
      /\ UNCHANGED <<prog, retval, curexc, exc, status, world>>
  BY DEF UnwindBreaks, Goto
<1>5. /\ SlotsHold(SubSeq(slots, 1, Inner.level), stack')
      /\ stack' \in Seq(Value)
  BY <1>1, <1>2, <1>4, InnerBlock
<1>6. Handles(blocks) => Handles(blocks')
  BY <1>1, <1>2, <1>4, InnerBlock, HandlesFront DEF Inner
<1>7. curexc' = NoExc /\ HandlesOnly'
  BY <1>1, <1>4, <1>6 DEF ShapeInv, RaisesWhy, HandlesOnly, IsSet, Info
<1> QED
  BY <1>1, <1>3, <1>4, <1>5, <1>7, RunsOn DEF world, ShapeInv, TypeOK

\* What a handler restores is an exception only where one is still handled.
LEMMA UnwindLeavesHandlerKeeps ==
    ASSUME ProgramsVerified, ShapeInv, UnwindLeavesHandler
    PROVE  ShapeInv'
<1>1. Unwinding /\ status = "running" /\ why # WhyNot /\ Inner.type = "handler"
  BY DEF UnwindLeavesHandler, Unwinding
<1>2. PICK ret, slots : Away(ret, slots)
  BY <1>1, WhileUnwinding
<1>3. Unwinds(why, ret, Front(blocks), SubSeq(slots, 1, Inner.level)) \in Shapes
  BY <1>1, <1>2, InnerBlock DEF Unwound, Inner
<1>4. /\ blocks' = Front(blocks)
      /\ exc' = Saved(Inner, stack) /\ stack' = SubSeq(stack, 1, Inner.level)
      /\ UNCHANGED <<prog, lasti, why, retval, curexc, status, world>>
  BY DEF UnwindLeavesHandler, UnwindExceptHandler
<1>5. /\ exc' \in Exception /\ exc' = Info(exc'.type)
      /\ IsSet(exc') => Handles(blocks')
  <2>1. /\ blocks \in Seq(Block) /\ InHandler(blocks) /\ Inner = Last(blocks)
        /\ Held(Inner) <= Len(stack) /\ Inner = blocks[Len(blocks)]
        /\ Len(blocks) >= 1
        /\ Front(blocks) = SubSeq(blocks, 1, Len(blocks) - 1)
    BY <1>1, <1>2, InnerBlock DEF InHandler, Inner, Depth
  <2>2. slots[Held(Inner)] \in
            IF Handles(Front(blocks)) THEN {Kept, Clear} ELSE {Clear}
    BY <1>1, <1>2, <2>1 DEF Away, Nested
  <2>3. slots \in Seq(Slot) /\ stack \in Seq(Value) /\ SlotsHold(slots, stack)
    BY <1>2 DEF Away, ShapeInv, TypeOK
  <2> QED
    BY <1>4, <2>1, <2>2, <2>3, HandlerLeft
<1>6. /\ SlotsHold(SubSeq(slots, 1, Inner.level), stack')
      /\ stack' \in Seq(Value)
  BY <1>1, <1>2, <1>4, InnerBlock
<1>7. RaisesWhy' /\ HandlesOnly'
  BY <1>1, <1>4, <1>5 DEF ShapeInv, RaisesWhy, HandlesOnly, IsSet
<1>8. why \in {WhyException, WhyReturn, WhyBreak, WhyContinue}
      /\ (why \in {WhyReturn, WhyContinue} => Is(ret, retval))
  BY <1>1, <1>2 DEF ShapeInv, TypeOK, Away
<1> QED
  BY <1>1, <1>3, <1>4, <1>5, <1>6, <1>7, <1>8, UnwindsOn
  DEF world, ShapeInv, TypeOK

LEMMA UnwindPassesKeeps ==
    ASSUME ProgramsVerified, ShapeInv, UnwindPasses
    PROVE  ShapeInv'
<1>1. /\ Unwinding /\ status = "running" /\ why # WhyNot
      /\ \/ Inner.type = "loop" /\ why \notin {WhyContinue, WhyBreak}
         \/ Inner.type = "except" /\ why # WhyException
  BY DEF UnwindPasses, Unwinding
<1>2. PICK ret, slots : Away(ret, slots)
  BY <1>1, WhileUnwinding
<1>3. Unwinds(why, ret, Front(blocks), SubSeq(slots, 1, Inner.level)) \in Shapes
  BY <1>1, <1>2, InnerBlock DEF Unwound, Inner
<1>4. /\ blocks' = Front(blocks) /\ stack' = Truncated
      /\ UNCHANGED <<prog, lasti, why, retval, curexc, exc, status, world>>
  BY DEF UnwindPasses, vmVars
<1>5. /\ SlotsHold(SubSeq(slots, 1, Inner.level), stack')
      /\ stack' \in Seq(Value)
  BY <1>1, <1>2, <1>4, InnerBlock
<1>6. Handles(blocks) => Handles(blocks')
  BY <1>1, <1>2, <1>4, InnerBlock, HandlesFront DEF Inner
<1>7. RaisesWhy' /\ HandlesOnly'
  BY <1>1, <1>4, <1>6 DEF ShapeInv, RaisesWhy, HandlesOnly, IsSet
<1>8. why \in {WhyException, WhyReturn, WhyBreak, WhyContinue}
      /\ (why \in {WhyReturn, WhyContinue} => Is(ret, retval))
  BY <1>1, <1>2 DEF ShapeInv, TypeOK, Away
<1> QED
  BY <1>1, <1>3, <1>4, <1>5, <1>6, <1>7, <1>8, UnwindsOn
  DEF world, ShapeInv, TypeOK

\* The three entries of an exception, or of none, on top of a stack.
LEMMA EntriesHold ==
    ASSUME NEW slots \in Seq(Slot), NEW s \in Seq(Value), SlotsHold(slots, s),
           NEW x \in Nat, NEW kind \in {Raised, Kept, Clear},
           kind = Raised => x # 0, kind = Clear => x = 0
    PROVE  /\ slots \o <<Anything, Anything, kind>> \in Seq(Slot)
           /\ s \o Entries(Info(x)) \in Seq(Value)
           /\ SlotsHold(slots \o <<Anything, Anything, kind>>, s \o Entries(Info(x)))
<1>1. PICK t, c : t = s \o Entries(Info(x)) /\ c = slots \o <<Anything, Anything, kind>>
  OBVIOUS
<1>2. PICK e \in Nat : e = Len(s) /\ e = Len(slots)
  BY DEF SlotsHold
<1>3. /\ Entry("tb", x) \in Value /\ Entry("exc", x) \in Value
      /\ TypeEntry(x) \in Value /\ TypeEntry(x).n = x
      /\ Anything \in Slot /\ kind \in Slot
  BY DEF Entry, TypeEntry, Value, Kinds, Slot
<1>4. /\ t \in Seq(Value) /\ Len(t) = e + 3
      /\ \A k \in 1 .. e : t[k] = s[k]
      /\ t[e + 1] = Entry("tb", x) /\ t[e + 2] = Entry("exc", x)
      /\ t[e + 3] = TypeEntry(x)
  <2>1. PICK p1 \in Value, p2 \in Value, p3 \in Value :
          p1 = Entry("tb", x) /\ p2 = Entry("exc", x) /\ p3 = TypeEntry(x)
    BY <1>3
  <2>2. t = s \o <<p1, p2, p3>>
    BY <1>1, <2>1 DEF Entries, Info
  <2>3. /\ t \in Seq(Value) /\ Len(t) = e + 3
        /\ \A k \in 1 .. e : t[k] = s[k]
        /\ t[e + 1] = p1 /\ t[e + 2] = p2 /\ t[e + 3] = p3
    <3>1. /\ t \in Seq(Value) /\ Len(t) = Len(s) + 3
          /\ \A k \in 1 .. Len(s) : t[k] = s[k]
          /\ t[Len(s) + 1] = p1 /\ t[Len(s) + 2] = p2 /\ t[Len(s) + 3] = p3
      BY <2>2, ThreeMoreValues
    <3> QED
      BY <1>2, <3>1
  <2> QED
    BY <2>1, <2>3
<1>5. /\ c \in Seq(Slot) /\ Len(c) = e + 3
      /\ \A k \in 1 .. e : c[k] = slots[k]
      /\ c[e + 1] = Anything /\ c[e + 2] = Anything /\ c[e + 3] = kind
  <2>1. PICK p1 \in Slot, p3 \in Slot : p1 = Anything /\ p3 = kind
    BY <1>3
  <2>2. c = slots \o <<p1, p1, p3>>
    BY <1>1, <2>1
  <2> QED
    BY <1>2, <2>1, <2>2, ThreeMoreValues
<1>6. ASSUME NEW k \in 1 .. e PROVE Holds(c[k], t, k)
  <2>1. Holds(slots[k], s, k)
    BY <1>2 DEF SlotsHold
  <2>2. c[k] = slots[k] /\ \A j \in 1 .. k : t[j] = s[j]
    BY <1>2, <1>4, <1>5
  <2>3. c[k].is \in {"raised", "kept", "clear"} =>
            /\ k >= 3 /\ t[k] = s[k] /\ t[k - 1] = s[k - 1] /\ t[k - 2] = s[k - 2]
    BY <2>1, <2>2 DEF Holds
  <2> QED
    BY <2>1, <2>2, <2>3 DEF Holds
<1>7. ASSUME NEW k \in {e + 1, e + 2} PROVE Holds(c[k], t, k)
  <2>1. c[k] = Anything
    BY <1>5
  <2>2. Holds(Anything, t, k)
    BY DEF Holds, Is, Solid
  <2> QED
    BY <2>1, <2>2
<1>8. Holds(c[e + 3], t, e + 3)
  <2>1. e + 3 >= 3 /\ (e + 3) - 1 = e + 2 /\ (e + 3) - 2 = e + 1
    BY <1>2
  <2>2. /\ t[e + 3].n = x /\ t[e + 3] = TypeEntry(x)
        /\ t[(e + 3) - 1] = Entry("exc", x) /\ t[(e + 3) - 2] = Entry("tb", x)
    BY <1>3, <1>4, <2>1
  <2> QED
    BY <1>5, <2>1, <2>2 DEF Holds
<1>9. \A k \in 1 .. e + 3 : Holds(c[k], t, k)
  <2>1. \A k \in 1 .. e + 3 : k \in 1 .. e \/ k \in {e + 1, e + 2} \/ k = e + 3
    BY <1>2
  <2> QED
    BY <1>6, <1>7, <1>8, <2>1
<1> QED
  BY <1>1, <1>4, <1>5, <1>9 DEF SlotsHold

LEMMA UnwindCatchesKeeps ==
    ASSUME ProgramsVerified, ShapeInv, UnwindCatches
    PROVE  ShapeInv'
<1>1. /\ Unwinding /\ status = "running" /\ why = WhyException
      /\ Inner.type \in {"except", "finally"}
  BY DEF UnwindCatches, Unwinding
<1>2. PICK ret, slots : Away(ret, slots)
  BY <1>1, WhileUnwinding
<1>3. PICK handler : handler = [type |-> "handler", handler |-> 0, level |-> Inner.level]
  OBVIOUS
<1>4. PICK cut \in Seq(Slot) : cut = SubSeq(slots, 1, Inner.level)
  BY <1>1, <1>2, InnerBlock
<1>5. PICK kept \in {Kept, Clear} : kept = IF Handles(Front(blocks)) THEN Kept ELSE Clear
  OBVIOUS
<1>6. Runs(Inner.handler, Append(Front(blocks), handler),
           cut \o <<Anything, Anything, kept>> \o <<Anything, Anything, Raised>>)
        \in Shapes
  BY <1>1, <1>2, <1>3, <1>4, <1>5, InnerBlock DEF Unwound, Inner
<1>7. /\ blocks' = Append(Front(blocks), handler)
      /\ stack' = Truncated \o Entries(exc) \o Entries(curexc)
      /\ exc' = curexc /\ curexc' = NoExc /\ why' = WhyNot
      /\ lasti' = Inner.handler
      /\ UNCHANGED <<prog, retval, status, world>>
  BY <1>1, <1>2, <1>3, InnerBlock DEF UnwindCatches, Goto
<1>8. PICK x \in Nat, y \in Nat :
        /\ exc = Info(x) /\ curexc = Info(y) /\ y # 0
        /\ x # 0 => Handles(blocks)
  <2>1. exc.type \in Nat /\ curexc.type \in Nat
    BY DEF ShapeInv, TypeOK, Exception
  <2>2. exc = Info(exc.type) /\ curexc = Info(curexc.type) /\ curexc.type # 0
        /\ (exc.type # 0 => Handles(blocks))
    BY <1>1 DEF ShapeInv, RaisesWhy, HandlesOnly, IsSet
  <2> QED
    BY <2>1, <2>2
<1>9. kept = Clear => x = 0
  <2>1. Handles(blocks) => Handles(Front(blocks))
    BY <1>1, <1>2, InnerBlock, HandlesFront DEF Inner
  <2> QED
    BY <1>5, <1>8, <2>1
<1>10. PICK s, c : /\ s = Truncated \o Entries(Info(x))
                   /\ c = cut \o <<Anything, Anything, kept>>
  OBVIOUS
<1>11. s \in Seq(Value) /\ c \in Seq(Slot) /\ SlotsHold(c, s)
  <2>1. PICK u \in Seq(Value) : u = Truncated /\ SlotsHold(cut, u)
    BY <1>1, <1>2, <1>4, InnerBlock
  <2>2. kept \in {Raised, Kept, Clear}
    BY <1>5
  <2>3. kept # Raised
    BY <1>5
  <2> QED
    BY <1>9, <1>10, <2>1, <2>2, <2>3, EntriesHold
<1>12. PICK t, d : t = s \o Entries(Info(y)) /\ d = c \o <<Anything, Anything, Raised>>
  OBVIOUS
<1>13. t \in Seq(Value) /\ SlotsHold(d, t)
  <2>1. Raised \in {Raised, Kept, Clear} /\ Raised # Clear
    OBVIOUS
  <2> QED
    BY <1>8, <1>11, <1>12, <2>1, EntriesHold
<1>14. stack' = t /\ Runs(lasti', blocks', d) \in Shapes
  BY <1>6, <1>7, <1>8, <1>10, <1>12
<1>15. exc' \in Exception /\ HandlesOnly'
  <2>1. Handles(blocks')
    BY <1>1, <1>2, <1>3, <1>7, InnerBlock, HandlesMore, NotEmpty
  <2> QED
    BY <1>7, <1>8, <2>1 DEF HandlesOnly, Info, Exception
<1> QED
  BY <1>1, <1>7, <1>13, <1>14, <1>15, RunsOn DEF world, ShapeInv, TypeOK

LEMMA OneMore ==
    ASSUME NEW S, NEW s \in Seq(S), NEW x \in S
    PROVE  s \o <<x>> = Append(s, x) /\ s \o <<>> = s
OBVIOUS

\* A finally clause is told why, and return and continue leave their value.
LEMMA UnwindFinallyKeeps ==
    ASSUME ProgramsVerified, ShapeInv, UnwindFinally
    PROVE  ShapeInv'
<1>1. /\ Unwinding /\ status = "running" /\ Inner.type = "finally"
      /\ why \in {WhyReturn, WhyBreak, WhyContinue}
  BY DEF UnwindFinally, Unwinding, ShapeInv, TypeOK
<1>2. PICK ret, slots : Away(ret, slots)
  BY <1>1, WhileUnwinding
<1>3. PICK code : code = V("int", why)
  OBVIOUS
<1>4. PICK cut \in Seq(Slot), u \in Seq(Value) :
        /\ cut = SubSeq(slots, 1, Inner.level) /\ u = Truncated
        /\ SlotsHold(cut, u)
  BY <1>1, <1>2, InnerBlock
<1>5. code \in Slot /\ code \in Value /\ Is(code, code)
      /\ code.is \notin {"raised", "kept", "clear"}
  BY <1>1, <1>3 DEF Slot, Value, Kinds, Is, Solid
<1>6. retval \in Value /\ ret \in Slot
  BY <1>2 DEF ShapeInv, TypeOK, Away
<1>7. PICK c \in Seq(Slot), t \in Seq(Value) :
        /\ c = cut \o (IF why \in {WhyReturn, WhyContinue} THEN <<ret>> ELSE <<>>)
        /\ t = u \o (IF why \in {WhyReturn, WhyContinue} THEN <<retval>> ELSE <<>>)
        /\ SlotsHold(c, t)
  <2>1. CASE why \in {WhyReturn, WhyContinue}
    <3>1. Is(ret, retval) /\ ret.is \notin {"raised", "kept", "clear"}
      BY <1>2, <2>1 DEF Away, Solid
    <3>2. Append(u, retval) \in Seq(Value) /\ Append(cut, ret) \in Seq(Slot)
          /\ Append(u, retval)[Len(u) + 1] = retval
      BY <1>6
    <3>3. Holds(ret, Append(u, retval), Len(u) + 1)
      BY <3>1, <3>2 DEF Holds
    <3>4. SlotsHold(Append(cut, ret), Append(u, retval))
      BY <1>4, <1>6, <3>3, SlotsPushed
    <3>5. cut \o <<ret>> = Append(cut, ret) /\ u \o <<retval>> = Append(u, retval)
      BY <1>6, OneMore
    <3> QED
      BY <2>1, <3>2, <3>4, <3>5
  <2>2. CASE why \notin {WhyReturn, WhyContinue}
    <3>1. cut \o <<>> = cut /\ u \o <<>> = u
      BY <1>6, OneMore
    <3> QED
      BY <1>4, <2>2, <3>1
  <2> QED
    BY <2>1, <2>2
<1>8. /\ blocks' = Front(blocks) /\ stack' = Append(t, code)
      /\ lasti' = Inner.handler /\ why' = WhyNot
      /\ UNCHANGED <<prog, retval, curexc, exc, status, world>>
  <2>1. t \o <<code>> = Append(t, code)
    BY <1>5, OneMore
  <2> QED
    BY <1>3, <1>4, <1>7, <2>1 DEF UnwindFinally, Goto
<1>9. Runs(lasti', blocks', Append(c, code)) \in Shapes
  <2>1. c \o <<code>> = Append(c, code)
    BY <1>5, OneMore
  <2>2. Unwound(why, ret, blocks, slots) = Runs(Inner.handler, Front(blocks), c \o <<code>>)
    <3>1. Unwound(why, ret, blocks, slots) =
            Runs(Inner.handler, Front(blocks),
                 SubSeq(slots, 1, Inner.level)
                 \o (IF why \in {WhyReturn, WhyContinue} THEN <<ret>> ELSE <<>>)
                 \o <<V("int", why)>>)
      BY <1>1 DEF Unwound, Inner
    <3> QED
      BY <1>3, <1>4, <1>7, <3>1
  <2>3. Unwound(why, ret, blocks, slots) \in Shapes
    BY <1>1, <1>2, InnerBlock
  <2> QED
    BY <1>8, <2>1, <2>2, <2>3
<1>10. SlotsHold(Append(c, code), stack') /\ stack' \in Seq(Value)
  <2>1. Append(t, code)[Len(t) + 1] = code /\ Append(t, code) \in Seq(Value)
    BY <1>5
  <2>2. Holds(code, Append(t, code), Len(t) + 1)
    BY <1>5, <2>1 DEF Holds
  <2> QED
    BY <1>5, <1>7, <1>8, <2>1, <2>2, SlotsPushed
<1>11. Handles(blocks) => Handles(blocks')
  BY <1>1, <1>2, <1>8, InnerBlock, HandlesFront DEF Inner
<1>12. curexc' = NoExc /\ HandlesOnly'
  BY <1>1, <1>8, <1>11 DEF ShapeInv, RaisesWhy, HandlesOnly, IsSet, Info
<1> QED
  BY <1>1, <1>8, <1>9, <1>10, <1>12, RunsOn DEF world, ShapeInv, TypeOK

LEMMA ExitKeeps ==
    ASSUME ShapeInv, Exit
    PROVE  ShapeInv'
<1>1. /\ blocks = <<>> /\ status' \in {"raised", "returned"}
      /\ retval' \in {retval, Nil}
      /\ UNCHANGED <<prog, lasti, stack, blocks, why, curexc, exc, log, answers>>
  BY DEF Exit, Exiting, Result, frameVars, world
<1>2. TypeOK'
  BY <1>1 DEF ShapeInv, TypeOK, Value, Kinds
<1>3. RunsInShape' /\ PausesInShape' /\ EndsEmpty'
  BY <1>1 DEF RunsInShape, PausesInShape, EndsEmpty
<1>4. RaisesWhy' /\ HandlesOnly'
  BY <1>1 DEF ShapeInv, RaisesWhy, HandlesOnly, IsSet
<1> QED
  BY <1>1, <1>2, <1>3, <1>4 DEF ShapeInv

-------------------------------------------------------------------------------
(* The invariant is inductive.                                             *)

LEMMA ShapeInit ==
    ASSUME ProgramsVerified, Init
    PROVE  ShapeInv
<1>1. /\ prog \in Programs /\ lasti = 0 /\ stack = <<>> /\ blocks = <<>>
      /\ why = WhyNot /\ retval = Nil /\ curexc = NoExc /\ exc = NoExc
      /\ status = "running" /\ log = <<>> /\ answers = <<>>
  BY DEF Init
<1>2. TypeOK
  <2>1. Nil \in Value /\ NoExc \in Exception
    BY DEF Value, Kinds, Info, Exception
  <2> QED
    BY <1>1, <2>1, AnswersBound DEF TypeOK
<1>3. RunsInShape
  <2>1. Start \in Shapes
    BY <1>1, ShapesVerified DEF Verified
  <2>2. Start.blocks = <<>> /\ Start.slots = <<>> /\ Start.why = why /\ Start.at = lasti
    BY <1>1 DEF Start, Runs
  <2>3. FrameIs(Start)
    BY <1>1, <2>2 DEF FrameIs, SlotsHold
  <2> QED
    BY <1>1, <2>1, <2>2, <2>3 DEF RunsInShape
<1>4. RaisesWhy /\ HandlesOnly
  BY <1>1 DEF RaisesWhy, HandlesOnly, IsSet, Info
<1> QED
  BY <1>1, <1>2, <1>3, <1>4 DEF ShapeInv, PausesInShape, EndsEmpty

LEMMA ShapeStutter ==
    ASSUME ShapeInv, UNCHANGED vars
    PROVE  ShapeInv'
<1>1. UNCHANGED <<prog, lasti, stack, blocks, why, retval, curexc, exc, status,
                  log, answers>>
  BY DEF vars
<1>2. Shapes' = Shapes
  BY <1>1, ShapesKept
<1>3. TypeOK'
  BY <1>1 DEF ShapeInv, TypeOK
<1>4. RunsInShape'
  BY <1>1, <1>2 DEF ShapeInv, RunsInShape, FrameIs
<1>5. PausesInShape'
  BY <1>1, <1>2 DEF ShapeInv, PausesInShape
<1>6. EndsEmpty' /\ RaisesWhy' /\ HandlesOnly'
  BY <1>1 DEF ShapeInv, EndsEmpty, RaisesWhy, HandlesOnly, IsSet
<1> QED
  BY <1>1, <1>3, <1>4, <1>5, <1>6 DEF ShapeInv

LEMMA ShapeStep ==
    ASSUME ProgramsVerified, ShapeInv, [Next]_vars
    PROVE  ShapeInv'
<1>1. CASE Opcode
  BY <1>1, LoadKeeps, DropKeeps, DeleteNameKeeps, DupTopKeeps, ComputeKeeps,
     ForIterKeeps, JumpKeeps, PopJumpIfFalseKeeps, SetupKeeps, SetupWithKeeps,
     PopBlockKeeps, PopExceptKeeps, EndFinallyNormallyKeeps,
     EndFinallyUnwindingKeeps, EndFinallySilencedKeeps, EndFinallyRaisingKeeps,
     WithCleanupKeeps, LoopExitKeeps, ReturnValueKeeps, RaiseKeeps,
     CallFunctionKeeps
  DEF Opcode
<1>2. CASE Unwind
  BY <1>2, UnwindContinuesKeeps, UnwindBreaksKeeps, UnwindLeavesHandlerKeeps,
     UnwindCatchesKeeps, UnwindFinallyKeeps, UnwindPassesKeeps, ExitKeeps
  DEF Unwind
<1>3. CASE Resume
  BY <1>3, ResumeKeeps
<1>4. CASE UNCHANGED vars
  BY <1>4, ShapeStutter
<1> QED
  BY <1>1, <1>2, <1>3, <1>4 DEF Next

-------------------------------------------------------------------------------
(* What the invariant says of the frame.                                   *)

LEMMA AlwaysNested ==
    ASSUME ProgramsVerified, ShapeInv, blocks # <<>>
    PROVE  \E slots : /\ slots \in Seq(Slot) /\ SlotsHold(slots, stack)
                     /\ Nested(blocks, slots)
<1>1. CASE status = "running" /\ why = WhyNot
  BY <1>1, AtInstruction DEF Here
<1>2. CASE status = "running" /\ why # WhyNot
  BY <1>2, WhileUnwinding DEF Away
<1>3. CASE status = "paused"
  <2>1. PICK slots \in Seq(Slot) :
          SlotsHold(slots, stack) /\ Raises(blocks, slots) \in Shapes
    BY <1>3 DEF ShapeInv, PausesInShape
  <2>2. Lawful(prog.code, Raises(blocks, slots))
    BY <2>1, ShapesVerified DEF Verified, ShapeInv
  <2>3. Nested(blocks, slots)
    BY <2>2 DEF Lawful, Raises, Unwinds
  <2> QED
    BY <2>1, <2>3
<1> QED
  BY <1>1, <1>2, <1>3 DEF ShapeInv, TypeOK, EndsEmpty

LEMMA ShapesNest ==
    ASSUME ProgramsVerified, ShapeInv
    PROVE  BlocksNest
<1>1. SUFFICES ASSUME NEW i \in 1 .. Len(blocks)
               PROVE  /\ Held(blocks[i]) <= Depth
                      /\ i < Len(blocks) => Held(blocks[i]) <= blocks[i + 1].level
                      /\ blocks[i].type = "handler" =>
                          /\ stack[blocks[i].level + 3].is \in {"none", "type"}
                          /\ Saved(blocks[i], stack) =
                                Info(stack[blocks[i].level + 3].n)
  BY DEF BlocksNest, Held
<1>2. blocks \in Seq(Block) /\ blocks # <<>> /\ stack \in Seq(Value)
  BY DEF ShapeInv, TypeOK
<1>3. PICK slots : /\ slots \in Seq(Slot) /\ SlotsHold(slots, stack)
                   /\ Nested(blocks, slots)
  BY <1>2, AlwaysNested
<1>4. Len(slots) = Depth /\ Depth = Len(stack) /\ Depth \in Nat
  BY <1>2, <1>3 DEF SlotsHold, Depth
<1>5. /\ Held(blocks[i]) <= Depth
      /\ i < Len(blocks) => Held(blocks[i]) <= blocks[i + 1].level
  BY <1>3, <1>4 DEF Nested
<1>6. ASSUME blocks[i].type = "handler"
      PROVE  /\ stack[blocks[i].level + 3].is \in {"none", "type"}
             /\ Saved(blocks[i], stack) = Info(stack[blocks[i].level + 3].n)
  <2>1. blocks[i].level \in Nat /\ Held(blocks[i]) = blocks[i].level + 3
    <3>1. blocks[i] \in Block
      BY <1>2
    <3> QED
      BY <1>6, <3>1 DEF Block, Held
  <2>2. slots[blocks[i].level + 3] \in {Kept, Clear}
    BY <1>3, <1>6, <2>1 DEF Nested
  <2>3. Holds(slots[blocks[i].level + 3], stack, blocks[i].level + 3)
    BY <1>3, <1>4, <1>5, <2>1 DEF SlotsHold
  <2>4. slots[blocks[i].level + 3].is \in {"kept", "clear"}
    BY <2>2
  <2> QED
    BY <2>1, <2>3, <2>4, EntrySaved
<1> QED
  BY <1>5, <1>6

LEMMA ShapesLeaveALoop ==
    ASSUME ProgramsVerified, ShapeInv
    PROVE  LeavesALoop
BY WhileUnwinding DEF LeavesALoop, Away, Loops

\* Every opcode finds the values it takes,
LEMMA ValuesSuffice ==
    ASSUME ProgramsVerified, ShapeInv, status = "running", why = WhyNot
    PROVE  Depth >= Takes
<1>1. PICK slots : Here(slots)
  BY AtInstruction
<1>2. Len(slots) = Depth /\ Depth \in Nat /\ Instr \in Instruction
  BY <1>1, FoundValues, AtInstruction
<1>3. Accepts(Instr.op, Arg, blocks, slots)
  BY <1>1 DEF Here
<1>4. CASE Instr.op = "END_FINALLY"
  <2>1. CanEndFinally(blocks, slots) /\ Depth >= 1
    BY <1>2, <1>3, <1>4 DEF Accepts, CanEndFinally, EntryOK
  <2>2. Top.is = "type" => Depth >= 3
    BY <1>1, <2>1, EntryFound DEF CanEndFinally, EntryOK, Carries
  <2>3. CarriesValue => Depth >= 2
    BY <1>1, <1>2, <2>1, EntryFound DEF CanEndFinally, EntryOK, Carries, CarriesValue
  <2> QED
    BY <1>2, <1>4, <2>1, <2>2, <2>3 DEF Takes
<1>5. CASE Instr.op = "WITH_CLEANUP"
  <2>1. EntryOK(slots) /\ Depth >= 1 /\ Depth >= ExitSlotAt(slots)
    BY <1>2, <1>3, <1>5 DEF Accepts, CanCleanUp, EntryOK
  <2>2. ExitIsAt = ExitSlotAt(slots)
    BY <1>1, <2>1, EntryFound
    DEF EntryOK, Carries, NoException, CarriesValue, ExitIsAt, ExitSlotAt
  <2> QED
    BY <1>2, <1>5, <2>1, <2>2 DEF Takes
<1>6. CASE Instr.op = "RAISE_VARARGS"
  BY <1>2, <1>3, <1>6 DEF Accepts, Takes
<1>7. CASE Instr.op \notin {"END_FINALLY", "WITH_CLEANUP", "RAISE_VARARGS"}
  BY <1>2, <1>3, <1>7 DEF Accepts, Takes
<1> QED
  BY <1>4, <1>5, <1>6, <1>7

\* and everything else it looks for.
LEMMA OpcodesFind ==
    ASSUME ProgramsVerified, ShapeInv, status = "running", why = WhyNot
    PROVE  /\ Instr.op \in {"POP_BLOCK", "POP_EXCEPT"} => blocks # <<>>
           /\ Instr.op = "POP_EXCEPT" /\ Last(blocks).type = "handler" =>
                HandlerIntact(Last(blocks), stack)
           /\ Instr.op = "END_FINALLY" =>
                Top \notin {V("int", WhyException), V("int", WhyYield)}
           /\ Instr.op = "END_FINALLY" /\ Top = V("int", WhySilenced) =>
                /\ blocks # <<>> /\ Last(blocks).type = "handler"
                /\ HandlerIntact(Last(blocks), Below(1))
           /\ Instr.op = "WITH_CLEANUP" /\ ~NoException =>
                blocks # <<>> /\ Last(blocks).type = "handler"
<1>1. PICK slots : Here(slots)
  BY AtInstruction
<1>2. /\ Len(slots) = Depth /\ Depth \in Nat /\ stack \in Seq(Value)
      /\ blocks \in Seq(Block)
  BY <1>1, FoundValues DEF ShapeInv, TypeOK
<1>3. Accepts(Instr.op, Arg, blocks, slots)
  BY <1>1 DEF Here
<1>4. InHandler(blocks) =>
        /\ blocks # <<>> /\ Last(blocks).type = "handler"
        /\ Last(blocks) = blocks[Len(blocks)] /\ Len(blocks) >= 1
        /\ Held(Last(blocks)) \in Nat /\ Held(Last(blocks)) <= Depth
  <2>1. SUFFICES ASSUME InHandler(blocks)
                 PROVE  /\ Held(Last(blocks)) \in Nat
                        /\ Held(Last(blocks)) <= Depth
    BY <1>2, NotEmpty DEF InHandler
  <2>2. Last(blocks) = blocks[Len(blocks)] /\ Last(blocks) \in Block /\ Len(blocks) >= 1
    BY <1>2, <2>1, NotEmpty DEF InHandler
  <2>3. Held(Last(blocks)) \in Nat
    BY <2>2 DEF Held, Block
  <2> QED
    BY <1>1, <1>2, <2>2, <2>3 DEF Here, Nested
<1>5. Instr.op \in {"POP_BLOCK", "POP_EXCEPT"} => blocks # <<>>
  BY <1>2, <1>3, NotEmpty DEF Accepts, InHandler
<1>6. ASSUME Instr.op = "POP_EXCEPT"
      PROVE  HandlerIntact(Last(blocks), stack)
  <2>1. InHandler(blocks)
    BY <1>3, <1>6 DEF Accepts
  <2>2. Held(Last(blocks)) <= Depth - 0 /\ 0 <= Depth /\ Below(0) = stack
    BY <1>2, <1>4, <2>1, WholeSeq DEF Below, Depth
  <2> QED
    BY <1>1, <2>1, <2>2, OwnHandlerLeft
<1>7. ASSUME Instr.op = "END_FINALLY"
      PROVE  Top \notin {V("int", WhyException), V("int", WhyYield)}
  <2>1. CanEndFinally(blocks, slots) /\ Depth >= 1
    BY <1>2, <1>3, <1>7 DEF Accepts, CanEndFinally, EntryOK
  <2> QED
    BY <1>1, <2>1, EntryFound DEF CanEndFinally, EntryOK, Carries
<1>8. ASSUME Instr.op = "END_FINALLY", Top = V("int", WhySilenced)
      PROVE  InHandler(blocks) /\ HandlerIntact(Last(blocks), Below(1))
  <2>1. CanEndFinally(blocks, slots) /\ Depth >= 1
    BY <1>2, <1>3, <1>8 DEF Accepts, CanEndFinally, EntryOK
  <2>2. LastSlot(slots) = V("int", WhySilenced)
    BY <1>1, <1>8, <2>1, EntryFound DEF CanEndFinally, EntryOK, Carries
  <2>3. InHandler(blocks) /\ Held(Last(blocks)) < Depth
    BY <1>2, <2>1, <2>2 DEF CanEndFinally, EntryOK, Carries
  <2>4. Held(Last(blocks)) <= Depth - 1
    BY <1>2, <1>4, <2>3
  <2> QED
    BY <1>1, <2>1, <2>3, <2>4, OwnHandlerLeft
<1>9. ASSUME Instr.op = "WITH_CLEANUP", ~NoException
      PROVE  InHandler(blocks)
  <2>1. CanCleanUp(blocks, slots) /\ EntryOK(slots) /\ Depth >= 1
    BY <1>2, <1>3, <1>9 DEF Accepts, CanCleanUp, EntryOK
  <2>2. LastSlot(slots) = Raised
    BY <1>1, <1>9, <2>1, EntryFound DEF EntryOK, Carries, NoException
  <2> QED
    BY <2>1, <2>2 DEF CanCleanUp
<1> QED
  BY <1>4, <1>5, <1>6, <1>7, <1>8, <1>9

LEMMA ShapesNeverPanic ==
    ASSUME ProgramsVerified, ShapeInv
    PROVE  NeverPanics
<1>1. ASSUME status = "running", why = WhyNot
      PROVE  lasti < Len(prog.code) /\ Depth >= Takes
  BY <1>1, AtInstruction, ValuesSuffice
<1>2. Depth \in Nat /\ lasti \in Nat /\ Len(prog.code) \in Nat
  BY CodeIsCode DEF ShapeInv, TypeOK, Depth
<1>3. ASSUME Unwinding, Inner.type = "handler"
      PROVE  HandlerIntact(Inner, stack)
  <2>1. PICK ret, slots : Away(ret, slots)
    BY <1>3, WhileUnwinding DEF Unwinding
  <2>2. Held(Inner) <= Depth
    BY <1>3, <2>1, InnerBlock
  <2> QED
    BY <1>3, <2>2, InnerBlock DEF HandlerIntact, Held, Depth
<1>4. ASSUME Exiting
      PROVE  (Result = Nil) = IsSet(curexc)
  <2>1. PICK ret, slots : Away(ret, slots)
    BY <1>4, WhileUnwinding DEF Exiting
  <2>2. why \in {WhyException, WhyReturn}
    <3>1. ~Loops(blocks)
      BY <1>4 DEF Exiting, Loops
    <3> QED
      BY <1>4, <2>1, <3>1 DEF Away, Exiting, ShapeInv, TypeOK
  <2>3. CASE why = WhyException
    <3>1. Result = Nil
      BY <2>3 DEF Result
    <3>2. IsSet(curexc)
      BY <1>4, <2>3 DEF Exiting, ShapeInv, RaisesWhy
    <3> QED
      BY <3>1, <3>2 DEF IsSet
  <2>4. CASE why = WhyReturn
    <3>1. retval # Nil
      BY <2>1, <2>4 DEF Away, Is
    <3>2. ~IsSet(curexc)
      BY <1>4, <2>4 DEF Exiting, ShapeInv, RaisesWhy
    <3> QED
      BY <2>4, <3>1, <3>2 DEF Result, IsSet
  <2> QED
    BY <2>2, <2>3, <2>4
<1> QED
  <2>1. SUFFICES ASSUME Panicking PROVE FALSE
    BY DEF NeverPanics
  <2>2. CASE status = "running" /\ why = WhyNot
    <3>1. ~Unwinding /\ ~Exiting
      BY <2>2 DEF Unwinding, Exiting
    <3>2. ~(lasti >= Len(prog.code)) /\ ~(Depth < Takes)
      <4>1. ~(lasti >= Len(prog.code))
        BY <1>1, <1>2, <2>2
      <4>2. Takes \in Nat
        BY <2>2, AtInstruction DEF Takes, ExitIsAt, Arg, Instruction
      <4> QED
        BY <1>1, <1>2, <2>2, <4>1, <4>2
    <3> QED
      BY <2>1, <2>2, <3>1, <3>2, OpcodesFind DEF Panicking
  <2>3. CASE ~(status = "running" /\ why = WhyNot)
    BY <1>3, <1>4, <2>1, <2>3 DEF Panicking
  <2> QED
    BY <2>2, <2>3

-------------------------------------------------------------------------------
(* The theorems.  All of them are about the frame of a program whose code  *)
(* is verified, which TLC finds every program the compiler makes to be.    *)

LEMMA ShapeInvariant ==
    ASSUME ProgramsVerified PROVE Spec => []ShapeInv
<1>1. Init => ShapeInv
  BY ShapeInit
<1>2. ShapeInv /\ [Next]_vars => ShapeInv'
  BY ShapeStep
<1> QED
  BY <1>1, <1>2, PTL DEF Spec

\* The variables of a frame keep their types, whatever the world answers.
THEOREM UnwinderTypeOK ==
    ASSUME ProgramsVerified PROVE Spec => []TypeOK
<1>1. ShapeInv => TypeOK
  BY DEF ShapeInv
<1> QED
  BY <1>1, ShapeInvariant, PTL

\* In a frame of any program, blocks stay nested in the values they cover, and
\* the exception that a handler block must restore stays whole and in place,
\* also when WITH_CLEANUP moves it and in the middle of unwinding.
THEOREM UnwinderBlocksNest ==
    ASSUME ProgramsVerified PROVE Spec => []BlocksNest
<1>1. ShapeInv => BlocksNest
  BY ShapesNest
<1> QED
  BY <1>1, ShapeInvariant, PTL

\* No opcode, no step of the unwinding loop and no exit of runFrame panics: the
\* values and blocks they take are there, END_FINALLY never finds a code it
\* does not know, and exactly one of a result and an exception leaves.
THEOREM UnwinderNeverPanics ==
    ASSUME ProgramsVerified PROVE Spec => []NeverPanics
<1>1. ShapeInv => NeverPanics
  BY ShapesNeverPanic
<1> QED
  BY <1>1, ShapeInvariant, PTL

\* A break or a continue on its way has a loop of its own frame to reach,
\* through whatever finally clauses hold it up.
THEOREM UnwinderLeavesALoop ==
    ASSUME ProgramsVerified PROVE Spec => []LeavesALoop
<1>1. ShapeInv => LeavesALoop
  BY ShapesLeaveALoop
<1> QED
  BY <1>1, ShapeInvariant, PTL

\* vm.exc is an exception only while a handler block is on the block stack: by
\* every way out of the last handler, what was there before it is back.
THEOREM UnwinderHandledOnlyInHandlers ==
    ASSUME ProgramsVerified PROVE Spec => []HandledOnlyInHandlers
<1>1. ShapeInv => HandledOnlyInHandlers
  BY DEF ShapeInv, HandlesOnly, Handles, HandledOnlyInHandlers
<1> QED
  BY <1>1, ShapeInvariant, PTL
===============================================================================
