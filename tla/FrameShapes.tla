----------------------------- MODULE FrameShapes -----------------------------
(***************************************************************************)
(* What must be true of compiled code for the frame of module Unwinder to  *)
(* execute it safely, as a verifier of byte code would check it: a finite  *)
(* set of shapes, each saying what the block stack and the value stack may *)
(* be at an instruction or in the middle of unwinding, that contains the   *)
(* start, has only shapes the opcodes can work on, and is closed under     *)
(* every step.  A shape knows kinds of values, never what the world        *)
(* answers.  UnwinderProofs shows that verified code is safe; TLC finds    *)
(* the shapes of every program the compiler makes (MCUnwinder).            *)
(***************************************************************************)
EXTENDS Unwinder

-------------------------------------------------------------------------------
(* Slots: what is known of a value.  A known value is its own slot.        *)

Slot == [is : {"none", "int", "something", "named", "anything",
               "raised", "kept", "clear"}, n : Nat]

Something == V("something", 0)   \* not Nil
Named     == V("named", 0)       \* not Nil, and its number is not 0
Anything  == V("anything", 0)
Raised    == V("raised", 0)      \* the three entries of an exception end here
Kept      == V("kept", 0)        \* so do those of an exception or of none
Clear     == V("clear", 0)       \* and those of none

\* A slot that says something of one value, and that the value is not Nil.
Solid == {"none", "int", "something", "named"}

Is(slot, v) ==
    /\ slot.is \in {"none", "int"} => v = slot
    /\ slot.is \in Solid => v # Nil
    /\ slot.is = "named" => v.n # 0

\* Slot k of the stack s holds: the last three speak of the values below too.
Holds(slot, s, k) ==
    IF slot.is \in {"raised", "kept", "clear"}
    THEN /\ k >= 3
         /\ s[k] = TypeEntry(s[k].n)
         /\ s[k - 1] = Entry("exc", s[k].n)
         /\ s[k - 2] = Entry("tb", s[k].n)
         /\ slot.is = "raised" => s[k].n # 0
         /\ slot.is = "clear" => s[k].n = 0
    ELSE Is(slot, s[k])

SlotsHold(slots, s) ==
    /\ Len(slots) = Len(s)
    /\ \A k \in 1 .. Len(s) : Holds(slots[k], s, k)

-------------------------------------------------------------------------------
(* Shapes.  One that unwinds has no place in the code; ret is what is      *)
(* known of the value on its way.                                          *)

Whys  == {WhyNot, WhyException, WhyReturn, WhyBreak, WhyContinue}
Shape == [at : Nat, why : Whys, ret : Slot, blocks : Seq(Block),
          slots : Seq(Slot)]

Runs(at, bs, slots) ==
    [at |-> at, why |-> WhyNot, ret |-> None, blocks |-> bs, slots |-> slots]
Unwinds(w, ret, bs, slots) ==
    [at |-> 0, why |-> w, ret |-> ret, blocks |-> bs, slots |-> slots]
Start == Runs(0, <<>>, <<>>)

Handles(bs) == \E i \in 1 .. Len(bs) : bs[i].type = "handler"
Loops(bs)   == \E i \in 1 .. Len(bs) : bs[i].type = "loop"

\* How many values a block has below those of the blocks inside it.
Held(b) == b.level + IF b.type = "handler" THEN 3 ELSE 0

Nested(bs, slots) ==
    \A i \in 1 .. Len(bs) :
        /\ Held(bs[i]) <= Len(slots)
        /\ i < Len(bs) => Held(bs[i]) <= bs[i + 1].level
        /\ bs[i].type = "handler" =>
            slots[Held(bs[i])] \in
                IF Handles(SubSeq(bs, 1, i - 1)) THEN {Kept, Clear} ELSE {Clear}

-------------------------------------------------------------------------------
(* What an opcode needs, and the shapes it leads to.                       *)

LastSlot(slots) == slots[Len(slots)]
Cut(slots, k)   == SubSeq(slots, 1, Len(slots) - k)

Carries(slot) == slot.is = "int" /\ slot.n \in {WhyReturn, WhyContinue}

\* The entry that END_FINALLY and WITH_CLEANUP look at.
EntryOK(slots) ==
    /\ Len(slots) >= 1
    /\ LET top == LastSlot(slots) IN
       \/ top = None \/ top = Raised
       \/ top = V("int", WhyBreak)
       \/ /\ Carries(top) /\ Len(slots) >= 2
          /\ slots[Len(slots) - 1].is \in
                IF top.n = WhyContinue THEN {"int"} ELSE Solid

ExitSlotAt(slots) ==
    LET top == LastSlot(slots) IN
    IF Carries(top) THEN 3 ELSE IF top = Raised THEN 7 ELSE 2

InHandler(bs) == Len(bs) >= 1 /\ Last(bs).type = "handler"

CanEndFinally(bs, slots) ==
    \/ EntryOK(slots)
    \/ /\ Len(slots) >= 1 /\ LastSlot(slots) = V("int", WhySilenced)
       /\ InHandler(bs) /\ Held(Last(bs)) < Len(slots)

CanCleanUp(bs, slots) ==
    /\ EntryOK(slots)
    /\ Len(slots) >= ExitSlotAt(slots)
    /\ slots[Len(slots) - ExitSlotAt(slots) + 1] = Named
    /\ LastSlot(slots) = Raised =>
        InHandler(bs) /\ Last(bs).level = Len(slots) - 6

Accepts(op, arg, bs, slots) ==
    CASE op \in {"STORE_NAME", "POP_TOP", "DUP_TOP", "GET_ITER", "FOR_ITER",
                 "POP_JUMP_IF_FALSE"} -> Len(slots) >= 1
      [] op = "COMPARE_OP" -> Len(slots) >= 2
      [] op \in {"CALL_FUNCTION", "SETUP_WITH"} ->
            Len(slots) >= 1 /\ LastSlot(slots) = Named
      [] op = "RETURN_VALUE" -> Len(slots) >= 1 /\ LastSlot(slots).is \in Solid
      [] op = "RAISE_VARARGS" ->
            arg = 0 \/ (arg = 1 /\ Len(slots) >= 1 /\ LastSlot(slots) = Named)
      [] op = "POP_BLOCK" -> Len(bs) >= 1 /\ ~InHandler(bs)
      [] op = "POP_EXCEPT" -> InHandler(bs)
      [] op = "END_FINALLY" -> CanEndFinally(bs, slots)
      [] op = "WITH_CLEANUP" -> CanCleanUp(bs, slots)
      [] OTHER -> TRUE

NewBlock(op, arg, at, slots) ==
    [type    |-> IF op = "SETUP_LOOP" THEN "loop"
                 ELSE IF op = "SETUP_EXCEPT" THEN "except" ELSE "finally",
     handler |-> at + 1 + arg, level |-> Len(slots)]
\* END_FINALLY goes on with what the entry on top says.
FinallyEnds(at, bs, slots) ==
    LET top == LastSlot(slots) IN
    IF top = None THEN Runs(at + 1, bs, Cut(slots, 1))
    ELSE IF top = Raised THEN Unwinds(WhyException, None, bs, Cut(slots, 3))
    ELSE IF top = V("int", WhySilenced)
         THEN Runs(at + 1, Front(bs), SubSeq(slots, 1, Last(bs).level))
    ELSE IF Carries(top)
         THEN Unwinds(top.n, slots[Len(slots) - 1], bs, Cut(slots, 2))
    ELSE Unwinds(top.n, None, bs, Cut(slots, 1))

\* WITH_CLEANUP without an exception, and with one, which may be silenced.
CleansUp(at, bs, slots) ==
    LET closed == RemoveAt(slots, Len(slots) - ExitSlotAt(slots) + 1) IN
    {Runs(at + 1, bs, closed), Unwinds(WhyException, None, bs, closed)}
Lowered(bs) == [bs EXCEPT ![Len(bs)].level = @ - 1]
ExceptionClosed(slots) ==
    Cut(slots, 7) \o <<Anything, Anything, slots[Len(slots) - 3], Anything>>
                  \o <<Anything, Anything, Raised>>
CleansUpException(at, bs, slots) ==
    LET silenced == V("int", WhySilenced) IN
    {Runs(at + 1, Lowered(bs), ExceptionClosed(slots)),
     Runs(at + 1, Lowered(bs), Append(ExceptionClosed(slots), silenced)),
     Unwinds(WhyException, None, Lowered(bs), ExceptionClosed(slots))}

Raises(bs, slots) == Unwinds(WhyException, None, bs, slots)

\* The shapes an opcode may leave behind.
Steps(op, arg, at, bs, slots) ==
    LET On(s) == Runs(at + 1, bs, s) IN
    CASE op = "LOAD_CONST" ->
            {On(Append(slots, IF arg = 0 THEN None ELSE V("int", arg)))}
      [] op = "LOAD_NAME" ->
            {On(Append(slots, IF arg = 0 THEN Something ELSE Named))}
      [] op \in {"STORE_NAME", "POP_TOP"} -> {On(Cut(slots, 1))}
      [] op = "DELETE_NAME" -> {On(slots)}
      [] op = "DUP_TOP" ->
            {On(Append(slots, IF LastSlot(slots) \in {Named, Raised} THEN Named
                              ELSE Anything))}
      [] op = "COMPARE_OP" -> {On(Append(Cut(slots, 2), Something))}
      [] op = "GET_ITER" -> {On(Append(Cut(slots, 1), Something))}
      [] op = "FOR_ITER" -> {On(Append(slots, V("int", 0))),
                             Runs(at + 1 + arg, bs, Cut(slots, 1))}
      [] op = "JUMP_FORWARD" -> {Runs(at + 1 + arg, bs, slots)}
      [] op = "JUMP_ABSOLUTE" -> {Runs(arg, bs, slots)}
      [] op = "POP_JUMP_IF_FALSE" -> {On(Cut(slots, 1)),
                                      Runs(arg, bs, Cut(slots, 1))}
      [] op \in {"SETUP_LOOP", "SETUP_EXCEPT", "SETUP_FINALLY"} ->
            {Runs(at + 1, Append(bs, NewBlock(op, arg, at, slots)), slots)}
      [] op = "SETUP_WITH" ->
            {Runs(at + 1, Append(bs, NewBlock(op, arg, at, slots)),
                  Append(slots, V("int", 0))),
             Raises(bs, slots)}
      [] op = "POP_BLOCK" -> {Runs(at + 1, Front(bs), slots)}
      [] op = "POP_EXCEPT" ->
            {Runs(at + 1, Front(bs), SubSeq(slots, 1, Last(bs).level))}
      [] op = "END_FINALLY" -> {FinallyEnds(at, bs, slots)}
      [] op = "WITH_CLEANUP" ->
            IF LastSlot(slots) = Raised THEN CleansUpException(at, bs, slots)
                                        ELSE CleansUp(at, bs, slots)
      [] op = "BREAK_LOOP" -> {Unwinds(WhyBreak, None, bs, slots)}
      [] op = "CONTINUE_LOOP" -> {Unwinds(WhyContinue, V("int", arg), bs, slots)}
      [] op = "RETURN_VALUE" ->
            {Unwinds(WhyReturn, LastSlot(slots), bs, Cut(slots, 1))}
      [] op = "RAISE_VARARGS" -> {Raises(bs, Cut(slots, arg))}
      [] op = "CALL_FUNCTION" -> {On(Append(Cut(slots, 1), V("int", 0))),
                                  Raises(bs, Cut(slots, 1))}
      [] OTHER -> {}

-------------------------------------------------------------------------------
(* Unwinding takes the innermost block off, and may stop there.            *)

Unwound(w, ret, bs, slots) ==
    LET b    == Last(bs)
        rest == Front(bs)
        cut  == SubSeq(slots, 1, b.level)
        handler == [type |-> "handler", handler |-> 0, level |-> b.level]
    IN  CASE b.type = "loop" /\ w = WhyContinue -> Runs(ret.n, bs, slots)
          [] b.type = "loop" /\ w = WhyBreak -> Runs(b.handler, rest, cut)
          [] b.type \in {"except", "finally"} /\ w = WhyException ->
                Runs(b.handler, Append(rest, handler),
                     cut \o <<Anything, Anything, IF Handles(rest) THEN Kept ELSE Clear>>
                         \o <<Anything, Anything, Raised>>)
          [] b.type = "finally" /\ w # WhyException ->
                Runs(b.handler, rest,
                     cut \o (IF w \in {WhyReturn, WhyContinue} THEN <<ret>> ELSE <<>>)
                         \o <<V("int", w)>>)
          [] OTHER -> Unwinds(w, ret, rest, cut)

-------------------------------------------------------------------------------
(* Verified code.                                                          *)

\* A shape that the frame can work on.
Lawful(code, a) ==
    /\ Nested(a.blocks, a.slots)
    /\ a.why = WhyNot =>
        /\ a.at < Len(code)
        /\ Accepts(code[a.at + 1].op, code[a.at + 1].arg, a.blocks, a.slots)
    /\ a.why \in {WhyBreak, WhyContinue} => Loops(a.blocks)
    /\ a.why = WhyReturn => a.ret.is \in Solid
    /\ a.why = WhyContinue => a.ret.is = "int"

Leads(code, a) ==
    IF a.why = WhyNot
    THEN Steps(code[a.at + 1].op, code[a.at + 1].arg, a.at, a.blocks, a.slots)
    ELSE IF a.blocks = <<>> THEN {}
    ELSE {Unwound(a.why, a.ret, a.blocks, a.slots)}

Verified(code, shapes) ==
    /\ shapes \subseteq Shape
    /\ Start \in shapes
    /\ \A a \in shapes : Lawful(code, a) /\ Leads(code, a) \subseteq shapes
===============================================================================
