------------------------------- MODULE Assembler -------------------------------
(***************************************************************************)
(* From instructions to bytecode, compile/instructions.go: how big they    *)
(* are, where they and their labels end up, how deep a stack they need,    *)
(* and the table from places to lines with its reader in py/code.go.       *)
(*                                                                         *)
(* An instruction is an opcode alone, one with an argument, a label, or a  *)
(* jump to the label at an index.  Sizes, and steps of the line table,     *)
(* change at two bytes and at one, whose greatest is a parameter.          *)
(***************************************************************************)
LOCAL INSTANCE Integers
LOCAL INSTANCE Sequences
LOCAL INSTANCE SequencesExt
LOCAL INSTANCE FiniteSetsExt

CONSTANT MaxByte

Base    == MaxByte + 1
WideArg == Base * Base - 1
MaxPasses == 10

IsJump(i) == i.kind \in {"jump absolute", "jump relative"}

Size(kind, arg) ==
    CASE kind = "label" -> 0
      [] kind = "op"    -> 1
      [] OTHER          -> IF arg <= WideArg THEN 3 ELSE 6

-------------------------------------------------------------------------------
(* Assembling.  The state is where every instruction starts, its argument, and *)
(* whether something has moved in this pass or gone wrong.                     *)

ToAssemble(code) ==
    [pos |-> [i \in DOMAIN code |-> 0],
     arg |-> [i \in DOMAIN code |-> IF code[i].kind = "arg" THEN code[i].arg ELSE 0],
     addr |-> 0, changed |-> FALSE, error |-> FALSE]

SetPos(a, i) == [a EXCEPT !.changed = @ \/ a.pos[i] # a.addr, !.pos[i] = a.addr]

\* The places of labels further on are those of the pass before.
ResolveAbsolute(a, i, dest) == [a EXCEPT !.arg[i] = a.pos[dest]]
\* A changed ResolveRelative: a jump is taken from where it starts.
ResolveRelativeFromStart(a, i, dest) ==
    LET currentSize == Size("jump relative", a.arg[i])
        arg         == a.pos[dest] - a.pos[i]
    IN [a EXCEPT !.arg[i] = arg,
                 !.error  = @ \/ a.pos[dest] < a.pos[i] + currentSize
                              \/ Size("jump relative", arg) # currentSize]
ResolveRelative(a, i, dest) ==
    LET currentSize == Size("jump relative", a.arg[i])
        arg         == a.pos[dest] - (a.pos[i] + currentSize)
    IN [a EXCEPT !.arg[i] = arg,
                 !.error  = @ \/ arg < 0 \/ Size("jump relative", arg) # currentSize]

Pass(code, a, n) ==
    LET Visit(b, i) ==
            LET placed   == SetPos(b, i)
                resolved == CASE n = 0 \/ ~IsJump(code[i]) -> placed
                              [] n > 0 /\ code[i].kind = "jump absolute" ->
                                   ResolveAbsolute(placed, i, code[i].dest)
                              [] n > 0 /\ code[i].kind = "jump relative" ->
                                   ResolveRelative(placed, i, code[i].dest)
            IN IF b.error THEN b
               ELSE [resolved EXCEPT !.addr = @ + Size(code[i].kind, resolved.arg[i])]
    IN FoldLeft(Visit, [a EXCEPT !.addr = 0, !.changed = FALSE], [i \in DOMAIN code |-> i])

\* Passes until one has moved nothing; what is still moving then is refused.
RECURSIVE AssembleFrom(_, _, _)
AssembleFrom(code, a, n) ==
    LET b == Pass(code, a, n)
    IN IF b.error \/ ~b.changed THEN b
       ELSE IF n + 1 = MaxPasses THEN [b EXCEPT !.error = TRUE]
       ELSE AssembleFrom(code, b, n + 1)
Assemble(code) == AssembleFrom(code, ToAssemble(code), 0)

EndsWithReturn(code) == code # <<>> /\ Last(code).op = "RETURN_VALUE"

-------------------------------------------------------------------------------
(* The effect of every opcode on the stack. *)

\* Positional arguments, and keyword ones with their names.
NArgs(arg) == (arg % 256) + (2 * ((arg \div 256) % 256))
Annotations(arg) == arg \div 65536

\* BINARY and INPLACE stand for their thirteen operations each.
Pops ==
    [n \in 0 .. 3 |->
        CASE n = 0 -> {"ROT_TWO", "ROT_THREE", "UNARY_POSITIVE", "UNARY_NEGATIVE", "UNARY_NOT",
                       "UNARY_INVERT", "GET_ITER", "BREAK_LOOP", "YIELD_VALUE", "POP_BLOCK",
                       "POP_EXCEPT", "DELETE_NAME", "DELETE_GLOBAL", "LOAD_ATTR",
                       "JUMP_FORWARD", "JUMP_ABSOLUTE", "JUMP_IF_TRUE_OR_POP",
                       "JUMP_IF_FALSE_OR_POP", "CONTINUE_LOOP", "SETUP_LOOP", "DELETE_FAST",
                       "DELETE_DEREF"}
          [] n = 1 -> {"POP_TOP", "SET_ADD", "LIST_APPEND", "BINARY", "INPLACE", "PRINT_EXPR",
                       "WITH_CLEANUP", "RETURN_VALUE", "IMPORT_STAR", "YIELD_FROM",
                       "END_FINALLY", "STORE_NAME", "DELETE_ATTR", "STORE_GLOBAL",
                       "COMPARE_OP", "IMPORT_NAME", "POP_JUMP_IF_FALSE", "POP_JUMP_IF_TRUE",
                       "STORE_FAST", "STORE_DEREF"}
          [] n = 2 -> {"MAP_ADD", "STORE_MAP", "DELETE_SUBSCR", "STORE_ATTR"}
          [] n = 3 -> {"STORE_SUBSCR"}]
Pushes == {"DUP_TOP", "LOAD_BUILD_CLASS", "FOR_ITER", "LOAD_CONST", "LOAD_NAME", "BUILD_MAP",
           "IMPORT_FROM", "LOAD_GLOBAL", "LOAD_FAST", "LOAD_CLOSURE", "LOAD_DEREF",
           "LOAD_CLASSDEREF"}

StackEffect(op, arg) ==
    CASE op \in Pushes -> 1
      [] op = "DUP_TOP_TWO" -> 2
      [] op = "SETUP_WITH"  -> 7
      [] op \in {"SETUP_EXCEPT", "SETUP_FINALLY"} -> 6
      [] op \in {"BUILD_TUPLE", "BUILD_LIST", "BUILD_SET"} -> 1 - arg
      [] op = "UNPACK_SEQUENCE" -> arg - 1
      [] op = "UNPACK_EX"       -> (arg % 256) + (arg \div 256)
      [] op = "RAISE_VARARGS"   -> -arg
      [] op = "BUILD_SLICE"     -> IF arg = 3 THEN -2 ELSE -1
      [] op = "CALL_FUNCTION"   -> -NArgs(arg)
      [] op \in {"CALL_FUNCTION_VAR", "CALL_FUNCTION_KW"} -> -NArgs(arg) - 1
      [] op = "CALL_FUNCTION_VAR_KW" -> -NArgs(arg) - 2
      [] op = "MAKE_FUNCTION"   -> -1 - NArgs(arg) - Annotations(arg)
      [] op = "MAKE_CLOSURE"    -> -2 - NArgs(arg) - Annotations(arg)
      [] OTHER -> -(CHOOSE n \in 0 .. 3 : op \in Pops[n])

Effect(i) == IF i.kind = "label" THEN 0 ELSE StackEffect(i.op, i.arg)

-------------------------------------------------------------------------------
(* The walk that finds the deepest stack: busy are the starts being walked,    *)
(* from has the depth every start was last walked with, if it was.             *)

\* Depths where the jump is taken, and where it is not.
Taken(op, depth) == CASE op = "FOR_ITER" -> depth - 2
                      [] op \in {"SETUP_FINALLY", "SETUP_EXCEPT"} -> depth + 3
                      [] OTHER -> depth
NotTaken(op, depth) ==
    IF op \in {"JUMP_IF_TRUE_OR_POP", "JUMP_IF_FALSE_OR_POP"} THEN depth - 1 ELSE depth

RECURSIVE StackDepthWalk(_, _, _, _), WalkFrom(_, _, _, _, _)
StackDepthWalk(code, w, start, depth) ==
    IF start > Len(code) \/ start \in w.busy \/ \E d \in w.from[start] : d >= depth THEN w
    ELSE WalkFrom(code, [w EXCEPT !.busy = @ \cup {start}, !.from[start] = {depth}],
                  start, start, depth)
WalkFrom(code, w, start, i, before) ==
    LET op    == code[i].op
        depth == before + Effect(code[i])
        taken == Taken(op, depth)
        v     == [w EXCEPT !.error = @ \/ depth < 0,
                           !.max   = Max({@, depth} \cup IF taken > depth THEN {taken} ELSE {})]
    IN CASE i > Len(code) -> [w EXCEPT !.busy = @ \ {start}]
         [] i <= Len(code) /\ v.error -> v
         [] i <= Len(code) /\ ~v.error /\ ~IsJump(code[i]) ->
              WalkFrom(code, v, start, i + 1, depth)
         [] i <= Len(code) /\ ~v.error /\ IsJump(code[i]) ->
              LET walked == StackDepthWalk(code, v, code[i].dest, taken)
              IN IF walked.error \/ op \in {"JUMP_ABSOLUTE", "JUMP_FORWARD"}
                 THEN [walked EXCEPT !.busy = @ \ {start}]
                 ELSE WalkFrom(code, walked, start, i + 1, NotTaken(op, depth))

StackDepth(code) ==
    StackDepthWalk(code, [busy |-> {}, from |-> [i \in DOMAIN code |-> {}], max |-> 0,
                          error |-> FALSE], 1, 0)

-------------------------------------------------------------------------------
(* The bytes of an assembled program, and how the interpreter reads them: an   *)
(* opcode says whether it has an argument, which is two bytes, and is preceded  *)
(* by an opcode of its own when it takes four.                                  *)

Opcode(op, hasArg) == [op |-> op, hasArg |-> hasArg]

Output(i, arg) ==
    CASE i.kind = "label" -> <<>>
      [] i.kind = "op"    -> <<Opcode(i.op, FALSE)>>
      [] OTHER ->
           LET short == <<Opcode(i.op, TRUE), arg % Base, (arg \div Base) % Base>>
               over  == arg \div (WideArg + 1)
           IN IF arg <= WideArg THEN short
              ELSE <<Opcode("EXTENDED_ARG", TRUE), over % Base, over \div Base>> \o short

Bytes(code, a) == FlattenSeq([i \in DOMAIN code |-> Output(code[i], a.arg[i])])

\* One round of the interpreter's loop: what it is about to do, and what comes next.
Fetch(bytes, s) ==
    LET opcode == bytes[s.lasti + 1]
        arg    == bytes[s.lasti + 2] + bytes[s.lasti + 3] * Base
    IN IF opcode.hasArg
       THEN [op |-> opcode.op, lasti |-> s.lasti + 3,
             arg |-> IF s.extended THEN arg + s.ext * (WideArg + 1) ELSE arg]
       ELSE [op |-> opcode.op, lasti |-> s.lasti + 1, arg |-> 0]

ExtendedArg(f) == [lasti |-> f.lasti, ext |-> f.arg, extended |-> TRUE]
Done(f)        == [lasti |-> f.lasti, ext |-> 0, extended |-> FALSE]

\* What is done from place p on, if nothing jumps: each with the place it starts
\* at and the place after it.
RECURSIVE Decode(_, _, _)
Decode(bytes, s, from) ==
    IF s.lasti = Len(bytes) THEN <<>>
    ELSE LET f == Fetch(bytes, s)
         IN IF f.op = "EXTENDED_ARG" THEN Decode(bytes, ExtendedArg(f), from)
            ELSE <<[op |-> f.op, arg |-> f.arg, from |-> from, next |-> f.lasti]>>
                     \o Decode(bytes, Done(f), f.lasti)
Program(bytes) == Decode(bytes, [lasti |-> 0, ext |-> 0, extended |-> FALSE], 0)

-------------------------------------------------------------------------------
(* The table of lines: pairs of a step in places and a step in lines, each no *)
(* longer than a byte; a line before the last one in the table is left out.   *)

\* Places first, as many bytes as they take; then lines.
Steps(places, lines) ==
    LET far  == IF places = 0 THEN 0 ELSE (places - 1) \div MaxByte
        down == (lines - 1) \div MaxByte
        rest == places - far * MaxByte
    IN [i \in 1 .. far |-> <<MaxByte, 0>>]
       \o [i \in 1 .. down |-> <<IF i = 1 THEN rest ELSE 0, MaxByte>>]
       \o <<<<IF down = 0 THEN rest ELSE 0, lines - down * MaxByte>>>>

Lnotab(code, a) ==
    LET Visit(t, i) ==
            IF code[i].kind = "label" \/ code[i].line <= t.line THEN t
            ELSE [line |-> code[i].line, offset |-> a.pos[i],
                  steps |-> t.steps \o Steps(a.pos[i] - t.offset, code[i].line - t.line)]
    IN FoldLeft(Visit, [line |-> 1, offset |-> 0, steps |-> <<>>], [i \in DOMAIN code |-> i]).steps

FirstLine == 1

Addr2Line(lnotab, addr) ==
    LET Visit(t, step) ==
            LET at == t.addr + step[1]
            IN IF t.over \/ at > addr THEN [t EXCEPT !.over = TRUE]
               ELSE [t EXCEPT !.addr = at, !.line = @ + step[2]]
    IN FoldLeft(Visit, [addr |-> 0, line |-> FirstLine, over |-> FALSE], lnotab).line

\* The line of a traceback: of the place the frame is at when the instruction
\* raises, which is already the one after it.
TracebackLine(code, a, instruction) == Addr2Line(Lnotab(code, a), instruction.next)

-------------------------------------------------------------------------------
(* What assembled programs do. *)

Kept(code) == SelectSeq([i \in DOMAIN code |-> i], LAMBDA i : code[i].kind # "label")
LinesUpTo(code, i) == {FirstLine} \cup {code[j].line : j \in {k \in 1 .. i : code[k].kind # "label"}}

\* The interpreter reads the instructions that were written, and every jump leads
\* to its label.
JumpsLand(code) ==
    LET a        == Assemble(code)
        program  == Program(Bytes(code, a))
        kept     == Kept(code)
        Target(p, i) == IF code[i].kind = "jump relative" THEN p.next + p.arg ELSE p.arg
    IN EndsWithReturn(code) /\ ~a.error =>
          /\ Len(program) = Len(kept)
          /\ \A n \in DOMAIN kept :
                 LET i == kept[n] p == program[n]
                 IN /\ p.op = code[i].op /\ p.from = a.pos[i]
                    /\ code[i].kind = "arg" => p.arg = code[i].arg
                    /\ IsJump(code[i]) => Target(p, i) = a.pos[code[i].dest]

\* A program whose jumps go forward when they are relative, and whose arguments
\* and places fit two bytes, is assembled.
NarrowAssembles(code) ==
    /\ \A i \in DOMAIN code : code[i].kind = "jump relative" => code[i].dest > i
    /\ 3 * Len(code) <= WideArg
    /\ \A i \in DOMAIN code : code[i].arg <= WideArg
    => ~Assemble(code).error

\* The line of an instruction is its own, or the last one before it that is
\* further down; that of a traceback is the line of the instruction after it,
\* where there is one.
LinesFound(code) ==
    LET a    == Assemble(code)
        kept == Kept(code)
        program == Program(Bytes(code, a))
        table   == Lnotab(code, a)
    IN ~a.error =>
          /\ \A n \in DOMAIN table : \A x \in {1, 2} : table[n][x] \in 0 .. MaxByte
          /\ \A n \in DOMAIN kept :
                 /\ Addr2Line(table, a.pos[kept[n]]) = Max(LinesUpTo(code, kept[n]))
                 /\ TracebackLine(code, a, program[n]) =
                        Max(LinesUpTo(code, kept[IF n < Len(kept) THEN n + 1 ELSE n]))

\* The stack is never deeper than it was said to be, on any path through the
\* program whose loops leave it as deep as it was.
StackSuffices(code) ==
    LET Next(s) ==
            IF s[1] > Len(code) THEN {}
            ELSE LET i == code[s[1]] depth == s[2] + Effect(i)
                 IN (IF IsJump(i) THEN {<<i.dest, Taken(i.op, depth)>>} ELSE {})
                    \cup IF i.op \in {"JUMP_ABSOLUTE", "JUMP_FORWARD"} THEN {}
                         ELSE {<<s[1] + 1, NotTaken(i.op, depth)>>}
        More(S, n) == S \cup UNION {Next(s) : s \in S}
        all  == FoldLeft(More, {<<1, 0>>}, code \o code)
        w    == StackDepth(code)
        Steady == all = More(all, 0) /\ \A s, t \in all : s[1] = t[1] => s[2] = t[2]
    IN Steady => /\ w.error = (\E s \in all : s[1] <= Len(code) /\ s[2] + Effect(code[s[1]]) < 0)
                 /\ \A s \in all : w.error \/ s[2] <= w.max
===============================================================================
