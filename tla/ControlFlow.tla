----------------------------- MODULE ControlFlow -----------------------------
(***************************************************************************)
(* The control-flow statements of the language, twice:                     *)
(*   CompileModule   what the compiler makes of them (compile/compile.go,  *)
(*                   Stmt, try, tryExcept, tryFinally, with, loopstack);   *)
(*   ExecBlock       what they mean, statement by statement, as the        *)
(*                   comments of compile.go describe them.                 *)
(*                                                                         *)
(* A statement is a record with its kind in t.  Its path, a number made    *)
(* from its position, names it: the constant it stores or returns, the     *)
(* exception it raises, the function it calls.                             *)
(*                                                                         *)
(* The module is evaluated by TLC only: its operators are recursive.       *)
(***************************************************************************)
EXTENDS Integers, Sequences, SequencesExt

-------------------------------------------------------------------------------
(* Statements.                                                             *)

Leaf(t) == [t |-> t]
\* A try statement has a handler (kind "bare", "named" or "other"; "none" for
\* a try without except), an else clause and a finally clause (<<>> for none).
Try(body, kind, handler, orelse, final) ==
    [t |-> "try", body |-> body, kind |-> kind, handler |-> handler,
     orelse |-> orelse, final |-> final]
With(body) == [t |-> "with", body |-> body]
For(body, orelse)   == [t |-> "for", body |-> body, orelse |-> orelse]
While(body, orelse) == [t |-> "while", body |-> body, orelse |-> orelse]
If(body, orelse)    == [t |-> "if", body |-> body, orelse |-> orelse]

\* The path of statement i of the clause c of the statement at path p.
PathOf(p, c, i) == 16 * p + 4 * c + i
Body == 0
Handler == 1
Orelse == 2
Final == 3

-------------------------------------------------------------------------------
(* The compiler's loop stack: what encloses the statement being compiled.  *)

Loop(start)    == [type |-> "loop", start |-> start]
ExceptLoop     == [type |-> "except", start |-> 0]
FinallyTryLoop == [type |-> "finallyTry", start |-> 0]
FinallyEndLoop == [type |-> "finallyEnd", start |-> 0]

I(op, arg) == [op |-> op, arg |-> arg]

\* A statement the compiler refuses.
SyntaxError == <<I("SyntaxError", 0)>>

Break(loops) == IF loops = <<>> THEN SyntaxError ELSE <<I("BREAK_LOOP", 0)>>

\* continue in a try looks for its loop further out, and for a finally clause
\* between the two.
Continue(loops) ==
    IF loops = <<>> \/ Last(loops).type = "finallyEnd" THEN SyntaxError
    ELSE IF Last(loops).type = "loop"
    THEN <<I("JUMP_ABSOLUTE", Last(loops).start)>>
    ELSE LET stops == {i \in 1 .. Len(loops) - 1 :
                           loops[i].type \in {"loop", "finallyEnd"}}
             next  == CHOOSE i \in stops : \A j \in stops : j <= i
         IN IF stops = {} \/ loops[next].type = "finallyEnd" THEN SyntaxError
            ELSE <<I("CONTINUE_LOOP", loops[next].start)>>

-------------------------------------------------------------------------------
(* The compiler.  Compile(s, p, at, loops) is the code of statement s with *)
(* path p, for a code object that has at instructions already.             *)

RECURSIVE Compile(_, _, _, _), CompileFrom(_, _, _, _, _, _)

CompileFrom(block, i, p, c, at, loops) ==
    IF i > Len(block) THEN <<>>
    ELSE LET code == Compile(block[i], PathOf(p, c, i), at, loops)
         IN code \o CompileFrom(block, i + 1, p, c, at + Len(code), loops)
CompileBlock(block, p, c, at, loops) == CompileFrom(block, 1, p, c, at, loops)

\* A handler that binds a name unbinds it in a finally clause of its own.
CompileHandler(kind, handler, p, at, loops) ==
    IF kind # "named"
    THEN LET body == CompileBlock(handler, p, Handler, at + 3, loops)
         IN <<I("POP_TOP", 0), I("POP_TOP", 0), I("POP_TOP", 0)>> \o body
            \o <<I("POP_EXCEPT", 0)>>
    ELSE LET body == CompileBlock(handler, p, Handler, at + 4, loops)
         IN <<I("POP_TOP", 0), I("STORE_NAME", 0), I("POP_TOP", 0),
              I("SETUP_FINALLY", Len(body) + 3)>> \o body
            \o <<I("POP_BLOCK", 0), I("POP_EXCEPT", 0), I("LOAD_CONST", 0)>>
            \o <<I("LOAD_CONST", 0), I("STORE_NAME", 0), I("DELETE_NAME", 0),
                 I("END_FINALLY", 0)>>

CompileTryExcept(s, p, at, loops) ==
    LET in      == Append(loops, ExceptLoop)
        body    == CompileBlock(s.body, p, Body, at + 1, in)
        match   == at + Len(body) + 3
        tested  == s.kind # "bare"
        entry   == match + IF tested THEN 4 ELSE 0
        handler == CompileHandler(s.kind, s.handler, p, entry, in)
        orelse  == CompileBlock(s.orelse, p, Orelse,
                                entry + Len(handler) + 2, in)
        \* only the name 1 matches the exceptions of these programs
        test    == <<I("DUP_TOP", 0),
                     I("LOAD_NAME", IF s.kind = "other" THEN 0 ELSE 1),
                     I("COMPARE_OP", 0),
                     I("POP_JUMP_IF_FALSE", entry + Len(handler) + 1)>>
    IN  <<I("SETUP_EXCEPT", Len(body) + 2)>> \o body
        \o <<I("POP_BLOCK", 0),
             I("JUMP_FORWARD", entry - match + Len(handler) + 2)>>
        \o (IF tested THEN test ELSE <<>>) \o handler
        \o <<I("JUMP_FORWARD", 1 + Len(orelse)), I("END_FINALLY", 0)>>
        \o orelse

CompileTryFinally(s, p, at, loops) ==
    LET body  == IF s.kind # "none" THEN CompileTryExcept(s, p, at + 1, loops)
                 ELSE CompileBlock(s.body, p, Body, at + 1,
                                   Append(loops, FinallyTryLoop))
        final == CompileBlock(s.final, p, Final, at + Len(body) + 3,
                              Append(loops, FinallyEndLoop))
    IN  <<I("SETUP_FINALLY", Len(body) + 2)>> \o body
        \o <<I("POP_BLOCK", 0), I("LOAD_CONST", 0)>> \o final
        \o <<I("END_FINALLY", 0)>>

CompileWith(s, p, at, loops) ==
    LET body == CompileBlock(s.body, p, Body, at + 3,
                             Append(loops, FinallyTryLoop))
    IN  <<I("LOAD_NAME", p), I("SETUP_WITH", Len(body) + 3), I("POP_TOP", 0)>>
        \o body
        \o <<I("POP_BLOCK", 0), I("LOAD_CONST", 0),
             I("WITH_CLEANUP", 0), I("END_FINALLY", 0)>>

\* A changed CompileFor: break ends up in the else clause.
CompileForElse(s, p, at, loops) ==
    LET start  == at + 3
        body   == CompileBlock(s.body, p, Body, start + 2,
                               Append(loops, Loop(start)))
        orelse == CompileBlock(s.orelse, p, Orelse, start + Len(body) + 4,
                               loops)
    IN  <<I("SETUP_LOOP", Len(body) + 6), I("LOAD_NAME", p),
          I("GET_ITER", 0), I("FOR_ITER", Len(body) + 2), I("STORE_NAME", 0)>>
        \o body
        \o <<I("JUMP_ABSOLUTE", start), I("POP_BLOCK", 0)>> \o orelse

CompileFor(s, p, at, loops) ==
    LET start  == at + 3
        body   == CompileBlock(s.body, p, Body, start + 2,
                               Append(loops, Loop(start)))
        orelse == CompileBlock(s.orelse, p, Orelse, start + Len(body) + 4,
                               loops)
    IN  <<I("SETUP_LOOP", Len(body) + Len(orelse) + 6), I("LOAD_NAME", p),
          I("GET_ITER", 0), I("FOR_ITER", Len(body) + 2), I("STORE_NAME", 0)>>
        \o body
        \o <<I("JUMP_ABSOLUTE", start), I("POP_BLOCK", 0)>> \o orelse

\* A changed CompileWhile: the label of the loop is set after its test.
CompileWhileTestedOnce(s, p, at, loops) ==
    LET start  == at + 3
        body   == CompileBlock(s.body, p, Body, start,
                               Append(loops, Loop(start)))
        end    == start + Len(body) + 1
        orelse == CompileBlock(s.orelse, p, Orelse, end + 1, loops)
    IN  <<I("SETUP_LOOP", Len(body) + Len(orelse) + 4), I("LOAD_NAME", p),
          I("POP_JUMP_IF_FALSE", end)>> \o body
        \o <<I("JUMP_ABSOLUTE", start), I("POP_BLOCK", 0)>> \o orelse

CompileWhile(s, p, at, loops) ==
    LET start  == at + 1
        body   == CompileBlock(s.body, p, Body, start + 2,
                               Append(loops, Loop(start)))
        end    == start + Len(body) + 3
        orelse == CompileBlock(s.orelse, p, Orelse, end + 1, loops)
    IN  <<I("SETUP_LOOP", Len(body) + Len(orelse) + 4), I("LOAD_NAME", p),
          I("POP_JUMP_IF_FALSE", end)>> \o body
        \o <<I("JUMP_ABSOLUTE", start), I("POP_BLOCK", 0)>> \o orelse

CompileIf(s, p, at, loops) ==
    LET body   == CompileBlock(s.body, p, Body, at + 2, loops)
        else   == at + Len(body) + 3
        orelse == CompileBlock(s.orelse, p, Orelse, else, loops)
    IN  <<I("LOAD_NAME", p), I("POP_JUMP_IF_FALSE", else)>> \o body
        \o <<I("JUMP_FORWARD", Len(orelse))>> \o orelse

Compile(s, p, at, loops) ==
    CASE s.t = "step"    -> <<I("LOAD_CONST", p), I("STORE_NAME", 0)>>
      [] s.t = "raise"   -> <<I("LOAD_NAME", p), I("RAISE_VARARGS", 1)>>
      [] s.t = "reraise" -> <<I("RAISE_VARARGS", 0)>>
      [] s.t = "break"   -> Break(loops)
      [] s.t = "continue" -> Continue(loops)
      [] s.t = "return"  -> <<I("LOAD_CONST", p), I("RETURN_VALUE", 0)>>
      [] s.t = "call"    -> <<I("LOAD_NAME", p), I("CALL_FUNCTION", 0),
                              I("POP_TOP", 0)>>
      [] s.t = "with"    -> CompileWith(s, p, at, loops)
      [] s.t = "for"     -> CompileFor(s, p, at, loops)
      [] s.t = "while"   -> CompileWhile(s, p, at, loops)
      [] s.t = "if"      -> CompileIf(s, p, at, loops)
      [] s.t = "try" -> IF s.final # <<>> THEN CompileTryFinally(s, p, at, loops)
                        ELSE CompileTryExcept(s, p, at, loops)

\* A function body ends by returning None.
CompileModule(block) ==
    CompileBlock(block, 1, Body, 0, <<>>)
    \o <<I("LOAD_CONST", 0), I("RETURN_VALUE", 0)>>

Accepted(code) == \A i \in 1 .. Len(code) : code[i].op # "SyntaxError"
-------------------------------------------------------------------------------
(* What the statements mean.  Exec(s, p, st, h) runs statement s with path *)
(* p in the state st, while the exception h (0 for none) is being handled: *)
(* st.log are the effects so far, st.asks the answers still to come, and   *)
(* st.out says how the statement was left: "next", "break", "continue",    *)
(* "return" or "raise", with a value for the last two in st.n.             *)

Left(st, out, n) == [st EXCEPT !.out = out, !.n = n]
Effect(st, n)    == [st EXCEPT !.log = Append(@, n)]
Asked(st)        == IF st.asks = <<>> THEN 0 ELSE Head(st.asks)
Answered(st)     == IF st.asks = <<>> THEN st ELSE [st EXCEPT !.asks = Tail(@)]
Goes(st)         == st.out = "next"

\* "No active exception to reraise", vm.raise.
NothingToReraise == 1

RECURSIVE Exec(_, _, _, _), ExecFrom(_, _, _, _, _, _), Iterate(_, _, _, _)

\* A block runs until one of its statements leaves it.
ExecFrom(block, i, p, c, st, h) ==
    IF i > Len(block) \/ ~Goes(st) THEN st
    ELSE ExecFrom(block, i + 1, p, c, Exec(block[i], PathOf(p, c, i), st, h), h)
ExecBlock(block, p, c, st, h) == ExecFrom(block, 1, p, c, st, h)

\* A loop asks for an item or a truth before every turn; the else clause runs
\* when there is none, and not after a break.  A for stores the item, 0.
Iterate(s, p, st, h) ==
    IF Asked(st) = 0 THEN ExecBlock(s.orelse, p, Orelse, Answered(st), h)
    ELSE LET entered == IF s.t = "for" THEN Effect(Answered(st), 0) ELSE Answered(st)
             turn == ExecBlock(s.body, p, Body, entered, h)
         IN CASE turn.out \in {"next", "continue"} ->
                     Iterate(s, p, Left(turn, "next", 0), h)
              [] turn.out = "break" -> Left(turn, "next", 0)
              [] OTHER -> turn

\* The exception is handled until the handler is left, however it is left; a
\* named handler stores the exception first and None at the end.
ExecTryExcept(s, p, st, h) ==
    LET body == ExecBlock(s.body, p, Body, st, h) IN
    CASE Goes(body) -> ExecBlock(s.orelse, p, Orelse, body, h)
      [] body.out = "raise" /\ s.kind = "bare" ->
            ExecBlock(s.handler, p, Handler, Left(body, "next", 0), body.n)
      [] body.out = "raise" /\ s.kind = "named" ->
            Effect(ExecBlock(s.handler, p, Handler,
                             Effect(Left(body, "next", 0), body.n), body.n), 0)
      [] OTHER -> body

\* The finally clause runs however the body was left; what it does itself
\* comes before what the body did.
ExecFinally(s, p, body, h) ==
    LET handled == IF body.out = "raise" THEN body.n ELSE h
        final   == ExecBlock(s.final, p, Final, Left(body, "next", 0), handled)
    IN IF Goes(final) THEN Left(final, body.out, body.n) ELSE final
ExecTry(s, p, st, h) ==
    LET body == IF s.kind = "none" THEN ExecBlock(s.body, p, Body, st, h)
                ELSE ExecTryExcept(s, p, st, h)
    IN IF s.final = <<>> THEN body ELSE ExecFinally(s, p, body, h)

\* __exit__ runs however the body was left, once __enter__ has returned.
ExecWith(s, p, st, h) ==
    LET entered == Answered(Effect(st, p))
        body    == ExecBlock(s.body, p, Body, entered, h)
        exited  == Answered(Effect(body, p))
    IN  CASE Asked(st) = 0 -> Left(entered, "raise", p)
          [] Asked(st) # 0 /\ Asked(body) = 2 -> Left(exited, "raise", p)
          [] Asked(st) # 0 /\ Asked(body) = 1 /\ body.out = "raise" ->
                Left(exited, "next", 0)
          [] OTHER -> exited

Exec(s, p, st, h) ==
    CASE s.t = "step"     -> Effect(st, p)
      [] s.t = "raise"    -> Left(st, "raise", p)
      [] s.t = "reraise"  -> Left(st, "raise", IF h = 0 THEN NothingToReraise
                                                        ELSE h)
      [] s.t = "break"    -> Left(st, "break", 0)
      [] s.t = "continue" -> Left(st, "continue", 0)
      [] s.t = "return"   -> Left(st, "return", p)
      [] s.t = "call"     -> IF Asked(st) = 0
                             THEN Left(Answered(Effect(st, p)), "raise", p)
                             ELSE Answered(Effect(st, p))
      [] s.t = "with"     -> ExecWith(s, p, st, h)
      [] s.t \in {"for", "while"} -> Iterate(s, p, st, h)
      [] s.t = "if" -> IF Asked(st) = 0
                       THEN ExecBlock(s.orelse, p, Orelse, Answered(st), h)
                       ELSE ExecBlock(s.body, p, Body, Answered(st), h)
      [] s.t = "try" -> ExecTry(s, p, st, h)

\* A function that runs off its end returns None.
ExecModule(block, answers) ==
    LET end == ExecBlock(block, 1, Body, [log |-> <<>>, asks |-> answers,
                                          out |-> "next", n |-> 0], 0)
    IN IF Goes(end) THEN Left(end, "return", 0) ELSE end
===============================================================================
