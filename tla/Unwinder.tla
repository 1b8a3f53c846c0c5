------------------------------- MODULE Unwinder -------------------------------
(***************************************************************************)
(* One frame of the interpreter (vm/eval.go, runFrame): the opcodes of     *)
(* control flow, the block stack and the value stack they share, the       *)
(* unwinding loop that runs whenever vm.why is set, and what a frame loses *)
(* when it is paused by an external call and entered again.                *)
(*                                                                         *)
(* runFrame keeps three things apart, and so does this module:             *)
(*   frame   lasti, stack, blocks: they survive a pause;                   *)
(*   Vm      why, retval, curexc, exc: local to one runFrame, made anew    *)
(*           by Resume;                                                    *)
(*   world   what user code and the host answer (answers) and what the     *)
(*           program has visibly done (log).                               *)
(*                                                                         *)
(* Abstractions.  An instruction is a record and lasti counts              *)
(* instructions, not bytes.  A value keeps its Python kind and a number    *)
(* that names it.  The execution budget that may end any iteration of the  *)
(* loop is in module Engine.                                               *)
(***************************************************************************)
EXTENDS Integers, Sequences, SequencesExt

CONSTANTS
    Programs,    \* the programs that may run, with their instructions in code
    MaxAnswers   \* how many answers of the world may differ from 0

VARIABLES
    prog,        \* the program of the frame
    lasti,       \* frame.Lasti
    stack,       \* frame.Stack, the top last
    blocks,      \* frame.Blockstack, the innermost block last
    why,         \* vm.why
    retval,      \* vm.retval
    curexc,      \* vm.curexc, the exception being raised
    exc,         \* vm.exc, the exception being handled
    status,      \* "running", "paused", "returned", "raised" or "panic"
    log,         \* the visible effects so far
    answers      \* the answers of the world so far

frameVars == <<prog, lasti, stack, blocks>>
vmVars    == <<why, retval, curexc, exc>>
world     == <<log, answers>>
vars      == <<prog, lasti, stack, blocks, why, retval, curexc, exc, status,
               log, answers>>

-------------------------------------------------------------------------------
(* Values, exceptions and status codes.                                    *)

WhyNot       == 0
WhyException == 1
WhyReturn    == 2
WhyBreak     == 3
WhyContinue  == 4
WhyYield     == 5
WhySilenced  == 7

Kinds == {"none", "nil", "int", "obj", "iter", "bool", "exit",
          "type", "exc", "tb"}
Value == [is : Kinds, n : Nat]

V(k, n) == [is |-> k, n |-> n]
None    == V("none", 0)
Nil     == V("nil", 0)

\* py.ExceptionInfo: the number of its exception in each field, 0 for nil.
Info(n) == [type |-> n, value |-> n, tb |-> n]
NoExc   == Info(0)
IsSet(e) == e.type # 0

\* Exceptions the interpreter makes itself.
RuntimeError == 1     \* "No active exception to reraise"
SystemError  == 2     \* a block or a value of the wrong kind

\* The truth of a comparison of exception classes is decided by the name
\* compared with: every exception raised here is an instance of Matching.
Matching == 1

Ops == {"LOAD_CONST", "LOAD_NAME", "STORE_NAME", "DELETE_NAME", "POP_TOP",
        "DUP_TOP", "COMPARE_OP", "GET_ITER", "FOR_ITER", "CALL_FUNCTION",
        "JUMP_FORWARD", "JUMP_ABSOLUTE", "POP_JUMP_IF_FALSE",
        "SETUP_LOOP", "SETUP_EXCEPT", "SETUP_FINALLY", "SETUP_WITH",
        "POP_BLOCK", "POP_EXCEPT", "END_FINALLY", "WITH_CLEANUP",
        "BREAK_LOOP", "CONTINUE_LOOP", "RETURN_VALUE", "RAISE_VARARGS"}
Instruction == [op : Ops, arg : Nat]

ASSUME CodeIsCode   == \A p \in Programs : p.code \in Seq(Instruction)
ASSUME AnswersBound == MaxAnswers \in Nat

Block == [type : {"loop", "except", "finally", "handler"},
          handler : Nat, level : Nat]

-------------------------------------------------------------------------------
(* The instruction being executed.                                         *)

Instr == prog.code[lasti + 1]
Arg   == Instr.arg

\* runFrame fetches an opcode only while vm.why is whyNot.
Fetching == status = "running" /\ why = WhyNot /\ lasti < Len(prog.code)
At(op)   == Fetching /\ Instr.op = op

Depth  == Len(stack)
Top    == stack[Depth]
Peek(k) == stack[Depth - k + 1]
Below(k) == SubSeq(stack, 1, Depth - k)

\* On entry to a finally clause the top of the stack says why: None, a status
\* code, or the type of an exception.  WITH_CLEANUP finds __exit__ below the 1,
\* 2 or 6 values of that entry.
CarriesValue == Top.is = "int" /\ Top.n \in {WhyReturn, WhyContinue}
NoException  == Top.is \in {"none", "int"}
ExitIsAt == IF CarriesValue THEN 3 ELSE IF NoException THEN 2 ELSE 7

\* How many values an opcode takes from the stack or looks at: with fewer the
\* slice expression of POP, TOP or PEEK panics.
Takes ==
    CASE Instr.op \in {"STORE_NAME", "POP_TOP", "DUP_TOP", "GET_ITER",
                       "FOR_ITER", "CALL_FUNCTION", "POP_JUMP_IF_FALSE",
                       "SETUP_WITH", "RETURN_VALUE"} -> 1
      [] Instr.op = "COMPARE_OP" -> 2
      [] Instr.op = "RAISE_VARARGS" -> Arg
      [] Instr.op = "END_FINALLY" ->
            IF Depth = 0 THEN 1
            ELSE IF Top.is = "type" THEN 3
            ELSE IF CarriesValue THEN 2
            ELSE 1
      [] Instr.op = "WITH_CLEANUP" ->
            IF Depth = 0 THEN 1 ELSE ExitIsAt
      [] OTHER -> 0
Ready(op) == At(op) /\ Depth >= Takes

\* An opcode that returns an error: SetException, and the loop unwinds.
Raise(n) == curexc' = Info(n) /\ why' = WhyException
NoRaise  == UNCHANGED <<curexc, why>>

\* The world answers a with one of choices; after MaxAnswers answers, with 0.
Answer(a, choices) ==
    IF Len(answers) < MaxAnswers
    THEN a \in choices /\ answers' = Append(answers, a)
    ELSE a = 0 /\ UNCHANGED answers

Goto(i) == lasti' = i
Step    == Goto(lasti + 1)
-------------------------------------------------------------------------------
(* Opcodes that move values.                                               *)

\* Constant 0 is None; the other constants of these programs are integers.
LoadConst ==
    /\ At("LOAD_CONST")
    /\ stack' = Append(stack, IF Arg = 0 THEN None ELSE V("int", Arg))
    /\ Step
    /\ UNCHANGED <<prog, blocks, vmVars, status, world>>

LoadName ==
    /\ At("LOAD_NAME")
    /\ stack' = Append(stack, V("obj", Arg))
    /\ Step
    /\ UNCHANGED <<prog, blocks, vmVars, status, world>>

\* A binding is what another part of the program can see: it is logged.
StoreName ==
    /\ Ready("STORE_NAME")
    /\ log' = Append(log, Top.n)
    /\ stack' = Below(1)
    /\ Step
    /\ UNCHANGED <<prog, blocks, vmVars, status, answers>>

\* del e ends an "except ... as e"; the name was bound just before.
DeleteName ==
    /\ At("DELETE_NAME")
    /\ Step
    /\ UNCHANGED <<prog, stack, blocks, vmVars, status, world>>

PopTop ==
    /\ Ready("POP_TOP")
    /\ stack' = Below(1)
    /\ Step
    /\ UNCHANGED <<prog, blocks, vmVars, status, world>>

DupTop ==
    /\ Ready("DUP_TOP")
    /\ stack' = Append(stack, Top)
    /\ Step
    /\ UNCHANGED <<prog, blocks, vmVars, status, world>>

\* COMPARE_OP exc_match: TOS is the class named in the except clause.
CompareOp ==
    /\ Ready("COMPARE_OP")
    /\ stack' = Append(Below(2), V("bool", IF Top.n = Matching THEN 1 ELSE 0))
    /\ Step
    /\ UNCHANGED <<prog, blocks, vmVars, status, world>>

GetIter ==
    /\ Ready("GET_ITER")
    /\ stack' = Append(Below(1), V("iter", Top.n))
    /\ Step
    /\ UNCHANGED <<prog, blocks, vmVars, status, world>>

\* The world says whether the iterator under TOS has another item.
ForIter ==
    /\ Ready("FOR_ITER")
    /\ \E a \in 0 .. 1 :
        /\ Answer(a, {0, 1})
        /\ IF a = 1
           THEN stack' = Append(stack, V("int", 0)) /\ Step
           ELSE stack' = Below(1) /\ Goto(lasti + 1 + Arg)
    /\ UNCHANGED <<prog, blocks, vmVars, status, log>>

-------------------------------------------------------------------------------
(* Jumps.                                                                  *)

JumpForward ==
    /\ At("JUMP_FORWARD")
    /\ Goto(lasti + 1 + Arg)
    /\ UNCHANGED <<prog, stack, blocks, vmVars, status, world>>

JumpAbsolute ==
    /\ At("JUMP_ABSOLUTE")
    /\ Goto(Arg)
    /\ UNCHANGED <<prog, stack, blocks, vmVars, status, world>>

\* The truth of a bool is its own, that of another object is the world's.
PopJumpIfFalse ==
    /\ Ready("POP_JUMP_IF_FALSE")
    /\ \E truth \in 0 .. 1 :
        /\ IF Top.is = "bool" THEN truth = Top.n /\ UNCHANGED answers
                              ELSE Answer(truth, {0, 1})
        /\ Goto(IF truth = 0 THEN Arg ELSE lasti + 1)
    /\ stack' = Below(1)
    /\ UNCHANGED <<prog, blocks, vmVars, status, log>>

-------------------------------------------------------------------------------
(* Blocks.                                                                 *)

PushBlock(type, handler, level) ==
    blocks' = Append(blocks, [type |-> type, handler |-> handler,
                              level |-> level])

\* SETUP_LOOP, SETUP_EXCEPT, SETUP_FINALLY.
Setup(op, type) ==
    /\ At(op)
    /\ PushBlock(type, lasti + 1 + Arg, Depth)
    /\ Step
    /\ UNCHANGED <<prog, stack, vmVars, status, world>>

SetupLoop    == Setup("SETUP_LOOP", "loop")
SetupExcept  == Setup("SETUP_EXCEPT", "except")
SetupFinally == Setup("SETUP_FINALLY", "finally")

\* The manager on TOS becomes its __exit__; __enter__ is called before the
\* block is pushed, and its result goes above the block's level.
SetupWith ==
    /\ Ready("SETUP_WITH")
    /\ LET exiting == Append(Below(1), V("exit", Top.n)) IN
       /\ log' = Append(log, Top.n)
       /\ Step
       /\ \E entered \in 0 .. 1 :
            /\ Answer(entered, {0, 1})
            /\ IF entered = 1
               THEN /\ PushBlock("finally", lasti + 1 + Arg, Depth)
                    /\ stack' = Append(exiting, V("int", 0))
                    /\ NoRaise
               ELSE /\ stack' = exiting
                    /\ Raise(Top.n)
                    /\ UNCHANGED blocks
    /\ UNCHANGED <<prog, retval, exc, status>>

\* POP_BLOCK leaves the value stack alone, whatever its comment says.
PopBlock ==
    /\ Ready("POP_BLOCK") /\ blocks # <<>>
    /\ blocks' = Front(blocks)
    /\ Step
    /\ UNCHANGED <<prog, stack, vmVars, status, world>>

\* UnwindExceptHandler on the block b and the stack s: the three values at
\* b's level become the exception being handled, the rest is dropped.
HandlerIntact(b, s) == Len(s) >= b.level + 3
Saved(b, s) == [type  |-> IF s[b.level + 3].is = "type" THEN s[b.level + 3].n ELSE 0,
                value |-> s[b.level + 2].n,
                tb    |-> IF s[b.level + 1].is = "tb" THEN s[b.level + 1].n ELSE 0]
UnwindExceptHandler(b) ==
    /\ HandlerIntact(b, stack)
    /\ exc' = Saved(b, stack)
    /\ stack' = SubSeq(stack, 1, b.level)

PopExcept ==
    /\ Ready("POP_EXCEPT") /\ blocks # <<>>
    /\ blocks' = Front(blocks)
    /\ Step
    /\ IF Last(blocks).type = "handler"
       THEN UnwindExceptHandler(Last(blocks)) /\ NoRaise
       ELSE Raise(SystemError) /\ UNCHANGED <<stack, exc>>
    /\ UNCHANGED <<prog, retval, status, world>>
-------------------------------------------------------------------------------
(* The end of a finally clause.                                            *)

\* END_FINALLY finds None: the clause was entered from above.
EndFinallyNormally ==
    /\ Ready("END_FINALLY") /\ Top = None
    /\ stack' = Below(1)
    /\ Step
    /\ UNCHANGED <<prog, blocks, vmVars, status, world>>

\* A changed EndFinallyUnwinding: the code of a silenced exception is unwound
\* like the others.
EndFinallyUnwindingSilenced ==
    /\ Ready("END_FINALLY") /\ Top.is = "int"
    /\ Top.n \notin {WhyException, WhyYield}
    /\ why' = Top.n
    /\ IF Top.n \in {WhyReturn, WhyContinue}
       THEN retval' = Peek(2) /\ stack' = Below(2)
       ELSE stack' = Below(1) /\ UNCHANGED retval
    /\ Step
    /\ UNCHANGED <<prog, blocks, curexc, exc, status, world>>

\* END_FINALLY finds a status code: the unwinding it interrupted goes on.
\* The code of a silenced exception and those that panic have their actions.
EndFinallyUnwinding ==
    /\ Ready("END_FINALLY") /\ Top.is = "int"
    /\ Top.n \notin {WhyException, WhyYield, WhySilenced}
    /\ why' = Top.n
    /\ IF Top.n \in {WhyReturn, WhyContinue}
       THEN retval' = Peek(2) /\ stack' = Below(2)
       ELSE stack' = Below(1) /\ UNCHANGED retval
    /\ Step
    /\ UNCHANGED <<prog, blocks, curexc, exc, status, world>>

\* __exit__ returned True: the handler block of the exception is unwound here.
EndFinallySilenced ==
    /\ Ready("END_FINALLY") /\ Top = V("int", WhySilenced)
    /\ blocks # <<>> /\ Last(blocks).type = "handler"
    /\ HandlerIntact(Last(blocks), Below(1))
    /\ exc' = Saved(Last(blocks), Below(1))
    /\ stack' = SubSeq(stack, 1, Last(blocks).level)
    /\ blocks' = Front(blocks)
    /\ Step
    /\ UNCHANGED <<prog, why, retval, curexc, status, world>>

\* END_FINALLY finds an exception and raises it again; anything else there is
\* an error of its own.
EndFinallyRaising ==
    /\ Ready("END_FINALLY") /\ ~NoException
    /\ IF Top.is = "type"
       THEN /\ curexc' = [type  |-> Top.n, value |-> Peek(2).n,
                          tb    |-> IF Peek(3).is = "tb" THEN Peek(3).n ELSE 0]
            /\ why' = WhyException
            /\ stack' = Below(3)
       ELSE Raise(SystemError) /\ stack' = Below(1)
    /\ Step
    /\ UNCHANGED <<prog, blocks, retval, exc, status, world>>

-------------------------------------------------------------------------------
(* The end of a with statement.                                            *)

\* __exit__ is taken from under these values, and the gap it leaves is closed.
GapClosed ==
    IF NoException
    THEN RemoveAt(stack, Depth - ExitIsAt + 1)
    ELSE Below(7) \o <<Peek(6), Peek(5), Peek(4), Nil>>
                  \o <<Peek(3), Peek(2), Peek(1)>>

\* A changed BlockLowered: block.Level-- forgotten.
BlockNotLowered == blocks

\* The handler block of the exception starts one value lower than before.
BlockLowered ==
    IF NoException
    THEN blocks
    ELSE [blocks EXCEPT ![Len(blocks)].level = @ - 1]

\* __exit__ returns False (0) or True (1), or raises (2).  True silences an
\* exception, and only an exception.
WithCleanup ==
    /\ Ready("WITH_CLEANUP")
    /\ NoException \/ (blocks # <<>> /\ Last(blocks).type = "handler")
    /\ blocks' = BlockLowered
    /\ LET exit == Peek(ExitIsAt).n IN
       /\ log' = Append(log, exit)
       /\ \E res \in 0 .. 2 :
            /\ Answer(res, {0, 1, 2})
            /\ IF res = 2 THEN Raise(exit) ELSE NoRaise
            /\ stack' = IF res = 1 /\ ~NoException
                        THEN Append(GapClosed, V("int", WhySilenced))
                        ELSE GapClosed
    /\ Step
    /\ UNCHANGED <<prog, retval, exc, status>>

-------------------------------------------------------------------------------
(* Opcodes that leave the normal flow.                                     *)

BreakLoop ==
    /\ At("BREAK_LOOP")
    /\ why' = WhyBreak
    /\ Step
    /\ UNCHANGED <<prog, stack, blocks, retval, curexc, exc, status, world>>

ContinueLoop ==
    /\ At("CONTINUE_LOOP")
    /\ retval' = V("int", Arg)
    /\ why' = WhyContinue
    /\ Step
    /\ UNCHANGED <<prog, stack, blocks, curexc, exc, status, world>>

ReturnValue ==
    /\ Ready("RETURN_VALUE")
    /\ retval' = Top
    /\ stack' = Below(1)
    /\ why' = WhyReturn
    /\ Step
    /\ UNCHANGED <<prog, blocks, curexc, exc, status, world>>

\* raise x: a new exception, named by x.
RaiseInstance ==
    /\ Ready("RAISE_VARARGS") /\ Arg = 1
    /\ Raise(Top.n)
    /\ stack' = Below(1)
    /\ Step
    /\ UNCHANGED <<prog, blocks, retval, exc, status, world>>

\* A bare raise signals vm.exc again.
Reraise ==
    /\ Ready("RAISE_VARARGS") /\ Arg = 0
    /\ IF IsSet(exc) THEN curexc' = exc /\ why' = WhyException
                     ELSE Raise(RuntimeError)
    /\ Step
    /\ UNCHANGED <<prog, stack, blocks, retval, exc, status, world>>

\* A call of an external function: the host sees it, the callee leaves the
\* stack, runFrame returns and its Vm is gone.
CallFunction ==
    /\ Ready("CALL_FUNCTION")
    /\ log' = Append(log, Top.n)
    /\ stack' = Below(1)
    /\ Step
    /\ status' = "paused"
    /\ retval' = Nil /\ curexc' = NoExc /\ exc' = NoExc
    /\ UNCHANGED <<prog, blocks, why, answers>>
-------------------------------------------------------------------------------
(* Resume and ResumeWithError enter the frame again with a new Vm.         *)

Resume ==
    /\ status = "paused"
    /\ \E ok \in 0 .. 1 :
        /\ Answer(ok, {0, 1})
        /\ IF ok = 1
           THEN stack' = Append(stack, V("int", 0)) /\ NoRaise
           ELSE Raise(Last(log)) /\ UNCHANGED stack
    /\ status' = "running"
    /\ UNCHANGED <<prog, lasti, blocks, retval, exc, log>>

-------------------------------------------------------------------------------
(* The unwinding loop: one action per block taken off.                     *)

Unwinding == status = "running" /\ why # WhyNot /\ blocks # <<>>
Inner     == Last(blocks)
Truncated == IF Depth > Inner.level THEN SubSeq(stack, 1, Inner.level)
                                    ELSE stack

\* continue: the loop's block stays, and so does its iterator.
UnwindContinues ==
    /\ Unwinding /\ Inner.type = "loop" /\ why = WhyContinue
    /\ Goto(retval.n)
    /\ why' = WhyNot
    /\ UNCHANGED <<prog, stack, blocks, retval, curexc, exc, status, world>>

\* A changed UnwindBreaks: vm.why is not cleared.
UnwindBreaksOn ==
    /\ Unwinding /\ Inner.type = "loop" /\ why = WhyBreak
    /\ blocks' = Front(blocks)
    /\ stack' = Truncated
    /\ Goto(Inner.handler)
    /\ UNCHANGED <<prog, why, retval, curexc, exc, status, world>>

UnwindBreaks ==
    /\ Unwinding /\ Inner.type = "loop" /\ why = WhyBreak
    /\ blocks' = Front(blocks)
    /\ stack' = Truncated
    /\ Goto(Inner.handler)
    /\ why' = WhyNot
    /\ UNCHANGED <<prog, retval, curexc, exc, status, world>>

\* A changed UnwindLeavesHandler: the values go, vm.exc stays.
UnwindKeepsException ==
    /\ Unwinding /\ Inner.type = "handler"
    /\ blocks' = Front(blocks)
    /\ HandlerIntact(Inner, stack)
    /\ stack' = SubSeq(stack, 1, Inner.level)
    /\ UNCHANGED <<prog, lasti, why, retval, curexc, exc, status, world>>

\* A handler is left by anything else: what it handled is restored.
UnwindLeavesHandler ==
    /\ Unwinding /\ Inner.type = "handler"
    /\ blocks' = Front(blocks)
    /\ UnwindExceptHandler(Inner)
    /\ UNCHANGED <<prog, lasti, why, retval, curexc, status, world>>

\* An exception reaches a try: what was being handled is saved on the stack
\* under the exception, in a handler block of its own.
Entry(k, n) == IF n = 0 THEN Nil ELSE V(k, n)
TypeEntry(n) == IF n = 0 THEN None ELSE V("type", n)
Entries(e) == <<Entry("tb", e.tb), Entry("exc", e.value), TypeEntry(e.type)>>

\* A changed UnwindCatches: vm.curexc is not cleared.
UnwindCatchesAndKeeps ==
    /\ Unwinding /\ Inner.type \in {"except", "finally"} /\ why = WhyException
    /\ blocks' = Append(Front(blocks), [type |-> "handler", handler |-> 0,
                                        level |-> Len(Truncated)])
    /\ stack' = Truncated \o Entries(exc) \o Entries(curexc)
    /\ exc' = curexc
    /\ why' = WhyNot
    /\ Goto(Inner.handler)
    /\ UNCHANGED <<prog, retval, curexc, status, world>>

UnwindCatches ==
    /\ Unwinding /\ Inner.type \in {"except", "finally"} /\ why = WhyException
    /\ blocks' = Append(Front(blocks), [type |-> "handler", handler |-> 0,
                                        level |-> Len(Truncated)])
    /\ stack' = Truncated \o Entries(exc) \o Entries(curexc)
    /\ exc' = curexc
    /\ curexc' = NoExc
    /\ why' = WhyNot
    /\ Goto(Inner.handler)
    /\ UNCHANGED <<prog, retval, status, world>>

\* return, break and continue stop at a finally clause, which is told why.
UnwindFinally ==
    /\ Unwinding /\ Inner.type = "finally" /\ why # WhyException
    /\ blocks' = Front(blocks)
    /\ stack' = Truncated
                \o (IF why \in {WhyReturn, WhyContinue} THEN <<retval>> ELSE <<>>)
                \o <<V("int", why)>>
    /\ why' = WhyNot
    /\ Goto(Inner.handler)
    /\ UNCHANGED <<prog, retval, curexc, exc, status, world>>

\* Any other block is in nobody's way.
UnwindPasses ==
    /\ Unwinding
    /\ \/ Inner.type = "loop" /\ why \notin {WhyContinue, WhyBreak}
       \/ Inner.type = "except" /\ why # WhyException
    /\ blocks' = Front(blocks)
    /\ stack' = Truncated
    /\ UNCHANGED <<prog, lasti, vmVars, status, world>>

-------------------------------------------------------------------------------
(* The end of runFrame.                                                    *)

Exiting == status = "running" /\ why # WhyNot /\ blocks = <<>>
Result  == IF why = WhyReturn THEN retval ELSE Nil

\* Exactly one of a result and an exception leaves the frame.
Exit ==
    /\ Exiting
    /\ (Result = Nil) = IsSet(curexc)
    /\ retval' = Result
    /\ status' = IF IsSet(curexc) THEN "raised" ELSE "returned"
    /\ UNCHANGED <<frameVars, why, curexc, exc, world>>

\* Where runFrame and its opcodes panic: no action is possible there.
Panicking ==
    \/ /\ status = "running" /\ why = WhyNot
       /\ \/ lasti >= Len(prog.code)
          \/ Depth < Takes
          \/ /\ Instr.op \in {"POP_BLOCK", "POP_EXCEPT"}
             /\ blocks = <<>>
          \/ /\ Instr.op = "POP_EXCEPT"
             /\ Last(blocks).type = "handler"
             /\ ~HandlerIntact(Last(blocks), stack)
          \/ /\ Instr.op = "END_FINALLY"
             /\ Top \in {V("int", WhyException), V("int", WhyYield)}
          \/ /\ Instr.op = "END_FINALLY" /\ Top = V("int", WhySilenced)
             /\ \/ blocks = <<>>
                \/ Last(blocks).type # "handler"
                \/ ~HandlerIntact(Last(blocks), Below(1))
          \/ /\ Instr.op = "WITH_CLEANUP" /\ ~NoException
             /\ blocks = <<>> \/ Last(blocks).type # "handler"
    \/ /\ Unwinding
       /\ Inner.type = "handler" /\ ~HandlerIntact(Inner, stack)
    \/ /\ Exiting
       /\ (Result = Nil) # IsSet(curexc)

-------------------------------------------------------------------------------
Init ==
    /\ prog \in Programs
    /\ lasti = 0 /\ stack = <<>> /\ blocks = <<>>
    /\ why = WhyNot /\ retval = Nil /\ curexc = NoExc /\ exc = NoExc
    /\ status = "running"
    /\ log = <<>> /\ answers = <<>>

Opcode ==
    \/ LoadConst \/ LoadName \/ StoreName \/ DeleteName \/ PopTop \/ DupTop
    \/ CompareOp \/ GetIter \/ ForIter
    \/ JumpForward \/ JumpAbsolute \/ PopJumpIfFalse
    \/ SetupLoop \/ SetupExcept \/ SetupFinally \/ SetupWith
    \/ PopBlock \/ PopExcept
    \/ EndFinallyNormally \/ EndFinallyUnwinding \/ EndFinallySilenced
    \/ EndFinallyRaising \/ WithCleanup
    \/ BreakLoop \/ ContinueLoop \/ ReturnValue \/ RaiseInstance \/ Reraise
    \/ CallFunction

Unwind ==
    \/ UnwindContinues \/ UnwindBreaks \/ UnwindLeavesHandler
    \/ UnwindCatches \/ UnwindFinally \/ UnwindPasses \/ Exit

Next == Opcode \/ Unwind \/ Resume

\* runFrame runs on the caller's goroutine until it returns; here the host
\* answers too, for a program that waits for ever has no outcome to compare.
Spec == Init /\ [][Next]_vars /\ WF_vars(Next)
-------------------------------------------------------------------------------
(* Properties.                                                             *)

Exception == [type : Nat, value : Nat, tb : Nat]
TypeOK ==
    /\ lasti \in Nat
    /\ stack \in Seq(Value)
    /\ blocks \in Seq(Block)
    /\ why \in {WhyNot, WhyException, WhyReturn, WhyBreak, WhyContinue}
    /\ retval \in Value
    /\ curexc \in Exception /\ exc \in Exception
    /\ status \in {"running", "paused", "returned", "raised"}
    /\ log \in Seq(Nat)
    /\ answers \in Seq(0 .. 2) /\ Len(answers) <= MaxAnswers

\* The block stack and the value stack agree, between any two opcodes and in
\* the middle of unwinding: blocks are nested in the values they cover, and
\* the exception a handler block must restore is still whole and in place,
\* with nothing of another block among it.  WITH_CLEANUP moves all of it.
BlocksNest ==
    /\ \A i \in 1 .. Len(blocks) :
        LET b == blocks[i]
            held == b.level + IF b.type = "handler" THEN 3 ELSE 0
        IN  /\ held <= Depth
            /\ i < Len(blocks) => held <= blocks[i + 1].level
            /\ b.type = "handler" =>
                /\ stack[b.level + 3].is \in {"none", "type"}
                /\ Saved(b, stack) = Info(stack[b.level + 3].n)

\* No program the compiler accepts makes the interpreter panic, which would
\* take the host process down: no underflow, no missing block, and exactly
\* one of a result and an exception at the end (eval.go:1923-1931).
NeverPanics == ~Panicking

\* A break or a continue is only ever on its way to a loop of its own frame:
\* the compiler refuses the others with "'break' outside loop" and
\* "'continue' not properly in loop" (compile.go:1219, 1223).
LeavesALoop ==
    status = "running" /\ why \in {WhyBreak, WhyContinue} =>
        \E i \in 1 .. Len(blocks) : blocks[i].type = "loop"

\* vm.exc is an exception only inside a handler: when the last handler is
\* left, by any of the ways out, what was there before it is back, so that a
\* later bare raise does not find an exception dealt with long ago.
HandledOnlyInHandlers ==
    IsSet(exc) => \E i \in 1 .. Len(blocks) : blocks[i].type = "handler"
===============================================================================
