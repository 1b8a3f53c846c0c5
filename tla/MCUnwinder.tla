------------------------------ MODULE MCUnwinder ------------------------------
(***************************************************************************)
(* Every program of a bounded shape, compiled by ControlFlow and run by    *)
(* Unwinder, against what its statements mean; and the code of each,       *)
(* against the verifier of FrameShapes.                                    *)
(***************************************************************************)
EXTENDS FrameShapes, FiniteSets

CF == INSTANCE ControlFlow

\* Every block is a statement followed by a step, so that a block that goes on
\* is seen to go on.
Step1   == CF!Leaf("step")
Then(s) == <<s, Step1>>
Clause  == <<Step1>>

Simple == {CF!Leaf(t) : t \in {"step", "raise", "reraise", "break", "continue",
                               "return", "call"}}

\* The compound statements with bodies and handlers from the given sets.
Compounds(Bodies, Handlers) ==
    {CF!Try(Then(b), k, Then(h), Clause, <<>>) :
        b \in Bodies, k \in {"bare", "named"}, h \in Handlers}
    \cup {CF!Try(Then(b), "other", Clause, Clause, <<>>) : b \in Bodies}
    \cup {CF!Try(Then(b), "none", <<>>, <<>>, Then(f)) :
        b \in Bodies, f \in Handlers}
    \cup {CF!Try(Then(b), "bare", Clause, Clause, Then(f)) :
        b \in Bodies, f \in Handlers}
    \cup {CF!With(Then(b)) : b \in Bodies}
    \cup {CF!For(Then(b), Clause) : b \in Bodies}
    \cup {CF!While(Then(b), Clause) : b \in Bodies}
    \cup {CF!If(Then(b), Clause) : b \in Bodies}

Few  == {CF!Leaf(t) : t \in {"step", "raise", "break", "return"}}

\* A compound statement; one with another in a body or a handler.
Once  == Compounds(Simple, Simple)
Twice == Compounds(Once, Few) \cup Compounds(Few, Once)

\* Those with a step after them, and the second kind in a loop too, where
\* break and continue have a place to go.
Sources == {Then(s) : s \in Once} \cup {<<CF!For(Then(s), <<>>)>> : s \in Twice}

Compiled == {p \in {[source |-> s, code |-> CF!CompileModule(s)] : s \in Sources} :
                CF!Accepted(p.code)}

Uses(p, op, arg) == \E i \in 1 .. Len(p.code) :
                        p.code[i].op = op /\ p.code[i].arg = arg
\* A break or a continue belongs to a loop: in these programs, the outermost
\* statement.
InALoop(p) == ~Uses(p, "BREAK_LOOP", 0) \/ Head(p.source).t \in {"for", "while"}
\* A pause forgets the exception being handled, so a bare raise after one does
\* not do what the program says.
Forgets(p) == Uses(p, "CALL_FUNCTION", 0) /\ Uses(p, "RAISE_VARARGS", 0)

MCPrograms == {p \in Compiled : InALoop(p) /\ ~Forgets(p)}
StrayBreaks == {p \in Compiled : ~InALoop(p)}
Forgetful == {p \in Compiled : Forgets(p)}

\* The shapes of a program: all that follow from the start.
RECURSIVE Grow(_, _, _)
Grow(code, known, new) ==
    IF \E a \in new : ~Lawful(code, a) THEN known \cup new
    ELSE LET all  == known \cup new
             next == UNION {Leads(code, a) : a \in new} \ all
         IN  IF next = {} THEN all ELSE Grow(code, all, next)
ShapesOf(code) == Grow(code, {}, {Start})

\* The hypothesis of the theorems of UnwinderProofs: whatever the compiler
\* accepts passes the verifier, except for the break it should have refused.
ASSUME CompiledCodeIsVerified ==
    /\ \A p \in MCPrograms \cup Forgetful : Verified(p.code, ShapesOf(p.code))
    /\ \E p \in StrayBreaks : ~Verified(p.code, ShapesOf(p.code))

\* A program runs as its statements say, whatever the world answers: the same
\* effects in the same order, and the same result or exception at the end.
\* finally and __exit__ run once however their block is left, an else clause
\* runs only when it should, a loop stops where break says, and a bare raise
\* finds the exception of the handler it is in.
RunsAsWritten ==
    status \in {"returned", "raised"} =>
        LET end == CF!ExecModule(prog.source, answers) IN
        /\ log = end.log
        /\ status = IF end.out = "return" THEN "returned" ELSE "raised"
        /\ IF status = "returned" THEN retval.n = end.n
                                  ELSE curexc = Info(end.n)

\* Every program ends: a continue that missed its loop's test, or a block left
\* on the stack by a jump, could keep a frame running for ever.
EveryProgramEnds == <>(status \in {"returned", "raised"})
===============================================================================
