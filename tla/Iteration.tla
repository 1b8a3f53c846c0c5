------------------------------- MODULE Iteration -------------------------------
(***************************************************************************)
(* Iterators and what asks them for items: generators (py/generator.go and *)
(* the opcodes of vm/eval.go they run), the iterators over a sequence, and *)
(* enumerate, filter, map and zip, which ask others; next, send, list, all *)
(* and the for statement, which ask from outside.                          *)
(*                                                                         *)
(* An ask is a Go call: __next__ of one object calls __next__ of another   *)
(* and what it returns goes back to the caller.  The calls not answered    *)
(* yet are the sequence active, the ask from outside first; result is what *)
(* the last call returned, until its caller has taken it.                  *)
(***************************************************************************)
EXTENDS Naturals, Sequences

CONSTANTS
    Objects,        \* the iterators; 0 is what asks from outside
    Worlds,         \* what they may be: functions from Objects
    Asked,          \* those that are asked from outside
    Sent,           \* what generators are sent, other than None
    MaxAsks         \* bound: how often is asked from outside

ASSUME ObjectsAssumption == Objects \subseteq Nat \ {0} /\ Asked \subseteq Objects

\* Compiled code ends with a return, its jumps stay in it, what it asks is an
\* object, and so is what an adapter asks.
WellFormed(code) ==
    /\ Len(code) \in Nat \ {0}
    /\ code[Len(code)].op = "return"
    /\ \A i \in 1 .. Len(code) :
          /\ code[i].op = "jump" => code[i].to \in 0 .. Len(code) - 1
          /\ code[i].op = "iter" => code[i].exit \in 0 .. Len(code) - 1
          /\ code[i].op \in {"next", "iter", "from"} => code[i].of \in Objects

ASSUME WorldsAssumption ==
    \A w \in Worlds, o \in Objects :
        /\ w[o].kind = "generator" => WellFormed(w[o].code)
        /\ w[o].kind \in {"enumerate", "filter", "zip"} =>
              /\ Len(w[o].of) \in Nat \ {0}
              /\ \A i \in 1 .. Len(w[o].of) : w[o].of[i] \in Objects

VARIABLES
    world,      \* what every object is
    lasti,      \* how many opcodes a generator's frame is past
    yielded,    \* whether its frame stopped at a yield, as far as it knows
    running,    \* whether it is being executed
    top,        \* the top of its frame's stack
    received,   \* what it was resumed with, so far
    index,      \* how many items an iterator, or an enumerate, has given
    active,
    result,
    heard       \* the asks from outside and their answers

frames == <<yielded, running, top, received>>
vars   == <<world, lasti, frames, index, active, result, heard>>

\* Items are told apart by where they come from; tuples have parts.
Leaf(o, n)         == [from |-> o, n |-> n, parts |-> <<>>]
None               == Leaf(0, 0)
Tuple(o, n, parts) == [from |-> o, n |-> n, parts |-> parts]
ObjectIsTrue(v)    == v.parts # <<>> \/ v.n > 1

\* What a call returns: an item, the StopIteration a builtin iterator answers
\* with, one that a frame has raised, or another exception.
Nothing == [type |-> "nothing"]
Item(v) == [type |-> "item", value |-> v]
Stop    == [type |-> "stop"]
Stopped == [type |-> "stopped"]
Failed  == [type |-> "error"]
IsStopIteration(r) == r.type \in {"stop", "stopped"}

Calling(o) == [obj |-> o, got |-> <<>>]
Asking(how, o, v) == [obj |-> 0, got |-> <<>>, how |-> how, of |-> o, sent |-> v]
Top        == active[Len(active)]
Below      == SubSeq(active, 1, Len(active) - 1)
IsGenerator(o) == world[o].kind = "generator"
Code(g)    == world[g].code

Init ==
    /\ world \in Worlds
    /\ lasti    = [o \in Objects |-> 0]
    /\ yielded  = [o \in Objects |-> FALSE]
    /\ running  = [o \in Objects |-> FALSE]
    /\ top      = [o \in Objects |-> None]
    /\ received = [o \in Objects |-> <<>>]
    /\ index    = [o \in Objects |-> 0]
    /\ active   = <<>>
    /\ result   = Nothing
    /\ heard    = <<>>

-------------------------------------------------------------------------------
(* Asking an object for an item, while calls are active. *)

\* A generator that has started goes on only when its frame stopped at a yield,
\* and finds what it is sent on the stack of its frame.
\* A changed Over: the flag of the frame is not looked at.
OverNever(g) == FALSE
Over(g) == lasti[g] # 0 /\ ~yielded[g]
Send(g, v, calls) ==
    LET Refuse(r) == result' = r /\ active' = calls /\ UNCHANGED frames
    IN CASE running[g] -> Refuse(Failed)
         [] ~running[g] /\ lasti[g] = 0 /\ v # None -> Refuse(Failed)
         [] ~running[g] /\ Over(g) -> Refuse(Stop)
         [] OTHER ->
              /\ running' = [running EXCEPT ![g] = TRUE]
              /\ IF lasti[g] = 0 THEN UNCHANGED <<top, received>>
                 ELSE /\ top' = [top EXCEPT ![g] = v]
                      /\ received' = [received EXCEPT ![g] = Append(@, v)]
              /\ active' = Append(calls, Calling(g))
              /\ result' = Nothing
              /\ UNCHANGED yielded

NextOfSequence(o, calls) ==
    /\ IF index[o] >= Len(world[o].seq) THEN result' = Stop /\ UNCHANGED index
       ELSE /\ result' = Item(world[o].seq[index[o] + 1])
            /\ index' = [index EXCEPT ![o] = @ + 1]
    /\ active' = calls
    /\ UNCHANGED frames

\* Only generators can be sent something.
Enter(o, v, calls) ==
    CASE IsGenerator(o) -> Send(o, v, calls) /\ UNCHANGED index
      [] ~IsGenerator(o) /\ v # None ->
           result' = Failed /\ active' = calls /\ UNCHANGED <<frames, index>>
      [] world[o].kind = "iterator" /\ v = None -> NextOfSequence(o, calls)
      [] OTHER ->
           result' = Nothing /\ active' = Append(calls, Calling(o)) /\ UNCHANGED <<frames, index>>

\* The call on top returns r.
Answer(r) == active' = Below /\ result' = r

-------------------------------------------------------------------------------
(* The opcodes of a generator.  An exception leaves a frame without a handler   *)
(* as it is: what has yielded has still yielded.                               *)

At(g, op) ==
    /\ active # <<>>
    /\ result = Nothing
    /\ Top.obj = g
    /\ Code(g)[lasti[g] + 1].op = op
Fetch(g) == lasti' = [lasti EXCEPT ![g] = @ + 1]
\* A changed Leave: nothing is reset when the frame raises.
LeaveStillRunning(g, r) == running' = [running EXCEPT ![g] = r = Failed] /\ Answer(r)
Leave(g, r) == running' = [running EXCEPT ![g] = FALSE] /\ Answer(r)

YieldValue(g, v) == yielded' = [yielded EXCEPT ![g] = TRUE] /\ Leave(g, Item(v))

Yields(g) ==
    /\ At(g, "yield")
    /\ Fetch(g)
    /\ YieldValue(g, Leaf(g, Code(g)[lasti[g] + 1].n))
    /\ UNCHANGED <<world, top, received, index, heard>>

YieldsTop(g) ==
    /\ At(g, "yield top")
    /\ Fetch(g)
    /\ YieldValue(g, top[g])
    /\ UNCHANGED <<world, top, received, index, heard>>

JumpAbsolute(g) ==
    /\ At(g, "jump")
    /\ lasti' = [lasti EXCEPT ![g] = Code(g)[@ + 1].to]
    /\ UNCHANGED <<world, frames, index, active, result, heard>>

Raises(g) ==
    /\ At(g, "raise")
    /\ Fetch(g)
    /\ Leave(g, Failed)
    /\ UNCHANGED <<world, yielded, top, received, index, heard>>

ReturnValue(g) ==
    /\ At(g, "return")
    /\ Fetch(g)
    /\ yielded' = [yielded EXCEPT ![g] = FALSE]
    /\ Leave(g, Stop)
    /\ UNCHANGED <<world, top, received, index, heard>>

\* Calling a function that returns at once with what is to be asked, as one that
\* makes a generator does.
CallFunction(g) ==
    /\ At(g, "call")
    /\ Fetch(g)
    /\ top' = [top EXCEPT ![g] = None]
    /\ UNCHANGED <<world, running, yielded, active, result, received, index, heard>>

\* A changed AsksFor: a subgenerator is asked for its next item whatever was sent.
AsksForNext(g) ==
    /\ \/ At(g, "next") \/ At(g, "iter") \/ At(g, "from")
    /\ Fetch(g)
    /\ Enter(Code(g)[lasti[g] + 1].of, None, active)
    /\ UNCHANGED <<world, heard>>

\* next(o), a turn of a loop over o, and yield from o with what is on the stack.
AsksFor(g) ==
    /\ \/ At(g, "next") \/ At(g, "iter") \/ At(g, "from")
    /\ Fetch(g)
    /\ LET opcode == Code(g)[lasti[g] + 1]
       IN Enter(opcode.of, IF opcode.op = "from" THEN top[g] ELSE None, active)
    /\ UNCHANGED <<world, heard>>

\* What the opcode does with the answer.
Answered(g, op) ==
    /\ active # <<>>
    /\ result # Nothing
    /\ Top.obj = g
    /\ IsGenerator(g)
    /\ Code(g)[lasti[g]].op = op

\* A loop over an iterator ends when that has no item, for whatever reason.
ForIter(g) ==
    /\ Answered(g, "iter")
    /\ IF result.type = "item" THEN top' = [top EXCEPT ![g] = result.value] /\ UNCHANGED lasti
       ELSE lasti' = [lasti EXCEPT ![g] = Code(g)[@].exit] /\ UNCHANGED top
    /\ result' = Nothing
    /\ UNCHANGED <<world, yielded, running, received, index, active, heard>>

\* A changed YieldFrom: the opcode is repeated whatever the answer.
YieldFromAgain(g) ==
    /\ Answered(g, "from")
    /\ lasti' = [lasti EXCEPT ![g] = @ - 1]
    /\ \/ result.type = "item" /\ YieldValue(g, result.value)
       \/ IsStopIteration(result) /\ result' = Nothing /\ UNCHANGED <<yielded, running, active>>
       \/ result.type = "error" /\ Leave(g, Failed) /\ UNCHANGED yielded
    /\ UNCHANGED <<world, top, received, index, heard>>

\* The opcode is repeated when the generator is resumed.
YieldFrom(g) ==
    /\ Answered(g, "from")
    /\ \/ /\ result.type = "item"
          /\ lasti' = [lasti EXCEPT ![g] = @ - 1]
          /\ YieldValue(g, result.value)
       \/ /\ IsStopIteration(result)
          /\ result' = Nothing
          /\ UNCHANGED <<lasti, yielded, running, active>>
       \/ /\ result.type = "error"
          /\ Leave(g, Failed)
          /\ UNCHANGED <<lasti, yielded>>
    /\ UNCHANGED <<world, top, received, index, heard>>

NextAnswers(g) ==
    /\ Answered(g, "next")
    /\ IF result.type = "item" THEN result' = Nothing /\ UNCHANGED <<running, active>>
       ELSE Leave(g, IF IsStopIteration(result) THEN Stopped ELSE Failed)
    /\ UNCHANGED <<world, lasti, yielded, top, received, index, heard>>

-------------------------------------------------------------------------------
(* enumerate and filter ask one iterator, map and zip one after the other. *)

Adapts(o, kind) == active # <<>> /\ Top.obj = o /\ o # 0 /\ world[o].kind = kind
Adapter(o) == \E kind \in {"enumerate", "filter", "zip"} : Adapts(o, kind)

AdapterAsks(o) ==
    /\ Adapter(o)
    /\ result = Nothing
    /\ Enter(world[o].of[Len(Top.got) + 1], None, active)
    /\ UNCHANGED <<world, lasti, heard>>

AdapterFails(o) ==
    /\ Adapter(o)
    /\ result.type \notin {"nothing", "item"}
    /\ Answer(result)
    /\ UNCHANGED <<world, lasti, frames, index, heard>>

\* A changed EnumerateNext: every item has the same number.
EnumerateNextUncounted(o) ==
    /\ Adapts(o, "enumerate")
    /\ result.type = "item"
    /\ Answer(Item(Tuple(o, index[o], <<result.value>>)))
    /\ UNCHANGED <<world, lasti, frames, index, heard>>

EnumerateNext(o) ==
    /\ Adapts(o, "enumerate")
    /\ result.type = "item"
    /\ Answer(Item(Tuple(o, index[o], <<result.value>>)))
    /\ index' = [index EXCEPT ![o] = @ + 1]
    /\ UNCHANGED <<world, lasti, frames, heard>>

FilterNext(o) ==
    /\ Adapts(o, "filter")
    /\ result.type = "item"
    /\ IF ObjectIsTrue(result.value) THEN Answer(result) ELSE result' = Nothing /\ UNCHANGED active
    /\ UNCHANGED <<world, lasti, frames, index, heard>>

\* map calls its function with the items zip makes a tuple of.
ZipNext(o) ==
    /\ Adapts(o, "zip")
    /\ result.type = "item"
    /\ LET got == Append(Top.got, result.value)
       IN IF Len(got) = Len(world[o].of) THEN Answer(Item(Tuple(o, 0, got)))
          ELSE /\ active' = [active EXCEPT ![Len(active)].got = got]
               /\ result' = Nothing
    /\ UNCHANGED <<world, lasti, frames, index, heard>>

-------------------------------------------------------------------------------
(* Asking from outside: next and send ask once, list until Stop, all until an   *)
(* item is false or any StopIteration, a for statement until there is no item. *)

Begin(how, o, v) ==
    /\ active = <<>>
    /\ Len(heard) < MaxAsks
    /\ v # None <=> how = "send"
    /\ how = "send" => IsGenerator(o)
    /\ Enter(o, v, <<Asking(how, o, v)>>)
    /\ UNCHANGED <<world, lasti, heard>>

AskAgain ==
    /\ active # <<>>
    /\ Top.obj = 0
    /\ result = Nothing
    /\ Enter(Top.of, None, active)
    /\ UNCHANGED <<world, lasti, heard>>

EndOfAsk ==
    CASE Top.how \in {"next", "send"} -> result.type
      [] Top.how = "list" -> IF result.type = "stop" THEN "done" ELSE "error"
      [] Top.how = "all"  -> IF IsStopIteration(result) THEN "done" ELSE result.type
      [] Top.how = "for"  -> "done"

\* How many items have come out in the asks before.
HeardBefore == IF heard = <<>> THEN 0
               ELSE heard[Len(heard)].before + Len(heard[Len(heard)].items)

Hear ==
    /\ active # <<>>
    /\ Top.obj = 0
    /\ result # Nothing
    /\ LET got == IF result.type = "item" THEN Append(Top.got, result.value) ELSE Top.got
           more == \/ Top.how \in {"list", "for"}
                   \/ Top.how = "all" /\ result.type = "item" /\ ObjectIsTrue(result.value)
       IN IF result.type = "item" /\ more
          THEN active' = [active EXCEPT ![1].got = got] /\ UNCHANGED heard
          ELSE /\ active' = <<>>
               /\ heard' = Append(heard, [how |-> Top.how, of |-> Top.of, sent |-> Top.sent,
                                          before |-> HeardBefore, items |-> got, end |-> EndOfAsk])
    /\ result' = Nothing
    /\ UNCHANGED <<world, lasti, frames, index>>

-------------------------------------------------------------------------------
Execute(g) ==
    /\ active # <<>> /\ Top.obj = g /\ IsGenerator(g)
    /\ \/ Yields(g) \/ YieldsTop(g) \/ JumpAbsolute(g) \/ Raises(g) \/ ReturnValue(g)
       \/ CallFunction(g) \/ AsksFor(g) \/ ForIter(g) \/ YieldFrom(g) \/ NextAnswers(g)

Adapt(o) == AdapterAsks(o) \/ AdapterFails(o) \/ EnumerateNext(o) \/ FilterNext(o) \/ ZipNext(o)

\* One Go call after the other: what is active goes on by itself.
Running == (\E o \in Objects : Execute(o) \/ Adapt(o)) \/ AskAgain \/ Hear

Next == Running \/ \E how \in {"next", "send", "list", "all", "for"}, o \in Asked,
                      v \in Sent \cup {None} : Begin(how, o, v)

Spec == Init /\ [][Next]_vars /\ WF_vars(Running)

-------------------------------------------------------------------------------
\* No frame is entered while it is being executed, by whatever chain of calls,
\* and a frame that has been left is not marked as executed: a generator that
\* was would refuse every ask from then on.
NeverReentered ==
    \A g \in Objects : IsGenerator(g) =>
        /\ \A i, j \in DOMAIN active : active[i].obj = g /\ active[j].obj = g => i = j
        /\ running[g] <=> \E i \in DOMAIN active : active[i].obj = g

\* A generator that has returned is never executed again, whoever asks.
FinishedStaysFinished ==
    [][\A g \in Objects :
         IsGenerator(g) /\ ~running[g] /\ lasti[g] = Len(Code(g)) => ~running'[g]]_vars
===============================================================================
