---------------------------- MODULE IterationProofs ----------------------------
(***************************************************************************)
(* Proofs, for any objects that ask one another in any way, that no frame  *)
(* of a generator is entered while it is executed, and none that has       *)
(* returned is entered again.                                              *)
(***************************************************************************)
EXTENDS Iteration, SequenceTheorems, TLAPS

Generators == {g \in Objects : IsGenerator(g)}
Adapters   == {o \in Objects : world[o].kind \in {"enumerate", "filter", "zip"}}

(* The calls: each generator is in one of them at most, and is marked as     *)
(* executed when it is; an adapter has fewer items than what it asks; only   *)
(* the first can be from outside.                                            *)
IsStack(calls) ==
    /\ \E S : calls \in Seq(S)
    /\ \A i \in 1 .. Len(calls) : {"obj", "got"} \subseteq DOMAIN calls[i]
OnceEach(calls) ==
    \A i, j \in 1 .. Len(calls) :
        calls[i].obj \in Generators /\ calls[i].obj = calls[j].obj => i = j
Marked(calls, run) ==
    \A g \in Generators : run[g] <=> \E i \in 1 .. Len(calls) : calls[i].obj = g
PartsFit(calls) ==
    \A i \in 1 .. Len(calls) :
        calls[i].obj \in Adapters =>
            /\ \E S : calls[i].got \in Seq(S)
            /\ Len(calls[i].got) < Len(world[calls[i].obj].of)
Outside(calls) ==
    \A i \in 1 .. Len(calls) :
        calls[i].obj = 0 => i = 1 /\ "of" \in DOMAIN calls[i] /\ calls[i].of \in Objects
CallsInv(calls, run) ==
    IsStack(calls) /\ OnceEach(calls) /\ Marked(calls, run) /\ PartsFit(calls) /\ Outside(calls)

(* The frames: where they are in their code, past the opcode that asks while *)
(* they wait for its answer, and past the return only when they are done.    *)
PastTheAsk(call, last) ==
    call.obj \in Generators => last[call.obj] \in 1 .. Len(Code(call.obj)) - 1
Waiting(calls, res, last) ==
    \A i \in 1 .. Len(calls) : i < Len(calls) \/ res # Nothing => PastTheAsk(calls[i], last)
InCode(last, run) ==
    \A g \in Generators : last[g] \in 0 .. Len(Code(g)) /\ (run[g] => last[g] < Len(Code(g)))
Returned(last, run, stopped) ==
    \A g \in Generators : ~run[g] /\ last[g] = Len(Code(g)) => ~stopped[g]
FramesInv(last, run, stopped) == InCode(last, run) /\ Returned(last, run, stopped)

TypeInv ==
    /\ world \in Worlds
    /\ lasti \in [Objects -> Nat]
    /\ yielded \in [Objects -> BOOLEAN]
    /\ running \in [Objects -> BOOLEAN]

IterationInv ==
    /\ TypeInv
    /\ CallsInv(active, running)
    /\ Waiting(active, result, lasti)
    /\ FramesInv(lasti, running, yielded)

-------------------------------------------------------------------------------
LEMMA CodeIsWellFormed ==
    ASSUME TypeInv, NEW g \in Generators
    PROVE  g \in Objects /\ WellFormed(Code(g))
BY WorldsAssumption DEF TypeInv, Generators, IsGenerator, Code

LEMMA NothingIsNoAnswer ==
    /\ \A v : Item(v) # Nothing
    /\ Stop # Nothing /\ Stopped # Nothing /\ Failed # Nothing
BY DEF Item, Stop, Stopped, Failed, Nothing

(* A call that is added, and one that returns.                             *)
LEMMA StackGrows ==
    ASSUME NEW calls, NEW c, IsStack(calls), {"obj", "got"} \subseteq DOMAIN c
    PROVE  /\ IsStack(Append(calls, c))
           /\ Len(calls) \in Nat
           /\ Len(Append(calls, c)) = Len(calls) + 1
           /\ \A i \in 1 .. Len(calls) : Append(calls, c)[i] = calls[i]
           /\ Append(calls, c)[Len(calls) + 1] = c
<1>1. PICK S : calls \in Seq(S)
  BY DEF IsStack
<1>2. calls \in Seq(S \cup {c}) /\ c \in S \cup {c}
  BY <1>1
<1>3. Append(calls, c) \in Seq(S \cup {c})
  BY <1>2
<1>4. /\ Len(calls) \in Nat /\ Len(Append(calls, c)) = Len(calls) + 1
      /\ \A i \in 1 .. Len(calls) : Append(calls, c)[i] = calls[i]
      /\ Append(calls, c)[Len(calls) + 1] = c
  BY <1>2
<1>5. \A i \in 1 .. Len(Append(calls, c)) : {"obj", "got"} \subseteq DOMAIN Append(calls, c)[i]
  <2> SUFFICES ASSUME NEW i \in 1 .. Len(calls) + 1
               PROVE  {"obj", "got"} \subseteq DOMAIN Append(calls, c)[i]
    BY <1>4
  <2>1. CASE i = Len(calls) + 1
    BY <2>1, <1>4
  <2>2. CASE i # Len(calls) + 1
    BY <2>2, <1>4 DEF IsStack
  <2> QED BY <2>1, <2>2
<1> QED BY <1>3, <1>4, <1>5 DEF IsStack

LEMMA StackShrinks ==
    ASSUME NEW calls, IsStack(calls), calls # <<>>
    PROVE  /\ IsStack(SubSeq(calls, 1, Len(calls) - 1))
           /\ Len(calls) \in Nat \ {0}
           /\ Len(SubSeq(calls, 1, Len(calls) - 1)) = Len(calls) - 1
           /\ \A i \in 1 .. Len(calls) - 1 : SubSeq(calls, 1, Len(calls) - 1)[i] = calls[i]
<1> DEFINE m     == Len(calls) - 1
           below == SubSeq(calls, 1, m)
<1>1. PICK S : calls \in Seq(S)
  BY DEF IsStack
<1>2. Len(calls) \in Nat \ {0}
  BY <1>1
<1>3. m \in Nat /\ m <= Len(calls) /\ \A i \in 1 .. m : calls[i] \in S
  BY <1>1, <1>2
<1>4. /\ below \in Seq(S)
      /\ Len(below) = IF 1 <= m THEN m - 1 + 1 ELSE 0
      /\ \A i \in 1 .. (m - 1 + 1) : below[i] = calls[1 + i - 1]
  BY <1>3, SubSeqProperties
<1> HIDE DEF m
<1>5. Len(below) = m
  BY <1>3, <1>4
<1>6. \A i \in 1 .. m : below[i] = calls[i]
  BY <1>3, <1>4
<1>7. \A i \in 1 .. Len(below) : {"obj", "got"} \subseteq DOMAIN below[i]
  BY <1>3, <1>5, <1>6 DEF IsStack
<1> QED BY <1>2, <1>4, <1>5, <1>6, <1>7 DEF IsStack, m

(* One more call, of an object that is not executed; one call less.        *)
LEMMA CallsGrow ==
    ASSUME TypeInv, NEW calls, NEW c, NEW o \in Objects, NEW run \in [Objects -> BOOLEAN],
           CallsInv(calls, run), c = Calling(o), o \in Generators => ~run[o]
    PROVE  CallsInv(Append(calls, c),
                    IF o \in Generators THEN [run EXCEPT ![o] = TRUE] ELSE run)
<1> DEFINE new  == Append(calls, c)
           run1 == IF o \in Generators THEN [run EXCEPT ![o] = TRUE] ELSE run
<1>1. {"obj", "got"} \subseteq DOMAIN c /\ c.obj = o /\ c.got = <<>>
  BY DEF Calling
<1>2. /\ IsStack(new)
      /\ Len(calls) \in Nat
      /\ Len(new) = Len(calls) + 1
      /\ \A i \in 1 .. Len(calls) : new[i] = calls[i]
      /\ new[Len(calls) + 1] = c
  BY <1>1, StackGrows DEF CallsInv
<1> HIDE DEF new
<1>3. OnceEach(new)
  <2> SUFFICES ASSUME NEW i \in 1 .. Len(new), NEW j \in 1 .. Len(new),
                      new[i].obj \in Generators, new[i].obj = new[j].obj
               PROVE  i = j
    BY DEF OnceEach
  <2>1. CASE i \in 1 .. Len(calls) /\ j \in 1 .. Len(calls)
    BY <2>1, <1>2 DEF CallsInv, OnceEach
  <2>2. CASE i = Len(calls) + 1 /\ j \in 1 .. Len(calls)
    BY <2>2, <1>1, <1>2 DEF CallsInv, Marked
  <2>3. CASE j = Len(calls) + 1 /\ i \in 1 .. Len(calls)
    BY <2>3, <1>1, <1>2 DEF CallsInv, Marked
  <2> QED BY <2>1, <2>2, <2>3, <1>2
<1>4. Marked(new, run1)
  <2> SUFFICES ASSUME NEW g \in Generators
               PROVE  run1[g] <=> \E i \in 1 .. Len(new) : new[i].obj = g
    BY DEF Marked
  <2>1. CASE g = o
    <3>1. run1[g]
      BY <2>1 DEF Generators
    <3>2. Len(new) \in 1 .. Len(new) /\ new[Len(new)].obj = g
      BY <2>1, <1>1, <1>2
    <3> QED BY <3>1, <3>2
  <2>2. CASE g # o
    <3>1. run1[g] = run[g]
      BY <2>2 DEF Generators
    <3>2. (\E i \in 1 .. Len(new) : new[i].obj = g) <=> \E i \in 1 .. Len(calls) : calls[i].obj = g
      BY <2>2, <1>1, <1>2
    <3> QED BY <3>1, <3>2 DEF CallsInv, Marked
  <2> QED BY <2>1, <2>2
<1>5. PartsFit(new)
  <2> SUFFICES ASSUME NEW i \in 1 .. Len(new), new[i].obj \in Adapters
               PROVE  /\ \E S : new[i].got \in Seq(S)
                      /\ Len(new[i].got) < Len(world[new[i].obj].of)
    BY DEF PartsFit
  <2>1. CASE i \in 1 .. Len(calls)
    BY <2>1, <1>2 DEF CallsInv, PartsFit
  <2>2. CASE i = Len(calls) + 1
    <3>1. new[i].got = <<>> /\ <<>> \in Seq({}) /\ Len(<<>>) = 0 /\ new[i].obj = o
      BY <2>2, <1>1, <1>2
    <3>2. Len(world[o].of) \in Nat \ {0}
      BY <3>1, WorldsAssumption DEF TypeInv, Adapters
    <3> QED BY <3>1, <3>2
  <2> QED BY <2>1, <2>2, <1>2
<1>6. Outside(new)
  <2>1. o # 0
    BY ObjectsAssumption
  <2> QED BY <2>1, <1>1, <1>2 DEF CallsInv, Outside
<1> QED BY <1>2, <1>3, <1>4, <1>5, <1>6 DEF CallsInv, new

LEMMA CallsShrink ==
    ASSUME TypeInv, NEW calls, NEW run \in [Objects -> BOOLEAN], CallsInv(calls, run), calls # <<>>,
           NEW o, o = calls[Len(calls)].obj
    PROVE  CallsInv(SubSeq(calls, 1, Len(calls) - 1),
                    IF o \in Generators THEN [run EXCEPT ![o] = FALSE] ELSE run)
<1> DEFINE below == SubSeq(calls, 1, Len(calls) - 1)
           run1  == IF o \in Generators THEN [run EXCEPT ![o] = FALSE] ELSE run
<1>1. /\ IsStack(below)
      /\ Len(calls) \in Nat \ {0}
      /\ Len(below) = Len(calls) - 1
      /\ \A i \in 1 .. Len(calls) - 1 : below[i] = calls[i]
  BY StackShrinks DEF CallsInv
<1> HIDE DEF below
<1>2. OnceEach(below)
  BY <1>1 DEF CallsInv, OnceEach
<1>3. Marked(below, run1)
  <2> SUFFICES ASSUME NEW g \in Generators
               PROVE  run1[g] <=> \E i \in 1 .. Len(below) : below[i].obj = g
    BY DEF Marked
  <2>1. CASE g = o
    <3>1. ~run1[g]
      BY <2>1 DEF Generators
    <3>2. \A i \in 1 .. Len(below) : below[i].obj # g
      BY <2>1, <1>1 DEF CallsInv, OnceEach
    <3> QED BY <3>1, <3>2
  <2>2. CASE g # o
    <3>1. run1[g] = run[g]
      BY <2>2 DEF Generators
    <3>2. (\E i \in 1 .. Len(below) : below[i].obj = g) <=> \E i \in 1 .. Len(calls) : calls[i].obj = g
      <4>1. \A i \in 1 .. Len(calls) : i \in 1 .. Len(below) \/ i = Len(calls)
        BY <1>1
      <4> QED BY <4>1, <2>2, <1>1
    <3> QED BY <3>1, <3>2 DEF CallsInv, Marked
  <2> QED BY <2>1, <2>2
<1>4. PartsFit(below)
  BY <1>1 DEF CallsInv, PartsFit
<1>5. Outside(below)
  BY <1>1 DEF CallsInv, Outside
<1> QED BY <1>1, <1>2, <1>3, <1>4, <1>5 DEF CallsInv, below

-------------------------------------------------------------------------------
(* What objects are does not change, so the invariant after a step is about *)
(* the same generators.                                                     *)
LEMMA SameWorld ==
    ASSUME world' = world, TypeInv,
           lasti' \in [Objects -> Nat],
           yielded' \in [Objects -> BOOLEAN],
           running' \in [Objects -> BOOLEAN],
           CallsInv(active', running'),
           Waiting(active', result', lasti'),
           FramesInv(lasti', running', yielded')
    PROVE  IterationInv'
<1>1. Generators' = Generators /\ Adapters' = Adapters
  BY DEF Generators, Adapters, IsGenerator
<1>2. \A g : Code(g)' = Code(g)
  BY DEF Code
<1>3. TypeInv'
  BY DEF TypeInv
<1>4. CallsInv(active, running)'
  BY <1>1 DEF CallsInv, IsStack, OnceEach, Marked, PartsFit, Outside
<1>5. Waiting(active, result, lasti)'
  BY <1>1 DEF Waiting, PastTheAsk, Code
<1>6. FramesInv(lasti, running, yielded)'
  BY <1>1 DEF FramesInv, InCode, Returned, Code
<1> QED BY <1>3, <1>4, <1>5, <1>6 DEF IterationInv

(* Asking an object: it answers at once, or it is executed from now on.     *)
LEMMA EnterForms ==
    ASSUME TypeInv, NEW o \in Objects, NEW v, NEW calls, Enter(o, v, calls)
    PROVE  /\ yielded' = yielded
           /\ \/ active' = calls /\ result' # Nothing /\ running' = running
              \/ /\ active' = Append(calls, Calling(o)) /\ result' = Nothing
                 /\ o \in Generators => ~running[o] /\ (lasti[o] = 0 \/ yielded[o])
                 /\ running' = IF o \in Generators THEN [running EXCEPT ![o] = TRUE] ELSE running
<1>1. CASE IsGenerator(o)
  <2>1. o \in Generators
    BY <1>1 DEF Generators
  <2>2. Send(o, v, calls)
    BY <1>1 DEF Enter, IsGenerator
  <2>3. running[o] \in BOOLEAN
    BY DEF TypeInv
  <2>4. CASE running[o] \/ (lasti[o] = 0 /\ v # None) \/ Over(o)
    <3>1. /\ result' \in {Failed, Stop} /\ active' = calls
          /\ yielded' = yielded /\ running' = running
      BY <2>2, <2>3, <2>4 DEF Send, frames
    <3> QED BY <3>1, NothingIsNoAnswer
  <2>5. CASE ~(running[o] \/ (lasti[o] = 0 /\ v # None) \/ Over(o))
    <3>1. /\ running' = [running EXCEPT ![o] = TRUE] /\ active' = Append(calls, Calling(o))
          /\ result' = Nothing /\ yielded' = yielded
      BY <2>2, <2>3, <2>5 DEF Send
    <3>2. ~running[o] /\ (lasti[o] = 0 \/ yielded[o])
      BY <2>5 DEF Over
    <3> QED BY <2>1, <3>1, <3>2
  <2> QED BY <2>4, <2>5
<1>2. CASE ~IsGenerator(o)
  <2>1. o \notin Generators
    BY <1>2 DEF Generators
  <2> QED BY <1>2, <2>1, NothingIsNoAnswer DEF Enter, NextOfSequence, frames
<1> QED BY <1>1, <1>2

LEMMA EnterKeeps ==
    ASSUME TypeInv, NEW o \in Objects, NEW v, NEW calls, Enter(o, v, calls), world' = world,
           lasti' \in [Objects -> Nat],
           CallsInv(calls, running),
           FramesInv(lasti', running, yielded),
           \A i \in 1 .. Len(calls) : PastTheAsk(calls[i], lasti'),
           o \in Generators /\ ~running[o] => lasti'[o] = lasti[o]
    PROVE  IterationInv'
<1>1. yielded' = yielded /\ yielded \in [Objects -> BOOLEAN] /\ running \in [Objects -> BOOLEAN]
  BY EnterForms DEF TypeInv
<1>2. CASE active' = calls /\ result' # Nothing /\ running' = running
  <2>1. Waiting(active', result', lasti')
    BY <1>2 DEF Waiting
  <2> QED BY <1>1, <1>2, <2>1, SameWorld
<1>3. CASE /\ active' = Append(calls, Calling(o)) /\ result' = Nothing
           /\ o \in Generators => ~running[o] /\ (lasti[o] = 0 \/ yielded[o])
           /\ running' = IF o \in Generators THEN [running EXCEPT ![o] = TRUE] ELSE running
  <2>1. CallsInv(active', running')
    BY <1>1, <1>3, CallsGrow
  <2>2. running' \in [Objects -> BOOLEAN]
    BY <1>1, <1>3
  <2>3. /\ Len(calls) \in Nat /\ Len(active') = Len(calls) + 1
        /\ \A i \in 1 .. Len(calls) : active'[i] = calls[i]
    BY <1>3, StackGrows DEF CallsInv, Calling
  <2>4. Waiting(active', result', lasti')
    <3> SUFFICES ASSUME NEW i \in 1 .. Len(active'), i < Len(active')
                 PROVE  PastTheAsk(active'[i], lasti')
      BY <1>3 DEF Waiting
    <3>1. i \in 1 .. Len(calls)
      BY <2>3
    <3> QED BY <2>3, <3>1
  <2>5. FramesInv(lasti', running', yielded')
    <3>1. ASSUME NEW g \in Generators, g # o PROVE running'[g] = running[g]
      BY <1>1, <1>3, <3>1 DEF Generators
    <3>2. ASSUME o \in Generators PROVE running'[o] /\ lasti'[o] < Len(Code(o))
      <4>1. running'[o]
        BY <1>1, <1>3, <3>2
      <4>2. lasti'[o] \in 0 .. Len(Code(o)) /\ Len(Code(o)) \in Nat \ {0}
        BY <3>2, CodeIsWellFormed DEF FramesInv, InCode, WellFormed
      <4>3. lasti'[o] # Len(Code(o))
        BY <1>3, <3>2, <4>2 DEF FramesInv, Returned
      <4> QED BY <4>1, <4>2, <4>3
    <3> QED BY <1>1, <3>1, <3>2 DEF FramesInv, InCode, Returned
  <2> QED BY <1>1, <2>1, <2>2, <2>4, <2>5, SameWorld
<1> QED BY <1>2, <1>3, EnterForms

(* The call on top returns: its object is no longer executed when it is a    *)
(* generator, and the one below has its answer.                              *)
LEMMA AnswerKeeps ==
    ASSUME IterationInv, active # <<>>, world' = world, NEW r, r # Nothing, Answer(r),
           NEW o, o = Top.obj,
           running' = IF o \in Generators THEN [running EXCEPT ![o] = FALSE] ELSE running,
           lasti' \in [Objects -> Nat],
           yielded' \in [Objects -> BOOLEAN],
           \A g \in Generators : g # o => lasti'[g] = lasti[g] /\ yielded'[g] = yielded[g],
           o \in Generators => /\ lasti'[o] \in 0 .. Len(Code(o))
                               /\ lasti'[o] = Len(Code(o)) => ~yielded'[o]
    PROVE  IterationInv'
<1>1. TypeInv /\ CallsInv(active, running) /\ Waiting(active, result, lasti)
      /\ FramesInv(lasti, running, yielded)
  BY DEF IterationInv
<1>2. running \in [Objects -> BOOLEAN] /\ running' \in [Objects -> BOOLEAN]
  BY <1>1 DEF TypeInv
<1>3. active' = SubSeq(active, 1, Len(active) - 1) /\ result' = r /\ o = active[Len(active)].obj
  BY DEF Answer, Below, Top
<1>4. CallsInv(active', running')
  BY <1>1, <1>2, <1>3, CallsShrink
<1>5. /\ Len(active) \in Nat \ {0}
      /\ Len(active') = Len(active) - 1
      /\ \A i \in 1 .. Len(active) - 1 : active'[i] = active[i]
  BY <1>1, <1>3, StackShrinks DEF CallsInv
<1>6. Waiting(active', result', lasti')
  <2> SUFFICES ASSUME NEW i \in 1 .. Len(active) - 1
               PROVE  PastTheAsk(active[i], lasti')
    BY <1>5 DEF Waiting
  <2>1. PastTheAsk(active[i], lasti) /\ i \in 1 .. Len(active) /\ Len(active) \in 1 .. Len(active)
        /\ i # Len(active)
    BY <1>1, <1>5 DEF Waiting
  <2>2. active[i].obj \in Generators => active[i].obj # o
    BY <1>1, <1>3, <2>1 DEF CallsInv, OnceEach
  <2> QED BY <2>1, <2>2 DEF PastTheAsk
<1>7. FramesInv(lasti', running', yielded')
  <2>1. ASSUME NEW g \in Generators, g # o PROVE running'[g] = running[g]
    BY <1>2, <2>1 DEF Generators
  <2>2. o \in Generators => ~running'[o]
    BY <1>2 DEF Generators
  <2> QED BY <1>1, <2>1, <2>2 DEF FramesInv, InCode, Returned
<1> QED BY <1>1, <1>2, <1>4, <1>6, <1>7, SameWorld

(* What is executed is on top, and at an opcode of its code.                *)
LEMMA OnTop ==
    ASSUME IterationInv, NEW g \in Objects, Execute(g)
    PROVE  /\ g \in Generators /\ running[g] /\ Top.obj = g /\ active # <<>>
           /\ Len(active) \in Nat \ {0}
           /\ WellFormed(Code(g))
           /\ lasti[g] \in 0 .. Len(Code(g)) - 1
           /\ result # Nothing => lasti[g] \in 1 .. Len(Code(g)) - 1
<1>1. g \in Generators /\ Top.obj = g /\ active # <<>>
  BY DEF Execute, Generators
<1>2. TypeInv /\ CallsInv(active, running) /\ Waiting(active, result, lasti)
      /\ FramesInv(lasti, running, yielded)
  BY DEF IterationInv
<1>3. WellFormed(Code(g))
  BY <1>1, <1>2, CodeIsWellFormed
<1>4. Len(active) \in Nat \ {0}
  BY <1>1, <1>2, StackShrinks DEF CallsInv
<1>5. Len(active) \in 1 .. Len(active) /\ active[Len(active)].obj = g
  BY <1>1, <1>4 DEF Top
<1>6. running[g]
  BY <1>1, <1>2, <1>5 DEF CallsInv, Marked
<1>7. lasti[g] \in 0 .. Len(Code(g)) - 1
  BY <1>1, <1>2, <1>3, <1>6 DEF FramesInv, InCode, WellFormed
<1>8. result # Nothing => lasti[g] \in 1 .. Len(Code(g)) - 1
  BY <1>1, <1>2, <1>5 DEF Waiting, PastTheAsk
<1> QED BY <1>1, <1>3, <1>4, <1>6, <1>7, <1>8

-------------------------------------------------------------------------------
(* The opcodes.  Any but the return leaves the frame before the end of its   *)
(* code.                                                                     *)
LEMMA BeforeTheEnd ==
    ASSUME IterationInv, NEW g \in Objects, Execute(g), NEW op, op # "return"
    PROVE  /\ At(g, op) => lasti[g] + 1 \in 1 .. Len(Code(g)) - 1
           /\ Fetch(g) => lasti' \in [Objects -> Nat] /\ lasti'[g] = lasti[g] + 1
                           /\ \A h \in Objects : h # g => lasti'[h] = lasti[h]
<1>1. WellFormed(Code(g)) /\ lasti[g] \in 0 .. Len(Code(g)) - 1
  BY OnTop
<1>2. lasti \in [Objects -> Nat]
  BY DEF IterationInv, TypeInv
<1>3. ASSUME At(g, op) PROVE lasti[g] + 1 # Len(Code(g))
  BY <1>1, <1>3 DEF At, WellFormed
<1>4. At(g, op) => lasti[g] + 1 \in 1 .. Len(Code(g)) - 1
  BY <1>1, <1>3 DEF WellFormed
<1>5. Fetch(g) => lasti' \in [Objects -> Nat] /\ lasti'[g] = lasti[g] + 1
                   /\ \A h \in Objects : h # g => lasti'[h] = lasti[h]
  BY <1>2 DEF Fetch
<1> QED BY <1>4, <1>5

LEMMA YieldKeeps ==
    ASSUME IterationInv, NEW g \in Objects, Execute(g), NEW v, YieldValue(g, v), world' = world,
           lasti' \in [Objects -> Nat],
           \A h \in Objects : h # g => lasti'[h] = lasti[h],
           lasti'[g] \in 0 .. Len(Code(g)) - 1
    PROVE  IterationInv'
<1>1. g \in Generators /\ active # <<>> /\ g = Top.obj /\ Len(Code(g)) \in Nat
  BY OnTop DEF WellFormed
<1>2. yielded \in [Objects -> BOOLEAN]
  BY DEF IterationInv, TypeInv
<1>3. /\ running' = [running EXCEPT ![g] = FALSE] /\ Answer(Item(v))
      /\ yielded' = [yielded EXCEPT ![g] = TRUE]
  BY DEF YieldValue, Leave
<1>4. /\ yielded' \in [Objects -> BOOLEAN]
      /\ \A h \in Generators : h # g => lasti'[h] = lasti[h] /\ yielded'[h] = yielded[h]
  BY <1>2, <1>3 DEF Generators
<1>5. lasti'[g] \in 0 .. Len(Code(g)) /\ lasti'[g] # Len(Code(g))
  BY <1>1
<1> QED BY <1>1, <1>3, <1>4, <1>5, AnswerKeeps, NothingIsNoAnswer

(* An exception, or the end of what is asked for, leaves the frame.          *)
LEMMA LeaveKeeps ==
    ASSUME IterationInv, NEW g \in Objects, Execute(g), NEW r, r # Nothing, Leave(g, r),
           world' = world, yielded' = yielded,
           lasti' \in [Objects -> Nat],
           \A h \in Objects : h # g => lasti'[h] = lasti[h],
           lasti'[g] \in 0 .. Len(Code(g)) - 1
    PROVE  IterationInv'
<1>1. g \in Generators /\ active # <<>> /\ g = Top.obj /\ Len(Code(g)) \in Nat
  BY OnTop DEF WellFormed
<1>2. yielded \in [Objects -> BOOLEAN]
  BY DEF IterationInv, TypeInv
<1>3. running' = [running EXCEPT ![g] = FALSE] /\ Answer(r)
  BY DEF Leave
<1>4. \A h \in Generators : h # g => lasti'[h] = lasti[h] /\ yielded'[h] = yielded[h]
  BY DEF Generators
<1>5. lasti'[g] \in 0 .. Len(Code(g)) /\ lasti'[g] # Len(Code(g))
  BY <1>1
<1> QED BY <1>1, <1>2, <1>3, <1>4, <1>5, AnswerKeeps

LEMMA ReturnKeeps ==
    ASSUME IterationInv, NEW g \in Objects, Execute(g), ReturnValue(g)
    PROVE  IterationInv'
<1>1. /\ g \in Generators /\ active # <<>> /\ g = Top.obj /\ WellFormed(Code(g))
      /\ lasti[g] \in 0 .. Len(Code(g)) - 1
  BY OnTop
<1>2. lasti \in [Objects -> Nat] /\ yielded \in [Objects -> BOOLEAN]
  BY DEF IterationInv, TypeInv
<1>3. /\ running' = [running EXCEPT ![g] = FALSE] /\ Answer(Stop) /\ world' = world
      /\ lasti' = [lasti EXCEPT ![g] = @ + 1] /\ yielded' = [yielded EXCEPT ![g] = FALSE]
  BY DEF ReturnValue, Leave, Fetch
<1>4. /\ lasti' \in [Objects -> Nat] /\ yielded' \in [Objects -> BOOLEAN]
      /\ \A h \in Generators : h # g => lasti'[h] = lasti[h] /\ yielded'[h] = yielded[h]
      /\ lasti'[g] = lasti[g] + 1 /\ ~yielded'[g]
  BY <1>2, <1>3 DEF Generators
<1>5. lasti'[g] \in 0 .. Len(Code(g))
  BY <1>1, <1>4 DEF WellFormed
<1> QED BY <1>1, <1>3, <1>4, <1>5, AnswerKeeps, NothingIsNoAnswer

(* A frame that stays on top, with nothing to be answered.                   *)
LEMMA StaysKeeps ==
    ASSUME IterationInv, NEW g \in Objects, Execute(g), world' = world,
           active' = active, running' = running, yielded' = yielded,
           result' = Nothing,
           lasti' \in [Objects -> Nat],
           \A h \in Objects : h # g => lasti'[h] = lasti[h],
           lasti'[g] \in 0 .. Len(Code(g)) - 1
    PROVE  IterationInv'
<1>1. /\ g \in Generators /\ active[Len(active)].obj = g /\ Len(active) \in Nat \ {0}
      /\ WellFormed(Code(g))
  BY OnTop DEF Top
<1>2. /\ TypeInv /\ CallsInv(active, running) /\ Waiting(active, result, lasti)
      /\ FramesInv(lasti, running, yielded)
  BY DEF IterationInv
<1>3. Waiting(active', result', lasti')
  <2> SUFFICES ASSUME NEW i \in 1 .. Len(active), i < Len(active)
               PROVE  PastTheAsk(active[i], lasti')
    BY DEF Waiting
  <2>1. PastTheAsk(active[i], lasti)
    BY <1>2 DEF Waiting
  <2>2. active[i].obj \in Generators => active[i].obj # g
    BY <1>1, <1>2 DEF CallsInv, OnceEach
  <2> QED BY <2>1, <2>2 DEF PastTheAsk, Generators
<1>4. FramesInv(lasti', running', yielded')
  BY <1>1, <1>2 DEF FramesInv, InCode, Returned, WellFormed, Generators
<1>5. yielded' \in [Objects -> BOOLEAN] /\ running' \in [Objects -> BOOLEAN]
  BY <1>2 DEF TypeInv
<1> QED BY <1>2, <1>3, <1>4, <1>5, SameWorld

LEMMA OpcodesKeep ==
    ASSUME IterationInv, NEW g \in Objects, Execute(g),
           \/ Yields(g) \/ YieldsTop(g) \/ JumpAbsolute(g) \/ Raises(g) \/ CallFunction(g)
    PROVE  IterationInv'
<1>1. /\ WellFormed(Code(g)) /\ Len(Code(g)) \in Nat
      /\ lasti[g] \in 0 .. Len(Code(g)) - 1 /\ g \in Generators
  BY OnTop DEF WellFormed
<1>2. lasti \in [Objects -> Nat]
  BY DEF IterationInv, TypeInv
<1>3. ASSUME NEW op, op # "return", At(g, op), Fetch(g)
      PROVE  /\ lasti' \in [Objects -> Nat] /\ lasti'[g] \in 0 .. Len(Code(g)) - 1
             /\ \A h \in Objects : h # g => lasti'[h] = lasti[h]
  BY <1>3, <1>1, BeforeTheEnd
<1>4. CASE Yields(g)
  <2>1. At(g, "yield") /\ Fetch(g) /\ YieldValue(g, Leaf(g, Code(g)[lasti[g] + 1].n)) /\ world' = world
    BY <1>4 DEF Yields
  <2> QED BY <2>1, <1>3, YieldKeeps
<1>5. CASE YieldsTop(g)
  <2>1. At(g, "yield top") /\ Fetch(g) /\ YieldValue(g, top[g]) /\ world' = world
    BY <1>5 DEF YieldsTop
  <2> QED BY <2>1, <1>3, YieldKeeps
<1>6. CASE JumpAbsolute(g)
  <2>1. /\ At(g, "jump") /\ lasti' = [lasti EXCEPT ![g] = Code(g)[lasti[g] + 1].to]
        /\ world' = world /\ active' = active /\ running' = running /\ yielded' = yielded
        /\ result' = Nothing
    BY <1>6 DEF JumpAbsolute, frames, At
  <2>2. Code(g)[lasti[g] + 1].to \in 0 .. Len(Code(g)) - 1
    BY <2>1, <1>1 DEF At, WellFormed
  <2>3. /\ lasti' \in [Objects -> Nat] /\ lasti'[g] \in 0 .. Len(Code(g)) - 1
        /\ \A h \in Objects : h # g => lasti'[h] = lasti[h]
    BY <2>1, <2>2, <1>1, <1>2
  <2> QED BY <2>1, <2>3, StaysKeeps
<1>7. CASE Raises(g)
  <2>1. At(g, "raise") /\ Fetch(g) /\ Leave(g, Failed) /\ world' = world /\ yielded' = yielded
    BY <1>7 DEF Raises
  <2> QED BY <2>1, <1>3, LeaveKeeps, NothingIsNoAnswer
<1>8. CASE CallFunction(g)
  <2>1. /\ At(g, "call") /\ Fetch(g) /\ world' = world /\ yielded' = yielded /\ running' = running
        /\ active' = active /\ result' = Nothing
    BY <1>8 DEF CallFunction, At
  <2> QED BY <2>1, <1>3, StaysKeeps
<1> QED BY <1>4, <1>5, <1>6, <1>7, <1>8

LEMMA AsksForAnObject ==
    ASSUME IterationInv, NEW g \in Objects, Execute(g), AsksFor(g)
    PROVE  Code(g)[lasti[g] + 1].of \in Objects
<1>1. WellFormed(Code(g)) /\ lasti[g] \in 0 .. Len(Code(g)) - 1
  BY OnTop
<1>2. PICK op \in {"next", "iter", "from"} : At(g, op)
  BY DEF AsksFor
<1> QED BY <1>1, <1>2 DEF At, WellFormed

(* What asks is past the opcode that does, whatever it asks.                 *)
LEMMA AsksForKeeps ==
    ASSUME IterationInv, NEW g \in Objects, Execute(g), AsksFor(g)
    PROVE  IterationInv'
<1> DEFINE opcode == Code(g)[lasti[g] + 1]
           v      == IF opcode.op = "from" THEN top[g] ELSE None
<1>1. /\ g \in Generators /\ active[Len(active)].obj = g /\ Len(active) \in Nat \ {0}
      /\ running[g] /\ WellFormed(Code(g)) /\ lasti[g] \in 0 .. Len(Code(g)) - 1
  BY OnTop DEF Top
<1>2. /\ TypeInv /\ CallsInv(active, running) /\ Waiting(active, result, lasti)
      /\ FramesInv(lasti, running, yielded)
  BY DEF IterationInv
<1>3. PICK op \in {"next", "iter", "from"} : At(g, op)
  BY DEF AsksFor
<1>4. Fetch(g) /\ Enter(opcode.of, v, active) /\ world' = world
  BY DEF AsksFor
<1>5. opcode.of \in Objects
  BY AsksForAnObject
<1>6. /\ lasti' \in [Objects -> Nat]
      /\ \A h \in Objects : h # g => lasti'[h] = lasti[h]
      /\ lasti'[g] \in 1 .. Len(Code(g)) - 1
  BY <1>3, <1>4, BeforeTheEnd
<1>7. \A i \in 1 .. Len(active) : PastTheAsk(active[i], lasti')
  <2> SUFFICES ASSUME NEW i \in 1 .. Len(active), active[i].obj \in Generators
               PROVE  lasti'[active[i].obj] \in 1 .. Len(Code(active[i].obj)) - 1
    BY DEF PastTheAsk
  <2>1. CASE i = Len(active)
    BY <2>1, <1>1, <1>6
  <2>2. CASE i < Len(active)
    <3>1. PastTheAsk(active[i], lasti)
      BY <2>2, <1>2 DEF Waiting
    <3>2. active[i].obj # g
      BY <2>2, <1>1, <1>2 DEF CallsInv, OnceEach
    <3> QED BY <3>1, <3>2, <1>6 DEF PastTheAsk, Generators
  <2> QED BY <2>1, <2>2, <1>1
<1>8. FramesInv(lasti', running, yielded)
  BY <1>1, <1>2, <1>6 DEF FramesInv, InCode, Returned, WellFormed, Generators
<1>9. opcode.of \in Generators /\ ~running[opcode.of] => lasti'[opcode.of] = lasti[opcode.of]
  BY <1>1, <1>5, <1>6
<1> HIDE DEF opcode, v
<1> QED BY <1>2, <1>4, <1>5, <1>6, <1>7, <1>8, <1>9, EnterKeeps

LEMMA AnswersKeep ==
    ASSUME IterationInv, NEW g \in Objects, Execute(g),
           ForIter(g) \/ YieldFrom(g) \/ NextAnswers(g)
    PROVE  IterationInv'
<1>1. /\ WellFormed(Code(g)) /\ Len(Code(g)) \in Nat /\ result # Nothing
      /\ lasti[g] \in 1 .. Len(Code(g)) - 1
  BY OnTop DEF WellFormed, ForIter, YieldFrom, NextAnswers, Answered
<1>2. lasti \in [Objects -> Nat]
  BY DEF IterationInv, TypeInv
<1>3. CASE ForIter(g)
  <2>1. /\ world' = world /\ active' = active /\ running' = running /\ yielded' = yielded
        /\ result' = Nothing /\ Code(g)[lasti[g]].op = "iter"
        /\ lasti' = lasti \/ lasti' = [lasti EXCEPT ![g] = Code(g)[lasti[g]].exit]
    BY <1>3 DEF ForIter, Answered
  <2>2. Code(g)[lasti[g]].exit \in 0 .. Len(Code(g)) - 1
    BY <2>1, <1>1 DEF WellFormed
  <2>3. /\ lasti' \in [Objects -> Nat] /\ lasti'[g] \in 0 .. Len(Code(g)) - 1
        /\ \A h \in Objects : h # g => lasti'[h] = lasti[h]
    BY <2>1, <2>2, <1>1, <1>2
  <2> QED BY <2>1, <2>3, StaysKeeps
<1>4. CASE YieldFrom(g)
  <2>1. world' = world
    BY <1>4 DEF YieldFrom
  <2>2. CASE /\ lasti' = [lasti EXCEPT ![g] = @ - 1]
             /\ YieldValue(g, result.value)
    <3>1. /\ lasti' \in [Objects -> Nat] /\ lasti'[g] \in 0 .. Len(Code(g)) - 1
          /\ \A h \in Objects : h # g => lasti'[h] = lasti[h]
      BY <2>2, <1>1, <1>2
    <3> QED BY <2>1, <2>2, <3>1, YieldKeeps
  <2>3. CASE result' = Nothing /\ UNCHANGED <<lasti, yielded, running, active>>
    BY <2>1, <2>3, <1>1, <1>2, StaysKeeps
  <2>4. CASE Leave(g, Failed) /\ UNCHANGED <<lasti, yielded>>
    BY <2>1, <2>4, <1>1, <1>2, LeaveKeeps, NothingIsNoAnswer
  <2> QED BY <1>4, <2>2, <2>3, <2>4 DEF YieldFrom
<1>5. CASE NextAnswers(g)
  <2>1. world' = world /\ lasti' = lasti /\ yielded' = yielded
    BY <1>5 DEF NextAnswers
  <2>2. CASE result' = Nothing /\ UNCHANGED <<running, active>>
    BY <2>1, <2>2, <1>1, <1>2, StaysKeeps
  <2>3. CASE Leave(g, IF IsStopIteration(result) THEN Stopped ELSE Failed)
    <3>1. (IF IsStopIteration(result) THEN Stopped ELSE Failed) # Nothing
      BY NothingIsNoAnswer
    <3> QED BY <2>1, <2>3, <3>1, <1>1, <1>2, LeaveKeeps
  <2> QED BY <1>5, <2>2, <2>3 DEF NextAnswers
<1> QED BY <1>3, <1>4, <1>5

LEMMA ExecuteKeeps ==
    ASSUME IterationInv, NEW g \in Objects, Execute(g)
    PROVE  IterationInv'
BY OpcodesKeep, ReturnKeeps, AsksForKeeps, AnswersKeep DEF Execute

-------------------------------------------------------------------------------
(* The adapters, and the asks from outside: no frame is on top.              *)
LEMMA AdapterOnTop ==
    ASSUME IterationInv, NEW o \in Objects, Adapter(o)
    PROVE  /\ o \in Adapters /\ o \notin Generators /\ active # <<>> /\ Top.obj = o
           /\ Len(active) \in Nat \ {0}
           /\ \E S : Top.got \in Seq(S)
           /\ Len(Top.got) \in Nat /\ Len(world[o].of) \in Nat
           /\ Len(Top.got) < Len(world[o].of)
           /\ world[o].of[Len(Top.got) + 1] \in Objects
<1>1. PICK kind \in {"enumerate", "filter", "zip"} : Adapts(o, kind)
  BY DEF Adapter
<1>2. o \in Adapters /\ o \notin Generators /\ active # <<>> /\ Top.obj = o
  BY <1>1 DEF Adapts, Adapters, Generators, IsGenerator
<1>3. TypeInv /\ CallsInv(active, running)
  BY DEF IterationInv
<1>4. Len(active) \in Nat \ {0}
  BY <1>2, <1>3, StackShrinks DEF CallsInv
<1>5. (\E S : Top.got \in Seq(S)) /\ Len(Top.got) < Len(world[o].of)
  BY <1>2, <1>3, <1>4 DEF CallsInv, PartsFit, Top
<1>6. Len(Top.got) \in Nat
  BY <1>5
<1>7. /\ Len(world[o].of) \in Nat
      /\ \A i \in 1 .. Len(world[o].of) : world[o].of[i] \in Objects
  BY <1>2, <1>3, WorldsAssumption DEF TypeInv, Adapters
<1> QED BY <1>2, <1>4, <1>5, <1>6, <1>7

(* Nothing about the frames changes, and the call on top at most in what it  *)
(* has got.                                                                  *)
LEMMA GotKeeps ==
    ASSUME IterationInv, active # <<>>, NEW got,
           active' = [active EXCEPT ![Len(active)].got = got],
           Top.obj \in Adapters => (\E S : got \in Seq(S)) /\ Len(got) < Len(world[Top.obj].of),
           result' = Nothing, world' = world, lasti' = lasti, yielded' = yielded,
           running' = running
    PROVE  IterationInv'
<1> DEFINE n == Len(active)
           c == [active[n] EXCEPT !.got = got]
<1>1. /\ TypeInv /\ CallsInv(active, running) /\ Waiting(active, result, lasti)
      /\ FramesInv(lasti, running, yielded)
  BY DEF IterationInv
<1>2. n \in Nat \ {0}
  BY <1>1, StackShrinks DEF CallsInv
<1>3. PICK S : active \in Seq(S)
  BY <1>1 DEF CallsInv, IsStack
<1>4. {"obj", "got"} \subseteq DOMAIN active[n]
  BY <1>1, <1>2 DEF CallsInv, IsStack
<1>5. /\ DOMAIN c = DOMAIN active[n] /\ c.obj = active[n].obj /\ c.got = got
      /\ "of" \in DOMAIN active[n] => c.of = active[n].of
  BY <1>4
<1>6. active' = [active EXCEPT ![n] = c]
  OBVIOUS
<1> HIDE DEF c
<1>7. /\ active' \in Seq(S \cup {c}) /\ Len(active') = n
      /\ active'[n] = c /\ \A i \in 1 .. n : i # n => active'[i] = active[i]
  <2>1. active \in Seq(S \cup {c}) /\ c \in S \cup {c} /\ n \in 1 .. Len(active)
    BY <1>2, <1>3
  <2> QED BY <2>1, <1>6
<1> HIDE DEF n
<1>8. /\ \A i \in 1 .. n : active'[i].obj = active[i].obj /\ DOMAIN active'[i] = DOMAIN active[i]
      /\ \A i \in 1 .. n : i # n => active'[i].got = active[i].got
      /\ \A i \in 1 .. n : "of" \in DOMAIN active[i] => active'[i].of = active[i].of
  BY <1>5, <1>7
<1>9. IsStack(active')
  BY <1>1, <1>7, <1>8 DEF CallsInv, IsStack, n
<1>10. OnceEach(active') /\ Marked(active', running) /\ Outside(active')
  BY <1>1, <1>7, <1>8 DEF CallsInv, OnceEach, Marked, Outside, n
<1>11. PartsFit(active')
  <2> SUFFICES ASSUME NEW i \in 1 .. n, active[i].obj \in Adapters
               PROVE  /\ \E T : active'[i].got \in Seq(T)
                      /\ Len(active'[i].got) < Len(world[active[i].obj].of)
    BY <1>7, <1>8 DEF PartsFit
  <2>1. CASE i = n
    BY <2>1, <1>5, <1>7 DEF Top, n
  <2>2. CASE i # n
    BY <2>2, <1>1, <1>7 DEF CallsInv, PartsFit, n
  <2> QED BY <2>1, <2>2
<1>12. Waiting(active', Nothing, lasti)
  <2> SUFFICES ASSUME NEW i \in 1 .. n, i < n
               PROVE  PastTheAsk(active'[i], lasti)
    BY <1>7 DEF Waiting
  <2>1. PastTheAsk(active[i], lasti)
    BY <1>1 DEF Waiting, n
  <2> QED BY <2>1, <1>8 DEF PastTheAsk
<1> QED BY <1>1, <1>9, <1>10, <1>11, <1>12, SameWorld DEF CallsInv, TypeInv

(* The call on top, which is of no frame, asks an object.                    *)
LEMMA AskKeeps ==
    ASSUME IterationInv, active # <<>>, Top.obj \notin Generators,
           NEW o \in Objects, NEW v, Enter(o, v, active), world' = world, lasti' = lasti
    PROVE  IterationInv'
<1>1. /\ TypeInv /\ CallsInv(active, running) /\ Waiting(active, result, lasti)
      /\ FramesInv(lasti, running, yielded)
  BY DEF IterationInv
<1>2. Len(active) \in Nat \ {0}
  BY <1>1, StackShrinks DEF CallsInv
<1>3. \A i \in 1 .. Len(active) : PastTheAsk(active[i], lasti')
  <2> SUFFICES ASSUME NEW i \in 1 .. Len(active)
               PROVE  PastTheAsk(active[i], lasti)
    OBVIOUS
  <2>1. CASE i = Len(active)
    BY <2>1 DEF PastTheAsk, Top
  <2>2. CASE i < Len(active)
    BY <2>2, <1>1 DEF Waiting
  <2> QED BY <2>1, <2>2, <1>2
<1>4. lasti' \in [Objects -> Nat]
  BY <1>1 DEF TypeInv
<1> QED BY <1>1, <1>3, <1>4, EnterKeeps

LEMMA AdaptKeeps ==
    ASSUME IterationInv, NEW o \in Objects, Adapt(o)
    PROVE  IterationInv'
<1>1. Adapter(o)
  BY DEF Adapt, AdapterAsks, AdapterFails, EnumerateNext, FilterNext, ZipNext, Adapter
<1>2. /\ o \in Adapters /\ o \notin Generators /\ active # <<>> /\ Top.obj = o
      /\ (\E S : Top.got \in Seq(S)) /\ Len(Top.got) \in Nat /\ Len(world[o].of) \in Nat
      /\ Len(Top.got) < Len(world[o].of)
      /\ world[o].of[Len(Top.got) + 1] \in Objects
  BY <1>1, AdapterOnTop
<1>3. lasti \in [Objects -> Nat] /\ yielded \in [Objects -> BOOLEAN]
  BY DEF IterationInv, TypeInv
<1>4. ASSUME NEW r, r # Nothing, Answer(r),
             world' = world, lasti' = lasti, yielded' = yielded, running' = running
      PROVE  IterationInv'
  BY <1>2, <1>3, <1>4, AnswerKeeps
<1>5. CASE AdapterAsks(o)
  <2>1. Enter(world[o].of[Len(Top.got) + 1], None, active) /\ world' = world /\ lasti' = lasti
    BY <1>5 DEF AdapterAsks
  <2> QED BY <2>1, <1>2, AskKeeps
<1>6. CASE AdapterFails(o)
  <2>1. result # Nothing /\ Answer(result)
    BY <1>6 DEF AdapterFails, Nothing
  <2> QED BY <2>1, <1>4, <1>6 DEF AdapterFails, frames
<1>7. CASE EnumerateNext(o)
  BY <1>4, <1>7, NothingIsNoAnswer DEF EnumerateNext, frames
<1>8. CASE FilterNext(o)
  <2>1. world' = world /\ lasti' = lasti /\ yielded' = yielded /\ running' = running
    BY <1>8 DEF FilterNext, frames
  <2>2. CASE Answer(result)
    <3>1. result # Nothing
      BY <1>8 DEF FilterNext, Nothing
    <3> QED BY <2>1, <2>2, <3>1, <1>4
  <2>3. CASE result' = Nothing /\ active' = active
    <3>1. TypeInv /\ CallsInv(active, running) /\ FramesInv(lasti, running, yielded)
          /\ Waiting(active, result, lasti)
      BY DEF IterationInv
    <3>2. Waiting(active', result', lasti')
      BY <2>1, <2>3, <3>1 DEF Waiting
    <3> QED BY <2>1, <2>3, <3>1, <3>2, SameWorld DEF TypeInv
  <2> QED BY <1>8, <2>2, <2>3 DEF FilterNext
<1>9. CASE ZipNext(o)
  <2> DEFINE got == Append(Top.got, result.value)
  <2>1. world' = world /\ lasti' = lasti /\ yielded' = yielded /\ running' = running
    BY <1>9 DEF ZipNext, frames
  <2>2. CASE Answer(Item(Tuple(o, 0, got)))
    BY <2>1, <2>2, <1>4, NothingIsNoAnswer
  <2>3. CASE /\ Len(got) # Len(world[o].of) /\ result' = Nothing
             /\ active' = [active EXCEPT ![Len(active)].got = got]
    <3>1. PICK S : Top.got \in Seq(S)
      BY <1>2
    <3>2. got \in Seq(S \cup {result.value}) /\ Len(got) = Len(Top.got) + 1
      BY <3>1
    <3>3. Len(got) < Len(world[o].of)
      BY <3>2, <2>3, <1>2
    <3> HIDE DEF got
    <3> QED BY <2>1, <2>3, <3>2, <3>3, <1>2, GotKeeps
  <2> QED BY <1>9, <2>2, <2>3 DEF ZipNext
<1> QED BY <1>5, <1>6, <1>7, <1>8, <1>9 DEF Adapt

(* What asks from outside is the only call when it is on top.                *)
LEMMA OutsideOnTop ==
    ASSUME IterationInv, active # <<>>, Top.obj = 0
    PROVE  Len(active) = 1 /\ Top.of \in Objects /\ 0 \notin Objects
<1>1. CallsInv(active, running)
  BY DEF IterationInv
<1>2. Len(active) \in Nat \ {0}
  BY <1>1, StackShrinks DEF CallsInv
<1>3. Len(active) \in 1 .. Len(active) /\ active[Len(active)].obj = 0
  BY <1>2 DEF Top
<1> QED BY <1>1, <1>3, ObjectsAssumption DEF CallsInv, Outside, Top

LEMMA AskAgainKeeps ==
    ASSUME IterationInv, AskAgain
    PROVE  IterationInv'
<1>1. /\ active # <<>> /\ Top.obj = 0 /\ Enter(Top.of, None, active)
      /\ world' = world /\ lasti' = lasti
  BY DEF AskAgain
<1>2. Top.of \in Objects /\ 0 \notin Objects
  BY <1>1, OutsideOnTop
<1> QED BY <1>1, <1>2, AskKeeps DEF Generators

LEMMA NobodyAsks ==
    ASSUME TypeInv, NEW run \in [Objects -> BOOLEAN], \A g \in Generators : ~run[g]
    PROVE  CallsInv(<<>>, run)
<1>1. <<>> \in Seq({}) /\ Len(<<>>) = 0
  OBVIOUS
<1> QED BY <1>1 DEF CallsInv, IsStack, OnceEach, Marked, PartsFit, Outside

LEMMA HearKeeps ==
    ASSUME IterationInv, Hear
    PROVE  IterationInv'
<1>1. /\ active # <<>> /\ Top.obj = 0 /\ result' = Nothing /\ world' = world
      /\ lasti' = lasti /\ yielded' = yielded /\ running' = running
  BY DEF Hear, frames
<1>2. Len(active) = 1 /\ 0 \notin Objects
  BY <1>1, OutsideOnTop
<1>3. /\ TypeInv /\ CallsInv(active, running) /\ Waiting(active, result, lasti)
      /\ FramesInv(lasti, running, yielded)
  BY DEF IterationInv
<1>4. CASE \E got : active' = [active EXCEPT ![1].got = got]
  <2>1. Top.obj \notin Adapters
    BY <1>1, <1>2 DEF Adapters
  <2> QED BY <2>1, <1>1, <1>2, <1>4, GotKeeps
<1>5. CASE active' = <<>>
  <2>1. ASSUME NEW g \in Generators PROVE ~running[g]
    <3>1. \A i \in 1 .. Len(active) : active[i].obj # g
      BY <1>1, <1>2 DEF Top, Generators
    <3> QED BY <3>1, <1>3 DEF CallsInv, Marked
  <2>2. running \in [Objects -> BOOLEAN]
    BY <1>3 DEF TypeInv
  <2>3. CallsInv(active', running')
    BY <2>1, <2>2, <1>1, <1>3, <1>5, NobodyAsks
  <2>4. Waiting(active', result', lasti')
    BY <1>5 DEF Waiting
  <2> QED BY <2>3, <2>4, <1>1, <1>3, SameWorld DEF TypeInv
<1> QED BY <1>4, <1>5 DEF Hear

LEMMA BeginKeeps ==
    ASSUME IterationInv, NEW how, NEW o \in Asked, NEW v, Begin(how, o, v)
    PROVE  IterationInv'
<1> DEFINE c     == Asking(how, o, v)
           calls == <<c>>
<1>1. active = <<>> /\ Enter(o, v, calls) /\ world' = world /\ lasti' = lasti
  BY DEF Begin
<1>2. o \in Objects /\ 0 \notin Objects
  BY ObjectsAssumption
<1>3. TypeInv /\ CallsInv(active, running) /\ FramesInv(lasti, running, yielded)
  BY DEF IterationInv
<1>4. c.obj = 0 /\ c.of = o /\ DOMAIN c = {"obj", "got", "how", "of", "sent"}
  BY DEF Asking
<1> HIDE DEF c
<1>5. calls \in Seq({c}) /\ Len(calls) = 1 /\ calls[1] = c
  OBVIOUS
<1> HIDE DEF calls
<1>6. CallsInv(calls, running)
  <2>1. IsStack(calls)
    <3>1. \A i \in 1 .. Len(calls) : {"obj", "got"} \subseteq DOMAIN calls[i]
      BY <1>4, <1>5
    <3> QED BY <3>1, <1>5 DEF IsStack
  <2>2. OnceEach(calls) /\ PartsFit(calls) /\ Outside(calls)
    BY <1>2, <1>4, <1>5 DEF OnceEach, PartsFit, Outside, Adapters
  <2>3. ASSUME NEW g \in Generators PROVE ~running[g]
    BY <1>1, <1>3 DEF CallsInv, Marked
  <2>4. Marked(calls, running)
    <3>1. \A g \in Generators, i \in 1 .. Len(calls) : calls[i].obj # g
      BY <1>2, <1>4, <1>5 DEF Generators
    <3> QED BY <2>3, <3>1 DEF Marked
  <2> QED BY <2>1, <2>2, <2>4 DEF CallsInv
<1>7. \A i \in 1 .. Len(calls) : PastTheAsk(calls[i], lasti')
  BY <1>2, <1>4, <1>5 DEF PastTheAsk, Generators
<1>8. lasti' \in [Objects -> Nat]
  BY <1>1, <1>3 DEF TypeInv
<1> QED BY <1>1, <1>2, <1>3, <1>6, <1>7, <1>8, EnterKeeps

-------------------------------------------------------------------------------
LEMMA IterationStart == Init => IterationInv
<1> SUFFICES ASSUME Init PROVE IterationInv
  OBVIOUS
<1>1. TypeInv
  BY DEF Init, TypeInv
<1>2. CallsInv(active, running)
  <2>1. \A g \in Generators : ~running[g]
    BY DEF Init, Generators
  <2>2. active = <<>> /\ running \in [Objects -> BOOLEAN]
    BY <1>1 DEF Init, TypeInv
  <2> QED BY <1>1, <2>1, <2>2, NobodyAsks
<1>3. Waiting(active, result, lasti)
  BY DEF Init, Waiting
<1>4. FramesInv(lasti, running, yielded)
  <2> SUFFICES ASSUME NEW g \in Generators
               PROVE  /\ lasti[g] \in 0 .. Len(Code(g)) /\ ~running[g] /\ ~yielded[g]
    BY DEF FramesInv, InCode, Returned
  <2>1. g \in Objects /\ Len(Code(g)) \in Nat
    BY <1>1, CodeIsWellFormed DEF WellFormed
  <2> QED BY <2>1 DEF Init
<1> QED BY <1>1, <1>2, <1>3, <1>4 DEF IterationInv

LEMMA IterationStep == IterationInv /\ [Next]_vars => IterationInv'
<1> SUFFICES ASSUME IterationInv, [Next]_vars PROVE IterationInv'
  OBVIOUS
<1>1. CASE \E o \in Objects : Execute(o) \/ Adapt(o)
  BY <1>1, ExecuteKeeps, AdaptKeeps
<1>2. CASE AskAgain
  BY <1>2, AskAgainKeeps
<1>3. CASE Hear
  BY <1>3, HearKeeps
<1>4. CASE \E how \in {"next", "send", "list", "all", "for"}, o \in Asked,
              v \in Sent \cup {None} : Begin(how, o, v)
  BY <1>4, BeginKeeps
<1>5. CASE UNCHANGED vars
  <2>1. /\ world' = world /\ lasti' = lasti /\ active' = active /\ result' = result
        /\ running' = running /\ yielded' = yielded
    BY <1>5 DEF vars, frames
  <2> QED BY <2>1, SameWorld DEF IterationInv, TypeInv
<1> QED BY <1>1, <1>2, <1>3, <1>4, <1>5 DEF Next, Running

(* Where every frame is in its code, and which calls are made, in every state *)
(* the objects can be in: what the two theorems below rest on.                *)
THEOREM IterationInvariant == Spec => []IterationInv
<1> QED BY IterationStart, IterationStep, PTL DEF Spec

(* However objects ask one another, rings included, no frame of a generator  *)
(* is entered while it is executed, and it is marked as executed exactly     *)
(* while one of the calls is of it.                                          *)
THEOREM IterationNeverReentered == Spec => []NeverReentered
<1>1. IterationInv => NeverReentered
  <2> SUFFICES ASSUME IterationInv PROVE NeverReentered
    OBVIOUS
  <2>1. CallsInv(active, running)
    BY DEF IterationInv
  <2>2. DOMAIN active = 1 .. Len(active)
    BY <2>1 DEF CallsInv, IsStack
  <2> QED BY <2>1, <2>2 DEF CallsInv, OnceEach, Marked, NeverReentered, Generators
<1> QED BY <1>1, IterationInvariant, PTL

-------------------------------------------------------------------------------
(* A frame is entered by an ask alone, and only one that has not started or  *)
(* has yielded.                                                              *)
LEMMA EntersWhatWaits ==
    ASSUME IterationInv, NEW o \in Objects, NEW v, NEW calls, Enter(o, v, calls),
           NEW g \in Generators, ~running[g], running'[g]
    PROVE  lasti[g] = 0 \/ yielded[g]
<1>1. TypeInv
  BY DEF IterationInv
<1> QED BY <1>1, EnterForms DEF TypeInv, Generators

LEMMA StartsWhatWaits ==
    ASSUME IterationInv, Next, NEW g \in Generators, ~running[g], running'[g]
    PROVE  lasti[g] = 0 \/ yielded[g]
<1>1. running \in [Objects -> BOOLEAN] /\ g \in Objects
  BY DEF IterationInv, TypeInv, Generators
<1>2. ASSUME NEW h, running' = [running EXCEPT ![h] = FALSE] \/ running' = running
      PROVE  FALSE
  BY <1>1, <1>2
<1>3. CASE \E h \in Objects : Execute(h)
  <2> PICK h \in Objects : Execute(h)
    BY <1>3
  <2>1. CASE AsksFor(h)
    BY <2>1, AsksForAnObject, EntersWhatWaits DEF AsksFor
  <2>2. CASE \/ Yields(h) \/ YieldsTop(h) \/ JumpAbsolute(h) \/ Raises(h) \/ ReturnValue(h)
             \/ CallFunction(h)
    BY <2>2, <1>2 DEF Yields, YieldsTop, JumpAbsolute, Raises, ReturnValue, CallFunction,
                      YieldValue, Leave, frames
  <2>3. CASE ForIter(h) \/ YieldFrom(h) \/ NextAnswers(h)
    BY <2>3, <1>2 DEF ForIter, YieldFrom, NextAnswers, YieldValue, Leave
  <2> QED BY <2>1, <2>2, <2>3 DEF Execute
<1>4. CASE \E o \in Objects : Adapt(o)
  <2> PICK o \in Objects : Adapt(o)
    BY <1>4
  <2>1. CASE AdapterAsks(o)
    BY <2>1, AdapterOnTop, EntersWhatWaits DEF AdapterAsks
  <2>2. CASE AdapterFails(o) \/ EnumerateNext(o) \/ FilterNext(o) \/ ZipNext(o)
    BY <2>2, <1>2 DEF AdapterFails, EnumerateNext, FilterNext, ZipNext, frames
  <2> QED BY <2>1, <2>2 DEF Adapt
<1>5. CASE AskAgain
  BY <1>5, OutsideOnTop, EntersWhatWaits DEF AskAgain
<1>6. CASE Hear
  BY <1>6, <1>2 DEF Hear, frames
<1>7. CASE \E how \in {"next", "send", "list", "all", "for"}, o \in Asked,
              v \in Sent \cup {None} : Begin(how, o, v)
  BY <1>7, ObjectsAssumption, EntersWhatWaits DEF Begin
<1> QED BY <1>3, <1>4, <1>5, <1>6, <1>7 DEF Next, Running

(* A generator that has returned is never executed again, whoever asks it    *)
(* and however often.                                                        *)
THEOREM IterationFinishedStaysFinished == Spec => FinishedStaysFinished
<1> DEFINE Stays == \A g \in Objects :
                       IsGenerator(g) /\ ~running[g] /\ lasti[g] = Len(Code(g)) => ~running'[g]
<1>1. IterationInv /\ [Next]_vars => [Stays]_vars
  <2> SUFFICES ASSUME IterationInv, Next PROVE Stays
    OBVIOUS
  <2> SUFFICES ASSUME NEW g \in Objects, IsGenerator(g), ~running[g], lasti[g] = Len(Code(g)),
                      running'[g]
               PROVE  FALSE
    OBVIOUS
  <2>1. g \in Generators
    BY DEF Generators
  <2>2. TypeInv /\ ~yielded[g]
    BY <2>1 DEF IterationInv, FramesInv, Returned
  <2>3. lasti[g] # 0
    BY <2>1, <2>2, CodeIsWellFormed DEF WellFormed
  <2> QED BY <2>1, <2>2, <2>3, StartsWhatWaits
<1> HIDE DEF Stays
<1>2. Spec => [][Stays]_vars
  BY <1>1, IterationInvariant, PTL DEF Spec
<1> QED BY <1>2 DEF FinishedStaysFinished, Stays
===============================================================================
