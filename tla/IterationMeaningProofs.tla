------------------------ MODULE IterationMeaningProofs ------------------------
(***************************************************************************)
(* Proofs about objects that make a tree, for every tree and every meaning *)
(* that its programs allow: what is sent to generators arrives, and what   *)
(* is asked from outside gives the items that its program means, in order, *)
(* each once, and ends as it means to.                                     *)
(***************************************************************************)
EXTENDS IterationMeaning, IterationProofs

-------------------------------------------------------------------------------
(* Who asks whom.  A call waits for the answer of what its object asks at the *)
(* place where it is, and that is the call above it.                          *)
PlaceOf(call, last) == IF call.obj \in Generators THEN last[call.obj] ELSE Len(call.got) + 1
Awaits(call, last, c) ==
    IF call.obj = 0 THEN c = call.of
    ELSE /\ call.obj \in Objects
         /\ PlaceOf(call, last) \in Places(world, call.obj)
         /\ c = AskedAt(world, call.obj, PlaceOf(call, last))

Based(calls)  == calls # <<>> => calls[1].obj = 0 /\ calls[1].of \in Asked
Linked(calls, last) ==
    \A i \in 1 .. Len(calls) - 1 : Awaits(calls[i], last, calls[i + 1].obj)
TopAwaits(calls, res, last) ==
    calls # <<>> /\ res # Nothing => \E c : Awaits(calls[Len(calls)], last, c)
NotTwice(calls) ==
    IsTree(world) => \A i, j \in 1 .. Len(calls) : calls[i].obj = calls[j].obj => i = j
ChainInv(calls, res, last) ==
    Based(calls) /\ Linked(calls, last) /\ TopAwaits(calls, res, last) /\ NotTwice(calls)

TreeInv == IterationInv /\ ChainInv(active, result, lasti)

LEMMA PlacesAskObjects ==
    ASSUME TypeInv, NEW o \in Objects, NEW i \in Places(world, o)
    PROVE  /\ AskedAt(world, o, i) \in Objects
           /\ o \in Generators \/ o \in Adapters
           /\ o \in Generators => i \in 1 .. Len(Code(o)) /\ Code(o)[i].op \in {"next", "iter", "from"}
                                  /\ AskedAt(world, o, i) = Code(o)[i].of
           /\ o \in Adapters => i \in 1 .. Len(world[o].of) /\ AskedAt(world, o, i) = world[o].of[i]
<1>1. CASE world[o].kind = "generator"
  <2>1. o \in Generators /\ o \notin Adapters
    BY <1>1 DEF Generators, Adapters, IsGenerator
  <2>2. Places(world, o) = {p \in 1 .. Len(Code(o)) : Code(o)[p].op \in {"next", "iter", "from"}}
    BY <1>1 DEF Places, Code, AdapterKinds
  <2>3. WellFormed(Code(o))
    BY <2>1, CodeIsWellFormed
  <2>4. AskedAt(world, o, i) = Code(o)[i].of
    BY <1>1 DEF AskedAt, Code
  <2>5. Code(o)[i].of \in Objects
    BY <2>2, <2>3 DEF WellFormed
  <2> QED BY <2>1, <2>2, <2>4, <2>5
<1>2. CASE world[o].kind \in AdapterKinds
  <2>1. o \in Adapters /\ world[o].kind # "generator"
    BY <1>2 DEF Adapters, AdapterKinds
  <2>2. Places(world, o) = 1 .. Len(world[o].of)
    BY <1>2, <2>1 DEF Places
  <2>3. o \notin Generators /\ AskedAt(world, o, i) = world[o].of[i]
    BY <2>1 DEF AskedAt, Generators, IsGenerator
  <2>4. \A j \in 1 .. Len(world[o].of) : world[o].of[j] \in Objects
    BY <2>1, WorldsAssumption DEF TypeInv, Adapters
  <2> QED BY <2>1, <2>2, <2>3, <2>4
<1>3. CASE world[o].kind # "generator" /\ world[o].kind \notin AdapterKinds
  BY <1>3 DEF Places
<1> QED BY <1>1, <1>2, <1>3

LEMMA AwaitedIsOne ==
    ASSUME TypeInv, NEW call, NEW last, NEW c, NEW d, Awaits(call, last, c), Awaits(call, last, d)
    PROVE  c = d
BY DEF Awaits

(* Only the object of the place that asks an object can wait for it.        *)
LEMMA AskerBelow ==
    ASSUME TypeInv, IsTree(world), NEW calls, NEW last, IsStack(calls), Outside(calls),
           Based(calls), Linked(calls, last),
           NEW i \in 1 .. Len(calls), NEW g \in Objects, NEW k \in Places(world, g),
           calls[i].obj = AskedAt(world, g, k)
    PROVE  i - 1 \in 1 .. Len(calls) /\ calls[i - 1].obj = g /\ PlaceOf(calls[i - 1], last) = k
<1>1. Len(calls) \in Nat /\ calls # <<>>
  BY DEF IsStack
<1>2. calls[i].obj \in Objects \ Asked
  BY PlacesAskObjects DEF IsTree
<1>3. i # 1
  BY <1>1, <1>2, ObjectsAssumption DEF Based
<1>4. i - 1 \in 1 .. Len(calls) - 1 /\ (i - 1) + 1 = i
  BY <1>1, <1>3
<1>5. Awaits(calls[i - 1], last, calls[i].obj)
  BY <1>4 DEF Linked
<1>6. calls[i - 1].obj # 0
  <2> SUFFICES ASSUME calls[i - 1].obj = 0 PROVE FALSE
    OBVIOUS
  <2>1. i - 1 = 1
    BY <1>1, <1>4 DEF Outside
  <2>2. calls[i - 1].of \in Asked
    BY <1>1, <2>1 DEF Based
  <2> QED BY <1>2, <1>5, <2>2 DEF Awaits
<1>7. /\ calls[i - 1].obj \in Objects
      /\ PlaceOf(calls[i - 1], last) \in Places(world, calls[i - 1].obj)
      /\ AskedAt(world, calls[i - 1].obj, PlaceOf(calls[i - 1], last)) = AskedAt(world, g, k)
  BY <1>5, <1>6 DEF Awaits
<1> QED BY <1>1, <1>4, <1>7 DEF IsTree

-------------------------------------------------------------------------------
(* The chain of calls after a step.                                         *)
LEMMA SameWorldSameChain ==
    ASSUME world' = world, ChainInv(active', result', lasti')
    PROVE  ChainInv(active, result, lasti)'
<1>1. Generators' = Generators
  BY DEF Generators, IsGenerator
<1> QED BY <1>1 DEF ChainInv, Based, Linked, TopAwaits, NotTwice, Awaits, PlaceOf

LEMMA AwaitsAsBefore ==
    ASSUME NEW call, NEW last, NEW last2, NEW c, Awaits(call, last, c),
           call.obj \in Generators => last2[call.obj] = last[call.obj]
    PROVE  Awaits(call, last2, c)
BY DEF Awaits, PlaceOf

(* Only what is on top can move in its code while the others wait.          *)
LEMMA LinkedAsBefore ==
    ASSUME NEW calls, NEW run, NEW last, NEW last2, CallsInv(calls, run), Linked(calls, last),
           \A g \in Generators : g # calls[Len(calls)].obj => last2[g] = last[g]
    PROVE  Linked(calls, last2)
<1> SUFFICES ASSUME NEW i \in 1 .. Len(calls) - 1
             PROVE  Awaits(calls[i], last2, calls[i + 1].obj)
  BY DEF Linked
<1>1. Len(calls) \in Nat
  BY DEF CallsInv, IsStack
<1>2. i \in 1 .. Len(calls) /\ Len(calls) \in 1 .. Len(calls) /\ i # Len(calls)
  BY <1>1
<1>3. calls[i].obj \in Generators => calls[i].obj # calls[Len(calls)].obj
  BY <1>2 DEF CallsInv, OnceEach
<1>4. Awaits(calls[i], last, calls[i + 1].obj)
  BY DEF Linked
<1> QED BY <1>3, <1>4, AwaitsAsBefore

LEMMA ChainEnter ==
    ASSUME TypeInv, NEW o \in Objects, NEW v, NEW calls, Enter(o, v, calls), world' = world,
           IsStack(calls), Outside(calls), calls # <<>>, Based(calls), Linked(calls, lasti'),
           NotTwice(calls), Awaits(calls[Len(calls)], lasti', o)
    PROVE  ChainInv(active, result, lasti)'
<1> DEFINE n == Len(calls)
<1>1. n \in Nat \ {0} /\ n \in 1 .. n
  <2>1. PICK S : calls \in Seq(S)
    BY DEF IsStack
  <2> QED BY <2>1
<1>2. CASE active' = calls
  <2>1. TopAwaits(active', result', lasti')
    BY <1>2 DEF TopAwaits
  <2> QED BY <1>2, <2>1, SameWorldSameChain DEF ChainInv
<1>3. CASE active' = Append(calls, Calling(o)) /\ result' = Nothing
  <2>1. /\ Len(active') = n + 1
        /\ \A i \in 1 .. n : active'[i] = calls[i]
        /\ active'[n + 1] = Calling(o)
    BY <1>3, StackGrows DEF Calling
  <2>2. Calling(o).obj = o
    BY DEF Calling
  <2>3. Based(active')
    BY <1>1, <2>1 DEF Based
  <2>4. Linked(active', lasti')
    <3> SUFFICES ASSUME NEW i \in 1 .. n
                 PROVE  Awaits(active'[i], lasti', active'[i + 1].obj)
      BY <2>1, <1>1 DEF Linked
    <3>1. CASE i = n
      BY <3>1, <1>1, <2>1, <2>2
    <3>2. CASE i # n
      <4>1. i \in 1 .. n - 1 /\ i + 1 \in 1 .. n
        BY <3>2, <1>1
      <4> QED BY <4>1, <2>1 DEF Linked
    <3> QED BY <3>1, <3>2
  <2>5. TopAwaits(active', result', lasti')
    BY <1>3 DEF TopAwaits
  <2>6. NotTwice(active')
    <3> SUFFICES ASSUME IsTree(world)
                 PROVE  \A i, j \in 1 .. n + 1 : active'[i].obj = active'[j].obj => i = j
      BY <2>1 DEF NotTwice
    <3>1. \A i, j \in 1 .. n : calls[i].obj = calls[j].obj => i = j
      BY DEF NotTwice
    <3>2. ASSUME NEW i \in 1 .. n, calls[i].obj = o PROVE FALSE
      <4>1. CASE calls[n].obj = 0
        <5>1. n = 1
          BY <4>1, <1>1 DEF Outside
        <5> QED BY <3>2, <4>1, <5>1, ObjectsAssumption
      <4>2. CASE calls[n].obj # 0
        <5> DEFINE g == calls[n].obj
                   k == PlaceOf(calls[n], lasti')
        <5>1. g \in Objects /\ k \in Places(world, g) /\ AskedAt(world, g, k) = o
          BY <4>2 DEF Awaits
        <5> HIDE DEF g, k
        <5>2. i - 1 \in 1 .. n /\ calls[i - 1].obj = g
          BY <3>2, <5>1, AskerBelow
        <5>3. i - 1 = n
          BY <5>2, <3>1, <1>1 DEF g
        <5> QED BY <5>3, <1>1
      <4> QED BY <4>1, <4>2
    <3> TAKE i, j \in 1 .. n + 1
    <3>3. CASE i \in 1 .. n /\ j \in 1 .. n
      BY <3>3, <3>1, <2>1
    <3>4. CASE i = n + 1 /\ j \in 1 .. n
      BY <3>4, <3>2, <2>1, <2>2
    <3>5. CASE j = n + 1 /\ i \in 1 .. n
      BY <3>5, <3>2, <2>1, <2>2
    <3> QED BY <3>3, <3>4, <3>5, <1>1
  <2> QED BY <2>3, <2>4, <2>5, <2>6, SameWorldSameChain DEF ChainInv
<1> QED BY <1>2, <1>3, EnterForms

LEMMA ChainAnswer ==
    ASSUME TreeInv, active # <<>>, NEW r, Answer(r), world' = world,
           \A g \in Generators : g # Top.obj => lasti'[g] = lasti[g]
    PROVE  ChainInv(active, result, lasti)'
<1> DEFINE n == Len(active)
<1>1. CallsInv(active, running) /\ Linked(active, lasti) /\ Based(active) /\ NotTwice(active)
  BY DEF TreeInv, IterationInv, ChainInv
<1>2. active' = SubSeq(active, 1, n - 1)
  BY DEF Answer, Below
<1>3. /\ IsStack(active') /\ n \in Nat \ {0} /\ Len(active') = n - 1
      /\ \A i \in 1 .. n - 1 : active'[i] = active[i]
  BY <1>1, <1>2, StackShrinks DEF CallsInv
<1>4. Linked(active, lasti')
  BY <1>1, LinkedAsBefore DEF Top
<1>5. Linked(active', lasti')
  <2> SUFFICES ASSUME NEW i \in 1 .. n - 1 - 1
               PROVE  Awaits(active'[i], lasti', active'[i + 1].obj)
    BY <1>3 DEF Linked
  <2>1. i \in 1 .. n - 1 /\ i + 1 \in 1 .. n - 1
    BY <1>3
  <2> QED BY <2>1, <1>3, <1>4 DEF Linked
<1>6. ASSUME active' # <<>> PROVE n - 1 \in 1 .. n - 1
  <2>1. PICK S : active' \in Seq(S)
    BY <1>3 DEF IsStack
  <2> QED BY <2>1, <1>3, <1>6
<1> HIDE DEF n
<1>7. TopAwaits(active', result', lasti')
  <2> SUFFICES ASSUME active' # <<>> PROVE \E c : Awaits(active'[n - 1], lasti', c)
    BY <1>3 DEF TopAwaits
  <2>1. n - 1 \in 1 .. n - 1
    BY <1>6
  <2>2. Awaits(active[n - 1], lasti', active[n - 1 + 1].obj)
    BY <2>1, <1>4 DEF Linked, n
  <2> QED BY <2>1, <2>2, <1>3
<1>8. Based(active')
  <2> SUFFICES ASSUME active' # <<>> PROVE active'[1].obj = 0 /\ active'[1].of \in Asked
    BY DEF Based
  <2>1. 1 \in 1 .. n - 1
    BY <1>3, <1>6
  <2> QED BY <2>1, <1>1, <1>3 DEF Based
<1>9. NotTwice(active')
  BY <1>1, <1>3 DEF NotTwice, n
<1> QED BY <1>5, <1>7, <1>8, <1>9, SameWorldSameChain DEF ChainInv

LEMMA ChainStays ==
    ASSUME TreeInv, active' = active, result' = Nothing, world' = world,
           \A g \in Generators : g # Top.obj => lasti'[g] = lasti[g]
    PROVE  ChainInv(active, result, lasti)'
<1>1. CallsInv(active, running) /\ Linked(active, lasti) /\ Based(active) /\ NotTwice(active)
  BY DEF TreeInv, IterationInv, ChainInv
<1>2. Linked(active, lasti')
  BY <1>1, LinkedAsBefore DEF Top
<1>3. TopAwaits(active', result', lasti')
  BY DEF TopAwaits
<1> QED BY <1>1, <1>2, <1>3, SameWorldSameChain DEF ChainInv

LEMMA ChainGot ==
    ASSUME TreeInv, active # <<>>, NEW got, active' = [active EXCEPT ![Len(active)].got = got],
           result' = Nothing, world' = world, lasti' = lasti
    PROVE  ChainInv(active, result, lasti)'
<1> DEFINE n == Len(active)
           c == [active[n] EXCEPT !.got = got]
<1>1. CallsInv(active, running) /\ Linked(active, lasti) /\ Based(active) /\ NotTwice(active)
  BY DEF TreeInv, IterationInv, ChainInv
<1>2. PICK S : active \in Seq(S)
  BY <1>1 DEF CallsInv, IsStack
<1>3. n \in Nat \ {0} /\ n \in 1 .. n
  BY <1>2
<1>4. /\ DOMAIN c = DOMAIN active[n] /\ c.obj = active[n].obj
      /\ "of" \in DOMAIN active[n] => c.of = active[n].of
  BY <1>1, <1>3 DEF CallsInv, IsStack
<1>5. active' = [active EXCEPT ![n] = c]
  OBVIOUS
<1> HIDE DEF c
<1>6. Len(active') = n /\ active'[n] = c /\ \A i \in 1 .. n : i # n => active'[i] = active[i]
  <2>1. active \in Seq(S \cup {c}) /\ c \in S \cup {c} /\ n \in 1 .. Len(active)
    BY <1>2, <1>3
  <2> QED BY <2>1, <1>5
<1>7. \A i \in 1 .. n : active'[i].obj = active[i].obj
  BY <1>4, <1>6
<1>8. Linked(active', lasti')
  <2> SUFFICES ASSUME NEW i \in 1 .. n - 1
               PROVE  Awaits(active'[i], lasti, active'[i + 1].obj)
    BY <1>6 DEF Linked
  <2>1. i \in 1 .. n /\ i # n /\ i + 1 \in 1 .. n
    BY <1>3
  <2> QED BY <2>1, <1>1, <1>6, <1>7 DEF Linked
<1>9. Based(active')
  <2>1. 1 \in 1 .. n /\ active[1].obj = 0 /\ active[1].of \in Asked
    BY <1>1, <1>3 DEF Based
  <2>2. "of" \in DOMAIN active[1]
    BY <1>1, <2>1 DEF CallsInv, Outside
  <2>3. CASE n = 1
    BY <2>1, <2>2, <2>3, <1>4, <1>6 DEF Based
  <2>4. CASE n # 1
    BY <2>1, <2>4, <1>6 DEF Based
  <2> QED BY <2>3, <2>4
<1>10. NotTwice(active') /\ TopAwaits(active', result', lasti')
  BY <1>1, <1>6, <1>7 DEF NotTwice, TopAwaits
<1> QED BY <1>8, <1>9, <1>10, SameWorldSameChain DEF ChainInv

(* What an opcode does to the calls: its frame is left, stays, or asks.      *)
LEMMA ExecuteForms ==
    ASSUME IterationInv, NEW g \in Objects, Execute(g)
    PROVE  /\ world' = world
           /\ index' = index \/ AsksFor(g)
           /\ \A o \in Objects : o # g => lasti'[o] = lasti[o]
           /\ \/ \E r : r # Nothing /\ Answer(r)
              \/ active' = active /\ result' = Nothing
              \/ AsksFor(g)
<1>1. lasti \in [Objects -> Nat]
  BY DEF IterationInv, TypeInv
<1>2. CASE Yields(g) \/ YieldsTop(g) \/ Raises(g) \/ ReturnValue(g)
  <2>1. (\E r : r # Nothing /\ Answer(r)) /\ lasti' = [lasti EXCEPT ![g] = @ + 1]
        /\ world' = world /\ index' = index
    BY <1>2, NothingIsNoAnswer DEF Yields, YieldsTop, Raises, ReturnValue, YieldValue, Leave, Fetch
  <2> QED BY <1>1, <2>1
<1>3. CASE JumpAbsolute(g)
  <2>1. /\ active' = active /\ result' = Nothing /\ world' = world /\ index' = index
        /\ lasti' = [lasti EXCEPT ![g] = Code(g)[lasti[g] + 1].to]
    BY <1>3 DEF JumpAbsolute, At
  <2> QED BY <1>1, <2>1
<1>4. CASE CallFunction(g)
  <2>1. /\ active' = active /\ result' = Nothing /\ world' = world /\ index' = index
        /\ lasti' = [lasti EXCEPT ![g] = @ + 1]
    BY <1>4 DEF CallFunction, At, Fetch
  <2> QED BY <1>1, <2>1
<1>5. CASE AsksFor(g)
  <2>1. lasti' = [lasti EXCEPT ![g] = @ + 1] /\ world' = world
    BY <1>5 DEF AsksFor, Fetch
  <2> QED BY <1>1, <1>5, <2>1
<1>6. CASE ForIter(g)
  <2>1. /\ active' = active /\ result' = Nothing /\ world' = world /\ index' = index
        /\ lasti' = lasti \/ lasti' = [lasti EXCEPT ![g] = Code(g)[lasti[g]].exit]
    BY <1>6 DEF ForIter
  <2> QED BY <1>1, <2>1
<1>7. CASE YieldFrom(g)
  <2>1. /\ world' = world /\ index' = index
        /\ lasti' = lasti \/ lasti' = [lasti EXCEPT ![g] = @ - 1]
        /\ \/ \E r : r # Nothing /\ Answer(r)
           \/ active' = active /\ result' = Nothing
    BY <1>7, NothingIsNoAnswer DEF YieldFrom, YieldValue, Leave
  <2> QED BY <1>1, <2>1
<1>8. CASE NextAnswers(g)
  <2>1. Stopped # Nothing /\ Failed # Nothing
    BY NothingIsNoAnswer
  <2>2. /\ world' = world /\ index' = index /\ lasti' = lasti
        /\ \/ \E r : r # Nothing /\ Answer(r)
           \/ active' = active /\ result' = Nothing
    BY <1>8, <2>1 DEF NextAnswers, Leave
  <2> QED BY <2>2
<1> QED BY <1>2, <1>3, <1>4, <1>5, <1>6, <1>7, <1>8 DEF Execute

LEMMA AdaptForms ==
    ASSUME NEW o \in Objects, Adapt(o)
    PROVE  /\ active # <<>> /\ Top.obj = o
           /\ world' = world /\ lasti' = lasti
           /\ \/ AdapterAsks(o)
              \/ /\ index' = index \/ EnumerateNext(o)
                 /\ running' = running /\ yielded' = yielded /\ top' = top /\ received' = received
                 /\ \/ \E r : r # Nothing /\ Answer(r)
                    \/ active' = active /\ result' = Nothing
                    \/ /\ ZipNext(o) /\ result' = Nothing
                       /\ active' = [active EXCEPT ![Len(active)].got = Append(Top.got, result.value)]
<1>1. active # <<>> /\ Top.obj = o /\ world' = world /\ lasti' = lasti
  BY DEF Adapt, AdapterAsks, AdapterFails, EnumerateNext, FilterNext, ZipNext, Adapter, Adapts
<1>2. CASE AdapterFails(o)
  <2>1. result # Nothing
    BY <1>2 DEF AdapterFails, Nothing
  <2> QED BY <1>1, <1>2, <2>1 DEF AdapterFails, frames
<1>3. CASE EnumerateNext(o)
  BY <1>1, <1>3, NothingIsNoAnswer DEF EnumerateNext, frames
<1>4. CASE FilterNext(o)
  <2>1. result # Nothing
    BY <1>4 DEF FilterNext, Nothing
  <2> QED BY <1>1, <1>4, <2>1 DEF FilterNext, frames
<1>5. CASE ZipNext(o)
  BY <1>1, <1>5, NothingIsNoAnswer DEF ZipNext, frames
<1> QED BY <1>1, <1>2, <1>3, <1>4, <1>5 DEF Adapt

-------------------------------------------------------------------------------
LEMMA AsksForChain ==
    ASSUME TreeInv, NEW g \in Objects, Execute(g), AsksFor(g)
    PROVE  ChainInv(active, result, lasti)'
<1> DEFINE opcode == Code(g)[lasti[g] + 1]
           v      == IF opcode.op = "from" THEN top[g] ELSE None
<1>1. /\ IterationInv /\ TypeInv /\ CallsInv(active, running) /\ Linked(active, lasti)
      /\ Based(active) /\ NotTwice(active)
  BY DEF TreeInv, IterationInv, ChainInv
<1>2. /\ g \in Generators /\ active[Len(active)].obj = g /\ active # <<>>
      /\ lasti[g] \in 0 .. Len(Code(g)) - 1 /\ Len(Code(g)) \in Nat
  BY <1>1, OnTop DEF Top, WellFormed
<1>3. Fetch(g) /\ Enter(opcode.of, v, active) /\ world' = world
      /\ opcode.op \in {"next", "iter", "from"}
  BY DEF AsksFor, At
<1>4. opcode.of \in Objects
  BY <1>1, AsksForAnObject
<1>5. lasti'[g] = lasti[g] + 1 /\ \A h \in Generators : h # g => lasti'[h] = lasti[h]
  BY <1>1, <1>3 DEF Fetch, TypeInv, Generators
<1>6. Linked(active, lasti')
  BY <1>1, <1>2, <1>5, LinkedAsBefore
<1>7. Awaits(active[Len(active)], lasti', opcode.of)
  <2>1. g # 0
    BY ObjectsAssumption
  <2>2. world[g].kind = "generator"
    BY <1>2 DEF Generators, IsGenerator
  <2>3. /\ lasti[g] + 1 \in Places(world, g)
        /\ AskedAt(world, g, lasti[g] + 1) = opcode.of
    BY <2>2, <1>2, <1>3 DEF Places, AskedAt, Code, AdapterKinds
  <2> QED BY <2>1, <2>3, <1>2, <1>5 DEF Awaits, PlaceOf
<1> HIDE DEF opcode, v
<1> QED BY <1>1, <1>2, <1>3, <1>4, <1>6, <1>7, ChainEnter DEF CallsInv

LEMMA AdapterAsksChain ==
    ASSUME TreeInv, NEW o \in Objects, AdapterAsks(o)
    PROVE  ChainInv(active, result, lasti)'
<1> DEFINE i == Len(Top.got) + 1
<1>1. /\ IterationInv /\ TypeInv /\ CallsInv(active, running) /\ Linked(active, lasti)
      /\ Based(active) /\ NotTwice(active)
  BY DEF TreeInv, IterationInv, ChainInv
<1>2. /\ o \in Adapters /\ o \notin Generators /\ active # <<>> /\ Top.obj = o
      /\ i \in 1 .. Len(world[o].of) /\ world[o].of[i] \in Objects
  BY <1>1, AdapterOnTop DEF AdapterAsks
<1>3. Enter(world[o].of[i], None, active) /\ world' = world /\ lasti' = lasti
  BY DEF AdapterAsks
<1>4. Awaits(active[Len(active)], lasti', world[o].of[i])
  <2>1. o # 0
    BY ObjectsAssumption
  <2>2. world[o].kind # "generator" /\ world[o].kind \in AdapterKinds
    BY <1>2 DEF Adapters, AdapterKinds
  <2>3. i \in Places(world, o) /\ AskedAt(world, o, i) = world[o].of[i]
    BY <2>2, <1>2 DEF Places, AskedAt
  <2> QED BY <2>1, <2>3, <1>2 DEF Awaits, PlaceOf, Top
<1> HIDE DEF i
<1> QED BY <1>1, <1>2, <1>3, <1>4, ChainEnter DEF CallsInv

LEMMA AskAgainChain ==
    ASSUME TreeInv, AskAgain
    PROVE  ChainInv(active, result, lasti)'
<1>1. /\ IterationInv /\ TypeInv /\ CallsInv(active, running) /\ Linked(active, lasti)
      /\ Based(active) /\ NotTwice(active)
  BY DEF TreeInv, IterationInv, ChainInv
<1>2. /\ active # <<>> /\ Top.obj = 0 /\ Enter(Top.of, None, active)
      /\ world' = world /\ lasti' = lasti
  BY DEF AskAgain
<1>3. Top.of \in Objects
  BY <1>1, <1>2, OutsideOnTop
<1>4. Awaits(active[Len(active)], lasti', Top.of)
  BY <1>2 DEF Awaits, Top
<1> QED BY <1>1, <1>2, <1>3, <1>4, ChainEnter DEF CallsInv

LEMMA BeginChain ==
    ASSUME TreeInv, NEW how, NEW o \in Asked, NEW v, Begin(how, o, v)
    PROVE  ChainInv(active, result, lasti)'
<1> DEFINE c     == Asking(how, o, v)
           calls == <<c>>
<1>1. Enter(o, v, calls) /\ world' = world
  BY DEF Begin
<1>2. o \in Objects /\ TypeInv
  BY ObjectsAssumption DEF TreeInv, IterationInv
<1>3. c.obj = 0 /\ c.of = o /\ DOMAIN c = {"obj", "got", "how", "of", "sent"}
  BY DEF Asking
<1> HIDE DEF c
<1>4. calls \in Seq({c}) /\ Len(calls) = 1 /\ calls[1] = c /\ calls # <<>>
  OBVIOUS
<1> HIDE DEF calls
<1>5. IsStack(calls)
  <2>1. \A i \in 1 .. Len(calls) : {"obj", "got"} \subseteq DOMAIN calls[i]
    BY <1>3, <1>4
  <2> QED BY <2>1, <1>4 DEF IsStack
<1>6. Outside(calls) /\ Based(calls) /\ Linked(calls, lasti') /\ NotTwice(calls)
  BY <1>2, <1>3, <1>4 DEF Outside, Based, Linked, NotTwice
<1>7. Awaits(calls[Len(calls)], lasti', o)
  BY <1>3, <1>4 DEF Awaits
<1> QED BY <1>1, <1>2, <1>4, <1>5, <1>6, <1>7, ChainEnter

LEMMA HearChain ==
    ASSUME TreeInv, Hear
    PROVE  ChainInv(active, result, lasti)'
<1>1. /\ active # <<>> /\ Top.obj = 0 /\ result' = Nothing /\ world' = world /\ lasti' = lasti
  BY DEF Hear
<1>2. Len(active) = 1
  BY <1>1, OutsideOnTop DEF TreeInv
<1>3. CASE \E got : active' = [active EXCEPT ![1].got = got]
  BY <1>1, <1>2, <1>3, ChainGot
<1>4. CASE active' = <<>>
  BY <1>1, <1>4, SameWorldSameChain DEF ChainInv, Based, Linked, TopAwaits, NotTwice
<1> QED BY <1>3, <1>4 DEF Hear

LEMMA TreeStep == TreeInv /\ [Next]_vars => TreeInv'
<1> SUFFICES ASSUME TreeInv, [Next]_vars PROVE ChainInv(active, result, lasti)'
  BY IterationStep DEF TreeInv
<1>1. CASE \E g \in Objects : Execute(g)
  <2> PICK g \in Objects : Execute(g)
    BY <1>1
  <2>1. Top.obj = g /\ active # <<>>
    BY OnTop DEF TreeInv
  <2>2. \A h \in Generators : h # g => lasti'[h] = lasti[h]
    BY ExecuteForms DEF TreeInv, Generators
  <2>3. CASE AsksFor(g)
    BY <2>3, AsksForChain
  <2>4. CASE world' = world /\ \E r : Answer(r)
    BY <2>1, <2>2, <2>4, ChainAnswer
  <2>5. CASE world' = world /\ active' = active /\ result' = Nothing
    BY <2>1, <2>2, <2>5, ChainStays
  <2> QED BY <2>3, <2>4, <2>5, ExecuteForms DEF TreeInv
<1>2. CASE \E o \in Objects : Adapt(o)
  <2> PICK o \in Objects : Adapt(o)
    BY <1>2
  <2>1. active # <<>> /\ world' = world /\ lasti' = lasti
    BY AdaptForms
  <2>2. CASE AdapterAsks(o)
    BY <2>2, AdapterAsksChain
  <2>3. CASE \E r : Answer(r)
    BY <2>1, <2>3, ChainAnswer
  <2>4. CASE active' = active /\ result' = Nothing
    BY <2>1, <2>4, ChainStays
  <2>5. CASE result' = Nothing /\ \E got : active' = [active EXCEPT ![Len(active)].got = got]
    BY <2>1, <2>5, ChainGot
  <2> QED BY <2>2, <2>3, <2>4, <2>5, AdaptForms
<1>3. CASE AskAgain
  BY <1>3, AskAgainChain
<1>4. CASE Hear
  BY <1>4, HearChain
<1>5. CASE \E how \in {"next", "send", "list", "all", "for"}, o \in Asked,
              v \in Sent \cup {None} : Begin(how, o, v)
  BY <1>5, BeginChain
<1>6. CASE UNCHANGED vars
  <2>1. world' = world /\ active' = active /\ result' = result /\ lasti' = lasti
    BY <1>6 DEF vars
  <2> QED BY <2>1, SameWorldSameChain DEF TreeInv
<1> QED BY <1>1, <1>2, <1>3, <1>4, <1>5, <1>6 DEF Next, Running

LEMMA TreeStart == Init => TreeInv
<1> SUFFICES ASSUME Init PROVE ChainInv(active, result, lasti)
  BY IterationStart DEF TreeInv
<1> QED BY DEF Init, ChainInv, Based, Linked, TopAwaits, NotTwice

-------------------------------------------------------------------------------
(* What is sent goes through a yield from.  The generator g yields from o at   *)
(* place k of its code, and nobody else asks o.                                *)
IsFrom(g, k) ==
    /\ g \in Generators /\ k \in 1 .. Len(Code(g))
    /\ Code(g)[k].op = "from" /\ Code(g)[k].of \in Generators

Untouched(o) == lasti[o] = 0 /\ ~running[o] /\ received[o] = <<>>

\* Until g comes to the place nothing happens to o; while g rests there, or is
\* about to pass on what it has been sent, o has not been sent that yet; while o
\* is executed, and when it has given an item, both have been sent the same.
Passes(g, k, o) ==
    /\ lasti[g] < k - 1 => Untouched(o)
    /\ lasti[g] = k - 1 =>
          \/ Untouched(o)
          \/ /\ lasti[o] # 0 /\ ~running[o]
             /\ running[g] => EndsWith(received[g], Append(received[o], top[g]))
             /\ ~running[g] => EndsWith(received[g], received[o])
    /\ running[o] => running[g] /\ lasti[g] = k /\ EndsWith(received[g], received[o])
    /\ active # <<>> /\ Top.obj = g /\ lasti[g] = k /\ result.type = "item" =>
          lasti[o] # 0 /\ EndsWith(received[g], received[o])

SentTypes == \E S : top \in [Objects -> S] /\ received \in [Objects -> Seq(S)]

ArriveInv ==
    /\ TreeInv
    /\ SentTypes
    /\ IsTree(world) => \A g, k : IsFrom(g, k) => Passes(g, k, Code(g)[k].of)

LEMMA EndsWithNothing ==
    ASSUME NEW S, NEW all \in Seq(S)
    PROVE  EndsWith(all, <<>>)
BY DEF EndsWith

LEMMA EndsWithOneMore ==
    ASSUME NEW S, NEW all \in Seq(S), NEW last \in Seq(S), EndsWith(all, last), NEW v
    PROVE  EndsWith(Append(all, v), Append(last, v))
<1> DEFINE n == Len(all)
           m == Len(last)
           T == S \cup {v}
<1>1. all \in Seq(T) /\ last \in Seq(T) /\ v \in T
  OBVIOUS
<1>2. n \in Nat /\ m \in Nat /\ m <= n
  BY DEF EndsWith
<1>3. /\ Len(Append(all, v)) = n + 1 /\ Len(Append(last, v)) = m + 1
      /\ \A i \in 1 .. n : Append(all, v)[i] = all[i]
      /\ \A i \in 1 .. m : Append(last, v)[i] = last[i]
      /\ Append(all, v)[n + 1] = v /\ Append(last, v)[m + 1] = v
  BY <1>1
<1>4. \A i \in 1 .. m : all[n - m + i] = last[i]
  BY DEF EndsWith
<1> HIDE DEF n, m
<1> SUFFICES ASSUME NEW i \in 1 .. m + 1
             PROVE  Append(all, v)[n + 1 - (m + 1) + i] = Append(last, v)[i]
  BY <1>2, <1>3 DEF EndsWith, n, m
<1>5. n + 1 - (m + 1) + i = n - m + i
  BY <1>2
<1>6. CASE i = m + 1
  <2>1. n - m + i = n + 1
    BY <1>2, <1>6
  <2> QED BY <2>1, <1>3, <1>5, <1>6
<1>7. CASE i # m + 1
  <2>1. i \in 1 .. m /\ n - m + i \in 1 .. n
    BY <1>2, <1>7
  <2> QED BY <2>1, <1>3, <1>4, <1>5
<1> QED BY <1>6, <1>7

(* The place where g yields from o is the only one where o is asked.          *)
LEMMA FromIsAPlace ==
    ASSUME TypeInv, IsTree(world), NEW g, NEW k, IsFrom(g, k)
    PROVE  /\ g \in Objects /\ Code(g)[k].of \in Objects /\ IsGenerator(g)
           /\ k \in Places(world, g) /\ AskedAt(world, g, k) = Code(g)[k].of
           /\ k \in Nat /\ k > 1 /\ Code(g)[k - 1].op = "call"
           /\ Straight(Code(g)) /\ WellFormed(Code(g))
           /\ Code(g)[k].of \notin Asked
<1>1. g \in Objects /\ Code(g)[k].of \in Objects /\ world[g].kind = "generator" /\ IsGenerator(g)
  BY DEF IsFrom, Generators, IsGenerator
<1>2. k \in Places(world, g) /\ AskedAt(world, g, k) = Code(g)[k].of
  BY <1>1 DEF Places, AskedAt, Code, AdapterKinds, IsFrom
<1>3. Straight(Code(g)) /\ Code(g)[k].of \notin Asked
  BY <1>1, <1>2 DEF IsTree, Code
<1>4. WellFormed(Code(g))
  BY CodeIsWellFormed DEF IsFrom
<1>5. k \in 1 .. Len(Code(g)) /\ Len(Code(g)) \in Nat /\ Code(g)[k].op = "from"
  BY <1>4 DEF IsFrom, WellFormed
<1>6. \A i \in 1 .. Len(Code(g)) : Code(g)[i].op = "from" => i > 1 /\ Code(g)[i - 1].op = "call"
  BY <1>3 DEF Straight
<1>7. k \in Nat /\ k > 1 /\ Code(g)[k - 1].op = "call"
  BY <1>5, <1>6
<1> QED BY <1>1, <1>2, <1>3, <1>4, <1>7

(* While o is executed g waits for it, and is another.                        *)
LEMMA WaitsForSub ==
    ASSUME TreeInv, IsTree(world), NEW g, NEW k, IsFrom(g, k), running[Code(g)[k].of]
    PROVE  /\ running[g] /\ lasti[g] = k /\ g # Code(g)[k].of
           /\ active # <<>> /\ Top.obj # g
<1> DEFINE o == Code(g)[k].of
<1>1. /\ TypeInv /\ CallsInv(active, running) /\ Linked(active, lasti)
      /\ Based(active) /\ NotTwice(active)
  BY DEF TreeInv, IterationInv, ChainInv
<1>2. /\ g \in Objects /\ o \in Generators /\ o \in Objects /\ g \in Generators
      /\ k \in Places(world, g) /\ AskedAt(world, g, k) = o
  BY <1>1, FromIsAPlace DEF IsFrom
<1>3. PICK i \in 1 .. Len(active) : active[i].obj = o
  BY <1>1, <1>2 DEF CallsInv, Marked
<1> HIDE DEF o
<1>4. i - 1 \in 1 .. Len(active) /\ active[i - 1].obj = g /\ PlaceOf(active[i - 1], lasti) = k
  BY <1>1, <1>2, <1>3, AskerBelow DEF CallsInv
<1>5. running[g] /\ lasti[g] = k
  BY <1>1, <1>2, <1>4 DEF CallsInv, Marked, PlaceOf
<1>6. active # <<>> /\ Len(active) \in Nat \ {0}
  <2>1. active # <<>>
    BY <1>3
  <2> QED BY <2>1, <1>1, StackShrinks DEF CallsInv
<1>7. \A m \in 1 .. Len(active) : active[m].obj = g => m = i - 1
  BY <1>1, <1>4 DEF NotTwice
<1>8. g # o
  BY <1>3, <1>7
<1>9. Top.obj # g
  <2>1. Len(active) \in 1 .. Len(active) /\ Len(active) # i - 1
    BY <1>6, <1>3
  <2> QED BY <2>1, <1>7 DEF Top
<1> QED BY <1>5, <1>6, <1>8, <1>9 DEF o

(* What is answered to g at the place comes from o.                           *)
LEMMA SubAnswers ==
    ASSUME TreeInv, IsTree(world), NEW g, NEW k, IsFrom(g, k), active # <<>>, NEW r, Answer(r),
           active' # <<>>, Top'.obj = g, lasti[g] = k
    PROVE  Top.obj = Code(g)[k].of
<1>1. /\ TypeInv /\ CallsInv(active, running) /\ Linked(active, lasti)
  BY DEF TreeInv, IterationInv, ChainInv
<1> DEFINE n == Len(active)
<1>2. active' = SubSeq(active, 1, n - 1)
  BY DEF Answer, Below
<1>3. /\ IsStack(active') /\ n \in Nat \ {0} /\ Len(active') = n - 1
      /\ \A i \in 1 .. n - 1 : active'[i] = active[i]
  BY <1>1, <1>2, StackShrinks DEF CallsInv
<1>4. n - 1 \in 1 .. n - 1
  <2>1. PICK S : active' \in Seq(S)
    BY <1>3 DEF IsStack
  <2> QED BY <2>1, <1>3
<1>5. active[n - 1].obj = g /\ Awaits(active[n - 1], lasti, active[n].obj)
  BY <1>1, <1>3, <1>4 DEF Top, Linked
<1>6. g \in Generators /\ g \in Objects /\ g # 0 /\ AskedAt(world, g, k) = Code(g)[k].of
  BY <1>1, FromIsAPlace, ObjectsAssumption DEF IsFrom
<1> QED BY <1>5, <1>6 DEF Awaits, PlaceOf, Top

(* How the code of g is gone through: the place is come to from the call      *)
(* before it, and left for good but to yield what o has given.                *)
LEMMA MovesByThePlace ==
    ASSUME IterationInv, IsTree(world), NEW g \in Objects, Execute(g), NEW k, IsFrom(g, k)
    PROVE  /\ lasti[g] \in Nat /\ lasti'[g] \in Nat
           /\ lasti[g] < k - 1 => lasti'[g] <= k - 1
           /\ lasti[g] = k - 1 => AsksFor(g)
           /\ \/ lasti[g] < k
              \/ lasti'[g] >= k
              \/ lasti[g] = k /\ lasti'[g] = k - 1 /\ result.type = "item"
                 /\ YieldValue(g, result.value)
<1> DEFINE code == Code(g)
           n    == Len(code)
           L    == lasti[g]
<1>1. TypeInv
  BY DEF IterationInv
<1>2. /\ n \in Nat \ {0} /\ L \in 0 .. n - 1 /\ (result # Nothing => L \in 1 .. n - 1)
      /\ lasti \in [Objects -> Nat]
  BY <1>1, OnTop DEF WellFormed, TypeInv
<1>3. /\ k \in 1 .. n /\ k > 1 /\ code[k].op = "from" /\ code[k - 1].op = "call"
  BY <1>1, FromIsAPlace DEF IsFrom
<1>4. Straight(code)
  BY <1>1, FromIsAPlace
<1>5. \A i \in 1 .. n :
        /\ code[i].op = "from" => i > 1 /\ code[i - 1].op = "call"
        /\ code[i].op = "iter" => /\ i + 2 <= n
                                  /\ code[i + 1].op = "yield top"
                                  /\ code[i + 2].op = "jump"
                                  /\ code[i].exit = i + 2
        /\ code[i].op = "jump" => i > 2 /\ code[i - 2].op = "iter" /\ code[i].to = i - 3
  BY <1>4 DEF Straight
<1>6. ASSUME Fetch(g) PROVE lasti'[g] = L + 1
  BY <1>2, <1>6 DEF Fetch
<1>7. CASE AsksFor(g)
  BY <1>2, <1>3, <1>6, <1>7 DEF AsksFor
<1>8. ASSUME NEW op, op # "from", At(g, op) PROVE L # k - 1
  BY <1>2, <1>3, <1>8 DEF At
<1>9. CASE Yields(g) \/ YieldsTop(g) \/ Raises(g) \/ ReturnValue(g) \/ CallFunction(g)
  <2>1. Fetch(g) /\ \E op : op # "from" /\ At(g, op)
    BY <1>9 DEF Yields, YieldsTop, Raises, ReturnValue, CallFunction
  <2>2. lasti'[g] = L + 1 /\ L # k - 1
    BY <2>1, <1>6, <1>8
  <2> HIDE DEF code, n, L
  <2> QED BY <2>2, <1>2, <1>3 DEF L
<1>10. CASE JumpAbsolute(g)
  <2>1. At(g, "jump") /\ lasti' = [lasti EXCEPT ![g] = code[L + 1].to]
    BY <1>10 DEF JumpAbsolute
  <2>2. L # k - 1 /\ code[L + 1].op = "jump" /\ lasti'[g] = code[L + 1].to
    BY <2>1, <1>2, <1>8 DEF At
  <2>3. PICK i \in 1 .. n : i = L + 1
    BY <1>2
  <2>4. i > 2 /\ code[i - 2].op = "iter" /\ lasti'[g] = i - 3
    BY <2>2, <2>3, <1>5
  <2>5. k # i - 2 /\ k - 1 # i - 2
    BY <2>4, <1>3
  <2> HIDE DEF code, n, L
  <2>6. L \in Nat /\ lasti'[g] \in Nat /\ k \in Nat
    BY <2>4, <1>2, <1>3
  <2>7. (L < k - 1 => lasti'[g] <= k - 1) /\ (L < k \/ lasti'[g] >= k)
    BY <2>2, <2>3, <2>4, <2>5, <2>6
  <2> QED BY <2>2, <2>6, <2>7 DEF L
<1>11. CASE ForIter(g)
  <2>1. /\ Answered(g, "iter")
        /\ lasti' = lasti \/ lasti' = [lasti EXCEPT ![g] = code[L].exit]
    BY <1>11 DEF ForIter
  <2>2. /\ L \in 1 .. n - 1 /\ code[L].op = "iter"
        /\ lasti'[g] = L \/ lasti'[g] = code[L].exit
    BY <2>1, <1>2 DEF Answered
  <2>3. L \in 1 .. n
    BY <2>2, <1>2
  <2>4. code[L + 2].op = "jump" /\ code[L + 1].op = "yield top"
        /\ (lasti'[g] = L \/ lasti'[g] = L + 2)
    BY <2>2, <2>3, <1>5
  <2>5. L # k - 1 /\ k # L + 2 /\ k # L + 1
    BY <2>2, <2>4, <1>3
  <2> HIDE DEF code, n, L
  <2>6. L \in Nat /\ k \in Nat
    BY <1>2, <1>3
  <2>7. CASE lasti'[g] = L
    BY <2>5, <2>6, <2>7 DEF L
  <2>8. CASE lasti'[g] = L + 2
    <3>1. /\ lasti'[g] \in Nat /\ (L < k - 1 => lasti'[g] <= k - 1)
          /\ L < k \/ lasti'[g] >= k
      BY <2>5, <2>6, <2>8
    <3> QED BY <2>5, <2>6, <3>1 DEF L
  <2> QED BY <2>4, <2>7, <2>8
<1>12. CASE NextAnswers(g)
  <2>1. lasti' = lasti /\ L \in 1 .. n - 1 /\ code[L].op = "next"
    BY <1>2, <1>12 DEF NextAnswers, Answered
  <2>2. L # k - 1
    BY <2>1, <1>3
  <2> HIDE DEF code, n, L
  <2> QED BY <2>1, <2>2, <1>2, <1>3 DEF L
<1>13. CASE YieldFrom(g)
  <2>1. /\ L \in 1 .. n - 1 /\ code[L].op = "from"
        /\ \/ lasti' = lasti
           \/ /\ lasti' = [lasti EXCEPT ![g] = @ - 1]
              /\ result.type = "item" /\ YieldValue(g, result.value)
    BY <1>2, <1>13 DEF YieldFrom, Answered
  <2>2. L # k - 1
    BY <2>1, <1>3
  <2>3. L # k + 1
    <3>1. L \in 1 .. n
      BY <2>1, <1>2
    <3>2. code[L - 1].op = "call"
      BY <2>1, <3>1, <1>5
    <3>3. L - 1 # k
      BY <3>2, <1>3
    <3> HIDE DEF code, n, L
    <3> QED BY <3>3, <1>2, <1>3
  <2>4. CASE lasti' = lasti
    <3> HIDE DEF code, n
    <3> QED BY <2>2, <2>4, <1>2, <1>3
  <2>5. CASE /\ lasti' = [lasti EXCEPT ![g] = @ - 1]
             /\ result.type = "item" /\ YieldValue(g, result.value)
    <3>1. lasti'[g] = L - 1
      BY <2>5, <1>2
    <3> HIDE DEF code, n, L
    <3> QED BY <3>1, <2>1, <2>2, <2>3, <2>5, <1>2, <1>3 DEF L
  <2> QED BY <2>1, <2>4, <2>5
<1> QED BY <1>7, <1>9, <1>10, <1>11, <1>12, <1>13 DEF Execute

(* Asking an object leaves the frames of the others as they are.              *)
LEMMA EnterFrames ==
    ASSUME TypeInv, SentTypes, NEW c \in Objects, NEW v, NEW calls, Enter(c, v, calls)
    PROVE  /\ SentTypes'
           /\ \A x \in Objects : x # c => /\ running'[x] = running[x] /\ top'[x] = top[x]
                                          /\ received'[x] = received[x]
           /\ \/ /\ active' = calls /\ running' = running /\ top' = top /\ received' = received
                 /\ c \in Generators => result'.type # "item"
              \/ /\ active' = Append(calls, Calling(c)) /\ result' = Nothing
                 /\ c \in Generators =>
                      /\ ~running[c] /\ running'[c]
                      /\ lasti[c] = 0 => received' = received
                      /\ lasti[c] # 0 => top'[c] = v /\ received'[c] = Append(received[c], v)
                 /\ c \notin Generators => running' = running /\ top' = top /\ received' = received
<1>1. PICK S : top \in [Objects -> S] /\ received \in [Objects -> Seq(S)]
  BY DEF SentTypes
<1>2. running \in [Objects -> BOOLEAN]
  BY DEF TypeInv
<1>3. top' = top /\ received' = received => SentTypes'
  BY <1>1 DEF SentTypes
<1>4. CASE IsGenerator(c)
  <2>1. c \in Generators /\ Send(c, v, calls)
    BY <1>4 DEF Generators, Enter, IsGenerator
  <2>2. CASE running[c] \/ (lasti[c] = 0 /\ v # None) \/ Over(c)
    <3>1. /\ active' = calls /\ running' = running /\ top' = top /\ received' = received
          /\ result' \in {Failed, Stop}
      BY <1>2, <2>1, <2>2 DEF Send, frames
    <3>2. result'.type # "item"
      BY <3>1 DEF Failed, Stop
    <3> QED BY <3>1, <3>2, <1>3
  <2>3. CASE ~(running[c] \/ (lasti[c] = 0 /\ v # None) \/ Over(c))
    <3>1. /\ running' = [running EXCEPT ![c] = TRUE] /\ active' = Append(calls, Calling(c))
          /\ result' = Nothing
          /\ IF lasti[c] = 0 THEN top' = top /\ received' = received
             ELSE /\ top' = [top EXCEPT ![c] = v]
                  /\ received' = [received EXCEPT ![c] = Append(@, v)]
      BY <1>2, <2>1, <2>3 DEF Send
    <3>2. CASE lasti[c] = 0
      BY <3>1, <3>2, <2>1, <2>3, <1>2, <1>3
    <3>3. CASE lasti[c] # 0
      <4>1. /\ received[c] \in Seq(S) /\ received' = [received EXCEPT ![c] = Append(received[c], v)]
            /\ top' = [top EXCEPT ![c] = v]
        BY <3>1, <3>3, <1>1
      <4>2. /\ Append(received[c], v) \in Seq(S \cup {v})
            /\ \A x \in Objects : received[x] \in Seq(S \cup {v})
        <5>1. Seq(S) \subseteq Seq(S \cup {v})
          OBVIOUS
        <5> QED BY <5>1, <4>1, <1>1
      <4>3. received' \in [Objects -> Seq(S \cup {v})] /\ top' \in [Objects -> S \cup {v}]
        BY <4>1, <4>2, <1>1
      <4>4. SentTypes'
        BY <4>3 DEF SentTypes
      <4> QED BY <4>1, <4>4, <3>1, <3>3, <2>1, <2>3, <1>1, <1>2
    <3> QED BY <3>2, <3>3
  <2> QED BY <2>2, <2>3
<1>5. CASE ~IsGenerator(c)
  <2>1. c \notin Generators
    BY <1>5 DEF Generators
  <2>2. /\ running' = running /\ top' = top /\ received' = received
        /\ active' = calls \/ (active' = Append(calls, Calling(c)) /\ result' = Nothing)
    BY <1>5 DEF Enter, NextOfSequence, frames
  <2> QED BY <2>1, <2>2, <1>3
<1> QED BY <1>4, <1>5

(* The same places in the next state.                                         *)
LEMMA SameFroms ==
    ASSUME world' = world, NEW g, NEW k
    PROVE  /\ IsFrom(g, k)' <=> IsFrom(g, k)
           /\ Code(g)' = Code(g)
<1>1. Generators' = Generators
  BY DEF Generators, IsGenerator
<1> QED BY <1>1 DEF IsFrom, Code

(* An ask, of any object but o, by what does not come to the place with it.   *)
LEMMA OtherEnterPasses ==
    ASSUME ArriveInv, IsTree(world), NEW g, NEW k, IsFrom(g, k), NEW o, o = Code(g)[k].of,
           NEW c \in Objects, NEW v, NEW calls, Enter(c, v, calls), c # o,
           calls # <<>> /\ calls[Len(calls)].obj = g => lasti'[g] # k,
           running[o] => lasti'[g] = lasti[g],
           ~running[o] => lasti'[o] = lasti[o],
           \/ lasti'[g] = lasti[g]
           \/ running[g] /\ lasti'[g] = lasti[g] + 1
    PROVE  Passes(g, k, o)'
<1>1. /\ TreeInv /\ TypeInv /\ SentTypes /\ Passes(g, k, o)
      /\ lasti \in [Objects -> Nat] /\ running \in [Objects -> BOOLEAN]
  BY DEF ArriveInv, TreeInv, IterationInv, TypeInv
<1>2. g \in Objects /\ o \in Objects /\ o \in Generators /\ g \in Generators /\ k \in Nat /\ k > 1
  BY <1>1, FromIsAPlace DEF IsFrom
<1>3. running'[o] = running[o] /\ received'[o] = received[o]
  BY <1>1, <1>2, EnterFrames
<1>4. lasti[g] \in Nat /\ lasti[o] \in Nat
  BY <1>1, <1>2
<1>5. lasti'[g] < k - 1 => Untouched(o)'
  <2> SUFFICES ASSUME lasti'[g] < k - 1 PROVE Untouched(o)'
    OBVIOUS
  <2>1. lasti[g] < k - 1
    BY <1>2, <1>4
  <2> QED BY <2>1, <1>1, <1>3 DEF Passes, Untouched
<1>6. ASSUME lasti'[g] = k - 1
      PROVE  \/ Untouched(o)'
             \/ /\ lasti'[o] # 0 /\ ~running'[o]
                /\ running'[g] => EndsWith(received'[g], Append(received'[o], top'[g]))
                /\ ~running'[g] => EndsWith(received'[g], received'[o])
  <2>1. CASE lasti[g] # k - 1
    <3>1. lasti[g] < k - 1
      BY <2>1, <1>2, <1>4, <1>6
    <3> QED BY <3>1, <1>1, <1>3 DEF Passes, Untouched
  <2>2. CASE lasti[g] = k - 1
    <3>1. CASE Untouched(o)
      BY <3>1, <1>3 DEF Untouched
    <3>2. CASE ~Untouched(o)
      <4>1. /\ lasti[o] # 0 /\ ~running[o]
            /\ running[g] => EndsWith(received[g], Append(received[o], top[g]))
            /\ ~running[g] => EndsWith(received[g], received[o])
        BY <2>2, <3>2, <1>1 DEF Passes
      <4>2. CASE running'[g] = running[g] /\ top'[g] = top[g] /\ received'[g] = received[g]
        BY <4>1, <4>2, <1>3
      <4>3. CASE ~(running'[g] = running[g] /\ top'[g] = top[g] /\ received'[g] = received[g])
        <5>1. /\ c = g /\ ~running[g] /\ running'[g]
              /\ top'[g] = v /\ received'[g] = Append(received[g], v)
          <6>1. c = g
            BY <4>3, <1>1, <1>2, EnterFrames
          <6>2. lasti[g] # 0
            BY <2>2, <1>2
          <6> QED BY <6>1, <6>2, <4>3, <1>1, <1>2, EnterFrames
        <5>2. PICK S : received \in [Objects -> Seq(S)]
          BY <1>1 DEF SentTypes
        <5>3. EndsWith(received[g], received[o]) /\ received[g] \in Seq(S) /\ received[o] \in Seq(S)
          BY <4>1, <5>1, <5>2, <1>2
        <5>4. EndsWith(Append(received[g], v), Append(received[o], v))
          BY <5>3, EndsWithOneMore
        <5> QED BY <5>1, <5>4, <4>1, <1>3
      <4> QED BY <4>2, <4>3
    <3> QED BY <3>1, <3>2
  <2> QED BY <2>1, <2>2
<1>7. running'[o] => running'[g] /\ lasti'[g] = k /\ EndsWith(received'[g], received'[o])
  <2> SUFFICES ASSUME running[o]
               PROVE  running'[g] /\ lasti'[g] = k /\ EndsWith(received'[g], received'[o])
    BY <1>3
  <2>1. running[g] /\ lasti[g] = k /\ EndsWith(received[g], received[o])
    BY <1>1 DEF Passes
  <2>2. running'[g] /\ received'[g] = received[g]
    BY <2>1, <1>1, <1>2, EnterFrames
  <2> QED BY <2>1, <2>2, <1>3
<1>8. active' # <<>> /\ Top'.obj = g /\ lasti'[g] = k => result'.type # "item"
  <2>1. CASE active' = calls
    BY <2>1 DEF Top
  <2>2. CASE result' = Nothing
    BY <2>2 DEF Nothing
  <2> QED BY <2>1, <2>2, <1>1, EnterFrames
<1> QED BY <1>5, <1>6, <1>7, <1>8 DEF Passes

(* The ask of g at the place.                                                 *)
LEMMA SubEnterPasses ==
    ASSUME ArriveInv, IsTree(world), NEW g, NEW k, IsFrom(g, k), NEW o, o = Code(g)[k].of,
           NEW calls, Enter(o, top[g], calls), running[g], lasti[g] = k - 1, lasti'[g] = k
    PROVE  Passes(g, k, o)'
<1>1. /\ TreeInv /\ TypeInv /\ SentTypes /\ Passes(g, k, o)
      /\ lasti \in [Objects -> Nat] /\ running \in [Objects -> BOOLEAN]
  BY DEF ArriveInv, TreeInv, IterationInv, TypeInv
<1>2. g \in Objects /\ o \in Objects /\ o \in Generators /\ k \in Nat /\ k > 1
  BY <1>1, FromIsAPlace DEF IsFrom
<1>3. ~running[o]
  BY <1>1, <1>2 DEF Passes, Untouched
<1>4. running'[g] /\ received'[g] = received[g]
  BY <1>1, <1>2, <1>3, EnterFrames
<1>5. PICK S : received \in [Objects -> Seq(S)]
  BY <1>1 DEF SentTypes
<1>6. running'[o] => EndsWith(received'[g], received'[o])
  <2> SUFFICES ASSUME running'[o] PROVE EndsWith(received'[g], received'[o])
    OBVIOUS
  <2>1. CASE lasti[o] = 0
    <3>1. Untouched(o)
      BY <2>1, <1>1 DEF Passes
    <3>2. received'[o] = <<>>
      BY <3>1, <2>1, <1>1, <1>2, <1>3, EnterFrames DEF Untouched
    <3> QED BY <3>2, <1>2, <1>4, <1>5, EndsWithNothing
  <2>2. CASE lasti[o] # 0
    <3>1. EndsWith(received[g], Append(received[o], top[g]))
      BY <2>2, <1>1 DEF Passes, Untouched
    <3>2. received'[o] = Append(received[o], top[g])
      BY <2>2, <1>1, <1>2, <1>3, EnterFrames
    <3> QED BY <3>1, <3>2, <1>4
  <2> QED BY <2>1, <2>2
<1>7. result'.type # "item"
  BY <1>1, <1>2, EnterFrames DEF Nothing
<1> QED BY <1>2, <1>4, <1>6, <1>7 DEF Passes

(* A frame that goes on touches no other frame.                               *)
LEMMA ExecuteFrames ==
    ASSUME TypeInv, SentTypes, NEW h \in Objects, Execute(h), ~AsksFor(h)
    PROVE  /\ SentTypes' /\ received' = received
           /\ \A x \in Objects : x # h => running'[x] = running[x] /\ top'[x] = top[x]
           /\ running'[h] => running[h]
<1>1. PICK S : top \in [Objects -> S] /\ received \in [Objects -> Seq(S)]
  BY DEF SentTypes
<1>2. running \in [Objects -> BOOLEAN]
  BY DEF TypeInv
<1>3. received' = received /\ (top' = top \/ \E v : top' = [top EXCEPT ![h] = v])
      /\ (running' = running \/ running' = [running EXCEPT ![h] = FALSE])
  <2>1. CASE \/ Yields(h) \/ YieldsTop(h) \/ JumpAbsolute(h) \/ Raises(h) \/ ReturnValue(h)
             \/ CallFunction(h)
    BY <2>1 DEF Yields, YieldsTop, JumpAbsolute, Raises, ReturnValue, CallFunction,
                YieldValue, Leave, frames
  <2>2. CASE ForIter(h) \/ YieldFrom(h) \/ NextAnswers(h)
    BY <2>2 DEF ForIter, YieldFrom, NextAnswers, YieldValue, Leave
  <2> QED BY <2>1, <2>2 DEF Execute
<1>4. SentTypes'
  <2>1. CASE top' = top
    BY <2>1, <1>1, <1>3 DEF SentTypes
  <2>2. ASSUME NEW v, top' = [top EXCEPT ![h] = v] PROVE SentTypes'
    <3>1. top' \in [Objects -> S \cup {v}]
      BY <2>2, <1>1
    <3>2. received' \in [Objects -> Seq(S \cup {v})]
      <4>1. Seq(S) \subseteq Seq(S \cup {v})
        OBVIOUS
      <4> QED BY <4>1, <1>1, <1>3
    <3> QED BY <3>1, <3>2 DEF SentTypes
  <2> QED BY <2>1, <2>2, <1>3
<1> QED BY <1>1, <1>2, <1>3, <1>4

(* What has yielded is past the start of its code.                            *)
LEMMA YieldedPastStart ==
    ASSUME IterationInv, IsTree(world), NEW h \in Objects, Execute(h), ~AsksFor(h),
           result'.type = "item"
    PROVE  lasti'[h] # 0
<1>1. /\ WellFormed(Code(h)) /\ Len(Code(h)) \in Nat \ {0} /\ lasti[h] \in 0 .. Len(Code(h)) - 1
      /\ result # Nothing => lasti[h] \in 1 .. Len(Code(h)) - 1
      /\ lasti \in [Objects -> Nat] /\ world[h].kind = "generator"
  BY OnTop DEF IterationInv, TypeInv, WellFormed, Generators, IsGenerator
<1>2. Straight(Code(h))
  BY <1>1 DEF IsTree, Code
<1>3. CASE Yields(h) \/ YieldsTop(h)
  <2>1. lasti' = [lasti EXCEPT ![h] = @ + 1]
    BY <1>3 DEF Yields, YieldsTop, Fetch
  <2> QED BY <2>1, <1>1
<1>4. CASE YieldFrom(h)
  <2>1. /\ Code(h)[lasti[h]].op = "from" /\ lasti[h] \in 1 .. Len(Code(h)) - 1
        /\ lasti' = lasti \/ lasti' = [lasti EXCEPT ![h] = @ - 1]
    BY <1>1, <1>4 DEF YieldFrom, Answered
  <2>2. \A i \in 1 .. Len(Code(h)) : Code(h)[i].op = "from" => i > 1
    BY <1>2 DEF Straight
  <2>3. lasti[h] > 1
    BY <2>1, <2>2, <1>1
  <2> QED BY <2>1, <2>3, <1>1
<1>5. CASE JumpAbsolute(h) \/ CallFunction(h) \/ ForIter(h)
  <2>1. result' = Nothing
    BY <1>5 DEF JumpAbsolute, CallFunction, ForIter, At
  <2> QED BY <2>1 DEF Nothing
<1>6. CASE Raises(h) \/ ReturnValue(h) \/ NextAnswers(h)
  <2>1. result' \in {Nothing, Failed, Stop, Stopped}
    BY <1>6 DEF Raises, ReturnValue, NextAnswers, Leave, Answer
  <2> QED BY <2>1 DEF Nothing, Failed, Stop, Stopped
<1> QED BY <1>3, <1>4, <1>5, <1>6 DEF Execute

(* A step that leaves g as it is, and o too unless it is executed.            *)
LEMMA OtherStepPasses ==
    ASSUME ArriveInv, IsTree(world), NEW g, NEW k, IsFrom(g, k), NEW o, o = Code(g)[k].of,
           lasti'[g] = lasti[g], running'[g] = running[g], top'[g] = top[g],
           received' = received, running'[o] => running[o],
           ~running[o] => lasti'[o] = lasti[o],
           active' # <<>> /\ Top'.obj = g /\ lasti[g] = k /\ result'.type = "item" =>
              running[o] /\ lasti'[o] # 0
    PROVE  Passes(g, k, o)'
<1>1. Passes(g, k, o)
  BY DEF ArriveInv
<1>2. k \in Nat /\ k > 1
  BY FromIsAPlace DEF ArriveInv, TreeInv, IterationInv
<1>3. lasti'[g] < k - 1 => Untouched(o)'
  BY <1>1 DEF Passes, Untouched
<1>4. lasti'[g] = k - 1 =>
          \/ Untouched(o)'
          \/ /\ lasti'[o] # 0 /\ ~running'[o]
             /\ running'[g] => EndsWith(received'[g], Append(received'[o], top'[g]))
             /\ ~running'[g] => EndsWith(received'[g], received'[o])
  BY <1>1 DEF Passes, Untouched
<1>5. running'[o] => running'[g] /\ lasti'[g] = k /\ EndsWith(received'[g], received'[o])
  BY <1>1 DEF Passes
<1>6. active' # <<>> /\ Top'.obj = g /\ lasti'[g] = k /\ result'.type = "item" =>
          lasti'[o] # 0 /\ EndsWith(received'[g], received'[o])
  BY <1>1 DEF Passes
<1> QED BY <1>3, <1>4, <1>5, <1>6 DEF Passes

(* A step of g itself.                                                        *)
LEMMA PlaceStepPasses ==
    ASSUME ArriveInv, IsTree(world), NEW g \in Objects, Execute(g), ~AsksFor(g),
           NEW k, IsFrom(g, k), NEW o, o = Code(g)[k].of
    PROVE  Passes(g, k, o)'
<1>1. /\ TreeInv /\ IterationInv /\ TypeInv /\ SentTypes /\ Passes(g, k, o)
      /\ running \in [Objects -> BOOLEAN] /\ lasti \in [Objects -> Nat]
  BY DEF ArriveInv, TreeInv, IterationInv, TypeInv
<1>2. k \in Nat /\ k > 1 /\ o \in Objects
  BY <1>1, FromIsAPlace
<1>3. active # <<>> /\ Top.obj = g
  BY <1>1, OnTop
<1>4. ~running[o] /\ ~running'[o] /\ received' = received
  <2>1. ~running[o]
    BY <1>1, <1>3, WaitsForSub
  <2> QED BY <2>1, <1>1, <1>2, ExecuteFrames
<1>5. g # o
  BY <1>1, <1>4, OnTop
<1>6. lasti'[o] = lasti[o]
  BY <1>1, <1>2, <1>5, ExecuteForms
<1>7. lasti[g] # k - 1
  BY <1>1, MovesByThePlace
<1>8. lasti'[g] < k - 1 => Untouched(o)'
  <2> SUFFICES ASSUME lasti'[g] < k - 1 PROVE Untouched(o)'
    OBVIOUS
  <2>1. lasti[g] < k - 1
    BY <1>1, <1>2, <1>7, MovesByThePlace
  <2> QED BY <2>1, <1>1, <1>4, <1>6 DEF Passes, Untouched
<1>9. ASSUME lasti'[g] = k - 1
      PROVE  \/ Untouched(o)'
             \/ /\ lasti'[o] # 0 /\ ~running'[o]
                /\ running'[g] => EndsWith(received'[g], Append(received'[o], top'[g]))
                /\ ~running'[g] => EndsWith(received'[g], received'[o])
  <2>1. CASE lasti[g] < k - 1
    BY <2>1, <1>1, <1>4, <1>6 DEF Passes, Untouched
  <2>2. CASE ~(lasti[g] < k - 1)
    <3>1. lasti[g] = k /\ result.type = "item" /\ YieldValue(g, result.value)
      BY <2>2, <1>1, <1>2, <1>7, <1>9, MovesByThePlace
    <3>2. ~running'[g]
      BY <3>1, <1>1 DEF YieldValue, Leave
    <3>3. lasti[o] # 0 /\ EndsWith(received[g], received[o])
      BY <3>1, <1>1, <1>3 DEF Passes
    <3> QED BY <3>2, <3>3, <1>4, <1>6
  <2> QED BY <2>1, <2>2
<1>10. active' # <<>> /\ Top'.obj = g /\ lasti'[g] = k => result'.type # "item"
  <2> SUFFICES ASSUME active' # <<>>, Top'.obj = g PROVE result' = Nothing
    BY DEF Nothing
  <2>1. ASSUME NEW r, Answer(r) PROVE FALSE
    <3>1. CallsInv(active, running)
      BY <1>1 DEF IterationInv
    <3>2. active' = SubSeq(active, 1, Len(active) - 1)
      BY <2>1 DEF Answer, Below
    <3>3. /\ IsStack(active') /\ Len(active) \in Nat \ {0} /\ Len(active') = Len(active) - 1
          /\ \A i \in 1 .. Len(active) - 1 : active'[i] = active[i]
      BY <3>1, <3>2, <1>3, StackShrinks DEF CallsInv
    <3>4. Len(active') \in 1 .. Len(active')
      <4>1. PICK S : active' \in Seq(S)
        BY <3>3 DEF IsStack
      <4> QED BY <4>1
    <3>5. active[Len(active) - 1].obj = g /\ active[Len(active)].obj = g
      BY <3>3, <3>4, <1>3 DEF Top
    <3>6. g \in Generators
      BY DEF IsFrom
    <3>7. Len(active) - 1 \in 1 .. Len(active) /\ Len(active) \in 1 .. Len(active)
      BY <3>3, <3>4
    <3>8. Len(active) - 1 = Len(active)
      BY <3>1, <3>5, <3>6, <3>7 DEF CallsInv, OnceEach
    <3> QED BY <3>3, <3>8
  <2> QED BY <2>1, <1>1, ExecuteForms
<1> QED BY <1>4, <1>8, <1>9, <1>10 DEF Passes

LEMMA ExecutePasses ==
    ASSUME ArriveInv, IsTree(world), NEW h \in Objects, Execute(h),
           NEW g, NEW k, IsFrom(g, k), NEW o, o = Code(g)[k].of
    PROVE  Passes(g, k, o)'
<1>1. /\ TreeInv /\ IterationInv /\ TypeInv /\ SentTypes
      /\ lasti \in [Objects -> Nat]
  BY DEF ArriveInv, TreeInv, IterationInv, TypeInv
<1>2. /\ g \in Objects /\ o \in Objects /\ g \in Generators /\ o \in Generators
      /\ k \in Places(world, g) /\ AskedAt(world, g, k) = o /\ k \in Nat
  BY <1>1, FromIsAPlace DEF IsFrom
<1>3. /\ h \in Generators /\ running[h] /\ Top.obj = h /\ active # <<>>
      /\ lasti[h] \in 0 .. Len(Code(h)) - 1 /\ Len(Code(h)) \in Nat
      /\ world[h].kind = "generator"
  BY <1>1, OnTop DEF WellFormed, Generators, IsGenerator
<1>4. \A x \in Objects : x # h => lasti'[x] = lasti[x]
  BY <1>1, ExecuteForms
<1>5. running[o] => h # g
  BY <1>1, <1>3, WaitsForSub
<1>6. CASE AsksFor(h)
  <2> DEFINE p == lasti[h] + 1
             c == Code(h)[p].of
             v == IF Code(h)[p].op = "from" THEN top[h] ELSE None
  <2>1. Enter(c, v, active) /\ lasti'[h] = p /\ Code(h)[p].op \in {"next", "iter", "from"}
    BY <1>1, <1>6 DEF AsksFor, Fetch, At
  <2>2. c \in Objects
    BY <1>1, <1>6, AsksForAnObject
  <2>3. p \in Places(world, h) /\ AskedAt(world, h, p) = c
    BY <1>3, <2>1 DEF Places, AskedAt, Code, AdapterKinds
  <2>4. ASSUME c = o PROVE h = g /\ p = k
    <3> HIDE DEF c, p
    <3> QED BY <2>3, <2>4, <1>2 DEF IsTree
  <2>6. CASE c = o
    <3>1. h = g /\ v = top[g] /\ lasti[g] = k - 1 /\ lasti'[g] = k
      BY <2>4, <2>6, <2>1, <1>1, <1>2 DEF IsFrom
    <3>2. Enter(o, top[g], active) /\ running[g]
      BY <3>1, <2>1, <2>6, <1>3
    <3> QED BY <3>1, <3>2, SubEnterPasses
  <2>7. CASE c # o
    <3>1. lasti'[g] = lasti[g] \/ (running[g] /\ lasti'[g] = lasti[g] + 1)
      <4>1. CASE h = g
        BY <4>1, <1>3, <2>1
      <4>2. CASE h # g
        BY <4>2, <1>2, <1>4
      <4> QED BY <4>1, <4>2
    <3>2. active[Len(active)].obj = g => lasti'[g] # k
      <4> SUFFICES ASSUME h = g, p = k PROVE FALSE
        BY <1>3, <2>1 DEF Top
      <4> QED BY <2>7
    <3>3. ~running[o] => lasti'[o] = lasti[o]
      BY <1>2, <1>3, <1>4
    <3>4. running[o] => lasti'[g] = lasti[g]
      BY <1>2, <1>4, <1>5
    <3> HIDE DEF c, v
    <3> QED BY <3>1, <3>2, <3>3, <3>4, <2>1, <2>2, <2>7, OtherEnterPasses
  <2> QED BY <2>6, <2>7
<1>7. CASE ~AsksFor(h)
  <2>1. received' = received /\ (running'[h] => running[h])
        /\ \A x \in Objects : x # h => running'[x] = running[x] /\ top'[x] = top[x]
    BY <1>1, <1>7, ExecuteFrames
  <2>2. CASE h = g
    BY <2>1, <2>2, <1>2, <1>7, PlaceStepPasses
  <2>3. CASE h # g
    <3>1. lasti'[g] = lasti[g] /\ running'[g] = running[g] /\ top'[g] = top[g]
          /\ (running'[o] => running[o]) /\ (~running[o] => lasti'[o] = lasti[o])
      BY <2>1, <2>3, <1>2, <1>3, <1>4
    <3>2. ASSUME active' # <<>>, Top'.obj = g, lasti[g] = k, result'.type = "item"
          PROVE  running[o] /\ lasti'[o] # 0
      <4>1. Top.obj # g
        BY <1>3, <2>3
      <4>2. \E r : Answer(r)
        <5>1. active' # active \/ result' # Nothing
          BY <3>2 DEF Nothing
        <5> QED BY <5>1, <4>1, <3>2, <1>1, <1>7, ExecuteForms DEF Top
      <4>3. h = o
        BY <4>2, <3>2, <1>1, <1>3, SubAnswers
      <4> QED BY <4>3, <3>2, <1>1, <1>3, <1>7, YieldedPastStart
    <3> QED BY <2>1, <3>1, <3>2, OtherStepPasses
  <2> QED BY <2>2, <2>3
<1> QED BY <1>6, <1>7

(* The other steps move no frame, and what enters one is not g at the place.  *)
LEMMA NoFramePasses ==
    ASSUME ArriveInv, IsTree(world), NEW g, NEW k, IsFrom(g, k), NEW o, o = Code(g)[k].of,
           lasti' = lasti, UNCHANGED <<running, top, received>>,
           active' # <<>> /\ Top'.obj = g /\ lasti[g] = k => result'.type # "item"
    PROVE  Passes(g, k, o)'
BY OtherStepPasses

LEMMA OutsideEnterPasses ==
    ASSUME ArriveInv, IsTree(world), NEW g, NEW k, IsFrom(g, k), NEW o, o = Code(g)[k].of,
           NEW c \in Objects, NEW v, NEW calls, Enter(c, v, calls), lasti' = lasti,
           calls # <<>>, calls[Len(calls)].obj # g, c # o
    PROVE  Passes(g, k, o)'
BY OtherEnterPasses

LEMMA AdaptPasses ==
    ASSUME ArriveInv, IsTree(world), NEW h \in Objects, Adapt(h),
           NEW g, NEW k, IsFrom(g, k), NEW o, o = Code(g)[k].of
    PROVE  Passes(g, k, o)'
<1>1. TreeInv /\ IterationInv /\ TypeInv
  BY DEF ArriveInv, TreeInv, IterationInv
<1>2. active # <<>> /\ Top.obj = h /\ lasti' = lasti
  BY AdaptForms
<1>3. Adapter(h)
  BY DEF Adapt, AdapterAsks, AdapterFails, EnumerateNext, FilterNext, ZipNext, Adapter
<1>4. h \in Adapters /\ h \notin Generators
  BY <1>1, <1>3, AdapterOnTop
<1>5. /\ g \in Generators /\ o \in Generators /\ k \in Places(world, g)
      /\ g \in Objects /\ AskedAt(world, g, k) = o
  BY <1>1, FromIsAPlace DEF IsFrom
<1>6. CASE AdapterAsks(h)
  <2> DEFINE i == Len(Top.got) + 1
             c == world[h].of[i]
  <2>1. Enter(c, None, active) /\ c \in Objects /\ i \in 1 .. Len(world[h].of)
    BY <1>1, <1>3, <1>6, AdapterOnTop DEF AdapterAsks
  <2>2. world[h].kind # "generator" /\ world[h].kind \in AdapterKinds
    BY <1>4 DEF Adapters, AdapterKinds
  <2>3. i \in Places(world, h) /\ AskedAt(world, h, i) = c
    BY <2>1, <2>2 DEF Places, AskedAt
  <2>4. c # o
    BY <2>3, <1>4, <1>5 DEF IsTree
  <2> HIDE DEF c
  <2> QED BY <2>1, <2>4, <1>2, <1>4, <1>5, OutsideEnterPasses DEF Top
<1>7. CASE ~AdapterAsks(h)
  <2>1. /\ running' = running /\ top' = top /\ received' = received
        /\ (\E r : r # Nothing /\ Answer(r)) \/ result' = Nothing
    BY <1>7, AdaptForms
  <2>2. active' # <<>> /\ Top'.obj = g /\ lasti[g] = k => result'.type # "item"
    <3>1. CASE result' = Nothing
      BY <3>1 DEF Nothing
    <3>2. CASE \E r : Answer(r)
      BY <3>2, <1>1, <1>2, <1>4, <1>5, SubAnswers
    <3> QED BY <2>1, <3>1, <3>2
  <2> QED BY <2>1, <2>2, <1>2, NoFramePasses
<1> QED BY <1>6, <1>7

LEMMA OutsidePasses ==
    ASSUME ArriveInv, IsTree(world),
           AskAgain \/ Hear \/ (\E how, v : \E c \in Asked : Begin(how, c, v)) \/ UNCHANGED vars,
           NEW g, NEW k, IsFrom(g, k), NEW o, o = Code(g)[k].of
    PROVE  Passes(g, k, o)'
<1>1. TreeInv /\ IterationInv /\ TypeInv
  BY DEF ArriveInv, TreeInv, IterationInv
<1>2. g \in Objects /\ o \notin Asked /\ g # 0
  BY <1>1, FromIsAPlace, ObjectsAssumption
<1>3. CASE AskAgain
  <2>1. /\ active # <<>> /\ Top.obj = 0 /\ Enter(Top.of, None, active) /\ lasti' = lasti
    BY <1>3 DEF AskAgain
  <2>2. Len(active) = 1 /\ Top.of \in Objects
    BY <1>1, <2>1, OutsideOnTop
  <2>3. Top.of \in Asked
    BY <1>1, <2>1, <2>2 DEF TreeInv, ChainInv, Based, Top
  <2> QED BY <2>1, <2>2, <2>3, <1>2, OutsideEnterPasses DEF Top
<1>4. CASE Hear
  <2>1. lasti' = lasti /\ UNCHANGED <<running, top, received>> /\ result' = Nothing
    BY <1>4 DEF Hear, frames
  <2>2. result'.type # "item"
    BY <2>1 DEF Nothing
  <2> QED BY <2>1, <2>2, NoFramePasses
<1>5. CASE \E how, v : \E c \in Asked : Begin(how, c, v)
  <2> PICK how, v : \E c \in Asked : Begin(how, c, v)
    BY <1>5
  <2>1. PICK c \in Asked : Begin(how, c, v)
    OBVIOUS
  <2> DEFINE calls == <<Asking(how, c, v)>>
  <2>2. Enter(c, v, calls) /\ lasti' = lasti
    BY <2>1 DEF Begin
  <2>3. calls # <<>> /\ calls[Len(calls)].obj = 0 /\ c \in Objects /\ c # o
    BY <1>2, ObjectsAssumption DEF Asking
  <2> HIDE DEF calls
  <2> QED BY <2>2, <2>3, <1>2, OutsideEnterPasses
<1>6. CASE UNCHANGED vars
  <2>1. lasti' = lasti /\ UNCHANGED <<running, top, received>> /\ Top' = Top
        /\ active' = active /\ result' = result
    BY <1>6 DEF vars, frames, Top
  <2>2. Passes(g, k, o)
    BY DEF ArriveInv
  <2> QED BY <2>1, <2>2 DEF Passes, Untouched
<1> QED BY <1>3, <1>4, <1>5, <1>6

LEMMA WorldStays == IterationInv /\ [Next]_vars => world' = world
<1> SUFFICES ASSUME IterationInv, [Next]_vars PROVE world' = world
  OBVIOUS
<1>1. CASE \E g \in Objects : Execute(g)
  BY <1>1, ExecuteForms
<1>2. CASE \E o \in Objects : Adapt(o)
  BY <1>2, AdaptForms
<1>3. CASE AskAgain \/ Hear
  BY <1>3 DEF AskAgain, Hear
<1>4. CASE \E how \in {"next", "send", "list", "all", "for"}, o \in Asked,
              v \in Sent \cup {None} : Begin(how, o, v)
  BY <1>4 DEF Begin
<1>5. CASE UNCHANGED vars
  BY <1>5 DEF vars
<1> QED BY <1>1, <1>2, <1>3, <1>4, <1>5 DEF Next, Running

LEMMA SentTypesStep ==
    ASSUME IterationInv, SentTypes, [Next]_vars
    PROVE  SentTypes'
<1>1. TypeInv
  BY DEF IterationInv
<1>2. CASE top' = top /\ received' = received
  BY <1>2 DEF SentTypes
<1>3. CASE \E g \in Objects : Execute(g)
  <2> PICK g \in Objects : Execute(g)
    BY <1>3
  <2>1. CASE AsksFor(g)
    <3>1. Code(g)[lasti[g] + 1].of \in Objects
      BY <2>1, AsksForAnObject
    <3> QED BY <2>1, <3>1, <1>1, EnterFrames DEF AsksFor
  <2>2. CASE ~AsksFor(g)
    BY <2>2, <1>1, ExecuteFrames
  <2> QED BY <2>1, <2>2
<1>4. CASE \E o \in Objects : Adapt(o)
  <2> PICK o \in Objects : Adapt(o)
    BY <1>4
  <2>1. CASE AdapterAsks(o)
    <3>1. world[o].of[Len(Top.got) + 1] \in Objects
      BY <2>1, AdapterOnTop DEF AdapterAsks
    <3> QED BY <2>1, <3>1, <1>1, EnterFrames DEF AdapterAsks
  <2>2. CASE ~AdapterAsks(o)
    BY <2>2, <1>2, AdaptForms
  <2> QED BY <2>1, <2>2
<1>5. CASE AskAgain
  BY <1>5, <1>1, OutsideOnTop, EnterFrames DEF AskAgain
<1>6. CASE Hear \/ UNCHANGED vars
  BY <1>6, <1>2 DEF Hear, vars, frames
<1>7. CASE \E how \in {"next", "send", "list", "all", "for"}, o \in Asked,
              v \in Sent \cup {None} : Begin(how, o, v)
  BY <1>7, <1>1, ObjectsAssumption, EnterFrames DEF Begin
<1> QED BY <1>3, <1>4, <1>5, <1>6, <1>7 DEF Next, Running

LEMMA ArriveStart == Init => ArriveInv
<1> SUFFICES ASSUME Init PROVE ArriveInv
  OBVIOUS
<1>1. TreeInv /\ TypeInv
  BY TreeStart DEF TreeInv, IterationInv
<1>2. SentTypes
  <2>1. <<>> \in Seq({None})
    OBVIOUS
  <2>2. top \in [Objects -> {None}] /\ received \in [Objects -> Seq({None})]
    BY <2>1 DEF Init
  <2> QED BY <2>2 DEF SentTypes
<1>3. ASSUME IsTree(world), NEW g, NEW k, IsFrom(g, k)
      PROVE  Passes(g, k, Code(g)[k].of)
  <2>1. g \in Objects /\ Code(g)[k].of \in Objects /\ k \in Nat /\ k > 1
    BY <1>1, <1>3, FromIsAPlace
  <2>2. Untouched(Code(g)[k].of) /\ lasti[g] = 0 /\ active = <<>>
    BY <2>1 DEF Init, Untouched
  <2> QED BY <2>1, <2>2 DEF Passes, Untouched
<1> QED BY <1>1, <1>2, <1>3 DEF ArriveInv

LEMMA ArriveStep == ArriveInv /\ [Next]_vars => ArriveInv'
<1> SUFFICES ASSUME ArriveInv, [Next]_vars PROVE ArriveInv'
  OBVIOUS
<1>1. TreeInv /\ IterationInv /\ SentTypes
  BY DEF ArriveInv, TreeInv
<1>2. TreeInv' /\ SentTypes'
  BY <1>1, TreeStep, SentTypesStep
<1>3. world' = world
  BY <1>1, WorldStays
<1>4. ASSUME IsTree(world), NEW g, NEW k, IsFrom(g, k), NEW o, o = Code(g)[k].of
      PROVE  Passes(g, k, o)'
  <2>1. CASE \E h \in Objects : Execute(h)
    BY <2>1, <1>4, ExecutePasses
  <2>2. CASE \E h \in Objects : Adapt(h)
    BY <2>2, <1>4, AdaptPasses
  <2>3. CASE AskAgain \/ Hear \/ UNCHANGED vars
    BY <2>3, <1>4, OutsidePasses
  <2>4. CASE \E how \in {"next", "send", "list", "all", "for"}, c \in Asked,
                v \in Sent \cup {None} : Begin(how, c, v)
    BY <2>4, <1>4, OutsidePasses
  <2> QED BY <2>1, <2>2, <2>3, <2>4 DEF Next, Running
<1>5. ASSUME IsTree(world'), NEW g, NEW k, IsFrom(g, k)'
      PROVE  Passes(g, k, Code(g)[k].of)'
  <2>1. IsTree(world)
    BY <1>3, <1>5
  <2>2. IsFrom(g, k) /\ Code(g)' = Code(g)
    BY <1>3, <1>5, SameFroms
  <2>3. PICK o : o = Code(g)[k].of
    OBVIOUS
  <2>4. Passes(g, k, o)'
    BY <2>1, <2>2, <2>3, <1>4
  <2> QED BY <2>2, <2>3, <2>4
<1> QED BY <1>2, <1>5 DEF ArriveInv

(* Whatever is sent to a generator, which yields from another, and that from  *)
(* one more, to any depth: at rest, those that wait in a yield from have been *)
(* sent the same as what they wait for, since they came there, in order, and  *)
(* none of it is lost or is doubled.                                          *)
THEOREM IterationValuesArrive == Spec => []ValuesArrive
<1>1. ArriveInv => ValuesArrive
  <2> SUFFICES ASSUME ArriveInv, active = <<>>, IsTree(world),
                      NEW g \in Objects, IsGenerator(g), lasti[g] < Len(Code(g)),
                      Code(g)[lasti[g] + 1].op = "from", IsGenerator(Code(g)[lasti[g] + 1].of)
               PROVE  EndsWith(received[g], received[Code(g)[lasti[g] + 1].of])
    BY DEF ValuesArrive
  <2> DEFINE k == lasti[g] + 1
             o == Code(g)[k].of
  <2>1. TypeInv /\ CallsInv(active, running) /\ FramesInv(lasti, running, yielded)
    BY DEF ArriveInv, TreeInv, IterationInv
  <2>2. g \in Generators /\ WellFormed(Code(g)) /\ lasti[g] \in Nat
    BY <2>1, CodeIsWellFormed DEF Generators, TypeInv
  <2>3. k \in 1 .. Len(Code(g)) /\ Code(g)[k].op \in {"next", "iter", "from"}
    BY <2>2 DEF WellFormed
  <2>4. o \in Generators
    BY <2>2, <2>3 DEF WellFormed, Generators
  <2>5. IsFrom(g, k) /\ lasti[g] = k - 1
    BY <2>2, <2>3, <2>4 DEF IsFrom
  <2>6. Passes(g, k, o)
    BY <2>5 DEF ArriveInv
  <2>7. ~running[g]
    BY <2>1, <2>2 DEF CallsInv, Marked
  <2>8. PICK S : received \in [Objects -> Seq(S)]
    BY DEF ArriveInv, SentTypes
  <2>9. CASE Untouched(o)
    BY <2>9, <2>8, EndsWithNothing DEF Untouched
  <2>10. CASE ~Untouched(o)
    BY <2>5, <2>6, <2>7, <2>10 DEF Passes
  <2> QED BY <2>9, <2>10
<1>2. Init => ArriveInv
  BY ArriveStart
<1>3. ArriveInv /\ [Next]_vars => ArriveInv'
  BY ArriveStep
<1> QED BY <1>1, <1>2, <1>3, PTL DEF Spec


-------------------------------------------------------------------------------
(* What is given.  For objects that make a tree and have not come to an end    *)
(* yet there are numbers, given, of the items each has given so far, and the   *)
(* objects that have not ended, unended, such that every object is where its   *)
(* meaning says it is after that many items.                                   *)
Mean(x) == Meaning[world][x]
Items(x) == Mean(x).items

Goes(x)    == active # <<>> /\ Top.obj = x /\ result = Nothing
Pending(x) == active # <<>> /\ Top.obj = x /\ result.type = "item"
Ending(x)  == active # <<>> /\ Top.obj = x /\ result # Nothing /\ result.type # "item"
Suspended(g) == running[g] /\ ~Goes(g)

\* The items that the call of x has, when there is one.
Got(calls, x) ==
    IF \E i \in 1 .. Len(calls) : calls[i].obj = x
    THEN calls[CHOOSE i \in 1 .. Len(calls) : calls[i].obj = x].got
    ELSE <<>>
WaitsAt(x) == IF x \in Generators THEN lasti[x] ELSE Len(Got(active, x)) + 1

\* How many items x has taken from what it asks at place q, and whether that can
\* be asked again, or has just ended.
TakenAt(x, q, given) ==
    IF Pending(x) /\ q = WaitsAt(x) THEN given[AskedAt(world, x, q)] - 1
    ELSE given[AskedAt(world, x, q)]
HereAt(x, q, unended) ==
    AskedAt(world, x, q) \in unended \/ (Ending(x) /\ q = WaitsAt(x))

\* A generator is in the statement at p: about to execute it, waiting for what it
\* asks, giving on what the loop there has been given, or about to go round.
StatementAsWritten(g, p, given, unended) ==
    LET opcode == Code(g)[p + 1]
        places == Places(world, g)
        passed == IF opcode.op \in {"from", "iter"} THEN TakenAt(g, p + 1, given) ELSE 0
        before == Mean(g).at[p]
    IN /\ \A q \in places : q > p + 1 => HereAt(g, q, unended) /\ TakenAt(g, q, given) = 0
       /\ p + 1 \in places => HereAt(g, p + 1, unended)
       /\ opcode.op = "next" => TakenAt(g, p + 1, given) = 0
       /\ \/ lasti[g] = p /\ ~Suspended(g) /\ given[g] = before + passed
          \/ /\ lasti[g] = p + 1 /\ Suspended(g) /\ p + 1 \in places
             /\ given[g] = before + passed
          \/ /\ lasti[g] = p + 1 /\ Goes(g) /\ running[g] /\ opcode.op = "iter"
             /\ passed \in Nat \ {0} /\ given[g] = before + passed - 1
             /\ top[g] = Items(opcode.of)[passed]
          \/ lasti[g] = p + 2 /\ ~Suspended(g) /\ opcode.op = "iter" /\ given[g] = before + passed

GeneratorAsWritten(g, given, unended) ==
    /\ \E p \in DOMAIN Mean(g).at : StatementAsWritten(g, p, given, unended)
    /\ running[g] \/ lasti[g] = 0 \/ yielded[g]
    /\ Goes(g) /\ Code(g)[lasti[g] + 1].op = "from" => top[g] = None

ZipAsWritten(o, given, unended) ==
    \A j \in 1 .. Len(world[o].of) :
        /\ HereAt(o, j, unended)
        /\ IF j <= Len(Got(active, o))
           THEN /\ TakenAt(o, j, given) = given[o] + 1
                /\ Got(active, o)[j] = Items(world[o].of[j])[given[o] + 1]
           ELSE TakenAt(o, j, given) = given[o]

ObjectAsWritten(x, given, unended) ==
    /\ given[x] <= Len(Items(x))
    /\ world[x].kind = "generator" => GeneratorAsWritten(x, given, unended)
    /\ world[x].kind \in {"iterator", "enumerate"} => index[x] = given[x]
    /\ world[x].kind \in {"enumerate", "filter"} => Got(active, x) = <<>> /\ HereAt(x, 1, unended)
    /\ world[x].kind = "enumerate" => TakenAt(x, 1, given) = given[x]
    /\ world[x].kind = "filter" => /\ TakenAt(x, 1, given) \in Nat
                                   /\ given[x] = Mean(x).at[TakenAt(x, 1, given)]
    /\ world[x].kind = "zip" => ZipAsWritten(x, given, unended)

AnswerAsWritten(given, unended) ==
    active # <<>> /\ result # Nothing =>
        \A c \in Objects : Awaits(Top, lasti, c) =>
            IF result.type = "item"
            THEN c \in unended /\ given[c] # 0 /\ result.value = Items(c)[given[c]]
            ELSE given[c] = Len(Items(c)) /\ result.type = Mean(c).end

\* What the ask from outside has got, after what has come out before it.
AskAsWritten(root, given, unended) ==
    /\ root \in unended \/ Ending(0)
    /\ active = <<>> => given[root] = HeardBefore
    /\ active # <<>> =>
          /\ HeardBefore + Len(active[1].got) = IF Pending(0) THEN given[root] - 1 ELSE given[root]
          /\ \A i \in 1 .. Len(active[1].got) : active[1].got[i] = Items(root)[HeardBefore + i]

AsWritten(root, given, unended) ==
    /\ given \in [Objects -> Nat] /\ unended \subseteq Objects
    /\ \A x \in unended : ObjectAsWritten(x, given, unended)
    /\ \A i \in 1 .. Len(active) : active[i].obj \in unended \cup {0}
    /\ AnswerAsWritten(given, unended)
    /\ AskAsWritten(root, given, unended)

\* Nothing has been sent, and the object asked from outside has not ended.
Quiet ==
    /\ \A i \in 1 .. Len(heard) : heard[i].end = "item" /\ heard[i].sent = None
    /\ active # <<>> => active[1].sent = None

(* The objects of a set are all past their ends when none of them can give     *)
(* anything, because it is one of them that would have to.                     *)
AtTheEnd(past) ==
    /\ \A o \in past :
          /\ world[o].kind = "generator" => ~running[o] /\ Over(o)
          /\ world[o].kind = "iterator" => index[o] >= Len(world[o].seq)
          /\ world[o].kind \in {"enumerate", "filter"} =>
                world[o].of[1] \in past /\ Got(active, o) = <<>>
          /\ world[o].kind = "zip" => \E j \in 1 .. Len(world[o].of) :
                                         world[o].of[j] \in past /\ Len(Got(active, o)) < j
    /\ active # <<>> /\ result.type = "item" =>
          \A c \in Objects : Awaits(Top, lasti, c) => c \notin past

HasStopped(o) == \E past \in SUBSET Objects : o \in past /\ AtTheEnd(past)

StopsForGood ==
    active # <<>> /\ result.type = "stop" =>
        \A c \in Objects : Awaits(Top, lasti, c) => HasStopped(c)

\* Once the object that is asked from outside has stopped nothing comes out.
Late(root) ==
    \A n \in 1 .. Len(heard) :
        UnendedAt(n) /\ heard[n].end # "item" /\ Mean(root).end = "stop" =>
            /\ HasStopped(root)
            /\ active # <<>> => active[1].got = <<>>
            /\ \A i \in n + 1 .. Len(heard) : heard[i].items = <<>>

-------------------------------------------------------------------------------
(* What the meaning of an object says, one place of a code after another.     *)
LEMMA MeaningOfWorld ==
    ASSUME TypeInv, IsTree(world), NEW x \in Objects
    PROVE  Len(Items(x)) \in Nat /\ ObjectMeans(world, Meaning[world], x)
BY MeaningAssumption DEF TypeInv, Items, Mean

LEMMA GeneratorMeaning ==
    ASSUME TypeInv, IsTree(world), NEW g \in Generators
    PROVE  0 \in DOMAIN Mean(g).at /\ Mean(g).at[0] = 0
           /\ GeneratorMeans(world, Meaning[world], g)
<1>1. g \in Objects /\ world[g].kind = "generator"
  BY DEF Generators, IsGenerator
<1>2. GeneratorMeans(world, Meaning[world], g)
  BY <1>1, MeaningOfWorld DEF ObjectMeans
<1> QED BY <1>2 DEF GeneratorMeans, Mean

LEMMA MeaningAtPlace ==
    ASSUME TypeInv, IsTree(world), NEW g \in Generators, NEW p \in DOMAIN Mean(g).at,
           NEW at, at = Mean(g).at, NEW n, n = Len(Items(g)),
           NEW opcode, opcode = Code(g)[p + 1], NEW after, after = at[p] + Len(Items(opcode.of))
    PROVE  /\ p \in 0 .. Len(Code(g)) - 1
           /\ at[p] \in 0 .. n
           /\ opcode.op = "yield" => /\ at[p] < n /\ Items(g)[at[p] + 1] = Leaf(g, opcode.n)
                                     /\ p + 1 \in DOMAIN at /\ at[p + 1] = at[p] + 1
           /\ opcode.op = "raise" => n = at[p] /\ Mean(g).end = "error"
           /\ opcode.op = "return" => n = at[p] /\ Mean(g).end = "stop"
           /\ opcode.op = "call" => p + 1 \in DOMAIN at /\ at[p + 1] = at[p]
           /\ opcode.op = "next" =>
                 /\ Len(Items(opcode.of)) > 0 => p + 1 \in DOMAIN at /\ at[p + 1] = at[p]
                 /\ ~(Len(Items(opcode.of)) > 0) =>
                       /\ n = at[p]
                       /\ Mean(g).end = IF Mean(opcode.of).end = "error" THEN "error" ELSE "stopped"
           /\ opcode.op \in {"from", "iter"} =>
                 /\ after <= n
                 /\ \A i \in 1 .. Len(Items(opcode.of)) : Items(g)[at[p] + i] = Items(opcode.of)[i]
           /\ opcode.op = "from" =>
                 IF Mean(opcode.of).end = "error" THEN n = after /\ Mean(g).end = "error"
                 ELSE p + 1 \in DOMAIN at /\ at[p + 1] = after
           /\ opcode.op = "iter" => opcode.exit \in DOMAIN at /\ at[opcode.exit] = after
           /\ opcode.op \in {"yield", "raise", "return", "call", "next", "from", "iter"}
<1>1. GeneratorMeans(world, Meaning[world], g)
  BY GeneratorMeaning
<1> QED BY <1>1 DEF GeneratorMeans, Mean, Items, Code

-------------------------------------------------------------------------------
(* The items that the call of an object has, while the calls come and go.     *)
Once(calls) == \A i, j \in 1 .. Len(calls) : calls[i].obj = calls[j].obj => i = j

LEMMA GotHere ==
    ASSUME NEW calls, Once(calls), NEW i \in 1 .. Len(calls)
    PROVE  Got(calls, calls[i].obj) = calls[i].got
<1> DEFINE x == calls[i].obj
           j == CHOOSE j \in 1 .. Len(calls) : calls[j].obj = x
<1>1. j \in 1 .. Len(calls) /\ calls[j].obj = x
  OBVIOUS
<1>2. j = i
  BY <1>1 DEF Once
<1>3. \E m \in 1 .. Len(calls) : calls[m].obj = x
  OBVIOUS
<1>4. Got(calls, x) = calls[j].got
  BY <1>3 DEF Got
<1> HIDE DEF j
<1> QED BY <1>2, <1>4

LEMMA GotNowhere ==
    ASSUME NEW calls, NEW x, \A i \in 1 .. Len(calls) : calls[i].obj # x
    PROVE  Got(calls, x) = <<>>
BY DEF Got

LEMMA GotAsBefore ==
    ASSUME NEW calls, NEW calls2, Once(calls), Once(calls2), NEW x,
           \A i \in 1 .. Len(calls) : calls[i].obj = x =>
               i \in 1 .. Len(calls2) /\ calls2[i] = calls[i],
           \A i \in 1 .. Len(calls2) : calls2[i].obj = x =>
               i \in 1 .. Len(calls) /\ calls2[i] = calls[i]
    PROVE  Got(calls2, x) = Got(calls, x)
<1>1. CASE \E i \in 1 .. Len(calls) : calls[i].obj = x
  <2> PICK i \in 1 .. Len(calls) : calls[i].obj = x
    BY <1>1
  <2>1. i \in 1 .. Len(calls2) /\ calls2[i] = calls[i]
    OBVIOUS
  <2>2. Got(calls, x) = calls[i].got
    BY GotHere
  <2>3. Got(calls2, x) = calls2[i].got
    BY <2>1, GotHere
  <2> QED BY <2>1, <2>2, <2>3
<1>2. CASE ~\E i \in 1 .. Len(calls) : calls[i].obj = x
  <2>1. ~\E i \in 1 .. Len(calls2) : calls2[i].obj = x
    BY <1>2
  <2> QED BY <1>2, <2>1, GotNowhere
<1> QED BY <1>1, <1>2

LEMMA GotPushed ==
    ASSUME NEW calls, IsStack(calls), Once(calls), NEW c,
           \A i \in 1 .. Len(calls) : calls[i].obj # c,
           NEW calls2, calls2 = Append(calls, Calling(c))
    PROVE  Once(calls2) /\ \A x : Got(calls2, x) = Got(calls, x)
<1> DEFINE n == Len(calls)
<1>1. /\ n \in Nat /\ Len(calls2) = n + 1
      /\ \A i \in 1 .. n : calls2[i] = calls[i]
      /\ calls2[n + 1].obj = c /\ calls2[n + 1].got = <<>>
  BY StackGrows DEF Calling
<1>2. \A i \in 1 .. n + 1 : i \in 1 .. n \/ i = n + 1
  BY <1>1
<1>3. Once(calls2)
  BY <1>1, <1>2 DEF Once
<1> HIDE DEF n
<1>4. ASSUME NEW x PROVE Got(calls2, x) = Got(calls, x)
  <2>1. CASE x = c
    <3>1. n + 1 \in 1 .. Len(calls2)
      BY <1>1
    <3>2. Got(calls2, calls2[n + 1].obj) = calls2[n + 1].got
      BY <3>1, <1>3, GotHere
    <3>3. Got(calls, c) = <<>>
      BY GotNowhere
    <3> QED BY <2>1, <3>2, <3>3, <1>1
  <2>2. CASE x # c
    <3>1. \A i \in 1 .. Len(calls) : calls[i].obj = x => i \in 1 .. Len(calls2) /\ calls2[i] = calls[i]
      BY <1>1 DEF n
    <3>2. \A i \in 1 .. Len(calls2) : calls2[i].obj = x => i \in 1 .. Len(calls) /\ calls2[i] = calls[i]
      BY <1>1, <2>2 DEF n
    <3> QED BY <3>1, <3>2, <1>3, GotAsBefore
  <2> QED BY <2>1, <2>2
<1> QED BY <1>3, <1>4

(* The call on top.                                                           *)
LEMMA TopCall ==
    ASSUME TreeInv, IsTree(world), active # <<>>
    PROVE  /\ Len(active) \in Nat \ {0} /\ Once(active) /\ IsStack(active)
           /\ Top = active[Len(active)]
           /\ Got(active, Top.obj) = Top.got
           /\ Top.obj # 0 => Len(active) > 1
           /\ \A c : Awaits(Top, lasti, c) =>
                 IF Top.obj = 0 THEN c = Top.of
                 ELSE /\ Top.obj \in Objects /\ WaitsAt(Top.obj) \in Places(world, Top.obj)
                      /\ c = AskedAt(world, Top.obj, WaitsAt(Top.obj))
<1>1. /\ CallsInv(active, running) /\ Based(active) /\ Once(active) /\ IsStack(active)
  BY DEF TreeInv, IterationInv, ChainInv, NotTwice, Once, CallsInv
<1>2. Len(active) \in Nat \ {0} /\ Len(active) \in 1 .. Len(active)
  BY <1>1, StackShrinks
<1>3. Top = active[Len(active)]
  BY DEF Top
<1>4. Got(active, Top.obj) = Top.got
  BY <1>1, <1>2, <1>3, GotHere
<1>5. Top.obj # 0 => Len(active) > 1
  BY <1>1, <1>2, <1>3 DEF Based
<1> QED BY <1>1, <1>2, <1>3, <1>4, <1>5 DEF Awaits, PlaceOf, WaitsAt

-------------------------------------------------------------------------------
(* What an object that is not on top, or has no answer, has taken.            *)
LEMMA ViewBefore ==
    ASSUME NEW x, NEW q, NEW given, NEW unended,
           active = <<>> \/ Top.obj # x \/ result = Nothing
    PROVE  /\ TakenAt(x, q, given) = given[AskedAt(world, x, q)]
           /\ HereAt(x, q, unended) <=> AskedAt(world, x, q) \in unended
           /\ ~Pending(x) /\ ~Ending(x)
BY DEF TakenAt, HereAt, Pending, Ending, Nothing

LEMMA ViewAfter ==
    ASSUME NEW x, NEW q, NEW given, NEW unended, world' = world,
           active' = <<>> \/ Top'.obj # x \/ result' = Nothing
    PROVE  /\ TakenAt(x, q, given)' = given[AskedAt(world, x, q)]
           /\ HereAt(x, q, unended)' <=> AskedAt(world, x, q) \in unended
           /\ ~Pending(x)' /\ ~Ending(x)'
BY DEF TakenAt, HereAt, Pending, Ending, Nothing, AskedAt

LEMMA ViewKept ==
    ASSUME NEW x, NEW q, NEW given, NEW unended, world' = world,
           active = <<>> \/ Top.obj # x \/ result = Nothing,
           active' = <<>> \/ Top'.obj # x \/ result' = Nothing
    PROVE  /\ TakenAt(x, q, given)' = TakenAt(x, q, given)
           /\ HereAt(x, q, unended) => HereAt(x, q, unended)'
<1>1. ~(Pending(x) /\ q = WaitsAt(x)) /\ ~(Ending(x) /\ q = WaitsAt(x))
  BY DEF Pending, Ending, Nothing
<1>2. ~(Pending(x) /\ q = WaitsAt(x))' /\ ~(Ending(x) /\ q = WaitsAt(x))'
  BY DEF Pending, Ending, Nothing
<1> QED BY <1>1, <1>2 DEF TakenAt, HereAt, AskedAt

(* When an answer has come from c, only what asks c sees another state of c.  *)
LEMMA ViewOfAnswer ==
    ASSUME TypeInv, IsTree(world), world' = world, TreeInv',
           active' # <<>>, result' # Nothing, NEW c \in Objects, Awaits(Top, lasti, c)',
           NEW x \in Objects, NEW q \in Places(world, x), NEW given, NEW unended
    PROVE  /\ TakenAt(x, q, given)' =
                 IF AskedAt(world, x, q) = c /\ result'.type = "item" THEN given[c] - 1
                 ELSE given[AskedAt(world, x, q)]
           /\ HereAt(x, q, unended)' <=>
                 \/ AskedAt(world, x, q) \in unended
                 \/ AskedAt(world, x, q) = c /\ result'.type # "item"
<1>1. AskedAt(world, x, q)' = AskedAt(world, x, q)
  BY DEF AskedAt
<1> PICK y : y = Top'.obj
  OBVIOUS
<1>2. CallsInv(active, running)' /\ Based(active)' /\ Once(active)' /\ IsStack(active)'
  BY DEF TreeInv, IterationInv, ChainInv, NotTwice, Once, CallsInv
<1>3. IF y = 0 THEN c \in Asked
      ELSE y \in Objects /\ WaitsAt(y)' \in Places(world, y) /\ c = AskedAt(world, y, WaitsAt(y)')
  <2>1. Generators' = Generators
    BY DEF Generators, IsGenerator
  <2>2. Len(active') \in 1 .. Len(active')
    BY <1>2, StackShrinks
  <2>3. Got(active', y) = Top'.got
    BY <1>2, <2>2, GotHere DEF Top, Once
  <2>4. WaitsAt(y)' = PlaceOf(Top, lasti)'
    BY <2>1, <2>3 DEF WaitsAt, PlaceOf, Got
  <2>5. CASE y = 0
    <3>1. Len(active') = 1
      BY <2>2, <2>5, <1>2 DEF CallsInv, Outside, Top
    <3> QED BY <3>1, <2>5, <1>2 DEF Awaits, Based, Top
  <2>6. CASE y # 0
    <3>1. \A i : AskedAt(world', y, i) = AskedAt(world, y, i) /\ Places(world', y) = Places(world, y)
      OBVIOUS
    <3> QED BY <2>4, <2>6, <3>1 DEF Awaits
  <2> QED BY <2>5, <2>6
<1>6. AskedAt(world, x, q) = c <=> y = x /\ q = WaitsAt(x)'
  <2>1. ASSUME y = x, q = WaitsAt(x)' PROVE AskedAt(world, x, q) = c
    <3>1. y # 0
      BY <2>1, ObjectsAssumption
    <3> QED BY <2>1, <3>1, <1>3
  <2>2. ASSUME AskedAt(world, x, q) = c PROVE y = x /\ q = WaitsAt(x)'
    <3>1. c \notin Asked
      BY <2>2 DEF IsTree
    <3> QED BY <3>1, <2>2, <1>3 DEF IsTree
  <2> QED BY <2>1, <2>2
<1>4. Pending(x)' <=> Top'.obj = x /\ result'.type = "item"
  BY DEF Pending
<1>5. Ending(x)' <=> Top'.obj = x /\ result'.type # "item"
  BY DEF Ending
<1> QED BY <1>1, <1>4, <1>5, <1>6 DEF TakenAt, HereAt

(* Nothing happens to x, and what it asks looks as before.                    *)
Still(x) ==
    /\ lasti'[x] = lasti[x] /\ yielded'[x] = yielded[x] /\ running'[x] = running[x]
    /\ top'[x] = top[x] /\ index'[x] = index[x]
SeesTheSame(x, given, unended, given2, unended2) ==
    /\ given2[x] = given[x]
    /\ \A q \in Places(world, x) :
          /\ TakenAt(x, q, given2)' = TakenAt(x, q, given)
          /\ HereAt(x, q, unended) => HereAt(x, q, unended2)'

LEMMA StatementKept ==
    ASSUME TypeInv, IsTree(world), world' = world, NEW x \in Generators,
           NEW given, NEW unended, NEW given2, NEW unended2,
           NEW p \in DOMAIN Mean(x).at, StatementAsWritten(x, p, given, unended),
           SeesTheSame(x, given, unended, given2, unended2),
           lasti'[x] = lasti[x], Suspended(x)' <=> Suspended(x),
           Goes(x) /\ running[x] => Goes(x)' /\ running'[x] /\ top'[x] = top[x]
    PROVE  StatementAsWritten(x, p, given2, unended2)'
<1> DEFINE op == Code(x)[p + 1].op
           Passed(t) == IF op \in {"from", "iter"} THEN t ELSE 0
<1>1. \A y : Mean(y)' = Mean(y) /\ Items(y)' = Items(y)
  BY DEF Mean, Items
<1>2. Places(world, x)' = Places(world, x) /\ Code(x)' = Code(x)
  BY DEF Places, Code
<1>3. op \in {"from", "iter", "next"} => p + 1 \in Places(world, x)
  <2>1. world[x].kind = "generator" /\ WellFormed(Code(x))
    BY CodeIsWellFormed DEF Generators, IsGenerator
  <2>2. Places(world, x) = {q \in 1 .. Len(Code(x)) : Code(x)[q].op \in {"next", "iter", "from"}}
    BY <2>1 DEF Places, Code, AdapterKinds
  <2>3. p \in 0 .. Len(Code(x)) - 1 /\ Len(Code(x)) \in Nat
    BY <2>1, MeaningAtPlace DEF WellFormed
  <2>4. p + 1 \in 1 .. Len(Code(x))
    BY <2>3
  <2> QED BY <2>2, <2>4
<1>4. /\ given2[x] = given[x]
      /\ \A q \in Places(world, x) :
            /\ TakenAt(x, q, given2)' = TakenAt(x, q, given)
            /\ HereAt(x, q, unended) => HereAt(x, q, unended2)'
  BY DEF SeesTheSame
<1>5. Passed(TakenAt(x, p + 1, given2)') = Passed(TakenAt(x, p + 1, given))
  BY <1>3, <1>4
<1>6. \A q \in Places(world, x) : q > p + 1 => HereAt(x, q, unended2)' /\ TakenAt(x, q, given2)' = 0
  BY <1>4 DEF StatementAsWritten
<1>7. p + 1 \in Places(world, x) => HereAt(x, p + 1, unended2)'
  BY <1>4 DEF StatementAsWritten
<1>8. op = "next" => TakenAt(x, p + 1, given2)' = 0
  BY <1>3, <1>4 DEF StatementAsWritten
<1>9. LET passed == Passed(TakenAt(x, p + 1, given2)')
          before == Mean(x).at[p]
      IN \/ lasti'[x] = p /\ ~Suspended(x)' /\ given2[x] = before + passed
         \/ /\ lasti'[x] = p + 1 /\ Suspended(x)' /\ p + 1 \in Places(world, x)
            /\ given2[x] = before + passed
         \/ /\ lasti'[x] = p + 1 /\ Goes(x)' /\ running'[x] /\ op = "iter"
            /\ passed \in Nat \ {0} /\ given2[x] = before + passed - 1
            /\ top'[x] = Items(Code(x)[p + 1].of)[passed]
         \/ lasti'[x] = p + 2 /\ ~Suspended(x)' /\ op = "iter" /\ given2[x] = before + passed
  BY <1>4, <1>5 DEF StatementAsWritten
<1> QED BY <1>1, <1>2, <1>6, <1>7, <1>8, <1>9 DEF StatementAsWritten

(* An object that nothing happened to, and that sees what it asks as before,  *)
(* is still where its meaning says.                                           *)
LEMMA SameView ==
    ASSUME TypeInv, IsTree(world), world' = world, NEW x \in Objects,
           NEW given, NEW unended, NEW given2, NEW unended2,
           ObjectAsWritten(x, given, unended), Still(x), Got(active', x) = Got(active, x),
           x \in Generators => (Goes(x)' <=> Goes(x)),
           SeesTheSame(x, given, unended, given2, unended2)
    PROVE  ObjectAsWritten(x, given2, unended2)'
<1> /\ lasti'[x] = lasti[x] /\ yielded'[x] = yielded[x] /\ running'[x] = running[x]
    /\ top'[x] = top[x] /\ index'[x] = index[x]
  BY DEF Still
<1> /\ given2[x] = given[x]
    /\ \A q \in Places(world, x) :
          /\ TakenAt(x, q, given2)' = TakenAt(x, q, given)
          /\ HereAt(x, q, unended) => HereAt(x, q, unended2)'
  BY DEF SeesTheSame
<1>1. \A y : Mean(y)' = Mean(y) /\ Items(y)' = Items(y)
  BY DEF Mean, Items
<1>2. Got(active, x)' = Got(active, x)
  BY DEF Got
<1>3. CASE world[x].kind = "generator"
  <2>1. x \in Generators
    BY <1>3 DEF Generators, IsGenerator
  <2>2. Goes(x)' <=> Goes(x)
    BY <2>1
  <2>3. Suspended(x)' <=> Suspended(x)
    BY <2>2 DEF Suspended
  <2>4. Code(x)' = Code(x)
    BY DEF Code
  <2>7. GeneratorAsWritten(x, given, unended)
    BY <1>3 DEF ObjectAsWritten
  <2>8. PICK p \in DOMAIN Mean(x).at : StatementAsWritten(x, p, given, unended)
    BY <2>7 DEF GeneratorAsWritten
  <2>10. StatementAsWritten(x, p, given2, unended2)'
    BY <2>1, <2>2, <2>3, <2>8, StatementKept
  <2>11. GeneratorAsWritten(x, given2, unended2)'
    BY <2>2, <2>4, <2>7, <2>10, <1>1 DEF GeneratorAsWritten
  <2> QED BY <2>11, <1>3, <1>1 DEF ObjectAsWritten
<1>4. CASE world[x].kind \in AdapterKinds
  <2>1. x \in Adapters /\ Places(world, x) = 1 .. Len(world[x].of)
    BY <1>4 DEF Adapters, AdapterKinds, Places
  <2>2. 1 \in Places(world, x)
    BY <2>1, WorldsAssumption DEF TypeInv, Adapters
  <2>3. \A j \in 1 .. Len(world[x].of) :
           /\ TakenAt(x, j, given2)' = TakenAt(x, j, given)
           /\ HereAt(x, j, unended) => HereAt(x, j, unended2)'
    BY <2>1
  <2>4. ZipAsWritten(x, given, unended) => ZipAsWritten(x, given2, unended2)'
    BY <2>3, <1>1, <1>2 DEF ZipAsWritten
  <2> QED BY <2>2, <2>4, <1>1, <1>2, <1>4 DEF ObjectAsWritten, AdapterKinds
<1>5. CASE world[x].kind # "generator" /\ world[x].kind \notin AdapterKinds
  BY <1>1, <1>5 DEF ObjectAsWritten, AdapterKinds
<1> QED BY <1>3, <1>4, <1>5

(* The numbers after c has answered: one item more, or an end.                *)
Answers(c, given, unended, given2, unended2, r) ==
    \/ /\ r.type = "item" /\ r.value = Items(c)[given[c] + 1]
       /\ given2 = [given EXCEPT ![c] = @ + 1] /\ unended2 = unended
    \/ /\ r.type # "item" /\ r.type = Mean(c).end /\ given[c] = Len(Items(c))
       /\ given2 = given /\ unended2 = unended \ {c}

LEMMA AnswerSeen ==
    ASSUME TypeInv, IsTree(world), world' = world, TreeInv',
           active' # <<>>, result' # Nothing, NEW c \in Objects, Awaits(Top, lasti, c)',
           NEW given \in [Objects -> Nat], NEW unended, NEW given2, NEW unended2, NEW r, r = result',
           Answers(c, given, unended, given2, unended2, r),
           NEW x \in Objects, x # c, active = <<>> \/ Top.obj # x \/ result = Nothing
    PROVE  SeesTheSame(x, given, unended, given2, unended2)
<1>1. given2[x] = given[x]
  BY DEF Answers
<1>2. ASSUME NEW q \in Places(world, x)
      PROVE  /\ TakenAt(x, q, given2)' = TakenAt(x, q, given)
             /\ HereAt(x, q, unended) => HereAt(x, q, unended2)'
  <2> DEFINE a == AskedAt(world, x, q)
  <2>1. TakenAt(x, q, given) = given[a] /\ (HereAt(x, q, unended) <=> a \in unended)
    BY ViewBefore
  <2>2. /\ TakenAt(x, q, given2)' = IF a = c /\ r.type = "item" THEN given2[c] - 1 ELSE given2[a]
        /\ HereAt(x, q, unended2)' <=> a \in unended2 \/ (a = c /\ r.type # "item")
    BY ViewOfAnswer
  <2>3. a \in Objects
    BY PlacesAskObjects
  <2> HIDE DEF a
  <2>4. given[c] \in Nat /\ given[a] \in Nat
    BY <2>3
  <2> QED BY <2>1, <2>2, <2>3, <2>4 DEF Answers
<1> QED BY <1>1, <1>2 DEF SeesTheSame

LEMMA OthersSeeAnswer ==
    ASSUME TypeInv, IsTree(world), world' = world, TreeInv',
           active' # <<>>, result' # Nothing, NEW c \in Objects, Awaits(Top, lasti, c)',
           NEW given \in [Objects -> Nat], NEW unended, NEW given2, NEW unended2, NEW r, r = result',
           Answers(c, given, unended, given2, unended2, r),
           NEW x \in Objects, x # c, ObjectAsWritten(x, given, unended),
           active = <<>> \/ Top.obj # x \/ result = Nothing,
           Still(x), Got(active', x) = Got(active, x), x \in Generators => (Goes(x)' <=> Goes(x))
    PROVE  ObjectAsWritten(x, given2, unended2)'
<1>1. SeesTheSame(x, given, unended, given2, unended2)
  BY AnswerSeen
<1> QED BY <1>1, SameView

LEMMA AnswerComes ==
    ASSUME TypeInv, IsTree(world), world' = world, TreeInv', heard' = heard,
           NEW root, Asked = {root},
           active' # <<>>, result' # Nothing, NEW c, Awaits(Top, lasti, c)',
           NEW given \in [Objects -> Nat], NEW unended \in SUBSET Objects, c \in unended,
           NEW given2, NEW unended2, NEW r, r = result',
           Answers(c, given, unended, given2, unended2, r),
           \A x \in unended : x # c => ObjectAsWritten(x, given2, unended2)',
           r.type = "item" => ObjectAsWritten(c, given2, unended2)',
           \A i \in 1 .. Len(active') : active'[i].obj \in unended \cup {0} /\ active'[i].obj # c,
           root \in unended, given[root] = HeardBefore + Len(active'[1].got),
           \A i \in 1 .. Len(active'[1].got) : active'[1].got[i] = Items(root)[HeardBefore + i]
    PROVE  AsWritten(root, given2, unended2)'
<1>1. \A y : Mean(y)' = Mean(y) /\ Items(y)' = Items(y)
  BY DEF Mean, Items
<1>2. given2 \in [Objects -> Nat] /\ unended2 \subseteq Objects
  BY DEF Answers
<1>3. \A x \in unended2 : ObjectAsWritten(x, given2, unended2)'
  BY DEF Answers
<1>4. \A i \in 1 .. Len(active') : active'[i].obj \in unended2 \cup {0}
  BY DEF Answers
<1>5. AnswerAsWritten(given2, unended2)'
  <2> SUFFICES ASSUME NEW d \in Objects, Awaits(Top, lasti, d)'
               PROVE  IF result'.type = "item"
                      THEN d \in unended2 /\ given2[d] # 0 /\ result'.value = Items(d)[given2[d]]
                      ELSE given2[d] = Len(Items(d)) /\ result'.type = Mean(d).end
    BY <1>1 DEF AnswerAsWritten
  <2>1. d = c
    BY DEF Awaits
  <2>2. given[c] \in Nat
    OBVIOUS
  <2> QED BY <2>1, <2>2 DEF Answers
<1>6. AskAsWritten(root, given2, unended2)'
  <2>1. HeardBefore' = HeardBefore
    BY DEF HeardBefore
  <2>2. CallsInv(active, running)' /\ Based(active)' /\ IsStack(active)' /\ Len(active') \in 1 .. Len(active')
    <3>1. CallsInv(active, running)' /\ Based(active)' /\ IsStack(active)'
      BY DEF TreeInv, IterationInv, ChainInv, CallsInv
    <3> QED BY <3>1, StackShrinks
  <2>3. Top'.obj = 0 => Len(active') = 1 /\ Top'.of = root
    BY <2>2 DEF CallsInv, Outside, Based, Top
  <2>4. Top'.obj = 0 <=> c = root
    <3>1. ASSUME Top'.obj = 0 PROVE c = root
      BY <3>1, <2>3 DEF Awaits
    <3>2. ASSUME Top'.obj # 0 PROVE c # root
      <4>1. /\ Top'.obj \in Objects /\ PlaceOf(Top, lasti)' \in Places(world', Top'.obj)
            /\ c = AskedAt(world', Top'.obj, PlaceOf(Top, lasti)')
        BY <3>2 DEF Awaits
      <4>2. c \notin Asked
        BY <4>1 DEF IsTree
      <4> QED BY <4>2
    <3> QED BY <3>1, <3>2
  <2>5. Pending(0)' <=> c = root /\ r.type = "item"
    BY <2>4 DEF Pending
  <2>6. Ending(0)' <=> c = root /\ r.type # "item"
    BY <2>4 DEF Ending
  <2>7. given[root] = (IF Pending(0)' THEN given2[root] - 1 ELSE given2[root]) /\ (root \in unended2 \/ Ending(0)')
    <3>1. root \in Objects /\ given[root] \in Nat
      OBVIOUS
    <3> QED BY <3>1, <2>5, <2>6 DEF Answers
  <2> QED BY <2>1, <2>7, <1>1 DEF AskAsWritten
<1> QED BY <1>2, <1>3, <1>4, <1>5, <1>6 DEF AsWritten

-------------------------------------------------------------------------------
(* The calls and the numbers after what is on top has answered, or stays.     *)
OnlyMoves(o) == \A x \in Objects : x # o => Still(x)

LEMMA BelowTop ==
    ASSUME TreeInv, TreeInv', IsTree(world), world' = world, active # <<>>,
           NEW o \in Objects, Top.obj = o, NEW r, r # Nothing, Answer(r),
           \A g \in Generators : g # o => lasti'[g] = lasti[g]
    PROVE  /\ active' # <<>> /\ Len(active') = Len(active) - 1 /\ Once(active')
           /\ \A i \in 1 .. Len(active') : active'[i] = active[i] /\ active'[i].obj # o
           /\ active'[1] = active[1] /\ result' = r
           /\ Awaits(Top, lasti, o)'
           /\ \A x : x # o => Got(active', x) = Got(active, x)
           /\ Got(active', o) = <<>>
<1> DEFINE n == Len(active)
<1>1. /\ n \in Nat \ {0} /\ n > 1 /\ Once(active) /\ IsStack(active)
      /\ active[n].obj = o
  BY TopCall, ObjectsAssumption
<1>2. active' = SubSeq(active, 1, n - 1) /\ result' = r
  BY DEF Answer, Below
<1>3. /\ IsStack(active') /\ Len(active') = n - 1
      /\ \A i \in 1 .. n - 1 : active'[i] = active[i]
  BY <1>1, <1>2, StackShrinks
<1>4. active' # <<>> /\ 1 \in 1 .. n - 1 /\ n - 1 \in 1 .. n - 1
  BY <1>1, <1>3
<1>5. \A i \in 1 .. n - 1 : i \in 1 .. n /\ n \in 1 .. n /\ i # n
  BY <1>1
<1>6. \A i \in 1 .. n - 1 : active'[i].obj # o
  BY <1>1, <1>3, <1>5 DEF Once
<1>7. Once(active')
  BY <1>1, <1>3, <1>5 DEF Once
<1>8. Awaits(Top, lasti, o)'
  <2>1. Linked(active, lasti)
    BY DEF TreeInv, ChainInv
  <2>2. n - 1 + 1 = n
    BY <1>1
  <2>3. Awaits(active[n - 1], lasti, o)
    BY <2>1, <2>2, <1>1, <1>4 DEF Linked
  <2>4. Awaits(active'[n - 1], lasti', o)
    BY <2>3, <1>3, <1>4, <1>6, AwaitsAsBefore
  <2>5. Generators' = Generators
    BY DEF Generators, IsGenerator
  <2> QED BY <2>4, <2>5, <1>3 DEF Awaits, PlaceOf, Top
<1>9. ASSUME NEW x, x # o PROVE Got(active', x) = Got(active, x)
  <2>1. \A i \in 1 .. n : active[i].obj = x => i \in 1 .. n - 1
    BY <1>1, <1>9
  <2>2. \A i \in 1 .. n : active[i].obj = x => i \in 1 .. Len(active') /\ active'[i] = active[i]
    BY <2>1, <1>3
  <2>3. \A i \in 1 .. Len(active') : i \in 1 .. n /\ active'[i] = active[i]
    BY <1>3, <1>5
  <2> HIDE DEF n
  <2> QED BY <2>2, <2>3, <1>1, <1>7, GotAsBefore DEF n
<1>10. Got(active', o) = <<>>
  BY <1>3, <1>6, GotNowhere
<1> QED BY <1>2, <1>3, <1>4, <1>6, <1>7, <1>8, <1>9, <1>10

LEMMA TopAnswers ==
    ASSUME TreeInv, TreeInv', IsTree(world), world' = world, heard' = heard,
           NEW root, Asked = {root}, NEW given, NEW unended, AsWritten(root, given, unended),
           active # <<>>, NEW o \in Objects, Top.obj = o, NEW r, r # Nothing, Answer(r),
           NEW given2, NEW unended2, Answers(o, given, unended, given2, unended2, r),
           OnlyMoves(o),
           r.type = "item" => ObjectAsWritten(o, given2, unended2)'
    PROVE  AsWritten(root, given2, unended2)'
<1>1. TypeInv /\ given \in [Objects -> Nat] /\ unended \in SUBSET Objects
  BY DEF TreeInv, IterationInv, AsWritten
<1>2. /\ active' # <<>> /\ Len(active') = Len(active) - 1 /\ Once(active')
      /\ \A i \in 1 .. Len(active') : active'[i] = active[i] /\ active'[i].obj # o
      /\ active'[1] = active[1] /\ result' = r
      /\ Awaits(Top, lasti, o)'
      /\ \A x : x # o => Got(active', x) = Got(active, x)
  <2>1. \A g \in Generators : g # o => lasti'[g] = lasti[g]
    BY DEF Generators, OnlyMoves, Still
  <2> QED BY <2>1, BelowTop
<1>3. Len(active) \in Nat \ {0} /\ active[Len(active)].obj = o
  BY TopCall
<1>4. o \in unended /\ \A i \in 1 .. Len(active') : active'[i].obj \in unended \cup {0}
  <2>1. Len(active) \in 1 .. Len(active) /\ \A i \in 1 .. Len(active') : i \in 1 .. Len(active)
    BY <1>2, <1>3
  <2>2. o # 0
    BY ObjectsAssumption
  <2> QED BY <2>1, <2>2, <1>2, <1>3 DEF AsWritten
<1>5. ~Pending(0) /\ ~Ending(0)
  BY ObjectsAssumption DEF Pending, Ending
<1>6. /\ root \in unended /\ given[root] = HeardBefore + Len(active'[1].got)
      /\ \A i \in 1 .. Len(active'[1].got) : active'[1].got[i] = Items(root)[HeardBefore + i]
  <2>1. AskAsWritten(root, given, unended) /\ root \in Objects
    BY ObjectsAssumption DEF AsWritten
  <2>2. /\ root \in unended /\ given[root] = HeardBefore + Len(active[1].got)
        /\ \A i \in 1 .. Len(active[1].got) : active[1].got[i] = Items(root)[HeardBefore + i]
    BY <2>1, <1>5 DEF AskAsWritten
  <2> QED BY <2>2, <1>2
<1>7. ASSUME NEW x \in unended, x # o PROVE ObjectAsWritten(x, given2, unended2)'
  <2>1. x \in Objects /\ ObjectAsWritten(x, given, unended)
    BY <1>1 DEF AsWritten
  <2>2. Goes(x)' <=> Goes(x)
    BY <1>2, <1>7 DEF Goes
  <2>3. Still(x)
    BY <2>1, <1>7 DEF OnlyMoves
  <2> QED BY <2>1, <2>2, <2>3, <1>1, <1>2, <1>7, OthersSeeAnswer
<1> QED BY <1>1, <1>2, <1>4, <1>6, <1>7, AnswerComes

LEMMA TopStays ==
    ASSUME TreeInv, TreeInv', IsTree(world), world' = world, heard' = heard,
           NEW root, Asked = {root}, NEW given, NEW unended, AsWritten(root, given, unended),
           active # <<>>, NEW o \in Objects, Top.obj = o, result' = Nothing,
           Len(active') = Len(active), \A i \in 1 .. Len(active) : active'[i].obj = active[i].obj,
           \A i \in 1 .. Len(active) : i # Len(active) => active'[i] = active[i],
           OnlyMoves(o),
           o \in unended => ObjectAsWritten(o, given, unended)'
    PROVE  AsWritten(root, given, unended)'
<1>1. TypeInv /\ given \in [Objects -> Nat] /\ unended \in SUBSET Objects
  BY DEF TreeInv, IterationInv, AsWritten
<1>2. /\ Len(active) \in Nat \ {0} /\ Len(active) > 1 /\ Once(active)
      /\ active[Len(active)].obj = o
  BY TopCall, ObjectsAssumption
<1>3. Once(active') /\ Top'.obj = o /\ active'[1] = active[1]
  BY <1>2 DEF Once, Top
<1>4. ASSUME NEW x \in unended PROVE ObjectAsWritten(x, given, unended)'
  <2> x \in Objects
    BY <1>1
  <2>1. CASE x = o
    BY <2>1
  <2>2. CASE x # o
    <3>1. ObjectAsWritten(x, given, unended)
      BY DEF AsWritten
    <3>2. ~Goes(x)' /\ ~Goes(x)
      BY <2>2, <1>3 DEF Goes
    <3>3. Got(active', x) = Got(active, x)
      <4>1. \A i \in 1 .. Len(active) : active[i].obj = x => i \in 1 .. Len(active') /\ active'[i] = active[i]
        BY <2>2, <1>2
      <4>2. \A i \in 1 .. Len(active') : active'[i].obj = x => i \in 1 .. Len(active) /\ active'[i] = active[i]
        BY <2>2, <1>2
      <4> QED BY <4>1, <4>2, <1>2, <1>3, GotAsBefore
    <3>4. ASSUME NEW q \in Places(world, x)
          PROVE  /\ TakenAt(x, q, given)' = TakenAt(x, q, given)
                 /\ HereAt(x, q, unended) => HereAt(x, q, unended)'
      <4>1. Top.obj # x
        BY <2>2
      <4>2. Top'.obj # x
        BY <2>2, <1>3
      <4> QED BY <4>1, <4>2, ViewKept
    <3>5. Still(x) /\ SeesTheSame(x, given, unended, given, unended)
      BY <2>2, <3>4 DEF OnlyMoves, SeesTheSame
    <3> QED BY <3>1, <3>2, <3>3, <3>4, <3>5, <1>1, SameView
  <2> QED BY <2>1, <2>2
<1>5. \A i \in 1 .. Len(active') : active'[i].obj \in unended \cup {0}
  BY DEF AsWritten
<1>6. AnswerAsWritten(given, unended)'
  BY DEF AnswerAsWritten
<1>7. AskAsWritten(root, given, unended)'
  <2>1. ~Pending(0) /\ ~Ending(0) /\ ~Pending(0)'
    BY <1>3, ObjectsAssumption DEF Pending, Ending
  <2>2. HeardBefore' = HeardBefore /\ active' # <<>>
    BY <1>2 DEF HeardBefore
  <2>3. \A y : Items(y)' = Items(y)
    BY DEF Items, Mean
  <2>4. AskAsWritten(root, given, unended)
    BY DEF AsWritten
  <2> QED BY <2>1, <2>2, <2>3, <2>4, <1>3 DEF AskAsWritten
<1> QED BY <1>1, <1>4, <1>5, <1>6, <1>7 DEF AsWritten

-------------------------------------------------------------------------------
(* What is asked has not been asked yet, and nobody asks himself.             *)
LEMMA AskedOnce ==
    ASSUME TypeInv, IsTree(world), NEW calls, NEW last, NEW c, calls # <<>>,
           IsStack(calls), Outside(calls), Based(calls), Linked(calls, last), NotTwice(calls),
           Awaits(calls[Len(calls)], last, c), c \in Objects
    PROVE  \A i \in 1 .. Len(calls) : calls[i].obj # c
<1> DEFINE n == Len(calls)
<1>1. n \in Nat \ {0} /\ n \in 1 .. n
  BY StackShrinks
<1> SUFFICES ASSUME NEW i \in 1 .. n, calls[i].obj = c PROVE FALSE
  OBVIOUS
<1>2. CASE calls[n].obj = 0
  <2>1. n = 1
    BY <1>1, <1>2 DEF Outside
  <2> QED BY <1>2, <2>1, ObjectsAssumption
<1>3. CASE calls[n].obj # 0
  <2> DEFINE g == calls[n].obj
             k == PlaceOf(calls[n], last)
  <2>1. g \in Objects /\ k \in Places(world, g) /\ AskedAt(world, g, k) = c
    BY <1>3 DEF Awaits
  <2> HIDE DEF g, k
  <2>2. i - 1 \in 1 .. n /\ calls[i - 1].obj = g
    BY <2>1, AskerBelow
  <2>3. i - 1 = n
    BY <2>2, <1>1 DEF g, NotTwice
  <2> QED BY <2>3, <1>1
<1> QED BY <1>2, <1>3

LEMMA AsksAnother ==
    ASSUME TreeInv, IsTree(world), active # <<>>, NEW o \in Objects, Top.obj = o,
           NEW q \in Places(world, o)
    PROVE  AskedAt(world, o, q) # o /\ AskedAt(world, o, q) \in Objects
<1>1. /\ TypeInv /\ CallsInv(active, running) /\ Based(active) /\ Linked(active, lasti)
      /\ NotTwice(active)
  BY DEF TreeInv, IterationInv, ChainInv
<1>2. Len(active) \in Nat \ {0} /\ Len(active) \in 1 .. Len(active) /\ active[Len(active)].obj = o
  BY TopCall
<1>3. ASSUME AskedAt(world, o, q) = o PROVE FALSE
  <2>1. Len(active) - 1 \in 1 .. Len(active) /\ active[Len(active) - 1].obj = o
    BY <1>1, <1>2, <1>3, AskerBelow DEF CallsInv
  <2> QED BY <2>1, <1>1, <1>2 DEF NotTwice
<1> QED BY <1>1, <1>3, PlacesAskObjects

(* Asking c executes it, or it answers at once.                               *)
Executes(c, calls) ==
    /\ active' = Append(calls, Calling(c)) /\ result' = Nothing
    /\ yielded' = yielded /\ index' = index
    /\ \A x \in Objects : x # c => running'[x] = running[x] /\ top'[x] = top[x]
    /\ c \in Generators => running'[c] /\ (lasti[c] = 0 \/ top'[c] = None)
    /\ c \notin Generators => running' = running /\ top' = top
Gives(c, calls) ==
    /\ world[c].kind = "iterator" /\ active' = calls
    /\ yielded' = yielded /\ running' = running /\ top' = top
    /\ \/ /\ ~(index[c] >= Len(world[c].seq)) /\ result' = Item(world[c].seq[index[c] + 1])
          /\ index' = [index EXCEPT ![c] = @ + 1]
       \/ index[c] >= Len(world[c].seq) /\ result' = Stop /\ index' = index

(* An object that has not ended refuses nobody who asks it for its next item. *)
LEMMA EnterQuietly ==
    ASSUME TypeInv, NEW c \in Objects, NEW calls, Enter(c, None, calls),
           index \in [Objects -> Nat], NEW S, top \in [Objects -> S],
           NEW given, NEW unended, ObjectAsWritten(c, given, unended),
           c \in Generators => ~running[c]
    PROVE  Executes(c, calls) \/ Gives(c, calls)
<1>1. CASE IsGenerator(c)
  <2>1. Send(c, None, calls) /\ index' = index
    BY <1>1 DEF Enter, IsGenerator
  <2>2. c \in Generators /\ ~running[c]
    BY <1>1 DEF Generators
  <2>3. ~Over(c)
    <3>1. GeneratorAsWritten(c, given, unended)
      BY <1>1 DEF ObjectAsWritten, IsGenerator
    <3> QED BY <2>2, <3>1 DEF GeneratorAsWritten, Over
  <2>4. /\ running' = [running EXCEPT ![c] = TRUE]
        /\ IF lasti[c] = 0 THEN UNCHANGED <<top, received>> ELSE top' = [top EXCEPT ![c] = None]
        /\ active' = Append(calls, Calling(c)) /\ result' = Nothing /\ yielded' = yielded
    BY <2>1, <2>2, <2>3 DEF Send
  <2>5. running \in [Objects -> BOOLEAN]
    BY DEF TypeInv
  <2>6. /\ running'[c] /\ \A x \in Objects : x # c => running'[x] = running[x]
    BY <2>4, <2>5
  <2>7. /\ lasti[c] = 0 \/ top'[c] = None
        /\ \A x \in Objects : x # c => top'[x] = top[x]
    BY <2>4
  <2> QED BY <2>1, <2>2, <2>4, <2>6, <2>7 DEF Executes
<1>2. CASE ~IsGenerator(c) /\ world[c].kind = "iterator"
  <2>1. NextOfSequence(c, calls)
    BY <1>2 DEF Enter
  <2>2. active' = calls /\ running' = running /\ top' = top /\ yielded' = yielded
    BY <2>1 DEF NextOfSequence, frames
  <2>3. CASE index[c] >= Len(world[c].seq)
    <3>1. result' = Stop /\ index' = index
      BY <2>1, <2>3 DEF NextOfSequence
    <3> QED BY <1>2, <2>2, <2>3, <3>1 DEF Gives
  <2>4. CASE ~(index[c] >= Len(world[c].seq))
    <3>1. /\ result' = Item(world[c].seq[index[c] + 1])
          /\ index' = [index EXCEPT ![c] = @ + 1]
      BY <2>1, <2>4 DEF NextOfSequence
    <3> QED BY <1>2, <2>2, <2>4, <3>1 DEF Gives
  <2> QED BY <2>3, <2>4
<1>3. CASE ~IsGenerator(c) /\ world[c].kind # "iterator"
  <2>1. /\ result' = Nothing /\ active' = Append(calls, Calling(c)) /\ index' = index
        /\ yielded' = yielded /\ running' = running /\ top' = top
    BY <1>3 DEF Enter, frames
  <2> QED BY <1>3, <2>1 DEF Generators, Executes
<1> QED BY <1>1, <1>2, <1>3

LEMMA GeneratorEntered ==
    ASSUME TypeInv, IsTree(world), world' = world, NEW c \in Generators,
           NEW given, NEW unended, ObjectAsWritten(c, given, unended),
           SeesTheSame(c, given, unended, given, unended),
           ~running[c], running'[c], lasti'[c] = lasti[c], ~Goes(c), Goes(c)',
           lasti[c] = 0 \/ top'[c] = None
    PROVE  ObjectAsWritten(c, given, unended)'
<1>1. c \in Objects /\ world[c].kind = "generator" /\ Straight(Code(c)) /\ WellFormed(Code(c))
  BY CodeIsWellFormed DEF Generators, IsGenerator, IsTree, Code
<1>2. \A y : Mean(y)' = Mean(y) /\ Items(y)' = Items(y)
  BY DEF Mean, Items
<1>3. Code(c)' = Code(c)
  BY DEF Code
<1>4. GeneratorAsWritten(c, given, unended)
  BY <1>1 DEF ObjectAsWritten
<1>5. PICK p \in DOMAIN Mean(c).at : StatementAsWritten(c, p, given, unended)
  BY <1>4 DEF GeneratorAsWritten
<1>6. ~Suspended(c) /\ ~Suspended(c)'
  BY DEF Suspended
<1>7. StatementAsWritten(c, p, given, unended)'
  BY <1>5, <1>6, StatementKept
<1>8. Code(c)[lasti[c] + 1].op = "from" => lasti[c] # 0
  <2>1. 1 \in 1 .. Len(Code(c)) /\ ~(1 > 1)
    BY <1>1 DEF WellFormed
  <2>2. Code(c)[1].op # "from"
    BY <1>1, <2>1 DEF Straight
  <2>3. lasti[c] = 0 => lasti[c] + 1 = 1
    OBVIOUS
  <2> QED BY <2>2, <2>3
<1>9. GeneratorAsWritten(c, given, unended)'
  BY <1>2, <1>3, <1>7, <1>8 DEF GeneratorAsWritten
<1> QED BY <1>1, <1>2, <1>9 DEF ObjectAsWritten

\* asker is the object, if any, whose next item is being asked for: it stays
\* where its meaning says as long as it sees the same of what it asks.
Waits(asker, given, unended) ==
    \A given2, unended2 :
        /\ SeesTheSame(asker, given, unended, given2, unended2)
        /\ ~Goes(asker)' /\ Got(active', asker) = Got(active, asker)
        /\ yielded'[asker] = yielded[asker] /\ running'[asker] = running[asker]
        /\ top'[asker] = top[asker] /\ index'[asker] = index[asker]
        => ObjectAsWritten(asker, given2, unended2)'

OnlyAdvances(asker) == \A x \in Objects : x # asker => lasti'[x] = lasti[x]

HasGot(root, given, ask) ==
    /\ given[root] = HeardBefore + Len(ask.got)
    /\ \A i \in 1 .. Len(ask.got) : ask.got[i] = Items(root)[HeardBefore + i]

SameGot(calls) == \A x \in Objects : Got(calls, x) = Got(active, x)

LEMMA PushedAsWritten ==
    ASSUME TreeInv, TreeInv', IsTree(world), world' = world, heard' = heard,
           NEW root, Asked = {root}, active = <<>> \/ result = Nothing,
           NEW given \in [Objects -> Nat], NEW unended \in SUBSET Objects,
           \A x \in unended : ObjectAsWritten(x, given, unended),
           NEW calls, IsStack(calls), calls # <<>>, Once(calls),
           NEW c \in unended, \A i \in 1 .. Len(calls) : calls[i].obj \in unended \cup {0} /\ calls[i].obj # c,
           SameGot(calls),
           NEW asker, asker # c, active # <<>> => Top.obj = asker,
           asker \in unended => Waits(asker, given, unended),
           OnlyAdvances(asker),
           root \in unended, HasGot(root, given, calls[1]),
           c \in Generators => ~running[c], Executes(c, calls)
    PROVE  AsWritten(root, given, unended)'
<1> DEFINE n == Len(calls)
<1>1. TypeInv /\ c \in Objects
  BY DEF TreeInv, IterationInv
<1>0. active' = Append(calls, Calling(c)) /\ result' = Nothing
  BY DEF Executes
<1>2. /\ n \in Nat \ {0} /\ Len(active') = n + 1
      /\ \A i \in 1 .. n : active'[i] = calls[i]
      /\ active'[n + 1].obj = c /\ active'[n + 1].got = <<>>
  BY <1>0, StackGrows, StackShrinks DEF Calling
<1>3. active' # <<>> /\ Top'.obj = c
  <2>1. Len(active') # 0
    BY <1>2
  <2> QED BY <2>1, <1>2 DEF Top
<1>4. \A i \in 1 .. Len(calls) : calls[i].obj # c
  OBVIOUS
<1>5. \A x \in Objects : Got(active', x) = Got(active, x)
  <2> PICK calls2 : calls2 = active'
    OBVIOUS
  <2>1. \A x : Got(calls2, x) = Got(calls, x)
    BY <1>4, <1>0, GotPushed
  <2> QED BY <2>1 DEF SameGot
<1>6. ASSUME NEW x PROVE SeesTheSame(x, given, unended, given, unended)
  BY <1>0, ViewKept DEF SeesTheSame
<1>7. ASSUME NEW x \in unended PROVE ObjectAsWritten(x, given, unended)'
  <2> x \in Objects
    OBVIOUS
  <2>1. CASE x = asker
    <3>1. /\ ~Goes(x)' /\ Got(active', x) = Got(active, x)
          /\ yielded'[x] = yielded[x] /\ running'[x] = running[x]
          /\ top'[x] = top[x] /\ index'[x] = index[x]
      BY <2>1, <1>3, <1>5 DEF Goes, Executes
    <3> QED BY <2>1, <3>1, <1>6 DEF Waits
  <2>2. CASE x = c /\ c \in Generators
    <3>1. ~Goes(c) /\ Goes(c)'
      BY <1>0, <1>3 DEF Goes
    <3>2. /\ ~running[c] /\ running'[c] /\ lasti'[c] = lasti[c]
          /\ lasti[c] = 0 \/ top'[c] = None
      BY <2>2 DEF Executes, OnlyAdvances
    <3> QED BY <2>2, <3>1, <3>2, <1>1, <1>6, GeneratorEntered
  <2>3. CASE x # asker /\ (x # c \/ c \notin Generators)
    <3>1. Still(x)
      BY <2>3 DEF Still, Executes, OnlyAdvances
    <3>2. x \in Generators => ~Goes(x) /\ ~Goes(x)'
      BY <2>3, <1>3 DEF Goes
    <3> QED BY <3>1, <3>2, <1>1, <1>5, <1>6, SameView
  <2> QED BY <2>1, <2>2, <2>3
<1>8. \A i \in 1 .. Len(active') : active'[i].obj \in unended \cup {0}
  BY <1>2
<1>9. AnswerAsWritten(given, unended)'
  BY <1>0 DEF AnswerAsWritten
<1>10. AskAsWritten(root, given, unended)'
  <2>1. ~Pending(0)' /\ active'[1] = calls[1] /\ HeardBefore' = HeardBefore
    BY <1>2, <1>3, <1>1, ObjectsAssumption DEF Pending, HeardBefore
  <2>2. Items(root)' = Items(root)
    BY DEF Items, Mean
  <2> QED BY <2>1, <2>2, <1>3 DEF AskAsWritten, HasGot
<1> QED BY <1>7, <1>8, <1>9, <1>10 DEF AsWritten

LEMMA GivenAsWritten ==
    ASSUME TreeInv, TreeInv', IsTree(world), world' = world, heard' = heard,
           NEW root, Asked = {root}, active = <<>> \/ result = Nothing,
           NEW given \in [Objects -> Nat], NEW unended \in SUBSET Objects,
           \A x \in unended : ObjectAsWritten(x, given, unended),
           NEW calls, calls # <<>>,
           NEW c \in unended, \A i \in 1 .. Len(calls) : calls[i].obj \in unended \cup {0} /\ calls[i].obj # c,
           SameGot(calls), index \in [Objects -> Nat],
           NEW asker, asker # c, active # <<>> => Top.obj = asker,
           asker \in unended => Waits(asker, given, unended),
           OnlyAdvances(asker),
           root \in unended, HasGot(root, given, calls[1]),
           Gives(c, calls), Awaits(Top, lasti, c)'
    PROVE  \E given2, unended2 : AsWritten(root, given2, unended2)'
<1>1. /\ TypeInv /\ c \in Objects /\ world[c].kind = "iterator" /\ active' = calls
      /\ yielded' = yielded /\ running' = running /\ top' = top
  BY DEF TreeInv, IterationInv, Gives
<1>2. /\ given[c] \in Nat /\ index[c] = given[c] /\ given[c] <= Len(Items(c))
      /\ Len(Items(c)) \in Nat /\ Items(c) = world[c].seq /\ Mean(c).end = "stop"
  <2>1. ObjectMeans(world, Meaning[world], c) /\ Len(Items(c)) \in Nat
    BY <1>1, MeaningOfWorld
  <2>2. IteratorMeans(world, Meaning[world], c)
    BY <2>1, <1>1 DEF ObjectMeans
  <2> QED BY <2>1, <2>2, <1>1 DEF IteratorMeans, ObjectAsWritten, Items, Mean
<1> PICK r : r = result'
  OBVIOUS
<1>3. \E given2, unended2 :
         /\ Answers(c, given, unended, given2, unended2, r) /\ r # Nothing
         /\ r.type = "item" => index'[c] = given2[c] /\ given2[c] <= Len(Items(c))
         /\ \A x \in Objects : x # c => index'[x] = index[x]
  <2>1. CASE index[c] >= Len(world[c].seq)
    <3>1. r = Stop /\ index' = index
      BY <1>2, <2>1 DEF Gives
    <3>2. given[c] = Len(Items(c)) /\ r.type = "stop"
      BY <1>2, <2>1, <3>1 DEF Stop
    <3>3. Answers(c, given, unended, given, unended \ {c}, r)
      BY <1>2, <3>2 DEF Answers
    <3> QED BY <3>1, <3>2, <3>3, NothingIsNoAnswer
  <2>2. CASE ~(index[c] >= Len(world[c].seq))
    <3> DEFINE given2 == [given EXCEPT ![c] = @ + 1]
    <3>1. r = Item(world[c].seq[index[c] + 1]) /\ index' = [index EXCEPT ![c] = @ + 1]
      BY <1>2, <2>2 DEF Gives
    <3>2. r.type = "item" /\ r.value = Items(c)[given[c] + 1]
      BY <1>2, <3>1 DEF Item
    <3>3. Answers(c, given, unended, given2, unended, r)
      BY <3>2 DEF Answers
    <3>4. index'[c] = given2[c] /\ given2[c] <= Len(Items(c))
      BY <1>1, <1>2, <2>2, <3>1
    <3>5. \A x \in Objects : x # c => index'[x] = index[x]
      BY <3>1
    <3> QED BY <3>1, <3>3, <3>4, <3>5, NothingIsNoAnswer
  <2> QED BY <2>1, <2>2
<1> PICK given2, unended2 :
         /\ Answers(c, given, unended, given2, unended2, r) /\ r # Nothing
         /\ r.type = "item" => index'[c] = given2[c] /\ given2[c] <= Len(Items(c))
         /\ \A x \in Objects : x # c => index'[x] = index[x]
  BY <1>3
<1>4. active' # <<>> /\ result' # Nothing
  BY <1>1
<1>5. ASSUME NEW x \in unended, x # c PROVE ObjectAsWritten(x, given2, unended2)'
  <2> x \in Objects
    OBVIOUS
  <2>1. SeesTheSame(x, given, unended, given2, unended2)
    BY <1>1, <1>4, <1>5, AnswerSeen
  <2>2. ~Goes(x)' /\ Got(active', x) = Got(active, x)
    BY <1>1, <1>4 DEF Goes, SameGot
  <2>3. /\ yielded'[x] = yielded[x] /\ running'[x] = running[x]
        /\ top'[x] = top[x] /\ index'[x] = index[x]
    BY <1>1, <1>5
  <2>4. CASE x = asker
    BY <2>1, <2>2, <2>3, <2>4 DEF Waits
  <2>5. CASE x # asker
    <3>1. Still(x)
      BY <2>3, <2>5 DEF Still, OnlyAdvances
    <3>2. ~Goes(x)
      BY <2>5 DEF Goes
    <3> QED BY <3>1, <3>2, <2>1, <2>2, <1>1, SameView
  <2> QED BY <2>4, <2>5
<1>6. r.type = "item" => ObjectAsWritten(c, given2, unended2)'
  <2>1. Items(c)' = Items(c)
    BY DEF Items, Mean
  <2> QED BY <2>1, <1>1 DEF ObjectAsWritten
<1>7. /\ given[root] = HeardBefore + Len(active'[1].got)
      /\ \A i \in 1 .. Len(active'[1].got) : active'[1].got[i] = Items(root)[HeardBefore + i]
  BY <1>1 DEF HasGot
<1>8. \A i \in 1 .. Len(active') : active'[i].obj \in unended \cup {0} /\ active'[i].obj # c
  BY <1>1
<1>9. AsWritten(root, given2, unended2)'
  BY <1>1, <1>4, <1>5, <1>6, <1>7, <1>8, AnswerComes
<1> QED BY <1>9

LEMMA AskComes ==
    ASSUME TreeInv, TreeInv', IsTree(world), world' = world, heard' = heard,
           NEW root, Asked = {root}, active # <<>>, result = Nothing,
           index \in [Objects -> Nat], NEW S, top \in [Objects -> S],
           NEW given, NEW unended, AsWritten(root, given, unended),
           NEW c \in unended, Enter(c, None, active), Awaits(active[Len(active)], lasti', c),
           NEW asker, Top.obj = asker, OnlyAdvances(asker),
           asker \in unended => Waits(asker, given, unended)
    PROVE  \E given2, unended2 : AsWritten(root, given2, unended2)'
<1>1. /\ TypeInv /\ CallsInv(active, running) /\ Linked(active, lasti) /\ Based(active)
      /\ NotTwice(active) /\ IsStack(active) /\ Outside(active) /\ Marked(active, running)
  BY DEF TreeInv, IterationInv, ChainInv, CallsInv
<1>2. /\ given \in [Objects -> Nat] /\ unended \in SUBSET Objects /\ c \in Objects
      /\ \A x \in unended : ObjectAsWritten(x, given, unended)
      /\ \A i \in 1 .. Len(active) : active[i].obj \in unended \cup {0}
      /\ AskAsWritten(root, given, unended) /\ root \in Objects
  BY ObjectsAssumption DEF AsWritten
<1>3. Len(active) \in Nat \ {0} /\ Once(active) /\ active[Len(active)].obj = asker
  BY TopCall
<1>4. Linked(active, lasti')
  <2>1. \A g \in Generators : g # active[Len(active)].obj => lasti'[g] = lasti[g]
    BY <1>3 DEF OnlyAdvances, Generators
  <2> QED BY <2>1, <1>1, LinkedAsBefore
<1>5. \A i \in 1 .. Len(active) : active[i].obj # c
  BY <1>1, <1>2, <1>4, AskedOnce
<1>6. asker # c
  <2>1. Len(active) \in 1 .. Len(active)
    BY <1>3
  <2> QED BY <2>1, <1>3, <1>5
<1>7. c \in Generators => ~running[c]
  BY <1>1, <1>5 DEF Marked
<1>8. SameGot(active)
  BY DEF SameGot
<1>9. root \in unended /\ HasGot(root, given, active[1])
  <2>1. ~Pending(0) /\ ~Ending(0)
    BY DEF Pending, Ending, Nothing
  <2>2. given[root] \in Nat
    BY <1>2
  <2> QED BY <2>1, <2>2, <1>2 DEF AskAsWritten, HasGot
<1>10. ObjectAsWritten(c, given, unended)
  BY <1>2
<1>11. CASE Executes(c, active)
  <2>1. AsWritten(root, given, unended)'
    BY <1>1, <1>2, <1>3, <1>5, <1>6, <1>7, <1>8, <1>9, <1>11, PushedAsWritten
  <2> QED BY <2>1
<1>12. CASE Gives(c, active)
  <2>1. Generators' = Generators
    BY DEF Generators, IsGenerator
  <2>2. active' = active
    BY <1>12 DEF Gives
  <2>3. Awaits(Top, lasti, c)'
    BY <2>1, <2>2 DEF Awaits, PlaceOf, Top
  <2> QED BY <2>3, <1>2, <1>5, <1>6, <1>8, <1>9, <1>12, GivenAsWritten
<1> QED BY <1>1, <1>2, <1>7, <1>10, <1>11, <1>12, EnterQuietly

-------------------------------------------------------------------------------
(* Where a generator is that is executed, and where it gets to.               *)
Passed(g, p, given) ==
    IF Code(g)[p + 1].op \in {"from", "iter"} THEN TakenAt(g, p + 1, given) ELSE 0
HasGiven(g, p, given) == given[g] = Mean(g).at[p] + Passed(g, p, given)
GivesOn(g, p, given) ==
    /\ lasti[g] = p + 1 /\ Code(g)[p + 1].op = "iter"
    /\ Passed(g, p, given) \in Nat \ {0}
    /\ given[g] = Mean(g).at[p] + Passed(g, p, given) - 1
    /\ top[g] = Items(Code(g)[p + 1].of)[Passed(g, p, given)]
GoesBack(g, p, given) ==
    lasti[g] = p + 2 /\ Code(g)[p + 1].op = "iter" /\ HasGiven(g, p, given)

LEMMA GeneratorArrives ==
    ASSUME TypeInv, IsTree(world), world' = world, NEW g \in Generators,
           NEW given, NEW unended, NEW p \in DOMAIN Mean(g).at,
           lasti'[g] = p, given[g] = Mean(g).at[p], ~Suspended(g)',
           running'[g] \/ lasti'[g] = 0 \/ yielded'[g],
           \A q \in Places(world, g) : q > p => HereAt(g, q, unended)' /\ TakenAt(g, q, given)' = 0,
           Goes(g)' /\ Code(g)[p + 1].op = "from" => top'[g] = None
    PROVE  ObjectAsWritten(g, given, unended)'
<1>1. /\ g \in Objects /\ world[g].kind = "generator" /\ Len(Code(g)) \in Nat
  BY CodeIsWellFormed DEF Generators, IsGenerator, WellFormed
<1>2. \A y : Mean(y)' = Mean(y) /\ Items(y)' = Items(y)
  BY DEF Mean, Items
<1>3. Code(g)' = Code(g) /\ Places(world, g)' = Places(world, g)
  BY DEF Code, Places
<1>4. /\ p \in 0 .. Len(Code(g)) - 1 /\ Mean(g).at[p] \in 0 .. Len(Items(g))
      /\ Len(Items(g)) \in Nat
  BY <1>1, MeaningAtPlace, MeaningOfWorld
<1>5. p + 1 > p /\ (\A q \in Places(world, g) : q > p + 1 => q > p)
  <2>1. Places(world, g) \subseteq 1 .. Len(Code(g))
    BY <1>1 DEF Places, Code, AdapterKinds
  <2> QED BY <2>1, <1>1, <1>4
<1>6. Code(g)[p + 1].op \in {"next", "from", "iter"} => p + 1 \in Places(world, g)
  <2>1. p + 1 \in 1 .. Len(Code(g))
    BY <1>1, <1>4
  <2> QED BY <2>1, <1>1 DEF Places, Code, AdapterKinds
<1>7. StatementAsWritten(g, p, given, unended)'
  <2> DEFINE op == Code(g)[p + 1].op
             passed == IF op \in {"from", "iter"} THEN TakenAt(g, p + 1, given)' ELSE 0
  <2>1. passed = 0
    BY <1>5, <1>6
  <2>2. given[g] = Mean(g).at[p] + passed
    BY <2>1, <1>1, <1>4
  <2> HIDE DEF passed
  <2>3. \A q \in Places(world, g) : q > p + 1 => HereAt(g, q, unended)' /\ TakenAt(g, q, given)' = 0
    BY <1>5
  <2>4. /\ p + 1 \in Places(world, g) => HereAt(g, p + 1, unended)'
        /\ op = "next" => TakenAt(g, p + 1, given)' = 0
    BY <1>5, <1>6
  <2> QED BY <2>2, <2>3, <2>4, <1>2, <1>3 DEF StatementAsWritten, passed
<1>8. GeneratorAsWritten(g, given, unended)'
  BY <1>2, <1>3, <1>7 DEF GeneratorAsWritten
<1> QED BY <1>1, <1>2, <1>4, <1>8 DEF ObjectAsWritten

LEMMA GeneratorIsIn ==
    ASSUME TypeInv, IsTree(world), world' = world, NEW g \in Generators,
           NEW given, NEW unended, NEW p \in DOMAIN Mean(g).at,
           NEW opcode, opcode = Code(g)[p + 1], opcode.op \in {"next", "from", "iter"},
           NEW taken \in Nat, TakenAt(g, p + 1, given)' = taken, opcode.op = "next" => taken = 0,
           HereAt(g, p + 1, unended)',
           \A q \in Places(world, g) : q > p + 1 => HereAt(g, q, unended)' /\ TakenAt(g, q, given)' = 0,
           given[g] <= Len(Items(g)),
           running'[g] \/ lasti'[g] = 0 \/ yielded'[g],
           Goes(g)' /\ Code(g)[lasti'[g] + 1].op = "from" => top'[g] = None,
           \/ lasti'[g] = p /\ ~Suspended(g)' /\ given[g] = Mean(g).at[p] + taken
           \/ lasti'[g] = p + 1 /\ Suspended(g)' /\ given[g] = Mean(g).at[p] + taken
           \/ /\ lasti'[g] = p + 1 /\ Goes(g)' /\ running'[g] /\ opcode.op = "iter" /\ taken # 0
              /\ given[g] = Mean(g).at[p] + taken - 1 /\ top'[g] = Items(opcode.of)[taken]
           \/ /\ lasti'[g] = p + 2 /\ ~Suspended(g)' /\ opcode.op = "iter"
              /\ given[g] = Mean(g).at[p] + taken
    PROVE  ObjectAsWritten(g, given, unended)'
<1>1. /\ g \in Objects /\ world[g].kind = "generator" /\ Len(Code(g)) \in Nat
  BY CodeIsWellFormed DEF Generators, IsGenerator, WellFormed
<1>2. \A y : Mean(y)' = Mean(y) /\ Items(y)' = Items(y)
  BY DEF Mean, Items
<1>3. Code(g)' = Code(g) /\ Places(world, g)' = Places(world, g)
  BY DEF Code, Places
<1>4. p + 1 \in Places(world, g)
  <2>1. p \in 0 .. Len(Code(g)) - 1
    BY <1>1, MeaningAtPlace
  <2>2. p + 1 \in 1 .. Len(Code(g))
    BY <2>1, <1>1
  <2> QED BY <2>2, <1>1 DEF Places, Code, AdapterKinds
<1>5. StatementAsWritten(g, p, given, unended)'
  <2> DEFINE passed == IF opcode.op \in {"from", "iter"} THEN TakenAt(g, p + 1, given)' ELSE 0
  <2>1. passed = taken
    OBVIOUS
  <2> HIDE DEF passed
  <2>2. \/ lasti'[g] = p /\ ~Suspended(g)' /\ given[g] = Mean(g).at[p] + passed
        \/ /\ lasti'[g] = p + 1 /\ Suspended(g)' /\ p + 1 \in Places(world, g)
           /\ given[g] = Mean(g).at[p] + passed
        \/ /\ lasti'[g] = p + 1 /\ Goes(g)' /\ running'[g] /\ opcode.op = "iter"
           /\ passed \in Nat \ {0} /\ given[g] = Mean(g).at[p] + passed - 1
           /\ top'[g] = Items(opcode.of)[passed]
        \/ /\ lasti'[g] = p + 2 /\ ~Suspended(g)' /\ opcode.op = "iter"
           /\ given[g] = Mean(g).at[p] + passed
    BY <2>1, <1>4
  <2> QED BY <2>2, <1>2, <1>3 DEF StatementAsWritten, passed
<1>6. GeneratorAsWritten(g, given, unended)'
  BY <1>2, <1>3, <1>5 DEF GeneratorAsWritten
<1> QED BY <1>1, <1>2, <1>6 DEF ObjectAsWritten

-------------------------------------------------------------------------------
(* The opcodes.                                                               *)
Executing(root, g, p, given, unended) ==
    /\ TreeInv /\ IsTree(world) /\ Asked = {root} /\ AsWritten(root, given, unended)
    /\ active # <<>> /\ g \in Generators /\ Top.obj = g
    /\ p \in DOMAIN Mean(g).at /\ StatementAsWritten(g, p, given, unended)

LEMMA IsExecuting ==
    ASSUME NEW root, NEW g, NEW p, NEW given, NEW unended, Executing(root, g, p, given, unended)
    PROVE  /\ TypeInv /\ g \in Objects /\ g \in unended
           /\ given \in [Objects -> Nat] /\ unended \in SUBSET Objects
           /\ \A x \in unended : ObjectAsWritten(x, given, unended)
           /\ given[g] \in Nat /\ given[g] <= Len(Items(g)) /\ Len(Items(g)) \in Nat
           /\ Mean(g).at[p] \in Nat
           /\ \A q \in Places(world, g) :
                 /\ AskedAt(world, g, q) \in Objects /\ AskedAt(world, g, q) # g
                 /\ AskedAt(world, g, q) = Code(g)[q].of
<1>1. /\ TypeInv /\ g \in Objects /\ given \in [Objects -> Nat] /\ unended \in SUBSET Objects
      /\ \A x \in unended : ObjectAsWritten(x, given, unended)
  BY DEF Executing, AsWritten, TreeInv, IterationInv, Generators
<1>2. g \in unended
  <2>1. Len(active) \in 1 .. Len(active) /\ active[Len(active)].obj = g
    BY TopCall DEF Executing
  <2>2. g # 0
    BY <1>1, ObjectsAssumption
  <2> QED BY <2>1, <2>2 DEF Executing, AsWritten
<1>3. given[g] \in Nat /\ given[g] <= Len(Items(g)) /\ Len(Items(g)) \in Nat
  BY <1>1, <1>2, MeaningOfWorld DEF ObjectAsWritten, Executing
<1>4. Mean(g).at[p] \in Nat
  <2>1. Mean(g).at[p] \in 0 .. Len(Items(g))
    BY <1>1, MeaningAtPlace DEF Executing
  <2> QED BY <2>1, <1>3
<1>5. ASSUME NEW q \in Places(world, g)
      PROVE  /\ AskedAt(world, g, q) \in Objects /\ AskedAt(world, g, q) # g
             /\ AskedAt(world, g, q) = Code(g)[q].of
  <2>1. AskedAt(world, g, q) \in Objects /\ AskedAt(world, g, q) # g
    BY <1>1, AsksAnother DEF Executing
  <2>2. AskedAt(world, g, q) = Code(g)[q].of
    BY <1>1, PlacesAskObjects DEF Executing
  <2> QED BY <2>1, <2>2
<1> QED BY <1>1, <1>2, <1>3, <1>4, <1>5

LEMMA StatementForms ==
    ASSUME NEW root, NEW g, NEW p, NEW given, NEW unended, Executing(root, g, p, given, unended)
    PROVE  /\ p \in Nat /\ p + 1 \in 1 .. Len(Code(g)) /\ running[g] /\ Len(Code(g)) \in Nat
           /\ Code(g)[p + 1].op \in {"yield", "raise", "return", "call", "next", "from", "iter"}
           /\ Code(g)[p + 1].op \in {"next", "from", "iter"} => p + 1 \in Places(world, g)
           /\ Code(g)[p + 1].op = "iter" =>
                 /\ Code(g)[p + 2].op = "yield top"
                 /\ Code(g)[p + 3].op = "jump" /\ Code(g)[p + 3].to = p
                 /\ Code(g)[p + 1].exit = p + 3 /\ p + 3 \in 1 .. Len(Code(g))
<1> DEFINE opcode == Code(g)[p + 1]
<1>0. /\ TreeInv /\ IsTree(world) /\ active # <<>> /\ g \in Generators /\ Top.obj = g
      /\ p \in DOMAIN Mean(g).at
  BY DEF Executing
<1>1. /\ TypeInv /\ CallsInv(active, running) /\ g \in Objects /\ world[g].kind = "generator"
      /\ Straight(Code(g)) /\ WellFormed(Code(g))
  <2>1. TypeInv /\ CallsInv(active, running)
    BY <1>0 DEF TreeInv, IterationInv
  <2> QED BY <1>0, <2>1, CodeIsWellFormed DEF Generators, IsGenerator, IsTree, Code
<1>2. running[g]
  <2>1. Len(active) \in 1 .. Len(active) /\ active[Len(active)].obj = g
    BY <1>0, TopCall
  <2> QED BY <1>0, <2>1, <1>1 DEF CallsInv, Marked
<1>3. Len(Code(g)) \in Nat /\ p \in 0 .. Len(Code(g)) - 1
  BY <1>0, <1>1, MeaningAtPlace DEF WellFormed
<1>4. p \in Nat /\ p + 1 \in 1 .. Len(Code(g))
  BY <1>3
<1>5. opcode.op \in {"yield", "raise", "return", "call", "next", "from", "iter"}
  <2> PICK at, n, after : at = Mean(g).at /\ n = Len(Items(g)) /\ after = at[p] + Len(Items(opcode.of))
    OBVIOUS
  <2> QED BY <1>0, <1>1, MeaningAtPlace
<1>6. opcode.op \in {"next", "from", "iter"} => p + 1 \in Places(world, g)
  BY <1>1, <1>4 DEF Places, Code, AdapterKinds
<1>7. ASSUME opcode.op = "iter"
      PROVE  /\ Code(g)[p + 2].op = "yield top" /\ Code(g)[p + 3].op = "jump"
             /\ Code(g)[p + 3].to = p /\ opcode.exit = p + 3 /\ p + 3 \in 1 .. Len(Code(g))
  <2> DEFINE i == p + 1
             j == p + 3
  <2>1. /\ i + 2 <= Len(Code(g)) /\ Code(g)[i + 1].op = "yield top"
        /\ Code(g)[i + 2].op = "jump" /\ Code(g)[i].exit = i + 2
    BY <1>1, <1>4, <1>7 DEF Straight
  <2>0. p + 1 + 2 <= Len(Code(g))
    BY <2>1
  <2>2. i + 1 = p + 2 /\ i + 2 = j /\ j \in 1 .. Len(Code(g)) /\ j - 3 = p
    BY <1>3, <1>4, <2>0
  <2> HIDE DEF i, j
  <2>3. Code(g)[j].to = j - 3
    BY <1>1, <2>1, <2>2 DEF Straight
  <2> QED BY <2>1, <2>2, <2>3, <1>4 DEF i, j
<1> QED BY <1>2, <1>3, <1>4, <1>5, <1>6, <1>7

LEMMA WaitsInStatement ==
    ASSUME NEW root, NEW g, NEW p, NEW given, NEW unended, Executing(root, g, p, given, unended),
           result # Nothing
    PROVE  /\ lasti[g] = p + 1 /\ p \in Nat /\ p + 1 \in Places(world, g)
           /\ p + 1 \in 1 .. Len(Code(g)) /\ running[g] /\ Len(Code(g)) \in Nat
           /\ HasGiven(g, p, given)
<1>1. /\ TreeInv /\ IsTree(world) /\ active # <<>> /\ g \in Generators /\ Top.obj = g
      /\ p \in DOMAIN Mean(g).at /\ StatementAsWritten(g, p, given, unended)
  BY DEF Executing
<1>2. running[g] /\ p \in Nat /\ p + 1 \in 1 .. Len(Code(g)) /\ Len(Code(g)) \in Nat
  BY StatementForms
<1>3. Suspended(g)
  BY <1>2 DEF Suspended, Goes
<1>4. /\ lasti[g] = p + 1 /\ p + 1 \in Places(world, g)
      /\ HasGiven(g, p, given)
  BY <1>1, <1>3 DEF StatementAsWritten, Passed, Goes, HasGiven
<1> QED BY <1>2, <1>4

AskedHere(g, p, a, given, unended) ==
    TakenAt(g, p + 1, given) = given[a] /\ a \in unended /\ given[a] <= Len(Items(a))
ItemHere(g, p, a, given, unended) ==
    /\ TakenAt(g, p + 1, given) = given[a] - 1 /\ given[a] # 0
    /\ a \in unended /\ given[a] <= Len(Items(a)) /\ result.value = Items(a)[given[a]]
EndHere(g, p, a, given) ==
    /\ TakenAt(g, p + 1, given) = given[a]
    /\ given[a] = Len(Items(a)) /\ result.type = Mean(a).end

LEMMA ThisPlace ==
    ASSUME NEW root, NEW g, NEW p, NEW given, NEW unended, Executing(root, g, p, given, unended),
           p + 1 \in Places(world, g), NEW a, a = Code(g)[p + 1].of
    PROVE  /\ a \in Objects /\ a # g /\ given[a] \in Nat /\ Len(Items(a)) \in Nat
           /\ AskedAt(world, g, p + 1) = a
           /\ result = Nothing => AskedHere(g, p, a, given, unended)
           /\ result # Nothing => IF result.type = "item" THEN ItemHere(g, p, a, given, unended)
                                  ELSE EndHere(g, p, a, given)
<1> /\ TreeInv /\ IsTree(world) /\ AsWritten(root, given, unended)
    /\ active # <<>> /\ g \in Generators /\ Top.obj = g
    /\ p \in DOMAIN Mean(g).at /\ StatementAsWritten(g, p, given, unended)
  BY DEF Executing
<1>1. /\ TypeInv /\ a \in Objects /\ a # g /\ AskedAt(world, g, p + 1) = a /\ given[a] \in Nat
      /\ \A x \in unended : ObjectAsWritten(x, given, unended)
  BY IsExecuting
<1>2. Len(Items(a)) \in Nat /\ (a \in unended => given[a] <= Len(Items(a)))
  BY <1>1, MeaningOfWorld DEF ObjectAsWritten
<1>3. HereAt(g, p + 1, unended)
  BY DEF StatementAsWritten
<1>4. CASE result = Nothing
  <2>1. /\ TakenAt(g, p + 1, given) = given[AskedAt(world, g, p + 1)]
        /\ HereAt(g, p + 1, unended) <=> AskedAt(world, g, p + 1) \in unended
    BY <1>4, ViewBefore
  <2> QED BY <2>1, <1>1, <1>2, <1>3, <1>4 DEF AskedHere
<1>5. CASE result # Nothing
  <2>1. lasti[g] = p + 1
    BY <1>5, WaitsInStatement
  <2>2. WaitsAt(g) = p + 1
    BY <2>1 DEF WaitsAt
  <2>3. Awaits(Top, lasti, a)
    <3>1. \E c : Awaits(Top, lasti, c)
      BY <1>5 DEF TreeInv, ChainInv, TopAwaits, Top
    <3>2. PICK c : Awaits(Top, lasti, c)
      BY <3>1
    <3>3. g # 0
      BY <1>1, ObjectsAssumption DEF Generators
    <3>4. c = AskedAt(world, g, WaitsAt(g))
      BY <3>2, <3>3, TopCall
    <3> QED BY <3>2, <3>4, <2>2, <1>1
  <2>4. IF result.type = "item"
        THEN a \in unended /\ given[a] # 0 /\ result.value = Items(a)[given[a]]
        ELSE given[a] = Len(Items(a)) /\ result.type = Mean(a).end
    BY <2>3, <1>1, <1>5 DEF AsWritten, AnswerAsWritten
  <2>5. Pending(g) <=> result.type = "item"
    BY DEF Pending
  <2>6. TakenAt(g, p + 1, given) = IF result.type = "item" THEN given[a] - 1 ELSE given[a]
    BY <2>2, <2>5, <1>1 DEF TakenAt
  <2> QED BY <2>4, <2>6, <1>1, <1>2, <1>5 DEF ItemHere, EndHere
<1> QED BY <1>1, <1>2, <1>4, <1>5

LEMMA LaterPlaces ==
    ASSUME NEW root, NEW g, NEW p, NEW given, NEW unended, Executing(root, g, p, given, unended),
           NEW q \in Places(world, g), q > p + 1
    PROVE  AskedAt(world, g, q) \in unended /\ given[AskedAt(world, g, q)] = 0
<1> /\ TreeInv /\ IsTree(world) /\ AsWritten(root, given, unended)
    /\ active # <<>> /\ g \in Generators /\ Top.obj = g
    /\ p \in DOMAIN Mean(g).at /\ StatementAsWritten(g, p, given, unended)
  BY DEF Executing
<1>1. HereAt(g, q, unended) /\ TakenAt(g, q, given) = 0
  BY DEF StatementAsWritten
<1>2. CASE result = Nothing
  BY <1>1, <1>2, ViewBefore
<1>3. CASE result # Nothing
  <2>1. lasti[g] = p + 1 /\ p \in Nat
    BY <1>3, WaitsInStatement
  <2>2. q # WaitsAt(g)
    BY <2>1 DEF WaitsAt
  <2> QED BY <2>2, <1>1 DEF HereAt, TakenAt
<1> QED BY <1>2, <1>3

\* After a step g has given an item more, or not, and the others what they had.
LEMMA AfterTheStep ==
    ASSUME NEW root, NEW g, NEW p, NEW given, NEW unended, Executing(root, g, p, given, unended),
           world' = world, active' = <<>> \/ Top'.obj # g \/ result' = Nothing,
           NEW given2, given2 = given \/ given2 = [given EXCEPT ![g] = @ + 1]
    PROVE  /\ \A q \in Places(world, g) :
                 /\ TakenAt(g, q, given2)' = given[AskedAt(world, g, q)]
                 /\ HereAt(g, q, unended)' <=> AskedAt(world, g, q) \in unended
                 /\ q > p + 1 => HereAt(g, q, unended)' /\ TakenAt(g, q, given2)' = 0
<1> SUFFICES ASSUME NEW q \in Places(world, g)
             PROVE  /\ TakenAt(g, q, given2)' = given[AskedAt(world, g, q)]
                    /\ HereAt(g, q, unended)' <=> AskedAt(world, g, q) \in unended
                    /\ q > p + 1 => HereAt(g, q, unended)' /\ TakenAt(g, q, given2)' = 0
  OBVIOUS
<1>1. /\ TakenAt(g, q, given2)' = given2[AskedAt(world, g, q)]
      /\ HereAt(g, q, unended)' <=> AskedAt(world, g, q) \in unended
  BY ViewAfter
<1>2. given2[AskedAt(world, g, q)] = given[AskedAt(world, g, q)]
  <2>1. /\ AskedAt(world, g, q) \in Objects /\ AskedAt(world, g, q) # g
        /\ given \in [Objects -> Nat]
    BY IsExecuting
  <2> QED BY <2>1
<1> QED BY <1>1, <1>2, LaterPlaces

LEMMA RunsInStatement ==
    ASSUME NEW root, NEW g, NEW p, NEW given, NEW unended, Executing(root, g, p, given, unended),
           result = Nothing
    PROVE  \/ lasti[g] = p /\ HasGiven(g, p, given)
           \/ GivesOn(g, p, given)
           \/ GoesBack(g, p, given)
<1>1. StatementAsWritten(g, p, given, unended) /\ ~Suspended(g)
  BY DEF Executing, Suspended, Goes
<1> QED BY <1>1 DEF StatementAsWritten, Passed, HasGiven, GivesOn, GoesBack

(* The numbers after the step, when what is executed stays, gives or ends.    *)
LEMMA GeneratorStays ==
    ASSUME NEW root, NEW g, NEW p, NEW given, NEW unended, Executing(root, g, p, given, unended),
           TreeInv', world' = world, heard' = heard, OnlyMoves(g),
           active' = active, result' = Nothing, ObjectAsWritten(g, given, unended)'
    PROVE  \E given2, unended2 : AsWritten(root, given2, unended2)'
<1>1. g \in Objects
  BY IsExecuting
<1>2. AsWritten(root, given, unended)'
  BY <1>1, TopStays DEF Executing
<1> QED BY <1>2

LEMMA GeneratorGives ==
    ASSUME NEW root, NEW g, NEW p, NEW given, NEW unended, Executing(root, g, p, given, unended),
           TreeInv', world' = world, heard' = heard, OnlyMoves(g),
           NEW v, Answer(Item(v)), v = Items(g)[given[g] + 1],
           NEW given2, given2 = [given EXCEPT ![g] = @ + 1], ObjectAsWritten(g, given2, unended)'
    PROVE  \E given3, unended3 : AsWritten(root, given3, unended3)'
<1>1. g \in Objects
  BY IsExecuting
<1> PICK r : r = Item(v)
  OBVIOUS
<1>2. r # Nothing /\ Answers(g, given, unended, given2, unended, r)
  BY NothingIsNoAnswer DEF Answers, Item
<1>3. AsWritten(root, given2, unended)'
  BY <1>1, <1>2, TopAnswers DEF Executing
<1> QED BY <1>3

LEMMA GeneratorEnds ==
    ASSUME NEW root, NEW g, NEW p, NEW given, NEW unended, Executing(root, g, p, given, unended),
           TreeInv', world' = world, heard' = heard, OnlyMoves(g),
           NEW r, r # Nothing, Answer(r), r.type # "item",
           r.type = Mean(g).end, given[g] = Len(Items(g))
    PROVE  \E given2, unended2 : AsWritten(root, given2, unended2)'
<1>1. g \in Objects
  BY IsExecuting
<1>2. Answers(g, given, unended, given, unended \ {g}, r)
  BY DEF Answers
<1>3. AsWritten(root, given, unended \ {g})'
  BY <1>1, <1>2, TopAnswers DEF Executing
<1> QED BY <1>3

\* What is on top of the stack is sent on only by what is called before.
LEMMA FromAfterCall ==
    ASSUME TypeInv, IsTree(world), NEW g \in Generators, NEW i \in 1 .. Len(Code(g)) - 1,
           Code(g)[i].op # "call"
    PROVE  Code(g)[i + 1].op # "from"
<1>1. Straight(Code(g)) /\ Len(Code(g)) \in Nat
  BY CodeIsWellFormed DEF Generators, IsGenerator, IsTree, Code, WellFormed
<1> DEFINE j == i + 1
<1>2. j \in 1 .. Len(Code(g)) /\ j - 1 = i
  BY <1>1
<1> HIDE DEF j
<1>3. Code(g)[j].op # "from"
  BY <1>1, <1>2 DEF Straight
<1> QED BY <1>3 DEF j

\* It has come to a place after the statement it was in.
LEMMA GeneratorComesTo ==
    ASSUME NEW root, NEW g, NEW p, NEW given, NEW unended, Executing(root, g, p, given, unended),
           world' = world, active' = <<>> \/ Top'.obj # g \/ result' = Nothing,
           NEW given2, given2 = given \/ given2 = [given EXCEPT ![g] = @ + 1],
           NEW place \in DOMAIN Mean(g).at, place = p + 1 \/ place = p + 3,
           lasti'[g] = place, given2[g] = Mean(g).at[place],
           (Goes(g)' /\ running'[g]) \/ (~running'[g] /\ yielded'[g]),
           Goes(g)' /\ Code(g)[place + 1].op = "from" => top'[g] = None
    PROVE  ObjectAsWritten(g, given2, unended)'
<1>1. /\ TypeInv /\ IsTree(world) /\ g \in Generators
  BY IsExecuting DEF Executing
<1>2. \A q \in Places(world, g) : q > place => HereAt(g, q, unended)' /\ TakenAt(g, q, given2)' = 0
  <2> SUFFICES ASSUME NEW q \in Places(world, g), q > place
               PROVE  HereAt(g, q, unended)' /\ TakenAt(g, q, given2)' = 0
    OBVIOUS
  <2>1. q \in Nat
    BY <1>1, PlacesAskObjects DEF Generators
  <2>2. p \in Nat
    BY StatementForms
  <2>3. q > p + 1
    BY <2>1, <2>2
  <2> QED BY <2>3, AfterTheStep
<1>3. ~Suspended(g)' /\ (running'[g] \/ lasti'[g] = 0 \/ yielded'[g])
  BY DEF Suspended
<1> QED BY <1>1, <1>2, <1>3, GeneratorArrives

\* What the meaning says of the statement it is in.
LEMMA PlainMeans ==
    ASSUME NEW root, NEW g, NEW p, NEW given, NEW unended, Executing(root, g, p, given, unended),
           NEW op, Code(g)[p + 1].op = op
    PROVE  /\ op = "yield" => /\ Items(g)[Mean(g).at[p] + 1] = Leaf(g, Code(g)[p + 1].n)
                              /\ p + 1 \in DOMAIN Mean(g).at
                              /\ Mean(g).at[p + 1] = Mean(g).at[p] + 1
           /\ op = "raise" => Len(Items(g)) = Mean(g).at[p] /\ Mean(g).end = "error"
           /\ op = "return" => Len(Items(g)) = Mean(g).at[p] /\ Mean(g).end = "stop"
           /\ op = "call" => p + 1 \in DOMAIN Mean(g).at /\ Mean(g).at[p + 1] = Mean(g).at[p]
<1>1. TypeInv /\ IsTree(world) /\ g \in Generators /\ p \in DOMAIN Mean(g).at
  BY IsExecuting DEF Executing
<1>2. GeneratorMeans(world, Meaning[world], g)
  BY <1>1, GeneratorMeaning
<1> QED BY <1>1, <1>2 DEF GeneratorMeans, Mean, Items, Code

LEMMA AskMeans ==
    ASSUME NEW root, NEW g, NEW p, NEW given, NEW unended, Executing(root, g, p, given, unended),
           NEW op, Code(g)[p + 1].op = op, NEW a, a = Code(g)[p + 1].of
    PROVE  /\ op = "next" /\ Len(Items(a)) > 0 =>
                 p + 1 \in DOMAIN Mean(g).at /\ Mean(g).at[p + 1] = Mean(g).at[p]
           /\ op = "next" /\ ~(Len(Items(a)) > 0) =>
                 /\ Len(Items(g)) = Mean(g).at[p]
                 /\ Mean(g).end = IF Mean(a).end = "error" THEN "error" ELSE "stopped"
           /\ op = "from" /\ Mean(a).end = "error" =>
                 Len(Items(g)) = Mean(g).at[p] + Len(Items(a)) /\ Mean(g).end = "error"
           /\ op = "from" /\ Mean(a).end # "error" =>
                 p + 1 \in DOMAIN Mean(g).at /\ Mean(g).at[p + 1] = Mean(g).at[p] + Len(Items(a))
           /\ op = "iter" => /\ Code(g)[p + 1].exit \in DOMAIN Mean(g).at
                             /\ Mean(g).at[Code(g)[p + 1].exit] = Mean(g).at[p] + Len(Items(a))
           /\ op \in {"from", "iter"} =>
                 /\ Mean(g).at[p] + Len(Items(a)) <= Len(Items(g))
                 /\ \A i \in 1 .. Len(Items(a)) : Items(g)[Mean(g).at[p] + i] = Items(a)[i]
<1>1. TypeInv /\ IsTree(world) /\ g \in Generators /\ p \in DOMAIN Mean(g).at
  BY IsExecuting DEF Executing
<1>2. GeneratorMeans(world, Meaning[world], g)
  BY <1>1, GeneratorMeaning
<1>3. CASE op = "next"
  BY <1>1, <1>2, <1>3 DEF GeneratorMeans, Mean, Items, Code
<1>4. CASE op = "from"
  BY <1>1, <1>2, <1>4 DEF GeneratorMeans, Mean, Items, Code
<1>5. CASE op = "iter"
  BY <1>1, <1>2, <1>5 DEF GeneratorMeans, Mean, Items, Code
<1> QED BY <1>3, <1>4, <1>5

\* What the items and the stacks are kept in.
DataInv == index \in [Objects -> Nat] /\ \E S : top \in [Objects -> S]

LEMMA TopIsAnother ==
    ASSUME NEW root, NEW g, NEW p, NEW given, NEW unended, Executing(root, g, p, given, unended),
           TreeInv', world' = world, OnlyMoves(g), NEW r, r # Nothing, Answer(r)
    PROVE  active' # <<>> /\ Top'.obj # g
<1>1. TreeInv /\ IsTree(world) /\ active # <<>> /\ g \in Objects /\ Top.obj = g
  BY IsExecuting DEF Executing
<1>2. \A h \in Generators : h # g => lasti'[h] = lasti[h]
  BY DEF Generators, OnlyMoves, Still
<1>3. active' # <<>> /\ \A i \in 1 .. Len(active') : active'[i].obj # g
  BY <1>1, <1>2, BelowTop
<1>4. Len(active') \in 1 .. Len(active')
  <2>1. IsStack(active')
    BY DEF TreeInv, IterationInv, CallsInv
  <2> QED BY <1>3, <2>1, StackShrinks
<1> QED BY <1>3, <1>4 DEF Top

\* Where it is by the opcode that it comes to.
LEMMA ComesToOpcode ==
    ASSUME NEW root, NEW g, NEW p, NEW given, NEW unended, Executing(root, g, p, given, unended),
           result = Nothing, NEW op, Code(g)[lasti[g] + 1].op = op
    PROVE  /\ op \notin {"yield top", "jump"} => lasti[g] = p /\ HasGiven(g, p, given)
           /\ op = "yield top" => GivesOn(g, p, given)
           /\ op = "jump" => GoesBack(g, p, given)
<1>0. p \in Nat
  BY StatementForms
<1>1. /\ Code(g)[p + 1].op \in {"yield", "raise", "return", "call", "next", "from", "iter"}
      /\ Code(g)[p + 1].op = "iter" => Code(g)[p + 2].op = "yield top" /\ Code(g)[p + 3].op = "jump"
  BY StatementForms
<1>2. CASE lasti[g] = p /\ HasGiven(g, p, given)
  BY <1>1, <1>2
<1>3. CASE GivesOn(g, p, given)
  <2>0. lasti[g] = p + 1 /\ Code(g)[p + 1].op = "iter"
    BY <1>3 DEF GivesOn
  <2>1. lasti[g] + 1 = p + 2
    BY <1>0, <2>0
  <2>2. op = "yield top"
    BY <1>1, <2>0, <2>1
  <2> QED BY <1>3, <2>2
<1>4. CASE GoesBack(g, p, given)
  <2>0. lasti[g] = p + 2 /\ Code(g)[p + 1].op = "iter"
    BY <1>4 DEF GoesBack
  <2>1. lasti[g] + 1 = p + 3
    BY <1>0, <2>0
  <2>2. op = "jump"
    BY <1>1, <2>0, <2>1
  <2> QED BY <1>4, <2>2
<1> QED BY <1>2, <1>3, <1>4, RunsInStatement

LEMMA YieldsAsWritten ==
    ASSUME NEW root, NEW g, NEW p, NEW given, NEW unended, Executing(root, g, p, given, unended),
           DataInv, TreeInv', Yields(g)
    PROVE  \E given2, unended2 : AsWritten(root, given2, unended2)'
<1> DEFINE v == Leaf(g, Code(g)[lasti[g] + 1].n)
<1>1. /\ TypeInv /\ g \in Objects /\ given[g] \in Nat /\ given \in [Objects -> Nat]
      /\ Mean(g).at[p] \in Nat
  BY IsExecuting
<1>2. /\ result = Nothing /\ Code(g)[lasti[g] + 1].op = "yield"
      /\ world' = world /\ heard' = heard /\ top' = top /\ index' = index
      /\ lasti' = [lasti EXCEPT ![g] = @ + 1]
      /\ yielded' = [yielded EXCEPT ![g] = TRUE]
      /\ running' = [running EXCEPT ![g] = FALSE] /\ Answer(Item(v))
  BY DEF Yields, At, Fetch, YieldValue, Leave
<1>3. OnlyMoves(g) /\ lasti'[g] = lasti[g] + 1 /\ yielded'[g] /\ ~running'[g]
  BY <1>1, <1>2 DEF OnlyMoves, Still, TypeInv
<1> HIDE DEF v
<1>4. lasti[g] = p /\ given[g] = Mean(g).at[p]
  <2>1. lasti[g] = p /\ HasGiven(g, p, given)
    BY <1>2, ComesToOpcode
  <2> QED BY <1>1, <1>2, <2>1 DEF Passed, HasGiven
<1>5. /\ Items(g)[Mean(g).at[p] + 1] = v /\ p + 1 \in DOMAIN Mean(g).at
      /\ Mean(g).at[p + 1] = Mean(g).at[p] + 1
  BY <1>2, <1>4, PlainMeans DEF v
<1> PICK given2 : given2 = [given EXCEPT ![g] = @ + 1]
  OBVIOUS
<1>6. ObjectAsWritten(g, given2, unended)'
  <2>1. active' # <<>> /\ Top'.obj # g
    BY <1>2, <1>3, TopIsAnother, NothingIsNoAnswer
  <2>2. given2[g] = Mean(g).at[p + 1]
    BY <1>1, <1>4, <1>5
  <2>3. ~Goes(g)'
    BY <2>1 DEF Goes
  <2> QED BY <1>2, <1>3, <1>4, <1>5, <2>1, <2>2, <2>3, GeneratorComesTo
<1> QED BY <1>2, <1>3, <1>4, <1>5, <1>6, GeneratorGives

LEMMA RaisesAsWritten ==
    ASSUME NEW root, NEW g, NEW p, NEW given, NEW unended, Executing(root, g, p, given, unended),
           DataInv, TreeInv', Raises(g)
    PROVE  \E given2, unended2 : AsWritten(root, given2, unended2)'
<1>1. TypeInv /\ g \in Objects /\ given[g] \in Nat /\ Mean(g).at[p] \in Nat
  BY IsExecuting
<1>2. /\ result = Nothing /\ Code(g)[lasti[g] + 1].op = "raise"
      /\ world' = world /\ heard' = heard /\ top' = top /\ index' = index /\ yielded' = yielded
      /\ lasti' = [lasti EXCEPT ![g] = @ + 1]
      /\ running' = [running EXCEPT ![g] = FALSE] /\ Answer(Failed)
  BY DEF Raises, At, Fetch, Leave
<1>3. OnlyMoves(g)
  BY <1>1, <1>2 DEF OnlyMoves, Still, TypeInv
<1>4. lasti[g] = p /\ given[g] = Mean(g).at[p]
  <2>1. lasti[g] = p /\ HasGiven(g, p, given)
    BY <1>2, ComesToOpcode
  <2> QED BY <1>1, <1>2, <2>1 DEF Passed, HasGiven
<1>5. Len(Items(g)) = given[g] /\ Mean(g).end = "error"
  BY <1>2, <1>4, PlainMeans
<1>6. Failed.type = "error" /\ Failed # Nothing
  BY NothingIsNoAnswer DEF Failed
<1> QED BY <1>2, <1>3, <1>5, <1>6, GeneratorEnds

LEMMA ReturnAsWritten ==
    ASSUME NEW root, NEW g, NEW p, NEW given, NEW unended, Executing(root, g, p, given, unended),
           DataInv, TreeInv', ReturnValue(g)
    PROVE  \E given2, unended2 : AsWritten(root, given2, unended2)'
<1>1. TypeInv /\ g \in Objects /\ given[g] \in Nat /\ Mean(g).at[p] \in Nat
  BY IsExecuting
<1>2. /\ result = Nothing /\ Code(g)[lasti[g] + 1].op = "return"
      /\ world' = world /\ heard' = heard /\ top' = top /\ index' = index
      /\ lasti' = [lasti EXCEPT ![g] = @ + 1] /\ yielded' = [yielded EXCEPT ![g] = FALSE]
      /\ running' = [running EXCEPT ![g] = FALSE] /\ Answer(Stop)
  BY DEF ReturnValue, At, Fetch, Leave
<1>3. OnlyMoves(g)
  BY <1>1, <1>2 DEF OnlyMoves, Still, TypeInv
<1>4. lasti[g] = p /\ given[g] = Mean(g).at[p]
  <2>1. lasti[g] = p /\ HasGiven(g, p, given)
    BY <1>2, ComesToOpcode
  <2> QED BY <1>1, <1>2, <2>1 DEF Passed, HasGiven
<1>5. Len(Items(g)) = given[g] /\ Mean(g).end = "stop"
  BY <1>2, <1>4, PlainMeans
<1>6. Stop.type = "stop" /\ Stop # Nothing
  BY NothingIsNoAnswer DEF Stop
<1> QED BY <1>2, <1>3, <1>5, <1>6, GeneratorEnds

LEMMA CallAsWritten ==
    ASSUME NEW root, NEW g, NEW p, NEW given, NEW unended, Executing(root, g, p, given, unended),
           DataInv, TreeInv', CallFunction(g)
    PROVE  \E given2, unended2 : AsWritten(root, given2, unended2)'
<1>1. TypeInv /\ g \in Objects /\ given[g] \in Nat /\ Mean(g).at[p] \in Nat
  BY IsExecuting
<1>2. /\ result = Nothing /\ Code(g)[lasti[g] + 1].op = "call" /\ active # <<>> /\ Top.obj = g
      /\ world' = world /\ heard' = heard /\ index' = index /\ yielded' = yielded
      /\ lasti' = [lasti EXCEPT ![g] = @ + 1] /\ top' = [top EXCEPT ![g] = None]
      /\ running' = running /\ active' = active /\ result' = Nothing
  BY DEF CallFunction, At, Fetch
<1>3. OnlyMoves(g) /\ lasti'[g] = lasti[g] + 1 /\ top'[g] = None
  <2>1. PICK S : top \in [Objects -> S]
    BY DEF DataInv
  <2> QED BY <1>1, <1>2, <2>1 DEF OnlyMoves, Still, TypeInv
<1>4. lasti[g] = p /\ given[g] = Mean(g).at[p]
  <2>0. result = Nothing /\ Code(g)[lasti[g] + 1].op = "call"
    BY <1>2
  <2>1. lasti[g] = p /\ HasGiven(g, p, given)
    BY <2>0, ComesToOpcode
  <2> QED BY <1>1, <1>2, <2>1 DEF Passed, HasGiven
<1>5. p + 1 \in DOMAIN Mean(g).at /\ Mean(g).at[p + 1] = given[g]
  BY <1>2, <1>4, PlainMeans
<1>6. ObjectAsWritten(g, given, unended)'
  <2>1. Goes(g)' /\ running'[g]
    <3>1. running[g]
      BY StatementForms
    <3>2. Top'.obj = g
      BY <1>2 DEF Top
    <3> QED BY <1>2, <3>1, <3>2 DEF Goes
  <2> QED BY <1>2, <1>3, <1>4, <1>5, <2>1, GeneratorComesTo
<1> QED BY <1>2, <1>3, <1>6, GeneratorStays

\* It is in a statement that asks a, and not in the middle of asking.
LEMMA GeneratorBackIn ==
    ASSUME NEW root, NEW g, NEW p, NEW given, NEW unended, Executing(root, g, p, given, unended),
           world' = world, active' = <<>> \/ Top'.obj # g \/ result' = Nothing,
           p + 1 \in Places(world, g), Code(g)[p + 1].op \in {"from", "iter"},
           NEW a, a = Code(g)[p + 1].of, a \in unended,
           NEW given2, given2 = given \/ given2 = [given EXCEPT ![g] = @ + 1],
           (Goes(g)' /\ running'[g]) \/ (~running'[g] /\ yielded'[g]),
           Goes(g)' /\ Code(g)[lasti'[g] + 1].op = "from" => top'[g] = None,
           given2[g] = Mean(g).at[p] + given[a], given2[g] <= Len(Items(g)),
           lasti'[g] = p \/ (lasti'[g] = p + 2 /\ Code(g)[p + 1].op = "iter")
    PROVE  ObjectAsWritten(g, given2, unended)'
<1>1. /\ TypeInv /\ IsTree(world) /\ g \in Generators /\ p \in DOMAIN Mean(g).at
  BY IsExecuting DEF Executing
<1>2. given[a] \in Nat /\ AskedAt(world, g, p + 1) = a
  BY ThisPlace
<1>3. /\ TakenAt(g, p + 1, given2)' = given[a] /\ HereAt(g, p + 1, unended)'
      /\ \A q \in Places(world, g) : q > p + 1 => HereAt(g, q, unended)' /\ TakenAt(g, q, given2)' = 0
  BY <1>2, AfterTheStep
<1>4. ~Suspended(g)' /\ (running'[g] \/ lasti'[g] = 0 \/ yielded'[g])
  BY DEF Suspended
<1> PICK opcode : opcode = Code(g)[p + 1]
  OBVIOUS
<1> PICK taken \in Nat : taken = given[a]
  BY <1>2
<1>5. \/ lasti'[g] = p /\ ~Suspended(g)' /\ given2[g] = Mean(g).at[p] + taken
      \/ /\ lasti'[g] = p + 2 /\ ~Suspended(g)' /\ opcode.op = "iter"
         /\ given2[g] = Mean(g).at[p] + taken
  BY <1>4
<1> QED BY <1>1, <1>3, <1>4, <1>5, GeneratorIsIn

LEMMA JumpAsWritten ==
    ASSUME NEW root, NEW g, NEW p, NEW given, NEW unended, Executing(root, g, p, given, unended),
           DataInv, TreeInv', JumpAbsolute(g)
    PROVE  \E given2, unended2 : AsWritten(root, given2, unended2)'
<1>1. /\ TypeInv /\ g \in Objects /\ given[g] \in Nat /\ given[g] <= Len(Items(g))
      /\ Mean(g).at[p] \in Nat
  BY IsExecuting
<1>0. result = Nothing /\ Code(g)[lasti[g] + 1].op = "jump"
  BY DEF JumpAbsolute, At
<1>2. /\ active # <<>> /\ Top.obj = g
      /\ world' = world /\ heard' = heard /\ top' = top /\ index' = index /\ yielded' = yielded
      /\ lasti' = [lasti EXCEPT ![g] = Code(g)[lasti[g] + 1].to]
      /\ running' = running /\ active' = active /\ result' = Nothing
  BY DEF JumpAbsolute, At, frames
<1>3. GoesBack(g, p, given)
  BY <1>0, ComesToOpcode
<1>4. /\ p \in Nat /\ running[g] /\ Code(g)[p + 1].op = "iter" /\ Code(g)[p + 3].to = p
      /\ p + 1 \in Places(world, g)
  BY <1>3, StatementForms DEF GoesBack
<1>5. lasti'[g] = p
  <2>1. lasti[g] = p + 2
    BY <1>3 DEF GoesBack
  <2>2. lasti[g] + 1 = p + 3
    BY <1>4, <2>1
  <2> QED BY <1>1, <1>2, <1>4, <2>2 DEF TypeInv
<1>6. OnlyMoves(g)
  BY <1>1, <1>2 DEF OnlyMoves, Still, TypeInv
<1> PICK a : a = Code(g)[p + 1].of
  OBVIOUS
<1>7. a \in unended /\ given[g] = Mean(g).at[p] + given[a]
  <2>1. a \in unended /\ TakenAt(g, p + 1, given) = given[a]
    BY <1>0, <1>4, ThisPlace DEF AskedHere
  <2> QED BY <1>3, <1>4, <2>1 DEF GoesBack, HasGiven, Passed
<1>8. ObjectAsWritten(g, given, unended)'
  <2>1. Goes(g)' /\ running'[g]
    BY <1>2, <1>4 DEF Goes, Top
  <2> QED BY <1>1, <1>2, <1>4, <1>5, <1>7, <2>1, GeneratorBackIn
<1> QED BY <1>2, <1>6, <1>8, GeneratorStays

LEMMA YieldsTopAsWritten ==
    ASSUME NEW root, NEW g, NEW p, NEW given, NEW unended, Executing(root, g, p, given, unended),
           DataInv, TreeInv', YieldsTop(g)
    PROVE  \E given2, unended2 : AsWritten(root, given2, unended2)'
<1>1. /\ TypeInv /\ g \in Objects /\ given[g] \in Nat /\ given \in [Objects -> Nat]
      /\ Mean(g).at[p] \in Nat /\ Len(Items(g)) \in Nat
  BY IsExecuting
<1>0. result = Nothing /\ Code(g)[lasti[g] + 1].op = "yield top"
  BY DEF YieldsTop, At
<1>2. /\ world' = world /\ heard' = heard /\ top' = top /\ index' = index
      /\ lasti' = [lasti EXCEPT ![g] = @ + 1]
      /\ yielded' = [yielded EXCEPT ![g] = TRUE]
      /\ running' = [running EXCEPT ![g] = FALSE] /\ Answer(Item(top[g]))
  BY DEF YieldsTop, Fetch, YieldValue, Leave
<1>3. OnlyMoves(g) /\ lasti'[g] = lasti[g] + 1 /\ yielded'[g] /\ ~running'[g]
  BY <1>1, <1>2 DEF OnlyMoves, Still, TypeInv
<1>4. GivesOn(g, p, given)
  BY <1>0, ComesToOpcode
<1>5. p \in Nat /\ Code(g)[p + 1].op = "iter" /\ p + 1 \in Places(world, g)
  BY <1>4, StatementForms DEF GivesOn
<1> PICK a : a = Code(g)[p + 1].of
  OBVIOUS
<1>6. /\ a \in unended /\ Passed(g, p, given) = given[a] /\ given[a] \in Nat
      /\ given[a] <= Len(Items(a)) /\ Len(Items(a)) \in Nat
  <2>1. a \in unended /\ TakenAt(g, p + 1, given) = given[a] /\ given[a] <= Len(Items(a))
    <3>0. result = Nothing /\ p + 1 \in Places(world, g)
      BY <1>0, <1>5
    <3>1. AskedHere(g, p, a, given, unended)
      BY <3>0, ThisPlace
    <3> QED BY <3>1 DEF AskedHere
  <2>2. given[a] \in Nat /\ Len(Items(a)) \in Nat
    BY <1>5, ThisPlace
  <2> QED BY <2>1, <2>2, <1>5 DEF Passed
<1>7. /\ given[a] \in 1 .. Len(Items(a)) /\ given[g] + 1 = Mean(g).at[p] + given[a]
      /\ top[g] = Items(a)[given[a]] /\ lasti[g] = p + 1
  BY <1>1, <1>4, <1>6 DEF GivesOn
<1>8. /\ Mean(g).at[p] + Len(Items(a)) <= Len(Items(g))
      /\ \A i \in 1 .. Len(Items(a)) : Items(g)[Mean(g).at[p] + i] = Items(a)[i]
  BY <1>5, AskMeans
<1>9. top[g] = Items(g)[given[g] + 1] /\ Mean(g).at[p] + given[a] <= Len(Items(g))
  BY <1>1, <1>6, <1>7, <1>8
<1> PICK given2 : given2 = [given EXCEPT ![g] = @ + 1]
  OBVIOUS
<1>10. ObjectAsWritten(g, given2, unended)'
  <2>1. active' # <<>> /\ Top'.obj # g
    BY <1>2, <1>3, TopIsAnother, NothingIsNoAnswer
  <2>2. given2[g] = Mean(g).at[p] + given[a]
    BY <1>1, <1>7
  <2>3. ~Goes(g)'
    BY <2>1 DEF Goes
  <2>4. lasti'[g] = p + 2
    BY <1>3, <1>5, <1>7
  <2>5. given2[g] <= Len(Items(g))
    BY <2>2, <1>9
  <2>6. world' = world /\ yielded'[g] /\ ~running'[g] /\ a \in unended
    BY <1>2, <1>3, <1>6
  <2> QED BY <1>5, <2>1, <2>2, <2>3, <2>4, <2>5, <2>6, GeneratorBackIn
<1> QED BY <1>2, <1>3, <1>9, <1>10, GeneratorGives

LEMMA NoFromThere ==
    ASSUME NEW root, NEW g, NEW p, NEW given, NEW unended, Executing(root, g, p, given, unended),
           NEW place \in DOMAIN Mean(g).at,
           \/ place = p + 1 /\ Code(g)[p + 1].op # "call"
           \/ place = p + 3 /\ Code(g)[p + 1].op = "iter"
    PROVE  Code(g)[place + 1].op # "from"
<1>1. TypeInv /\ IsTree(world) /\ g \in Generators
  BY IsExecuting DEF Executing
<1>2. place \in 0 .. Len(Code(g)) - 1 /\ Len(Code(g)) \in Nat
  <2>1. GeneratorMeans(world, Meaning[world], g)
    BY <1>1, GeneratorMeaning
  <2>2. place \in 0 .. Len(Code(g)) - 1
    BY <2>1 DEF GeneratorMeans, Mean, Code
  <2> QED BY <2>2, StatementForms
<1>3. p \in Nat /\ (Code(g)[p + 1].op = "iter" => Code(g)[p + 3].op = "jump")
  BY StatementForms
<1>4. place \in 1 .. Len(Code(g)) - 1 /\ Code(g)[place].op # "call"
  BY <1>2, <1>3
<1> QED BY <1>1, <1>4, FromAfterCall

(* An answer has come.                                                        *)
LEMMA AnswerForms ==
    ASSUME NEW root, NEW g, NEW p, NEW given, NEW unended, Executing(root, g, p, given, unended),
           NEW op, Answered(g, op), NEW a, a = Code(g)[p + 1].of
    PROVE  /\ result # Nothing /\ lasti[g] = p + 1 /\ Code(g)[p + 1].op = op
           /\ p + 1 \in Places(world, g) /\ HasGiven(g, p, given)
           /\ given[a] \in Nat /\ Len(Items(a)) \in Nat
           /\ IF result.type = "item" THEN ItemHere(g, p, a, given, unended)
              ELSE EndHere(g, p, a, given)
<1>1. result # Nothing /\ Code(g)[lasti[g]].op = op
  BY DEF Answered
<1>2. lasti[g] = p + 1 /\ p + 1 \in Places(world, g) /\ HasGiven(g, p, given)
  BY <1>1, WaitsInStatement
<1>3. p + 1 \in Places(world, g)
  BY <1>2
<1>4. given[a] \in Nat /\ Len(Items(a)) \in Nat
  BY <1>3, ThisPlace
<1>5. IF result.type = "item" THEN ItemHere(g, p, a, given, unended) ELSE EndHere(g, p, a, given)
  BY <1>1, <1>3, ThisPlace
<1> QED BY <1>1, <1>2, <1>4, <1>5

LEMMA NextAsWritten ==
    ASSUME NEW root, NEW g, NEW p, NEW given, NEW unended, Executing(root, g, p, given, unended),
           result # Nothing => result.type \in {"item", "stop", "stopped", "error"},
           TreeInv', NextAnswers(g)
    PROVE  \E given2, unended2 : AsWritten(root, given2, unended2)'
<1>1. TypeInv /\ g \in Objects /\ given[g] \in Nat /\ Mean(g).at[p] \in Nat
  BY IsExecuting
<1> PICK a : a = Code(g)[p + 1].of
  OBVIOUS
<1>2. /\ Answered(g, "next") /\ active # <<>> /\ Top.obj = g
      /\ world' = world /\ lasti' = lasti /\ yielded' = yielded /\ top' = top
      /\ index' = index /\ heard' = heard
  BY DEF NextAnswers, Answered
<1>3. /\ result # Nothing /\ lasti[g] = p + 1 /\ Code(g)[p + 1].op = "next"
      /\ p + 1 \in Places(world, g) /\ HasGiven(g, p, given)
      /\ given[a] \in Nat /\ Len(Items(a)) \in Nat
      /\ IF result.type = "item" THEN ItemHere(g, p, a, given, unended)
         ELSE EndHere(g, p, a, given)
  BY <1>2, AnswerForms
<1>4. given[g] = Mean(g).at[p]
  BY <1>1, <1>3 DEF HasGiven, Passed
<1>5. CASE result.type = "item"
  <2>1. result' = Nothing /\ running' = running /\ active' = active
    BY <1>5 DEF NextAnswers
  <2>2. OnlyMoves(g)
    BY <1>2, <2>1 DEF OnlyMoves, Still
  <2>3. Len(Items(a)) > 0
    BY <1>3, <1>5 DEF ItemHere
  <2>4. Code(g)[p + 1].op = "next"
    BY <1>3
  <2>5. p + 1 \in DOMAIN Mean(g).at /\ Mean(g).at[p + 1] = given[g]
    BY <2>3, <2>4, <1>4, AskMeans
  <2>6. Goes(g)' /\ running'[g]
    <3>1. running[g]
      BY StatementForms
    <3> QED BY <1>2, <2>1, <3>1 DEF Goes, Top
  <2> PICK place : place = p + 1
    OBVIOUS
  <2>7. Code(g)[place + 1].op # "from"
    BY <2>4, <2>5, NoFromThere
  <2>8. lasti'[g] = place /\ given[g] = Mean(g).at[place] /\ place \in DOMAIN Mean(g).at
    BY <1>2, <1>3, <2>5
  <2>9. ObjectAsWritten(g, given, unended)'
    BY <1>2, <2>1, <2>6, <2>7, <2>8, GeneratorComesTo
  <2> QED BY <1>2, <2>1, <2>2, <2>9, GeneratorStays
<1>6. CASE result.type # "item"
  <2> PICK r : r = IF IsStopIteration(result) THEN Stopped ELSE Failed
    OBVIOUS
  <2>1. running' = [running EXCEPT ![g] = FALSE] /\ Answer(r)
    BY <1>6 DEF NextAnswers, Leave
  <2>2. OnlyMoves(g)
    BY <1>1, <1>2, <2>1 DEF OnlyMoves, Still, TypeInv
  <2>3. EndHere(g, p, a, given)
    BY <1>3, <1>6
  <2>4. TakenAt(g, p + 1, given) = 0
    BY <1>3 DEF Executing, StatementAsWritten
  <2>5. ~(Len(Items(a)) > 0) /\ result.type = Mean(a).end
    BY <1>3, <2>3, <2>4 DEF EndHere
  <2>6. Code(g)[p + 1].op = "next"
    BY <1>3
  <2>7. /\ given[g] = Len(Items(g))
        /\ Mean(g).end = IF Mean(a).end = "error" THEN "error" ELSE "stopped"
    BY <2>5, <2>6, <1>4, AskMeans
  <2>8. r # Nothing /\ r.type # "item" /\ r.type = Mean(g).end
    BY <1>3, <1>6, <2>5, <2>7, NothingIsNoAnswer DEF IsStopIteration, Stopped, Failed
  <2> QED BY <1>2, <2>1, <2>2, <2>7, <2>8, GeneratorEnds
<1> QED BY <1>5, <1>6

LEMMA YieldFromAsWritten ==
    ASSUME NEW root, NEW g, NEW p, NEW given, NEW unended, Executing(root, g, p, given, unended),
           result # Nothing => result.type \in {"item", "stop", "stopped", "error"},
           TreeInv', YieldFrom(g)
    PROVE  \E given2, unended2 : AsWritten(root, given2, unended2)'
<1>1. /\ TypeInv /\ g \in Objects /\ given[g] \in Nat /\ Mean(g).at[p] \in Nat
      /\ given \in [Objects -> Nat] /\ Len(Items(g)) \in Nat
  BY IsExecuting
<1> PICK a : a = Code(g)[p + 1].of
  OBVIOUS
<1>2. /\ Answered(g, "from") /\ active # <<>> /\ Top.obj = g
      /\ world' = world /\ top' = top /\ index' = index /\ heard' = heard
  BY DEF YieldFrom, Answered
<1>3. /\ result # Nothing /\ lasti[g] = p + 1 /\ Code(g)[p + 1].op = "from"
      /\ p + 1 \in Places(world, g) /\ HasGiven(g, p, given)
      /\ given[a] \in Nat /\ Len(Items(a)) \in Nat
      /\ IF result.type = "item" THEN ItemHere(g, p, a, given, unended)
         ELSE EndHere(g, p, a, given)
  BY <1>2, AnswerForms
<1>4. given[g] = Mean(g).at[p] + TakenAt(g, p + 1, given)
  BY <1>3 DEF HasGiven, Passed
<1>5. Code(g)[p + 1].op = "from" /\ p + 1 \in Places(world, g)
  BY <1>3
<1>6. CASE result.type = "item"
  <2> PICK v : v = result.value
    OBVIOUS
  <2>1. /\ lasti' = [lasti EXCEPT ![g] = @ - 1] /\ yielded' = [yielded EXCEPT ![g] = TRUE]
        /\ running' = [running EXCEPT ![g] = FALSE] /\ Answer(Item(v))
    BY <1>6 DEF YieldFrom, YieldValue, Leave, IsStopIteration
  <2>2. OnlyMoves(g) /\ yielded'[g] /\ ~running'[g] /\ lasti'[g] = lasti[g] - 1
    BY <1>1, <1>2, <2>1 DEF OnlyMoves, Still, TypeInv
  <2>3. p \in Nat
    BY StatementForms
  <2>4. lasti'[g] = p
    BY <1>3, <2>2, <2>3
  <2>5. /\ TakenAt(g, p + 1, given) = given[a] - 1 /\ given[a] \in 1 .. Len(Items(a))
        /\ a \in unended /\ v = Items(a)[given[a]]
    BY <1>3, <1>6 DEF ItemHere
  <2>6. /\ Mean(g).at[p] + Len(Items(a)) <= Len(Items(g))
        /\ \A i \in 1 .. Len(Items(a)) : Items(g)[Mean(g).at[p] + i] = Items(a)[i]
    BY <1>5, AskMeans
  <2>7. given[g] + 1 = Mean(g).at[p] + given[a]
    BY <1>1, <1>3, <1>4, <2>5
  <2>8. v = Items(g)[given[g] + 1]
    BY <2>5, <2>6, <2>7
  <2> PICK given2 : given2 = [given EXCEPT ![g] = @ + 1]
    OBVIOUS
  <2>9. given2[g] = Mean(g).at[p] + given[a] /\ given2[g] <= Len(Items(g))
    <3>1. given2[g] = Mean(g).at[p] + given[a]
      BY <1>1, <2>7
    <3> QED BY <3>1, <1>1, <1>3, <2>5, <2>6
  <2>10. ObjectAsWritten(g, given2, unended)'
    <3>1. active' # <<>> /\ Top'.obj # g
      BY <1>2, <2>1, <2>2, TopIsAnother, NothingIsNoAnswer
    <3>2. ~Goes(g)'
      BY <3>1 DEF Goes
    <3>3. world' = world /\ a \in unended
      BY <1>2, <2>5
    <3> QED BY <1>5, <2>2, <2>4, <2>9, <3>1, <3>2, <3>3, GeneratorBackIn
  <2> QED BY <1>2, <2>1, <2>2, <2>8, <2>10, GeneratorGives
<1>7. CASE result.type # "item"
  <2>0. EndHere(g, p, a, given)
    BY <1>3, <1>7
  <2>1. /\ TakenAt(g, p + 1, given) = Len(Items(a)) /\ result.type = Mean(a).end
    BY <2>0 DEF EndHere
  <2>2. given[g] = Mean(g).at[p] + Len(Items(a))
    BY <1>4, <2>1
  <2>3. CASE result.type = "error"
    <3>1. /\ running' = [running EXCEPT ![g] = FALSE] /\ Answer(Failed)
          /\ lasti' = lasti /\ yielded' = yielded
      BY <2>3 DEF YieldFrom, Leave, IsStopIteration
    <3>2. OnlyMoves(g)
      BY <1>1, <1>2, <3>1 DEF OnlyMoves, Still, TypeInv
    <3>3. Mean(a).end = "error"
      BY <2>1, <2>3
    <3>4. given[g] = Len(Items(g)) /\ Mean(g).end = "error"
      BY <1>5, <2>2, <3>3, AskMeans
    <3>5. Failed # Nothing /\ Failed.type = "error"
      BY NothingIsNoAnswer DEF Failed
    <3> QED BY <1>2, <3>1, <3>2, <3>4, <3>5, GeneratorEnds
  <2>4. CASE result.type # "error"
    <3>1. /\ result' = Nothing /\ lasti' = lasti /\ yielded' = yielded /\ running' = running
          /\ active' = active
      BY <1>7, <2>4 DEF YieldFrom
    <3>2. OnlyMoves(g)
      BY <1>2, <3>1 DEF OnlyMoves, Still
    <3>3. Mean(a).end # "error"
      BY <2>1, <2>4
    <3> PICK place : place = p + 1
      OBVIOUS
    <3>4. place \in DOMAIN Mean(g).at /\ Mean(g).at[place] = given[g]
      BY <1>5, <2>2, <3>3, AskMeans
    <3>5. Goes(g)' /\ running'[g]
      <4>1. running[g]
        BY StatementForms
      <4> QED BY <1>2, <3>1, <4>1 DEF Goes, Top
    <3>6. Code(g)[place + 1].op # "from"
      BY <1>5, <3>4, NoFromThere
    <3>7. lasti'[g] = place
      BY <1>3, <3>1
    <3>8. ObjectAsWritten(g, given, unended)'
      BY <1>2, <3>1, <3>4, <3>5, <3>6, <3>7, GeneratorComesTo
    <3> QED BY <1>2, <3>1, <3>2, <3>8, GeneratorStays
  <2> QED BY <2>3, <2>4
<1> QED BY <1>6, <1>7

LEMMA ForIterAsWritten ==
    ASSUME NEW root, NEW g, NEW p, NEW given, NEW unended, Executing(root, g, p, given, unended),
           DataInv, TreeInv', ForIter(g)
    PROVE  \E given2, unended2 : AsWritten(root, given2, unended2)'
<1>1. /\ TypeInv /\ g \in Objects /\ given[g] \in Nat /\ given[g] <= Len(Items(g))
      /\ Mean(g).at[p] \in Nat
  BY IsExecuting
<1> PICK a : a = Code(g)[p + 1].of
  OBVIOUS
<1>2. /\ Answered(g, "iter") /\ active # <<>> /\ Top.obj = g
      /\ world' = world /\ index' = index /\ heard' = heard /\ yielded' = yielded
      /\ running' = running /\ active' = active /\ result' = Nothing
  BY DEF ForIter, Answered
<1>3. /\ result # Nothing /\ lasti[g] = p + 1 /\ Code(g)[p + 1].op = "iter"
      /\ p + 1 \in Places(world, g) /\ HasGiven(g, p, given)
      /\ given[a] \in Nat /\ Len(Items(a)) \in Nat
      /\ IF result.type = "item" THEN ItemHere(g, p, a, given, unended)
         ELSE EndHere(g, p, a, given)
  BY <1>2, AnswerForms
<1>4. given[g] = Mean(g).at[p] + TakenAt(g, p + 1, given)
  BY <1>3 DEF HasGiven, Passed
<1>5. Code(g)[p + 1].op = "iter" /\ p + 1 \in Places(world, g)
  BY <1>3
<1>6. Goes(g)' /\ running'[g]
  <2>1. running[g]
    BY StatementForms
  <2> QED BY <1>2, <2>1 DEF Goes, Top
<1>7. CASE result.type = "item"
  <2>1. top' = [top EXCEPT ![g] = result.value] /\ lasti' = lasti
    BY <1>7 DEF ForIter
  <2>2. OnlyMoves(g) /\ top'[g] = result.value
    <3>1. PICK S : top \in [Objects -> S]
      BY DEF DataInv
    <3> QED BY <1>1, <1>2, <2>1, <3>1 DEF OnlyMoves, Still, TypeInv
  <2>3. /\ TakenAt(g, p + 1, given) = given[a] - 1 /\ given[a] # 0
        /\ a \in unended /\ result.value = Items(a)[given[a]]
    BY <1>3, <1>7 DEF ItemHere
  <2>4. Code(g)[lasti'[g] + 1].op # "from"
    <3>1. Code(g)[p + 2].op = "yield top"
      BY <1>5, StatementForms
    <3>2. p \in Nat
      BY StatementForms
    <3>3. lasti'[g] = p + 1
      BY <1>3, <2>1
    <3>4. lasti'[g] + 1 = p + 2
      BY <3>2, <3>3
    <3> QED BY <3>1, <3>4
  <2>5. ObjectAsWritten(g, given, unended)'
    <3>1. /\ TypeInv /\ IsTree(world) /\ g \in Generators /\ p \in DOMAIN Mean(g).at
      BY IsExecuting DEF Executing
    <3>2. AskedAt(world, g, p + 1) = a
      BY <1>5, ThisPlace
    <3>3. /\ TakenAt(g, p + 1, given)' = given[a] /\ HereAt(g, p + 1, unended)'
          /\ \A q \in Places(world, g) : q > p + 1 => HereAt(g, q, unended)' /\ TakenAt(g, q, given)' = 0
      BY <1>2, <1>5, <2>3, <3>2, AfterTheStep
    <3> PICK opcode : opcode = Code(g)[p + 1]
      OBVIOUS
    <3> PICK taken \in Nat : taken = given[a]
      BY <1>3
    <3>4. given[g] = Mean(g).at[p] + taken - 1
      BY <1>1, <1>4, <2>3
    <3>5. lasti'[g] = p + 1 /\ taken # 0 /\ top'[g] = Items(opcode.of)[taken]
      BY <1>3, <2>1, <2>2, <2>3
    <3>6. world' = world /\ opcode.op = "iter" /\ given[g] <= Len(Items(g))
      BY <1>1, <1>2, <1>5
    <3> QED BY <3>1, <3>3, <3>4, <3>5, <3>6, <1>6, <2>4, GeneratorIsIn
  <2> QED BY <1>2, <2>2, <2>5, GeneratorStays
<1>8. CASE result.type # "item"
  <2>1. lasti' = [lasti EXCEPT ![g] = Code(g)[lasti[g]].exit] /\ top' = top
    BY <1>8 DEF ForIter
  <2>2. OnlyMoves(g) /\ lasti'[g] = Code(g)[p + 1].exit
    BY <1>1, <1>2, <1>3, <2>1 DEF OnlyMoves, Still, TypeInv
  <2>3. EndHere(g, p, a, given)
    BY <1>3, <1>8
  <2>4. given[g] = Mean(g).at[p] + Len(Items(a))
    BY <1>4, <2>3 DEF EndHere
  <2> PICK place : place = p + 3
    OBVIOUS
  <2>5. Code(g)[p + 1].exit = place
    BY <1>5, StatementForms
  <2>6. place \in DOMAIN Mean(g).at /\ Mean(g).at[place] = given[g]
    BY <1>5, <2>4, <2>5, AskMeans
  <2>7. Code(g)[place + 1].op # "from"
    BY <1>5, <2>6, NoFromThere
  <2>8. lasti'[g] = place
    BY <2>2, <2>5
  <2>9. ObjectAsWritten(g, given, unended)'
    BY <1>2, <1>6, <2>6, <2>7, <2>8, GeneratorComesTo
  <2> QED BY <1>2, <2>2, <2>9, GeneratorStays
<1> QED BY <1>7, <1>8

LEMMA GeneratorWaits ==
    ASSUME NEW root, NEW g, NEW p, NEW given, NEW unended, Executing(root, g, p, given, unended),
           result = Nothing, p + 1 \in Places(world, g), HasGiven(g, p, given),
           world' = world, lasti'[g] = p + 1
    PROVE  Waits(g, given, unended)
<1> SUFFICES ASSUME NEW given2, NEW unended2,
                    SeesTheSame(g, given, unended, given2, unended2),
                    ~Goes(g)', running'[g] = running[g]
             PROVE  ObjectAsWritten(g, given2, unended2)'
  BY DEF Waits
<1>1. /\ TypeInv /\ IsTree(world) /\ g \in Generators /\ p \in DOMAIN Mean(g).at
  BY IsExecuting DEF Executing
<1>2. given[g] <= Len(Items(g))
  BY IsExecuting
<1>3. running[g]
  BY StatementForms
<1>4. Suspended(g)' /\ (running'[g] \/ lasti'[g] = 0 \/ yielded'[g])
  BY <1>3 DEF Suspended
<1> PICK a : a = Code(g)[p + 1].of
  OBVIOUS
<1>5. AskedHere(g, p, a, given, unended) /\ given[a] \in Nat
  BY ThisPlace
<1> PICK taken \in Nat : taken = TakenAt(g, p + 1, given)
  BY <1>5 DEF AskedHere
<1> PICK opcode : opcode = Code(g)[p + 1]
  OBVIOUS
<1>6. opcode.op \in {"next", "from", "iter"}
  <2>1. Code(g)[p + 1].op \in {"next", "iter", "from"}
    BY <1>1, PlacesAskObjects DEF Generators
  <2> QED BY <2>1
<1>7. /\ given2[g] = given[g]
      /\ \A q \in Places(world, g) :
            /\ TakenAt(g, q, given2)' = TakenAt(g, q, given)
            /\ HereAt(g, q, unended) => HereAt(g, q, unended2)'
  BY DEF SeesTheSame
<1>8. /\ opcode.op = "next" => taken = 0
      /\ HereAt(g, p + 1, unended)
      /\ \A q \in Places(world, g) : q > p + 1 => HereAt(g, q, unended) /\ TakenAt(g, q, given) = 0
  BY DEF Executing, StatementAsWritten
<1>9. /\ TakenAt(g, p + 1, given2)' = taken /\ HereAt(g, p + 1, unended2)'
      /\ \A q \in Places(world, g) : q > p + 1 => HereAt(g, q, unended2)' /\ TakenAt(g, q, given2)' = 0
  BY <1>7, <1>8
<1>10. given2[g] = Mean(g).at[p] + taken
  BY <1>6, <1>7, <1>8 DEF HasGiven, Passed
<1>11. given2[g] <= Len(Items(g)) /\ (opcode.op = "next" => taken = 0)
  BY <1>2, <1>7, <1>8
<1> QED BY <1>1, <1>4, <1>6, <1>9, <1>10, <1>11, GeneratorIsIn

LEMMA AsksForAsWritten ==
    ASSUME NEW root, NEW g, NEW p, NEW given, NEW unended, Executing(root, g, p, given, unended),
           DataInv, TreeInv', AsksFor(g)
    PROVE  \E given2, unended2 : AsWritten(root, given2, unended2)'
<1>1. /\ TreeInv /\ IsTree(world) /\ Asked = {root} /\ AsWritten(root, given, unended)
      /\ active # <<>> /\ g \in Generators /\ Top.obj = g /\ TypeInv /\ g \in unended
      /\ \A x \in unended : ObjectAsWritten(x, given, unended)
  BY IsExecuting DEF Executing
<1> PICK a : a = Code(g)[p + 1].of
  OBVIOUS
<1> PICK op : op = Code(g)[lasti[g] + 1].op
  OBVIOUS
<1>2. /\ result = Nothing /\ op \in {"next", "iter", "from"}
      /\ lasti' = [lasti EXCEPT ![g] = @ + 1] /\ world' = world /\ heard' = heard
      /\ Enter(Code(g)[lasti[g] + 1].of, IF op = "from" THEN top[g] ELSE None, active)
  BY DEF AsksFor, At, Fetch
<1>3. result = Nothing /\ op \notin {"yield top", "jump"}
  BY <1>2
<1>4. lasti[g] = p /\ HasGiven(g, p, given)
  BY <1>3, ComesToOpcode
<1>5. Code(g)[p + 1].op \in {"next", "iter", "from"}
  BY <1>2, <1>4
<1>6. p + 1 \in Places(world, g)
  BY <1>5, StatementForms
<1>7. AskedHere(g, p, a, given, unended) /\ AskedAt(world, g, p + 1) = a
  <2>1. AskedAt(world, g, p + 1) = a
    BY <1>6, ThisPlace
  <2>2. result = Nothing
    BY <1>2
  <2>3. AskedHere(g, p, a, given, unended)
    BY <1>6, <2>2, ThisPlace
  <2> QED BY <2>1, <2>3
<1>8. op = "from" => top[g] = None
  <2>1. GeneratorAsWritten(g, given, unended) /\ Goes(g)
    BY <1>1, <1>3 DEF ObjectAsWritten, Goes, Generators, IsGenerator
  <2> QED BY <2>1 DEF GeneratorAsWritten
<1>9. Enter(a, None, active)
  BY <1>2, <1>4, <1>8
<1>10. OnlyAdvances(g) /\ lasti'[g] = p + 1
  BY <1>1, <1>2, <1>4 DEF OnlyAdvances, TypeInv, Generators
<1>11. Waits(g, given, unended)
  BY <1>2, <1>3, <1>4, <1>6, <1>10, GeneratorWaits
<1>12. Awaits(active[Len(active)], lasti', a)
  BY <1>1, <1>6, <1>7, <1>10, ObjectsAssumption DEF Awaits, PlaceOf, Top, Generators
<1>13. a \in unended
  BY <1>7 DEF AskedHere
<1> PICK S : top \in [Objects -> S]
  BY DEF DataInv
<1>14. index \in [Objects -> Nat]
  BY DEF DataInv
<1>15. result = Nothing /\ heard' = heard /\ world' = world
  BY <1>2
<1> QED BY <1>1, <1>9, <1>10, <1>11, <1>12, <1>13, <1>14, <1>15, AskComes

ResultInv == result # Nothing => result.type \in {"item", "stop", "stopped", "error"}

LEMMA ExecuteAsWritten ==
    ASSUME TreeInv, TreeInv', IsTree(world), NEW root, Asked = {root}, DataInv, ResultInv,
           NEW given, NEW unended, AsWritten(root, given, unended), NEW g \in Objects, Execute(g)
    PROVE  \E given2, unended2 : AsWritten(root, given2, unended2)'
<1>1. active # <<>> /\ Top.obj = g /\ g \in Generators /\ world[g].kind = "generator"
  BY DEF Execute, Generators, IsGenerator
<1>2. g \in unended
  <2>1. Len(active) \in 1 .. Len(active) /\ active[Len(active)].obj = g
    BY <1>1, TopCall
  <2> QED BY <2>1, ObjectsAssumption DEF AsWritten
<1>3. GeneratorAsWritten(g, given, unended)
  BY <1>1, <1>2 DEF AsWritten, ObjectAsWritten
<1> PICK p \in DOMAIN Mean(g).at : StatementAsWritten(g, p, given, unended)
  BY <1>3 DEF GeneratorAsWritten
<1>4. Executing(root, g, p, given, unended)
  BY <1>1 DEF Executing
<1>5. result # Nothing => result.type \in {"item", "stop", "stopped", "error"}
  BY DEF ResultInv
<1>6. CASE Yields(g) \/ YieldsTop(g) \/ JumpAbsolute(g)
  BY <1>4, <1>6, YieldsAsWritten, YieldsTopAsWritten, JumpAsWritten
<1>7. CASE Raises(g) \/ ReturnValue(g) \/ CallFunction(g)
  BY <1>4, <1>7, RaisesAsWritten, ReturnAsWritten, CallAsWritten
<1>8. CASE AsksFor(g) \/ ForIter(g)
  BY <1>4, <1>8, AsksForAsWritten, ForIterAsWritten
<1>9. CASE YieldFrom(g) \/ NextAnswers(g)
  BY <1>4, <1>5, <1>9, YieldFromAsWritten, NextAsWritten
<1> QED BY <1>6, <1>7, <1>8, <1>9 DEF Execute

-------------------------------------------------------------------------------
(* The adapters.                                                              *)
Adapting(root, o, given, unended) ==
    /\ TreeInv /\ IsTree(world) /\ Asked = {root} /\ AsWritten(root, given, unended)
    /\ active # <<>> /\ o \in Adapters /\ Top.obj = o

LEMMA IsAdapting ==
    ASSUME NEW root, NEW o, NEW given, NEW unended, Adapting(root, o, given, unended)
    PROVE  /\ TypeInv /\ o \in Objects /\ o \in unended /\ o \notin Generators
           /\ given \in [Objects -> Nat] /\ unended \in SUBSET Objects
           /\ \A x \in unended : ObjectAsWritten(x, given, unended)
           /\ given[o] \in Nat /\ given[o] <= Len(Items(o)) /\ Len(Items(o)) \in Nat
           /\ world[o].kind \in AdapterKinds /\ Got(active, o) = Top.got
           /\ Places(world, o) = 1 .. Len(world[o].of) /\ Len(world[o].of) \in Nat \ {0}
           /\ \A q \in 1 .. Len(world[o].of) :
                 /\ AskedAt(world, o, q) = world[o].of[q]
                 /\ world[o].of[q] \in Objects /\ world[o].of[q] # o
           /\ (\E S : Top.got \in Seq(S)) /\ Len(Top.got) < Len(world[o].of)
<1>0. /\ TreeInv /\ IsTree(world) /\ active # <<>> /\ o \in Adapters /\ Top.obj = o
  BY DEF Adapting
<1>1. /\ TypeInv /\ o \in Objects /\ given \in [Objects -> Nat] /\ unended \in SUBSET Objects
      /\ \A x \in unended : ObjectAsWritten(x, given, unended)
  BY DEF Adapting, AsWritten, TreeInv, IterationInv, Adapters
<1>2. Len(active) \in 1 .. Len(active) /\ active[Len(active)].obj = o /\ Got(active, o) = Top.got
  BY <1>0, TopCall
<1>3. o \in unended
  BY <1>1, <1>2, ObjectsAssumption DEF Adapting, AsWritten
<1>4. given[o] \in Nat /\ given[o] <= Len(Items(o)) /\ Len(Items(o)) \in Nat
  BY <1>0, <1>1, <1>3, MeaningOfWorld DEF ObjectAsWritten
<1>5. /\ world[o].kind \in AdapterKinds /\ o \notin Generators /\ world[o].kind # "generator"
  BY <1>0 DEF Adapters, AdapterKinds, Generators, IsGenerator
<1>6. Places(world, o) = 1 .. Len(world[o].of)
  BY <1>5 DEF Places
<1>7. Len(world[o].of) \in Nat \ {0}
  BY <1>0, <1>1, WorldsAssumption DEF TypeInv, Adapters
<1>8. ASSUME NEW q \in 1 .. Len(world[o].of)
      PROVE  /\ AskedAt(world, o, q) = world[o].of[q]
             /\ world[o].of[q] \in Objects /\ world[o].of[q] # o
  <2>1. AskedAt(world, o, q) = world[o].of[q]
    BY <1>5 DEF AskedAt
  <2>2. AskedAt(world, o, q) \in Objects /\ AskedAt(world, o, q) # o
    BY <1>0, <1>1, <1>6, AsksAnother
  <2> QED BY <2>1, <2>2
<1>9. (\E S : Top.got \in Seq(S)) /\ Len(Top.got) < Len(world[o].of)
  BY <1>0, <1>2 DEF TreeInv, IterationInv, CallsInv, PartsFit, Top
<1> QED BY <1>1, <1>2, <1>3, <1>4, <1>5, <1>6, <1>7, <1>8, <1>9

\* What has come of what is asked at w.
ItemTaken(o, w, a, given, unended) ==
    /\ TakenAt(o, w, given) = given[a] - 1 /\ given[a] # 0
    /\ a \in unended /\ given[a] <= Len(Items(a)) /\ result.value = Items(a)[given[a]]
EndTaken(o, w, a, given) ==
    /\ TakenAt(o, w, given) = given[a]
    /\ given[a] = Len(Items(a)) /\ result.type = Mean(a).end

LEMMA AdapterAnswered ==
    ASSUME NEW root, NEW o, NEW given, NEW unended, Adapting(root, o, given, unended),
           result # Nothing, NEW w, w = Len(Top.got) + 1, NEW a, a = world[o].of[w]
    PROVE  /\ w \in 1 .. Len(world[o].of) /\ a \in Objects /\ a # o /\ AskedAt(world, o, w) = a
           /\ given[a] \in Nat /\ Len(Items(a)) \in Nat
           /\ \A q \in 1 .. Len(world[o].of) : q # w =>
                 /\ TakenAt(o, q, given) = given[world[o].of[q]]
                 /\ HereAt(o, q, unended) => world[o].of[q] \in unended
           /\ IF result.type = "item" THEN ItemTaken(o, w, a, given, unended)
              ELSE EndTaken(o, w, a, given)
<1>1. /\ TypeInv /\ o \in Objects /\ o \notin Generators
      /\ given \in [Objects -> Nat] /\ Got(active, o) = Top.got
      /\ \A x \in unended : ObjectAsWritten(x, given, unended)
      /\ \A q \in 1 .. Len(world[o].of) : AskedAt(world, o, q) = world[o].of[q]
  BY IsAdapting
<1>2. w \in 1 .. Len(world[o].of)
  <2>1. Len(Top.got) \in Nat /\ Len(world[o].of) \in Nat /\ Len(Top.got) < Len(world[o].of)
    <3>1. (\E S : Top.got \in Seq(S)) /\ Len(world[o].of) \in Nat \ {0} /\ Len(Top.got) < Len(world[o].of)
      BY IsAdapting
    <3> QED BY <3>1
  <2> QED BY <2>1
<1>3. a \in Objects /\ a # o /\ AskedAt(world, o, w) = a
  BY <1>2, IsAdapting
<1>4. given[a] \in Nat /\ Len(Items(a)) \in Nat
  BY <1>1, <1>3, MeaningOfWorld DEF Adapting
<1>5. WaitsAt(o) = w
  BY <1>1 DEF WaitsAt
<1>6. Pending(o) <=> result.type = "item"
  BY DEF Pending, Adapting
<1>7. ASSUME NEW q \in 1 .. Len(world[o].of), q # w
      PROVE  /\ TakenAt(o, q, given) = given[world[o].of[q]]
             /\ HereAt(o, q, unended) => world[o].of[q] \in unended
  BY <1>1, <1>5, <1>7 DEF TakenAt, HereAt
<1>8. IF result.type = "item"
      THEN a \in unended /\ given[a] # 0 /\ result.value = Items(a)[given[a]]
      ELSE given[a] = Len(Items(a)) /\ result.type = Mean(a).end
  <2>1. Awaits(Top, lasti, a)
    <3>1. \E c : Awaits(Top, lasti, c)
      BY DEF Adapting, TreeInv, ChainInv, TopAwaits, Top
    <3>2. PICK c : Awaits(Top, lasti, c)
      BY <3>1
    <3>3. o # 0
      BY <1>1, ObjectsAssumption
    <3>4. TreeInv /\ IsTree(world) /\ active # <<>> /\ Top.obj = o
      BY DEF Adapting
    <3>5. c = AskedAt(world, o, WaitsAt(o))
      BY <3>2, <3>3, <3>4, TopCall
    <3> QED BY <3>2, <3>5, <1>3, <1>5
  <2> QED BY <2>1, <1>3 DEF Adapting, AsWritten, AnswerAsWritten
<1>9. a \in unended => given[a] <= Len(Items(a))
  BY <1>1 DEF ObjectAsWritten
<1>10. TakenAt(o, w, given) = IF result.type = "item" THEN given[a] - 1 ELSE given[a]
  BY <1>3, <1>5, <1>6 DEF TakenAt
<1>11. IF result.type = "item" THEN ItemTaken(o, w, a, given, unended) ELSE EndTaken(o, w, a, given)
  BY <1>8, <1>9, <1>10 DEF ItemTaken, EndTaken
<1> QED BY <1>2, <1>3, <1>4, <1>7, <1>11

\* After a step o has given an item more, or not, and the others what they had.
MayGive(o, given, given2) == given2 = given \/ given2 = [given EXCEPT ![o] = @ + 1]

LEMMA AdapterAfter ==
    ASSUME NEW root, NEW o, NEW given, NEW unended, Adapting(root, o, given, unended),
           world' = world, active' = <<>> \/ Top'.obj # o \/ result' = Nothing,
           NEW given2, MayGive(o, given, given2)
    PROVE  \A q \in 1 .. Len(world[o].of) :
              /\ TakenAt(o, q, given2)' = given[world[o].of[q]]
              /\ HereAt(o, q, unended)' <=> world[o].of[q] \in unended
<1> SUFFICES ASSUME NEW q \in 1 .. Len(world[o].of)
             PROVE  /\ TakenAt(o, q, given2)' = given[world[o].of[q]]
                    /\ HereAt(o, q, unended)' <=> world[o].of[q] \in unended
  OBVIOUS
<1>1. /\ AskedAt(world, o, q) = world[o].of[q] /\ world[o].of[q] \in Objects
      /\ world[o].of[q] # o /\ given \in [Objects -> Nat]
  BY IsAdapting
<1>2. /\ TakenAt(o, q, given2)' = given2[AskedAt(world, o, q)]
      /\ HereAt(o, q, unended)' <=> AskedAt(world, o, q) \in unended
  BY ViewAfter
<1>3. given2[AskedAt(world, o, q)] = given[AskedAt(world, o, q)]
  BY <1>1 DEF MayGive
<1> QED BY <1>1, <1>2, <1>3

LEMMA AdapterGives ==
    ASSUME NEW root, NEW o, NEW given, NEW unended, Adapting(root, o, given, unended),
           TreeInv', world' = world, heard' = heard, OnlyMoves(o),
           NEW r, r.type = "item", r # Nothing, Answer(r), r.value = Items(o)[given[o] + 1],
           NEW given2, given2 = [given EXCEPT ![o] = @ + 1],
           active' # <<>> /\ Top'.obj # o /\ Got(active', o) = <<>> => ObjectAsWritten(o, given2, unended)'
    PROVE  \E given3, unended3 : AsWritten(root, given3, unended3)'
<1>1. /\ TreeInv /\ IsTree(world) /\ Asked = {root} /\ AsWritten(root, given, unended)
      /\ active # <<>> /\ o \in Objects /\ Top.obj = o
  BY IsAdapting DEF Adapting
<1>2. \A h \in Generators : h # o => lasti'[h] = lasti[h]
  BY DEF Generators, OnlyMoves, Still
<1>3. /\ active' # <<>> /\ Got(active', o) = <<>>
      /\ \A i \in 1 .. Len(active') : active'[i].obj # o
  BY <1>1, <1>2, BelowTop
<1>4. Top'.obj # o
  <2>1. IsStack(active')
    BY DEF TreeInv, IterationInv, CallsInv
  <2>2. Len(active') \in 1 .. Len(active')
    BY <1>3, <2>1, StackShrinks
  <2> QED BY <1>3, <2>2 DEF Top
<1>5. ObjectAsWritten(o, given2, unended)'
  BY <1>3, <1>4
<1>6. Answers(o, given, unended, given2, unended, r)
  BY DEF Answers
<1>7. AsWritten(root, given2, unended)'
  BY <1>1, <1>5, <1>6, TopAnswers
<1> QED BY <1>7

LEMMA EnumerateAsWritten ==
    ASSUME NEW root, NEW o, NEW given, NEW unended, Adapting(root, o, given, unended),
           DataInv, TreeInv', EnumerateNext(o)
    PROVE  \E given2, unended2 : AsWritten(root, given2, unended2)'
<1>1. /\ TypeInv /\ o \in Objects /\ o \in unended /\ given \in [Objects -> Nat]
      /\ given[o] \in Nat /\ given[o] <= Len(Items(o)) /\ Len(Items(o)) \in Nat
      /\ \A x \in unended : ObjectAsWritten(x, given, unended) /\ Got(active, o) = Top.got
  BY IsAdapting
<1> PICK r : r = Item(Tuple(o, index[o], <<result.value>>))
  OBVIOUS
<1>2. /\ world[o].kind = "enumerate" /\ result.type = "item" /\ result # Nothing
      /\ Answer(r) /\ index' = [index EXCEPT ![o] = @ + 1]
      /\ world' = world /\ lasti' = lasti /\ heard' = heard
      /\ yielded' = yielded /\ running' = running /\ top' = top
  BY DEF EnumerateNext, Adapts, frames, Nothing
<1>3. /\ index[o] = given[o] /\ Top.got = <<>> /\ HereAt(o, 1, unended)
      /\ TakenAt(o, 1, given) = given[o]
  BY <1>1, <1>2 DEF ObjectAsWritten
<1> PICK a : a = world[o].of[1]
  OBVIOUS
<1>4. /\ ItemTaken(o, 1, a, given, unended) /\ 1 \in 1 .. Len(world[o].of)
      /\ a \in Objects /\ given[a] \in Nat /\ Len(Items(a)) \in Nat
  <2> PICK w : w = Len(Top.got) + 1
    OBVIOUS
  <2>1. w = 1
    BY <1>3
  <2> QED BY <1>2, <2>1, AdapterAnswered
<1>5. /\ given[a] = given[o] + 1 /\ a \in unended /\ given[a] <= Len(Items(a))
      /\ result.value = Items(a)[given[a]]
  BY <1>1, <1>3, <1>4 DEF ItemTaken
<1>6. /\ Len(Items(o)) = Len(Items(a))
      /\ \A i \in 1 .. Len(Items(a)) : Items(o)[i] = Tuple(o, i - 1, <<Items(a)[i]>>)
  <2>1. EnumerateMeans(world, Meaning[world], o)
    BY <1>1, <1>2, MeaningOfWorld DEF ObjectMeans, Adapting
  <2> QED BY <2>1 DEF EnumerateMeans, Items, Mean
<1>7. r.value = Items(o)[given[o] + 1] /\ r.type = "item" /\ r # Nothing
  <2>1. given[a] \in 1 .. Len(Items(a)) /\ given[a] - 1 = index[o]
    BY <1>1, <1>3, <1>4, <1>5
  <2>2. Items(o)[given[a]] = Tuple(o, index[o], <<result.value>>)
    BY <1>5, <1>6, <2>1
  <2> QED BY <2>2, <1>5, NothingIsNoAnswer DEF Item
<1>8. OnlyMoves(o) /\ index'[o] = given[o] + 1
  BY <1>1, <1>2, <1>3 DEF OnlyMoves, Still, DataInv
<1> PICK given2 : given2 = [given EXCEPT ![o] = @ + 1]
  OBVIOUS
<1>9. ASSUME active' # <<>>, Top'.obj # o, Got(active', o) = <<>>
      PROVE  ObjectAsWritten(o, given2, unended)'
  <2>1. given2[o] = given[o] + 1
    BY <1>1
  <2>2. TakenAt(o, 1, given2)' = given[a] /\ HereAt(o, 1, unended)'
    <3>1. world' = world /\ (active' = <<>> \/ Top'.obj # o \/ result' = Nothing)
      BY <1>2, <1>9
    <3>2. \A q \in 1 .. Len(world[o].of) :
             /\ TakenAt(o, q, given2)' = given[world[o].of[q]]
             /\ HereAt(o, q, unended)' <=> world[o].of[q] \in unended
      <4>1. MayGive(o, given, given2)
        BY DEF MayGive
      <4> QED BY <3>1, <4>1, AdapterAfter
    <3> QED BY <3>2, <1>4, <1>5
  <2>3. Items(o)' = Items(o) /\ Got(active, o)' = <<>>
    BY <1>2, <1>9 DEF Items, Mean, Got
  <2>4. given2[o] <= Len(Items(o)) /\ TakenAt(o, 1, given2)' = given2[o] /\ index'[o] = given2[o]
    BY <1>5, <1>6, <1>8, <2>1, <2>2
  <2>5. world'[o].kind = "enumerate"
    BY <1>2
  <2> QED BY <2>2, <2>3, <2>4, <2>5 DEF ObjectAsWritten
<1> QED BY <1>2, <1>7, <1>8, <1>9, AdapterGives

LEMMA FilterAsWritten ==
    ASSUME NEW root, NEW o, NEW given, NEW unended, Adapting(root, o, given, unended),
           TreeInv', FilterNext(o)
    PROVE  \E given2, unended2 : AsWritten(root, given2, unended2)'
<1>0. /\ TreeInv /\ IsTree(world) /\ Asked = {root} /\ AsWritten(root, given, unended)
      /\ active # <<>> /\ o \in Objects /\ Top.obj = o
  BY IsAdapting DEF Adapting
<1>1. /\ TypeInv /\ o \in Objects /\ o \in unended /\ given \in [Objects -> Nat]
      /\ given[o] \in Nat /\ given[o] <= Len(Items(o)) /\ Len(Items(o)) \in Nat
      /\ \A x \in unended : ObjectAsWritten(x, given, unended) /\ Got(active, o) = Top.got
  BY IsAdapting
<1> PICK r : r = result
  OBVIOUS
<1>2. /\ world[o].kind = "filter" /\ r.type = "item" /\ r # Nothing
      /\ world' = world /\ lasti' = lasti /\ heard' = heard /\ index' = index
      /\ yielded' = yielded /\ running' = running /\ top' = top
      /\ IF ObjectIsTrue(r.value) THEN Answer(r) ELSE result' = Nothing /\ active' = active
  BY DEF FilterNext, Adapts, frames, Nothing
<1> PICK t : t = TakenAt(o, 1, given)
  OBVIOUS
<1>3. /\ Top.got = <<>> /\ HereAt(o, 1, unended)
      /\ t \in Nat /\ given[o] = Mean(o).at[t]
  BY <1>1, <1>2 DEF ObjectAsWritten
<1> PICK a : a = world[o].of[1]
  OBVIOUS
<1>4. /\ ItemTaken(o, 1, a, given, unended) /\ 1 \in 1 .. Len(world[o].of)
      /\ a \in Objects /\ given[a] \in Nat /\ Len(Items(a)) \in Nat
  <2> PICK w : w = Len(Top.got) + 1
    OBVIOUS
  <2>1. w = 1
    BY <1>3
  <2>2. result # Nothing /\ result.type = "item"
    BY <1>2
  <2> QED BY <2>1, <2>2, AdapterAnswered
<1>5. /\ given[a] = t + 1 /\ a \in unended /\ given[a] <= Len(Items(a))
      /\ r.value = Items(a)[t + 1] /\ t \in 0 .. Len(Items(a)) - 1
  BY <1>3, <1>4 DEF ItemTaken
<1>6. /\ Mean(o).at \in [0 .. Len(Items(a)) -> 0 .. Len(Items(o))]
      /\ IF ObjectIsTrue(Items(a)[t + 1])
         THEN Mean(o).at[t + 1] = given[o] + 1 /\ Items(o)[given[o] + 1] = r.value
         ELSE Mean(o).at[t + 1] = given[o]
  <2>1. FilterMeans(world, Meaning[world], o)
    BY <1>1, <1>2, MeaningOfWorld DEF ObjectMeans, Adapting
  <2> QED BY <2>1, <1>3, <1>5 DEF FilterMeans, Items, Mean
<1>7. OnlyMoves(o)
  BY <1>2 DEF OnlyMoves, Still
<1>8. ASSUME NEW given2, MayGive(o, given, given2), given2[o] = Mean(o).at[t + 1],
             active' = <<>> \/ Top'.obj # o \/ result' = Nothing, Got(active', o) = <<>>
      PROVE  ObjectAsWritten(o, given2, unended)'
  <2>1. TakenAt(o, 1, given2)' = given[a] /\ HereAt(o, 1, unended)'
    <3>1. \A q \in 1 .. Len(world[o].of) :
             /\ TakenAt(o, q, given2)' = given[world[o].of[q]]
             /\ HereAt(o, q, unended)' <=> world[o].of[q] \in unended
      BY <1>2, <1>8, AdapterAfter
    <3> QED BY <3>1, <1>4, <1>5
  <2>2. Mean(o)' = Mean(o) /\ Items(o)' = Items(o) /\ Got(active, o)' = <<>>
    BY <1>2, <1>8 DEF Items, Mean, Got
  <2>3. t + 1 \in 0 .. Len(Items(a))
    BY <1>4, <1>5
  <2>4. given2[o] <= Len(Items(o))
    BY <1>1, <1>6, <1>8, <2>3
  <2>5. world'[o].kind = "filter"
    BY <1>2
  <2>6. TakenAt(o, 1, given2)' \in Nat /\ given2[o] = Mean(o).at[TakenAt(o, 1, given2)']
    BY <1>4, <1>5, <1>8, <2>1
  <2> QED BY <2>1, <2>2, <2>4, <2>5, <2>6 DEF ObjectAsWritten
<1>9. CASE ObjectIsTrue(r.value)
  <2> PICK given2 : given2 = [given EXCEPT ![o] = @ + 1]
    OBVIOUS
  <2>1. Answer(r) /\ r.value = Items(o)[given[o] + 1]
    BY <1>2, <1>5, <1>6, <1>9
  <2>2. given2[o] = Mean(o).at[t + 1] /\ MayGive(o, given, given2)
    BY <1>1, <1>5, <1>6, <1>9 DEF MayGive
  <2>3. active' # <<>> /\ Top'.obj # o /\ Got(active', o) = <<>> => ObjectAsWritten(o, given2, unended)'
    BY <2>2, <1>8
  <2> QED BY <1>2, <1>7, <2>1, <2>3, AdapterGives
<1>10. CASE ~ObjectIsTrue(r.value)
  <2>1. result' = Nothing /\ active' = active
    BY <1>2, <1>10
  <2>2. given[o] = Mean(o).at[t + 1] /\ MayGive(o, given, given)
    BY <1>5, <1>6, <1>10 DEF MayGive
  <2>3. Got(active', o) = <<>>
    BY <1>1, <1>3, <2>1
  <2>4. ObjectAsWritten(o, given, unended)'
    BY <2>1, <2>2, <2>3, <1>8
  <2>5. AsWritten(root, given, unended)'
    BY <1>0, <1>2, <1>7, <2>1, <2>4, TopStays
  <2> QED BY <2>5
<1> QED BY <1>9, <1>10

\* What is asked by zip is not over, apart from what has just ended.
LEMMA ZipAnswered ==
    ASSUME NEW root, NEW o, NEW given, NEW unended, Adapting(root, o, given, unended),
           world[o].kind = "zip", result # Nothing,
           NEW w, w = Len(Top.got) + 1, NEW a, a = world[o].of[w]
    PROVE  /\ w \in 1 .. Len(world[o].of) /\ Len(Top.got) = w - 1
           /\ given[a] \in Nat /\ Len(Items(a)) \in Nat
           /\ \A j \in 1 .. Len(world[o].of) : j # w =>
                 /\ world[o].of[j] \in unended
                 /\ given[world[o].of[j]] = IF j < w THEN given[o] + 1 ELSE given[o]
           /\ \A j \in 1 .. w - 1 : Top.got[j] = Items(world[o].of[j])[given[o] + 1]
           /\ TakenAt(o, w, given) = given[o]
<1>1. /\ o \in unended /\ Got(active, o) = Top.got /\ given[o] \in Nat
      /\ \A x \in unended : ObjectAsWritten(x, given, unended)
  BY IsAdapting
<1>2. ZipAsWritten(o, given, unended)
  BY <1>1 DEF ObjectAsWritten
<1>3. /\ w \in 1 .. Len(world[o].of) /\ given[a] \in Nat /\ Len(Items(a)) \in Nat
      /\ \A q \in 1 .. Len(world[o].of) : q # w =>
            /\ TakenAt(o, q, given) = given[world[o].of[q]]
            /\ HereAt(o, q, unended) => world[o].of[q] \in unended
  BY AdapterAnswered
<1>4. Len(Top.got) \in Nat /\ Len(world[o].of) \in Nat
  <2>1. (\E S : Top.got \in Seq(S)) /\ Len(world[o].of) \in Nat \ {0}
    BY IsAdapting
  <2> QED BY <2>1
<1>5. \A j \in 1 .. Len(world[o].of) :
         /\ HereAt(o, j, unended)
         /\ IF j <= Len(Top.got)
            THEN /\ TakenAt(o, j, given) = given[o] + 1
                 /\ Top.got[j] = Items(world[o].of[j])[given[o] + 1]
            ELSE TakenAt(o, j, given) = given[o]
  BY <1>1, <1>2 DEF ZipAsWritten
<1>6. /\ \A j \in 1 .. Len(world[o].of) : j <= Len(Top.got) <=> j < w
      /\ w - 1 = Len(Top.got) /\ w - 1 \in Nat /\ w - 1 < Len(world[o].of)
  BY <1>3, <1>4
<1>7. \A j \in 1 .. w - 1 : j \in 1 .. Len(world[o].of) /\ j <= Len(Top.got)
  BY <1>4, <1>6
<1>8. ~(w <= Len(Top.got))
  BY <1>4
<1>9. TakenAt(o, w, given) = given[o]
  BY <1>3, <1>5, <1>8
<1>10. ASSUME NEW j \in 1 .. Len(world[o].of), j # w
       PROVE  /\ world[o].of[j] \in unended
              /\ given[world[o].of[j]] = IF j < w THEN given[o] + 1 ELSE given[o]
  BY <1>3, <1>5, <1>6, <1>10
<1>11. \A j \in 1 .. w - 1 : Top.got[j] = Items(world[o].of[j])[given[o] + 1]
  BY <1>5, <1>7
<1> QED BY <1>3, <1>6, <1>9, <1>10, <1>11

ZipItems(o, of) ==
    \A i \in 1 .. Len(Items(o)) :
        Items(o)[i] = Tuple(o, 0, [j \in 1 .. Len(of) |-> Items(of[j])[i]])
ZipEnds(o, of) ==
    /\ \A j \in 1 .. Len(of) : Len(Items(o)) <= Len(Items(of[j]))
    /\ \E j \in 1 .. Len(of) :
          /\ Len(Items(o)) = Len(Items(of[j])) /\ Mean(o).end = Mean(of[j]).end
          /\ \A k \in 1 .. j - 1 : Len(Items(o)) < Len(Items(of[k]))

LEMMA ZipMeaning ==
    ASSUME NEW root, NEW o, NEW given, NEW unended, Adapting(root, o, given, unended),
           world[o].kind = "zip", NEW of, of = world[o].of
    PROVE  ZipItems(o, of) /\ ZipEnds(o, of)
<1>1. ZipMeans(world, Meaning[world], o)
  BY IsAdapting, MeaningOfWorld DEF ObjectMeans, Adapting
<1> QED BY <1>1 DEF ZipMeans, ZipItems, ZipEnds, Items, Mean

LEMMA ZipNextAsWritten ==
    ASSUME NEW root, NEW o, NEW given, NEW unended, Adapting(root, o, given, unended),
           TreeInv', ZipNext(o)
    PROVE  \E given2, unended2 : AsWritten(root, given2, unended2)'
<1>0. /\ TreeInv /\ IsTree(world) /\ Asked = {root} /\ AsWritten(root, given, unended)
      /\ active # <<>> /\ o \in Objects /\ Top.obj = o
  BY IsAdapting DEF Adapting
<1>1. /\ TypeInv /\ o \in Objects /\ o \in unended /\ given \in [Objects -> Nat]
      /\ given[o] \in Nat /\ given[o] <= Len(Items(o)) /\ Len(Items(o)) \in Nat
      /\ Len(world[o].of) \in Nat \ {0}
      /\ \A x \in unended : ObjectAsWritten(x, given, unended) /\ Got(active, o) = Top.got
  BY IsAdapting
<1> PICK of : of = world[o].of
  OBVIOUS
<1> PICK w : w = Len(Top.got) + 1
  OBVIOUS
<1> PICK a : a = of[w]
  OBVIOUS
<1> PICK got : got = Append(Top.got, result.value)
  OBVIOUS
<1>2. /\ world[o].kind = "zip" /\ result.type = "item" /\ result # Nothing
      /\ world' = world /\ lasti' = lasti /\ heard' = heard /\ index' = index
      /\ yielded' = yielded /\ running' = running /\ top' = top
      /\ IF Len(got) = Len(of) THEN Answer(Item(Tuple(o, 0, got)))
         ELSE active' = [active EXCEPT ![Len(active)].got = got] /\ result' = Nothing
  BY DEF ZipNext, Adapts, frames, Nothing
<1>3. OnlyMoves(o)
  BY <1>2 DEF OnlyMoves, Still
<1>4. /\ w \in 1 .. Len(of) /\ Len(Top.got) = w - 1
      /\ given[a] \in Nat /\ Len(Items(a)) \in Nat
      /\ \A j \in 1 .. Len(of) : j # w =>
            of[j] \in unended /\ given[of[j]] = IF j < w THEN given[o] + 1 ELSE given[o]
      /\ \A j \in 1 .. w - 1 : Top.got[j] = Items(of[j])[given[o] + 1]
      /\ TakenAt(o, w, given) = given[o]
  BY <1>2, ZipAnswered
<1>5. /\ a \in unended /\ given[a] = given[o] + 1 /\ given[a] <= Len(Items(a))
      /\ result.value = Items(a)[given[o] + 1]
  <2>0. result # Nothing /\ result.type = "item"
    BY <1>2
  <2>1. ItemTaken(o, w, a, given, unended)
    BY <2>0, AdapterAnswered
  <2>2. /\ a \in unended /\ given[a] # 0 /\ given[a] <= Len(Items(a))
        /\ TakenAt(o, w, given) = given[a] - 1 /\ result.value = Items(a)[given[a]]
    BY <2>1 DEF ItemTaken
  <2>3. given[a] = given[o] + 1
    <3>1. given[a] \in Nat /\ given[o] \in Nat /\ TakenAt(o, w, given) = given[o]
      BY <1>1, <1>4
    <3>2. TakenAt(o, w, given) = given[a] - 1
      BY <2>2
    <3> QED BY <3>1, <3>2
  <2> QED BY <2>2, <2>3
<1>6. /\ Len(got) = w /\ got \in Seq(UNION {{got[j]} : j \in 1 .. w}) /\ DOMAIN got = 1 .. w
      /\ \A j \in 1 .. w : got[j] = Items(of[j])[given[o] + 1]
  <2>1. PICK S : Top.got \in Seq(S)
    BY IsAdapting
  <2>2. Top.got \in Seq(S \cup {result.value}) /\ w \in Nat
    BY <2>1, <1>1, <1>4
  <2>3. /\ Len(got) = w /\ DOMAIN got = 1 .. w /\ got \in Seq(S \cup {result.value})
        /\ \A j \in 1 .. w - 1 : got[j] = Top.got[j]
        /\ got[w] = result.value
    BY <2>2
  <2>4. \A j \in 1 .. w : j \in 1 .. w - 1 \/ j = w
    BY <2>2
  <2>5. \A j \in 1 .. w : got[j] = Items(of[j])[given[o] + 1]
    BY <2>3, <2>4, <1>4, <1>5
  <2>6. got \in Seq(UNION {{got[j]} : j \in 1 .. w})
    BY <2>2, <2>3
  <2> QED BY <2>3, <2>5, <2>6
<1>7. \A j \in 1 .. Len(of) :
         /\ of[j] \in unended
         /\ given[of[j]] = IF j <= w THEN given[o] + 1 ELSE given[o]
  <2> SUFFICES ASSUME NEW j \in 1 .. Len(of)
               PROVE  of[j] \in unended /\ given[of[j]] = IF j <= w THEN given[o] + 1 ELSE given[o]
    OBVIOUS
  <2>1. CASE j = w
    BY <2>1, <1>4, <1>5
  <2>2. CASE j # w
    <3>1. j <= w <=> j < w
      BY <2>2, <1>1, <1>4
    <3> QED BY <2>2, <3>1, <1>4
  <2> QED BY <2>1, <2>2
<1>8. CASE Len(got) = Len(of)
  <2> PICK r : r = Item(Tuple(o, 0, got))
    OBVIOUS
  <2> PICK given2 : given2 = [given EXCEPT ![o] = @ + 1]
    OBVIOUS
  <2>1. w = Len(of)
    BY <1>6, <1>8
  <2>2. \A j \in 1 .. Len(of) : of[j] \in unended /\ given[of[j]] = given[o] + 1
    <3>1. \A j \in 1 .. Len(of) : j <= w
      BY <2>1, <1>1, <1>4
    <3> QED BY <3>1, <1>7
  <2>3. given[o] + 1 <= Len(Items(o))
    <3>0. ZipEnds(o, of)
      BY <1>2, ZipMeaning
    <3>1. \E j \in 1 .. Len(of) : Len(Items(o)) = Len(Items(of[j]))
      BY <3>0 DEF ZipEnds
    <3>2. PICK j \in 1 .. Len(of) : Len(Items(o)) = Len(Items(of[j]))
      BY <3>1
    <3>3. given[of[j]] <= Len(Items(of[j]))
      BY <2>2, <1>1 DEF ObjectAsWritten
    <3> QED BY <2>2, <3>2, <3>3
  <2>4. Items(o)[given[o] + 1] = Tuple(o, 0, got)
    <3> PICK i : i = given[o] + 1
      OBVIOUS
    <3>1. i \in 1 .. Len(Items(o))
      BY <1>1, <2>3
    <3>2. Items(o)[i] = Tuple(o, 0, [j \in 1 .. Len(of) |-> Items(of[j])[i]])
      <4>1. world[o].kind = "zip"
        BY <1>2
      <4>2. ZipItems(o, of)
        BY <4>1, ZipMeaning
      <4> QED BY <3>1, <4>2 DEF ZipItems
    <3>3. got = [j \in 1 .. Len(of) |-> Items(of[j])[i]]
      <4>1. got = [j \in DOMAIN got |-> got[j]]
        BY <1>6
      <4>2. DOMAIN got = 1 .. Len(of) /\ \A j \in 1 .. Len(of) : got[j] = Items(of[j])[i]
        BY <2>1, <1>6
      <4> QED BY <4>1, <4>2
    <3> QED BY <3>2, <3>3
  <2>5. r.value = Items(o)[given[o] + 1] /\ r.type = "item" /\ r # Nothing /\ Answer(r)
    BY <2>4, <1>2, <1>8, NothingIsNoAnswer DEF Item
  <2>6. ASSUME active' # <<>>, Top'.obj # o, Got(active', o) = <<>>
        PROVE  ObjectAsWritten(o, given2, unended)'
    <3>1. given2[o] = given[o] + 1 /\ MayGive(o, given, given2)
      BY <1>1 DEF MayGive
    <3>2. \A j \in 1 .. Len(of) : TakenAt(o, j, given2)' = given[of[j]] /\ (HereAt(o, j, unended)' <=> of[j] \in unended)
      BY <3>1, <2>6, <1>2, AdapterAfter
    <3>3. \A j \in 1 .. Len(of) : TakenAt(o, j, given2)' = given2[o] /\ HereAt(o, j, unended)'
      BY <3>1, <3>2, <2>2
    <3>4. Got(active, o)' = <<>> /\ \A j \in 1 .. Len(of) : ~(j <= Len(<<>>))
      BY <2>6 DEF Got
    <3>5. ZipAsWritten(o, given2, unended)'
      BY <3>3, <3>4, <1>2 DEF ZipAsWritten
    <3>6. Items(o)' = Items(o) /\ world'[o].kind = "zip"
      BY <1>2 DEF Items, Mean
    <3> QED BY <3>1, <3>5, <3>6, <2>3 DEF ObjectAsWritten
  <2> QED BY <1>2, <1>3, <2>5, <2>6, AdapterGives
<1>9. CASE Len(got) # Len(of)
  <2> DEFINE n == Len(active)
             c == [active[n] EXCEPT !.got = got]
  <2>1. active' = [active EXCEPT ![n].got = got] /\ result' = Nothing
    BY <1>2, <1>9
  <2>2. /\ n \in Nat \ {0} /\ n \in 1 .. n /\ Once(active) /\ IsStack(active) /\ active[n].obj = o
    BY <1>0, TopCall
  <2>3. PICK S : active \in Seq(S)
    BY <2>2 DEF IsStack
  <2>4. c.obj = o /\ c.got = got
    BY <2>2 DEF IsStack
  <2>5. active' = [active EXCEPT ![n] = c]
    BY <2>1
  <2> HIDE DEF c
  <2>6. Len(active') = n /\ active'[n] = c /\ \A i \in 1 .. n : i # n => active'[i] = active[i]
    <3>1. active \in Seq(S \cup {c}) /\ c \in S \cup {c} /\ n \in 1 .. Len(active)
      BY <2>2, <2>3
    <3> QED BY <3>1, <2>5
  <2>7. \A i \in 1 .. n : active'[i].obj = active[i].obj
    BY <2>2, <2>4, <2>6
  <2>8. Got(active', o) = got
    <3> PICK calls : calls = active'
      OBVIOUS
    <3>1. Once(calls) /\ n \in 1 .. Len(calls) /\ calls[n].obj = o /\ calls[n].got = got
      BY <2>2, <2>4, <2>6, <2>7 DEF Once
    <3>2. Got(calls, calls[n].obj) = calls[n].got
      BY <3>1, GotHere
    <3> QED BY <3>1, <3>2
  <2>9. ObjectAsWritten(o, given, unended)'
    <3>1. MayGive(o, given, given)
      BY DEF MayGive
    <3>2. \A j \in 1 .. Len(of) : TakenAt(o, j, given)' = given[of[j]] /\ (HereAt(o, j, unended)' <=> of[j] \in unended)
      BY <3>1, <2>1, <1>2, AdapterAfter
    <3>3. Got(active, o)' = got /\ Items(o)' = Items(o) /\ \A j \in 1 .. Len(of) : Items(of[j])' = Items(of[j])
      BY <2>8, <1>2 DEF Got, Items, Mean
    <3>4. \A j \in 1 .. Len(of) : j <= w => j \in 1 .. w
      BY <1>1, <1>4
    <3>5. ASSUME NEW j \in 1 .. Len(of)
          PROVE  /\ HereAt(o, j, unended)'
                 /\ IF j <= w THEN /\ TakenAt(o, j, given)' = given[o] + 1
                                   /\ got[j] = Items(of[j])[given[o] + 1]
                    ELSE TakenAt(o, j, given)' = given[o]
      <4>1. of[j] \in unended /\ given[of[j]] = IF j <= w THEN given[o] + 1 ELSE given[o]
        BY <1>7
      <4>2. TakenAt(o, j, given)' = given[of[j]] /\ (HereAt(o, j, unended)' <=> of[j] \in unended)
        BY <3>2
      <4>3. j <= w => got[j] = Items(of[j])[given[o] + 1]
        BY <3>4, <1>6
      <4> QED BY <4>1, <4>2, <4>3
    <3>7. ZipAsWritten(o, given, unended)'
      <4>1. Len(got) = w /\ world'[o].of = of
        BY <1>2, <1>6
      <4> QED BY <3>3, <3>5, <4>1 DEF ZipAsWritten
    <3>6. world'[o].kind = "zip"
      BY <1>2
    <3> QED BY <3>3, <3>7, <3>6, <1>1 DEF ObjectAsWritten
  <2> HIDE DEF n
  <2>10. AsWritten(root, given, unended)'
    BY <1>0, <1>2, <1>3, <2>1, <2>6, <2>7, <2>9, TopStays DEF n
  <2> QED BY <2>10
<1> QED BY <1>8, <1>9

\* When what an adapter asks has come to its end, so has the adapter.
Finished(o, given, r) == r.type = Mean(o).end /\ given[o] = Len(Items(o))

LEMMA EnumerateFinishes ==
    ASSUME NEW root, NEW o, NEW given, NEW unended, Adapting(root, o, given, unended),
           world[o].kind = "enumerate", result # Nothing, result.type # "item"
    PROVE  Finished(o, given, result)
<1>1. /\ TypeInv /\ o \in Objects /\ o \in unended /\ Got(active, o) = Top.got
      /\ \A x \in unended : ObjectAsWritten(x, given, unended)
  BY IsAdapting
<1>2. Top.got = <<>> /\ TakenAt(o, 1, given) = given[o]
  BY <1>1 DEF ObjectAsWritten
<1> PICK a : a = world[o].of[1]
  OBVIOUS
<1>3. EndTaken(o, 1, a, given)
  <2> PICK w : w = Len(Top.got) + 1
    OBVIOUS
  <2>1. w = 1
    BY <1>2
  <2> QED BY <2>1, AdapterAnswered
<1>4. EnumerateMeans(world, Meaning[world], o)
  BY <1>1, MeaningOfWorld DEF ObjectMeans, Adapting
<1>5. Len(Items(o)) = Len(Items(a)) /\ Mean(o).end = Mean(a).end
  BY <1>4 DEF EnumerateMeans, Items, Mean
<1> QED BY <1>2, <1>3, <1>5 DEF Finished, EndTaken

LEMMA FilterFinishes ==
    ASSUME NEW root, NEW o, NEW given, NEW unended, Adapting(root, o, given, unended),
           world[o].kind = "filter", result # Nothing, result.type # "item"
    PROVE  Finished(o, given, result)
<1>1. /\ TypeInv /\ o \in Objects /\ o \in unended /\ Got(active, o) = Top.got
      /\ \A x \in unended : ObjectAsWritten(x, given, unended)
  BY IsAdapting
<1> PICK t : t = TakenAt(o, 1, given)
  OBVIOUS
<1>2. Top.got = <<>> /\ given[o] = Mean(o).at[t]
  BY <1>1 DEF ObjectAsWritten
<1> PICK a : a = world[o].of[1]
  OBVIOUS
<1>3. EndTaken(o, 1, a, given)
  <2> PICK w : w = Len(Top.got) + 1
    OBVIOUS
  <2>1. w = 1
    BY <1>2
  <2> QED BY <2>1, AdapterAnswered
<1>4. FilterMeans(world, Meaning[world], o)
  BY <1>1, MeaningOfWorld DEF ObjectMeans, Adapting
<1>5. Mean(o).at[Len(Items(a))] = Len(Items(o)) /\ Mean(o).end = Mean(a).end
  BY <1>4 DEF FilterMeans, Items, Mean
<1>6. t = Len(Items(a))
  BY <1>3 DEF EndTaken
<1> QED BY <1>2, <1>3, <1>5, <1>6 DEF Finished, EndTaken

LEMMA ZipFinishes ==
    ASSUME NEW root, NEW o, NEW given, NEW unended, Adapting(root, o, given, unended),
           world[o].kind = "zip", result # Nothing, result.type # "item"
    PROVE  Finished(o, given, result)
<1>1. /\ TypeInv /\ o \in Objects /\ given \in [Objects -> Nat] /\ given[o] \in Nat
      /\ given[o] <= Len(Items(o)) /\ Len(Items(o)) \in Nat /\ Len(world[o].of) \in Nat
      /\ \A x \in unended : ObjectAsWritten(x, given, unended)
  BY IsAdapting
<1> PICK of : of = world[o].of
  OBVIOUS
<1> PICK w : w = Len(Top.got) + 1
  OBVIOUS
<1> PICK a : a = of[w]
  OBVIOUS
<1>2. /\ w \in 1 .. Len(of) /\ given[a] \in Nat /\ Len(Items(a)) \in Nat
      /\ \A j \in 1 .. Len(of) : j # w =>
            of[j] \in unended /\ given[of[j]] = IF j < w THEN given[o] + 1 ELSE given[o]
      /\ TakenAt(o, w, given) = given[o]
  BY ZipAnswered
<1>3. EndTaken(o, w, a, given)
  BY AdapterAnswered
<1> PICK n \in Nat : n = Len(Items(o))
  BY <1>1
<1> PICK m \in Nat : m = given[o]
  BY <1>1
<1>4. m <= n /\ Len(Items(a)) = m /\ result.type = Mean(a).end
  <2>1. TakenAt(o, w, given) = given[a] /\ given[a] = Len(Items(a)) /\ result.type = Mean(a).end
    BY <1>3 DEF EndTaken
  <2>2. TakenAt(o, w, given) = given[o]
    BY <1>2
  <2>3. given[o] <= Len(Items(o))
    BY <1>1
  <2> QED BY <2>1, <2>2, <2>3
<1>5. /\ n <= Len(Items(of[w]))
      /\ \E j \in 1 .. Len(of) :
            /\ n = Len(Items(of[j])) /\ Mean(o).end = Mean(of[j]).end
            /\ \A k \in 1 .. j - 1 : n < Len(Items(of[k]))
  <2>1. ZipEnds(o, of)
    BY ZipMeaning
  <2> QED BY <2>1, <1>2 DEF ZipEnds
<1>6. n = m
  BY <1>4, <1>5
<1> PICK j \in 1 .. Len(of) :
         /\ n = Len(Items(of[j])) /\ Mean(o).end = Mean(of[j]).end
         /\ \A k \in 1 .. j - 1 : n < Len(Items(of[k]))
  BY <1>5
<1>7. j \in Nat /\ w \in Nat /\ 1 <= w
  BY <1>1, <1>2
<1>8. ASSUME j < w PROVE FALSE
  <2>1. of[j] \in unended /\ given[of[j]] = m + 1
    <3>1. j # w
      BY <1>7, <1>8
    <3> QED BY <1>2, <1>8, <3>1
  <2>2. given[of[j]] <= Len(Items(of[j]))
    BY <2>1, <1>1 DEF ObjectAsWritten
  <2>3. m + 1 <= n
    BY <2>1, <2>2
  <2> QED BY <2>3, <1>6
<1>9. ASSUME w < j PROVE FALSE
  <2>1. w \in 1 .. j - 1
    BY <1>7, <1>9
  <2>2. n < Len(Items(of[w]))
    BY <2>1
  <2> QED BY <2>2, <1>4, <1>6
<1>10. j = w
  BY <1>7, <1>8, <1>9
<1> QED BY <1>4, <1>6, <1>10 DEF Finished

LEMMA AdapterFailsAsWritten ==
    ASSUME NEW root, NEW o, NEW given, NEW unended, Adapting(root, o, given, unended),
           TreeInv', AdapterFails(o)
    PROVE  \E given2, unended2 : AsWritten(root, given2, unended2)'
<1>1. /\ TreeInv /\ IsTree(world) /\ Asked = {root} /\ AsWritten(root, given, unended)
      /\ active # <<>> /\ o \in Objects /\ Top.obj = o /\ world[o].kind \in AdapterKinds
  BY IsAdapting DEF Adapting
<1>2. /\ result # Nothing /\ result.type # "item" /\ Answer(result)
      /\ world' = world /\ lasti' = lasti /\ heard' = heard /\ index' = index
      /\ yielded' = yielded /\ running' = running /\ top' = top
  BY DEF AdapterFails, frames, Nothing
<1>3. Finished(o, given, result)
  BY <1>1, <1>2, EnumerateFinishes, FilterFinishes, ZipFinishes DEF AdapterKinds
<1>4. OnlyMoves(o)
  BY <1>2 DEF OnlyMoves, Still
<1>5. Answers(o, given, unended, given, unended \ {o}, result)
  BY <1>2, <1>3 DEF Answers, Finished
<1>6. AsWritten(root, given, unended \ {o})'
  BY <1>1, <1>2, <1>4, <1>5, TopAnswers
<1> QED BY <1>6

LEMMA AdapterAsksAsWritten ==
    ASSUME NEW root, NEW o, NEW given, NEW unended, Adapting(root, o, given, unended),
           DataInv, TreeInv', AdapterAsks(o)
    PROVE  \E given2, unended2 : AsWritten(root, given2, unended2)'
<1>1. /\ TreeInv /\ IsTree(world) /\ Asked = {root} /\ AsWritten(root, given, unended)
      /\ active # <<>> /\ Top.obj = o
  BY DEF Adapting
<1>2. /\ TypeInv /\ o \in Objects /\ o \in unended /\ o \notin Generators
      /\ world[o].kind \in AdapterKinds /\ Got(active, o) = Top.got
      /\ Places(world, o) = 1 .. Len(world[o].of)
      /\ \A x \in unended : ObjectAsWritten(x, given, unended)
      /\ \A q \in 1 .. Len(world[o].of) :
            AskedAt(world, o, q) = world[o].of[q] /\ world[o].of[q] \in Objects
  BY IsAdapting
<1> PICK w : w = Len(Top.got) + 1
  OBVIOUS
<1> PICK c : c = world[o].of[w]
  OBVIOUS
<1>3. /\ result = Nothing /\ world' = world /\ lasti' = lasti /\ heard' = heard
      /\ Enter(c, None, active)
  BY DEF AdapterAsks
<1>4. w \in 1 .. Len(world[o].of)
  <2>1. (\E S : Top.got \in Seq(S)) /\ Len(world[o].of) \in Nat \ {0} /\ Len(Top.got) < Len(world[o].of)
    BY IsAdapting
  <2>2. Len(Top.got) \in Nat
    BY <2>1
  <2> QED BY <2>1, <2>2
<1>5. w \in Places(world, o) /\ AskedAt(world, o, w) = c /\ c \in Objects
  BY <1>2, <1>4
<1>6. HereAt(o, w, unended)
  <2>1. ObjectAsWritten(o, given, unended)
    BY <1>2
  <2>2. CASE world[o].kind \in {"enumerate", "filter"}
    <3>1. Top.got = <<>> /\ HereAt(o, 1, unended)
      BY <2>1, <2>2, <1>2 DEF ObjectAsWritten
    <3>2. w = 1
      BY <3>1
    <3> QED BY <3>1, <3>2
  <2>3. CASE world[o].kind = "zip"
    BY <2>1, <2>3, <1>4 DEF ObjectAsWritten, ZipAsWritten
  <2> QED BY <2>2, <2>3, <1>2 DEF AdapterKinds
<1>7. c \in unended
  BY <1>3, <1>5, <1>6, ViewBefore
<1>8. OnlyAdvances(o)
  BY <1>3 DEF OnlyAdvances
<1>9. Waits(o, given, unended)
  <2> SUFFICES ASSUME NEW given2, NEW unended2,
                      SeesTheSame(o, given, unended, given2, unended2),
                      Got(active', o) = Got(active, o),
                      yielded'[o] = yielded[o], running'[o] = running[o],
                      top'[o] = top[o], index'[o] = index[o]
               PROVE  ObjectAsWritten(o, given2, unended2)'
    BY DEF Waits
  <2>1. Still(o) /\ ObjectAsWritten(o, given, unended)
    BY <1>2, <1>3 DEF Still
  <2> QED BY <2>1, <1>1, <1>2, <1>3, SameView
<1>10. Awaits(active[Len(active)], lasti', c)
  <2>1. PlaceOf(active[Len(active)], lasti') = w
    BY <1>1, <1>2 DEF PlaceOf, Top
  <2> QED BY <2>1, <1>1, <1>2, <1>5, ObjectsAssumption DEF Awaits, Top
<1> PICK S : top \in [Objects -> S]
  BY DEF DataInv
<1>11. index \in [Objects -> Nat]
  BY DEF DataInv
<1> QED BY <1>1, <1>3, <1>7, <1>8, <1>9, <1>10, <1>11, AskComes

LEMMA AdaptAsWritten ==
    ASSUME TreeInv, TreeInv', IsTree(world), NEW root, Asked = {root}, DataInv,
           NEW given, NEW unended, AsWritten(root, given, unended), NEW o \in Objects, Adapt(o)
    PROVE  \E given2, unended2 : AsWritten(root, given2, unended2)'
<1>1. active # <<>> /\ Top.obj = o /\ world[o].kind \in {"enumerate", "filter", "zip"}
  BY DEF Adapt, AdapterAsks, AdapterFails, EnumerateNext, FilterNext, ZipNext, Adapter, Adapts
<1>2. Adapting(root, o, given, unended)
  BY <1>1 DEF Adapting, Adapters
<1>3. CASE AdapterAsks(o) \/ AdapterFails(o)
  BY <1>2, <1>3, AdapterAsksAsWritten, AdapterFailsAsWritten
<1>4. CASE EnumerateNext(o) \/ FilterNext(o) \/ ZipNext(o)
  BY <1>2, <1>4, EnumerateAsWritten, FilterAsWritten, ZipNextAsWritten
<1> QED BY <1>3, <1>4 DEF Adapt

-------------------------------------------------------------------------------
(* Asking from outside.                                                       *)
LEMMA OutsideIsFirst ==
    ASSUME TreeInv, IsTree(world), NEW root, Asked = {root}, active # <<>>, Top.obj = 0
    PROVE  Len(active) = 1 /\ Top = active[1] /\ Top.of = root /\ Awaits(Top, lasti, root)
<1>1. Len(active) = 1
  BY OutsideOnTop DEF TreeInv
<1>2. Top = active[1]
  BY <1>1 DEF Top
<1>3. Top.of = root
  BY <1>2 DEF TreeInv, ChainInv, Based
<1> QED BY <1>1, <1>2, <1>3 DEF Awaits

LEMMA AskAgainAsWritten ==
    ASSUME TreeInv, TreeInv', IsTree(world), NEW root, Asked = {root}, DataInv,
           NEW given, NEW unended, AsWritten(root, given, unended), AskAgain
    PROVE  \E given2, unended2 : AsWritten(root, given2, unended2)'
<1>1. /\ active # <<>> /\ Top.obj = 0 /\ result = Nothing /\ Enter(Top.of, None, active)
      /\ world' = world /\ lasti' = lasti /\ heard' = heard
  BY DEF AskAgain
<1>2. Top.of = root /\ Top = active[Len(active)]
  BY <1>1, OutsideIsFirst DEF Top
<1>3. root \in unended /\ 0 \notin unended
  <2>1. ~Ending(0)
    BY <1>1 DEF Ending
  <2> QED BY <2>1, ObjectsAssumption DEF AsWritten, AskAsWritten
<1>4. OnlyAdvances(0)
  BY <1>1 DEF OnlyAdvances
<1>5. Enter(root, None, active) /\ Awaits(active[Len(active)], lasti', root)
  BY <1>1, <1>2 DEF Awaits
<1> PICK S : top \in [Objects -> S]
  BY DEF DataInv
<1>6. index \in [Objects -> Nat]
  BY DEF DataInv
<1> QED BY <1>1, <1>3, <1>4, <1>5, <1>6, AskComes

LEMMA BeginAsWritten ==
    ASSUME TreeInv, TreeInv', IsTree(world), NEW root, Asked = {root}, DataInv,
           NEW given, NEW unended, AsWritten(root, given, unended),
           NEW how, NEW v, Begin(how, root, v), v = None
    PROVE  \E given2, unended2 : AsWritten(root, given2, unended2)'
<1> PICK calls : calls = <<Asking(how, root, v)>>
  OBVIOUS
<1>1. /\ active = <<>> /\ Enter(root, None, calls)
      /\ world' = world /\ lasti' = lasti /\ heard' = heard
  BY DEF Begin
<1>2. /\ TypeInv /\ given \in [Objects -> Nat] /\ unended \in SUBSET Objects /\ root \in Objects
      /\ \A x \in unended : ObjectAsWritten(x, given, unended)
      /\ AskAsWritten(root, given, unended) /\ 0 \notin Objects
      /\ CallsInv(active, running)
  BY ObjectsAssumption DEF AsWritten, TreeInv, IterationInv
<1>3. /\ Len(calls) = 1 /\ calls[1].obj = 0 /\ calls[1].got = <<>> /\ calls[1].of = root
      /\ calls # <<>> /\ DOMAIN calls[1] = {"obj", "got", "how", "of", "sent"}
      /\ calls \in Seq({calls[1]})
  <2> PICK c : c = Asking(how, root, v)
    OBVIOUS
  <2>1. /\ c.obj = 0 /\ c.got = <<>> /\ c.of = root
        /\ DOMAIN c = {"obj", "got", "how", "of", "sent"}
    BY DEF Asking
  <2>2. calls = <<c>>
    OBVIOUS
  <2> QED BY <2>1, <2>2
<1>4. IsStack(calls) /\ Once(calls)
  <2>1. \A i \in 1 .. Len(calls) : i = 1
    BY <1>3
  <2>2. \A i \in 1 .. Len(calls) : {"obj", "got"} \subseteq DOMAIN calls[i]
    BY <1>3, <2>1
  <2>3. \E T : calls \in Seq(T)
    BY <1>3
  <2> QED BY <2>1, <2>2, <2>3 DEF IsStack, Once
<1>5. SameGot(calls)
  <2>1. \A x \in Objects : \A i \in 1 .. Len(calls) : calls[i].obj # x
    BY <1>2, <1>3
  <2>2. \A x \in Objects : Got(calls, x) = <<>>
    BY <2>1, GotNowhere
  <2>3. \A x \in Objects : Got(active, x) = <<>>
    BY <1>1, GotNowhere
  <2> QED BY <2>2, <2>3 DEF SameGot
<1>6. root \in unended /\ HasGot(root, given, calls[1])
  <2>1. root \in unended /\ given[root] = HeardBefore
    BY <1>1, <1>2 DEF AskAsWritten, Ending
  <2>2. given[root] \in Nat
    BY <1>2
  <2> QED BY <2>1, <2>2, <1>3 DEF HasGot
<1>7. root \in Generators => ~running[root]
  BY <1>1, <1>2 DEF CallsInv, Marked
<1>8. \A i \in 1 .. Len(calls) : calls[i].obj \in unended \cup {0} /\ calls[i].obj # root
  BY <1>2, <1>3
<1>9. OnlyAdvances(0) /\ 0 # root /\ 0 \notin unended
  BY <1>1, <1>2 DEF OnlyAdvances
<1> PICK S : top \in [Objects -> S]
  BY DEF DataInv
<1>10. index \in [Objects -> Nat]
  BY DEF DataInv
<1>11. ObjectAsWritten(root, given, unended)
  BY <1>2, <1>6
<1>12. CASE Executes(root, calls)
  <2>1. AsWritten(root, given, unended)'
    BY <1>1, <1>2, <1>3, <1>4, <1>5, <1>6, <1>7, <1>8, <1>9, <1>12, PushedAsWritten
  <2> QED BY <2>1
<1>13. CASE Gives(root, calls)
  <2>1. active' = calls
    BY <1>13 DEF Gives
  <2>2. Awaits(Top, lasti, root)'
    BY <2>1, <1>3 DEF Awaits, Top
  <2> QED BY <2>2, <1>1, <1>2, <1>3, <1>5, <1>6, <1>8, <1>9, <1>10, <1>13, GivenAsWritten
<1> QED BY <1>1, <1>2, <1>7, <1>10, <1>11, <1>12, <1>13, EnterQuietly

(* The ask that is active, and those that are over.                           *)
IsAsk(call) ==
    /\ {"obj", "got", "how", "of", "sent"} \subseteq DOMAIN call
    /\ \E S : call.got \in Seq(S)
    /\ call.how \in {"next", "send", "list", "all", "for"}
AsksInv ==
    /\ active # <<>> => IsAsk(active[1])
    /\ \E S : heard \in Seq(S)
    /\ \A n \in 1 .. Len(heard) : heard[n].before \in Nat /\ Len(heard[n].items) \in Nat

\* What Hear does: the ask goes on with an item more, or is over.
GoesOn(root) ==
    /\ result.type = "item" /\ heard' = heard
    /\ active' # <<>> /\ Len(active') = 1 /\ active'[1].obj = 0
    /\ active'[1].of = root /\ active'[1].sent = active[1].sent
    /\ active'[1].got = Append(active[1].got, result.value) /\ IsAsk(active'[1])
IsOver(ask) ==
    /\ active' = <<>> /\ heard' = Append(heard, ask)
    /\ ask.how = active[1].how /\ ask.sent = active[1].sent /\ ask.before = HeardBefore
    /\ ask.items = IF result.type = "item" THEN Append(active[1].got, result.value) ELSE active[1].got
    /\ ask.end = EndOfAsk
    /\ result.type = "item" => ask.how \notin {"list", "for"}

LEMMA HeardBeforeIsNat ==
    ASSUME AsksInv
    PROVE  HeardBefore \in Nat /\ (heard # <<>> => Len(heard) \in 1 .. Len(heard))
<1> PICK S : heard \in Seq(S)
  BY DEF AsksInv
<1>1. heard # <<>> => Len(heard) \in 1 .. Len(heard)
  OBVIOUS
<1>2. heard # <<>> => heard[Len(heard)].before \in Nat /\ Len(heard[Len(heard)].items) \in Nat
  BY <1>1 DEF AsksInv
<1> QED BY <1>1, <1>2 DEF HeardBefore

LEMMA HearForms ==
    ASSUME TreeInv, IsTree(world), NEW root, Asked = {root}, AsksInv, Hear
    PROVE  /\ active # <<>> /\ Top.obj = 0 /\ result # Nothing /\ result' = Nothing
           /\ world' = world /\ lasti' = lasti /\ index' = index /\ top' = top
           /\ yielded' = yielded /\ running' = running
           /\ GoesOn(root) \/ \E ask : IsOver(ask)
<1>1. /\ active # <<>> /\ Top.obj = 0 /\ result # Nothing /\ result' = Nothing
      /\ world' = world /\ lasti' = lasti /\ index' = index /\ top' = top
      /\ yielded' = yielded /\ running' = running
  BY DEF Hear, frames
<1>2. /\ Len(active) = 1 /\ Top = active[1] /\ active[1].of = root /\ active[1].obj = 0
  BY <1>1, OutsideIsFirst
<1>3. IsAsk(active[1]) /\ IsStack(active)
  BY <1>1 DEF AsksInv, TreeInv, IterationInv, CallsInv
<1> PICK got : got = IF result.type = "item" THEN Append(Top.got, result.value) ELSE Top.got
  OBVIOUS
<1> PICK more \in BOOLEAN : more = (\/ Top.how \in {"list", "for"}
                                    \/ Top.how = "all" /\ result.type = "item" /\ ObjectIsTrue(result.value))
  OBVIOUS
<1>4. IF result.type = "item" /\ more
      THEN active' = [active EXCEPT ![1].got = got] /\ heard' = heard
      ELSE /\ active' = <<>>
           /\ heard' = Append(heard, [how |-> Top.how, of |-> Top.of, sent |-> Top.sent,
                                      before |-> HeardBefore, items |-> got, end |-> EndOfAsk])
  BY DEF Hear
<1>5. CASE result.type = "item" /\ more
  <2> DEFINE c == [active[1] EXCEPT !.got = got]
  <2>1. active' = [active EXCEPT ![1] = c] /\ heard' = heard
    BY <1>4, <1>5
  <2>2. /\ DOMAIN c = DOMAIN active[1] /\ c.got = got /\ c.obj = 0 /\ c.of = root
        /\ c.sent = active[1].sent /\ c.how = active[1].how
    BY <1>2, <1>3 DEF IsAsk
  <2>3. got = Append(active[1].got, result.value)
    BY <1>2, <1>5
  <2>4. \E S : got \in Seq(S)
    <3> PICK S : active[1].got \in Seq(S)
      BY <1>3 DEF IsAsk
    <3>1. Append(active[1].got, result.value) \in Seq(S \cup {result.value})
      OBVIOUS
    <3> QED BY <2>3, <3>1
  <2> HIDE DEF c
  <2>5. Len(active') = 1 /\ active'[1] = c /\ active' # <<>>
    <3> PICK S : active \in Seq(S)
      BY <1>3 DEF IsStack
    <3> PICK calls : calls = [active EXCEPT ![1] = c]
      OBVIOUS
    <3>1. active \in Seq(S \cup {c}) /\ 1 \in 1 .. Len(active) /\ c \in S \cup {c}
      BY <1>2
    <3>2. calls \in Seq(S \cup {c}) /\ Len(calls) = Len(active) /\ calls[1] = c
      BY <3>1
    <3>3. Len(calls) # 0
      BY <3>2, <1>2
    <3>4. calls # <<>>
      BY <3>3
    <3> QED BY <3>2, <3>4, <2>1, <1>2
  <2>6. IsAsk(active'[1])
    BY <2>2, <2>4, <2>5, <1>3 DEF IsAsk
  <2> QED BY <1>1, <1>5, <2>1, <2>2, <2>3, <2>5, <2>6 DEF GoesOn
<1>6. CASE ~(result.type = "item" /\ more)
  <2> PICK ask : ask = [how |-> Top.how, of |-> Top.of, sent |-> Top.sent,
                        before |-> HeardBefore, items |-> got, end |-> EndOfAsk]
    OBVIOUS
  <2>1. active' = <<>> /\ heard' = Append(heard, ask)
    BY <1>4, <1>6
  <2>2. /\ ask.how = active[1].how /\ ask.sent = active[1].sent /\ ask.before = HeardBefore
        /\ ask.items = got /\ ask.end = EndOfAsk
    BY <1>2
  <2>3. result.type = "item" => ask.how \notin {"list", "for"}
    BY <1>2, <1>6, <2>2
  <2>4. got = IF result.type = "item" THEN Append(active[1].got, result.value) ELSE active[1].got
    BY <1>2
  <2> QED BY <1>1, <2>1, <2>2, <2>3, <2>4 DEF IsOver
<1> QED BY <1>5, <1>6

\* An ask ends with an item, or as its object means to end.
LEMMA EndsOfAsks ==
    ASSUME AsksInv, ResultInv, active # <<>>, result # Nothing, Top = active[1],
           NEW ask, IsOver(ask)
    PROVE  IF result.type = "item" THEN ask.end = "item"
           ELSE ask.end # "item" /\ ask.end = EndFor(ask.how, result.type)
<1>1. /\ ask.how \in {"next", "send", "list", "all", "for"} /\ ask.end = EndOfAsk
      /\ ask.how = Top.how
      /\ result.type = "item" => ask.how \notin {"list", "for"}
  BY DEF IsOver, AsksInv, IsAsk
<1>2. result.type \in {"item", "stop", "stopped", "error"}
  BY DEF ResultInv
<1> QED BY <1>1, <1>2 DEF EndOfAsk, EndFor, IsStopIteration

LEMMA HeardLeavesObjects ==
    ASSUME TreeInv, IsTree(world), world' = world, active # <<>>, Top.obj = 0, result' = Nothing,
           lasti' = lasti, index' = index, top' = top, yielded' = yielded, running' = running,
           Len(active) = 1, active[1].obj = 0, Len(active') \in {0, 1},
           Len(active') = 1 => active'[1].obj = 0, Len(active') = 0 => active' = <<>>,
           NEW root, NEW given, NEW unended, AsWritten(root, given, unended),
           NEW x \in unended
    PROVE  ObjectAsWritten(x, given, unended)'
<1>1. TypeInv /\ x \in Objects /\ 0 \notin Objects /\ ObjectAsWritten(x, given, unended)
  BY ObjectsAssumption DEF TreeInv, IterationInv, AsWritten
<1>2. Got(active, x) = <<>> /\ Got(active', x) = <<>>
  <2>1. \A i \in 1 .. Len(active) : i = 1
    OBVIOUS
  <2> PICK k \in {0, 1} : k = Len(active')
    OBVIOUS
  <2>2. \A i \in 1 .. k : i = 1 /\ k = 1
    OBVIOUS
  <2>3. (\A i \in 1 .. Len(active) : active[i].obj # x) /\ \A i \in 1 .. Len(active') : active'[i].obj # x
    BY <2>1, <2>2, <1>1
  <2> QED BY <2>3, GotNowhere
<1>3. Top.obj # x /\ (active' = <<>> \/ Top'.obj # x)
  BY <1>1 DEF Top
<1>4. ~Goes(x) /\ ~Goes(x)'
  BY <1>3 DEF Goes
<1>5. SeesTheSame(x, given, unended, given, unended)
  <2>1. ASSUME NEW q \in Places(world, x)
        PROVE  /\ TakenAt(x, q, given)' = TakenAt(x, q, given)
               /\ HereAt(x, q, unended) => HereAt(x, q, unended)'
    BY <1>3, ViewKept
  <2> QED BY <2>1 DEF SeesTheSame
<1>6. Still(x)
  BY DEF Still
<1> QED BY <1>1, <1>2, <1>4, <1>5, <1>6, SameView

\* What has come is the next item, and what has ended is where it ends.
AnsweredWith(root, given, unended, got, m) ==
    /\ m \in Nat /\ Len(got) \in Nat /\ given[root] \in Nat /\ (\E S : got \in Seq(S))
    /\ \A i \in 1 .. Len(got) : got[i] = Items(root)[m + i]
    /\ IF result.type = "item"
       THEN /\ root \in unended /\ given[root] <= Len(Items(root))
            /\ m + Len(got) + 1 = given[root] /\ result.value = Items(root)[given[root]]
       ELSE /\ m + Len(got) = given[root] /\ given[root] = Len(Items(root))
            /\ result.type = Mean(root).end
LEMMA AnswerOutside ==
    ASSUME TreeInv, IsTree(world), NEW root, Asked = {root}, AsksInv, active # <<>>, Top.obj = 0,
           result # Nothing, NEW given, NEW unended, AsWritten(root, given, unended),
           NEW got, got = active[1].got, NEW m, m = HeardBefore
    PROVE  AnsweredWith(root, given, unended, got, m)
<1>1. HeardBefore \in Nat /\ IsAsk(active[1])
  BY HeardBeforeIsNat DEF AsksInv
<1>2. PICK S : got \in Seq(S)
  BY <1>1 DEF IsAsk
<1>3. root \in Objects /\ given[root] \in Nat
  BY ObjectsAssumption DEF AsWritten
<1>4. /\ HeardBefore + Len(got) = IF Pending(0) THEN given[root] - 1 ELSE given[root]
      /\ \A i \in 1 .. Len(got) : got[i] = Items(root)[HeardBefore + i]
  BY DEF AsWritten, AskAsWritten
<1>5. Pending(0) <=> result.type = "item"
  BY DEF Pending
<1>6. Awaits(Top, lasti, root)
  BY OutsideIsFirst
<1>7. IF result.type = "item"
      THEN root \in unended /\ given[root] # 0 /\ result.value = Items(root)[given[root]]
      ELSE given[root] = Len(Items(root)) /\ result.type = Mean(root).end
  BY <1>3, <1>6 DEF AsWritten, AnswerAsWritten
<1>8. root \in unended => given[root] <= Len(Items(root))
  BY DEF AsWritten, ObjectAsWritten
<1>9. Len(got) \in Nat
  BY <1>2
<1>10. IF result.type = "item" THEN m + Len(got) + 1 = given[root] ELSE m + Len(got) = given[root]
  <2> PICK n \in Nat : n = Len(got)
    BY <1>9
  <2> PICK h \in Nat : h = HeardBefore
    BY <1>1
  <2> PICK all \in Nat : all = given[root]
    BY <1>3
  <2>1. h + n = IF result.type = "item" THEN all - 1 ELSE all
    BY <1>4, <1>5
  <2>2. IF result.type = "item" THEN h + n + 1 = all ELSE h + n = all
    BY <2>1
  <2> QED BY <2>2
<1> QED BY <1>1, <1>2, <1>3, <1>4, <1>7, <1>8, <1>9, <1>10 DEF AnsweredWith

\* The items with the one that has come.
IsNext(all, m, got, v) == v = all[m + Len(got) + 1]
FromPlace(all, m, got) == \A i \in 1 .. Len(got) : got[i] = all[m + i]
LEMMA OneItemMore ==
    ASSUME NEW all, NEW m \in Nat, NEW S, NEW got \in Seq(S), NEW v, IsNext(all, m, got, v),
           FromPlace(all, m, got),
           NEW got2, got2 = Append(got, v)
    PROVE  FromPlace(all, m, got2)
<1>1. /\ Len(got) \in Nat /\ Len(got2) = Len(got) + 1 /\ got2[Len(got) + 1] = v
      /\ \A i \in 1 .. Len(got) : got2[i] = got[i]
  <2>1. got \in Seq(S \cup {v}) /\ v \in S \cup {v}
    OBVIOUS
  <2> QED BY <2>1
<1>2. v = all[m + (Len(got) + 1)]
  <2>1. m + (Len(got) + 1) = m + Len(got) + 1
    BY <1>1
  <2> QED BY <2>1 DEF IsNext
<1>3. \A i \in 1 .. Len(got) + 1 : i \in 1 .. Len(got) \/ i = Len(got) + 1
  BY <1>1
<1>4. \A i \in 1 .. Len(got) : got[i] = all[m + i]
  BY DEF FromPlace
<1>5. \A i \in 1 .. Len(got) + 1 : got2[i] = all[m + i]
  BY <1>1, <1>2, <1>3, <1>4
<1> QED BY <1>1, <1>5 DEF FromPlace

LEMMA HearAsWritten ==
    ASSUME TreeInv, IsTree(world), NEW root, Asked = {root}, AsksInv, ResultInv, Hear,
           NEW given, NEW unended, AsWritten(root, given, unended),
           GoesOn(root) \/ (result.type = "item" /\ \E ask : IsOver(ask))
    PROVE  AsWritten(root, given, unended)'
<1>1. /\ active # <<>> /\ Top.obj = 0 /\ result # Nothing /\ result' = Nothing
      /\ world' = world /\ lasti' = lasti /\ index' = index /\ top' = top
      /\ yielded' = yielded /\ running' = running /\ result.type = "item"
  BY HearForms DEF GoesOn
<1>2. Len(active) = 1 /\ Top = active[1] /\ active[1].obj = 0
  BY <1>1, OutsideIsFirst
<1>3. \/ active' = <<>> /\ Len(active') = 0
      \/ Len(active') = 1 /\ active'[1].obj = 0 /\ active' # <<>>
  BY DEF GoesOn, IsOver
<1>4. \A x \in unended : ObjectAsWritten(x, given, unended)'
  BY <1>1, <1>2, <1>3, HeardLeavesObjects
<1> PICK got : got = active[1].got
  OBVIOUS
<1> PICK m : m = HeardBefore
  OBVIOUS
<1>5. /\ m \in Nat /\ Len(got) \in Nat /\ given[root] \in Nat /\ (\E S : got \in Seq(S))
      /\ \A i \in 1 .. Len(got) : got[i] = Items(root)[m + i]
      /\ root \in unended /\ m + Len(got) + 1 = given[root]
      /\ result.value = Items(root)[given[root]]
  <2>1. active # <<>> /\ Top.obj = 0 /\ result # Nothing
    BY <1>1
  <2>2. AnsweredWith(root, given, unended, got, m)
    BY <2>1, AnswerOutside
  <2> QED BY <2>2, <1>1 DEF AnsweredWith
<1> PICK got2 : got2 = Append(got, result.value)
  OBVIOUS
<1>6. Len(got2) = Len(got) + 1 /\ \A i \in 1 .. Len(got2) : got2[i] = Items(root)[m + i]
  <2> PICK S : got \in Seq(S)
    BY <1>5
  <2> PICK all : all = Items(root)
    OBVIOUS
  <2>1. m \in Nat
    BY <1>5
  <2>2. IsNext(all, m, got, result.value)
    BY <1>5 DEF IsNext
  <2>3. FromPlace(all, m, got)
    BY <1>5 DEF FromPlace
  <2>4. FromPlace(all, m, got2)
    BY <2>1, <2>2, <2>3, OneItemMore
  <2>5. Len(got2) = Len(got) + 1
    <3>1. got \in Seq(S \cup {result.value}) /\ result.value \in S \cup {result.value}
      OBVIOUS
    <3> QED BY <3>1
  <2> QED BY <2>4, <2>5 DEF FromPlace
<1>7. \A i \in 1 .. Len(active') : active'[i].obj \in unended \cup {0}
  <2> PICK k \in {0, 1} : k = Len(active')
    BY <1>3
  <2>1. \A i \in 1 .. k : i = 1 /\ k = 1
    OBVIOUS
  <2> QED BY <2>1, <1>3
<1>8. AnswerAsWritten(given, unended)'
  BY <1>1 DEF AnswerAsWritten
<1>9. AskAsWritten(root, given, unended)'
  <2>1. Items(root)' = Items(root) /\ ~Pending(0)'
    BY <1>1 DEF Items, Mean, Pending, Nothing
  <2>2. CASE GoesOn(root)
    <3>1. HeardBefore' = m /\ active'[1].got = got2 /\ active' # <<>>
      BY <2>2 DEF GoesOn, HeardBefore
    <3>2. m + Len(got2) = given[root]
      BY <1>5, <1>6
    <3> QED BY <2>1, <3>1, <3>2, <1>5, <1>6 DEF AskAsWritten
  <2>3. CASE \E ask : IsOver(ask)
    <3> PICK ask : IsOver(ask)
      BY <2>3
    <3>1. active' = <<>> /\ heard' = Append(heard, ask) /\ ask.before = m /\ ask.items = got2
      BY <1>1 DEF IsOver
    <3>2. HeardBefore' = m + Len(got2)
      <4> PICK S : heard \in Seq(S)
        BY DEF AsksInv
      <4>1. heard \in Seq(S \cup {ask}) /\ ask \in S \cup {ask}
        OBVIOUS
      <4>2. heard' # <<>> /\ heard'[Len(heard')] = ask
        BY <3>1, <4>1
      <4> QED BY <3>1, <4>2 DEF HeardBefore
    <3>3. m + Len(got2) = given[root]
      BY <1>5, <1>6
    <3> QED BY <2>1, <3>1, <3>2, <3>3, <1>5 DEF AskAsWritten
  <2> QED BY <2>2, <2>3
<1> QED BY <1>1, <1>4, <1>7, <1>8, <1>9 DEF AsWritten

(* What is said of an ask that is over, apart from what comes later.          *)
Says(root, n) ==
    LET ask  == heard[n]
        upTo == ask.before + Len(ask.items)
    IN /\ ask.before = IF n = 1 THEN 0 ELSE heard[n - 1].before + Len(heard[n - 1].items)
       /\ upTo <= Len(Items(root))
       /\ \A i \in 1 .. Len(ask.items) : ask.items[i] = Items(root)[ask.before + i]
       /\ ask.end # "item" => upTo = Len(Items(root)) /\ ask.end = EndFor(ask.how, Mean(root).end)

LEMMA HeardLonger ==
    ASSUME AsksInv, NEW ask, IsOver(ask), world' = world, NEW root, NEW k, k = Len(heard) + 1
    PROVE  /\ Len(heard) \in Nat /\ Len(heard') = k /\ heard'[k] = ask
           /\ \A n \in 1 .. Len(heard) :
                 /\ heard'[n] = heard[n]
                 /\ UnendedAt(n)' <=> UnendedAt(n)
                 /\ Says(root, n)' <=> Says(root, n)
           /\ UnendedAt(k)' => Quiet /\ ask.sent = None
<1> PICK S : heard \in Seq(S)
  BY DEF AsksInv
<1> PICK m \in Nat : m = Len(heard)
  OBVIOUS
<1>1. /\ Len(heard') = m + 1 /\ heard'[m + 1] = ask
      /\ \A n \in 1 .. m : heard'[n] = heard[n]
  <2>1. heard \in Seq(S \cup {ask}) /\ ask \in S \cup {ask} /\ heard' = Append(heard, ask)
    BY DEF IsOver
  <2> QED BY <2>1
<1>2. Items(root)' = Items(root) /\ Mean(root)' = Mean(root)
  BY DEF Items, Mean
<1>3. ASSUME NEW n \in 1 .. m
      PROVE  (UnendedAt(n)' <=> UnendedAt(n)) /\ (Says(root, n)' <=> Says(root, n))
  <2>1. \A i \in 1 .. n : i \in 1 .. m
    OBVIOUS
  <2>2. \A i \in 1 .. n - 1 : i \in 1 .. m
    OBVIOUS
  <2>3. n # 1 => n - 1 \in 1 .. m
    OBVIOUS
  <2>4. UnendedAt(n)' <=> UnendedAt(n)
    BY <2>1, <2>2, <1>1 DEF UnendedAt
  <2>5. Says(root, n)' <=> Says(root, n)
    BY <2>3, <1>1, <1>2 DEF Says
  <2> QED BY <2>4, <2>5
<1>4. ASSUME UnendedAt(m + 1)' PROVE Quiet /\ ask.sent = None
  <2>1. \A i \in 1 .. m : i \in 1 .. m + 1 /\ i \in 1 .. (m + 1) - 1
    OBVIOUS
  <2>2. (\A i \in 1 .. m : heard'[i].end = "item" /\ heard'[i].sent = None)
    BY <2>1, <1>4 DEF UnendedAt
  <2>3. m + 1 \in 1 .. m + 1
    OBVIOUS
  <2>4. ask.sent = None
    BY <2>3, <1>1, <1>4 DEF UnendedAt
  <2>5. active[1].sent = None
    BY <2>4 DEF IsOver
  <2> QED BY <2>2, <2>4, <2>5, <1>1 DEF Quiet
<1>5. /\ Len(heard) \in Nat /\ Len(heard') = k /\ heard'[k] = ask
      /\ \A n \in 1 .. Len(heard) : heard'[n] = heard[n]
  BY <1>1
<1>6. UnendedAt(k)' => Quiet /\ ask.sent = None
  <2>1. k = m + 1
    OBVIOUS
  <2> QED BY <2>1, <1>4
<1> QED BY <1>5, <1>3, <1>6

LEMMA OverSays ==
    ASSUME TreeInv, IsTree(world), NEW root, Asked = {root}, AsksInv, ResultInv, Hear,
           NEW given, NEW unended, AsWritten(root, given, unended), NEW ask, IsOver(ask),
           NEW n, n = Len(heard) + 1
    PROVE  Says(root, n)'
<1>1. /\ active # <<>> /\ Top.obj = 0 /\ result # Nothing /\ world' = world
  BY HearForms
<1>2. Top = active[1]
  BY <1>1, OutsideIsFirst
<1> PICK got : got = active[1].got
  OBVIOUS
<1> PICK m : m = HeardBefore
  OBVIOUS
<1>3. AnsweredWith(root, given, unended, got, m)
  BY <1>1, AnswerOutside
<1>4. IF result.type = "item" THEN ask.end = "item"
      ELSE ask.end # "item" /\ ask.end = EndFor(ask.how, result.type)
  BY <1>1, <1>2, EndsOfAsks
<1>5. /\ Len(heard) \in Nat /\ Len(heard') = n /\ heard'[n] = ask
      /\ \A i \in 1 .. Len(heard) : heard'[i] = heard[i]
  BY <1>1, HeardLonger
<1>6. ask.before = IF n = 1 THEN 0 ELSE heard'[n - 1].before + Len(heard'[n - 1].items)
  <2>1. ask.before = HeardBefore
    BY DEF IsOver
  <2>2. PICK S : heard \in Seq(S)
    BY DEF AsksInv
  <2>3. (n = 1 <=> heard = <<>>) /\ n - 1 = Len(heard)
    BY <2>2
  <2>4. n # 1 => heard'[n - 1] = heard[Len(heard)]
    BY <1>5, <2>3
  <2> QED BY <2>1, <2>3, <2>4 DEF HeardBefore
<1>7. /\ ask.before + Len(ask.items) <= Len(Items(root))
      /\ FromPlace(Items(root), ask.before, ask.items)
      /\ result.type # "item" => ask.before + Len(ask.items) = Len(Items(root))
                                 /\ result.type = Mean(root).end
  <2>0. ask.before = m /\ ask.items = IF result.type = "item" THEN Append(got, result.value) ELSE got
    BY DEF IsOver
  <2>1. CASE result.type = "item"
    <3> PICK items : items = Append(got, result.value)
      OBVIOUS
    <3> PICK all : all = Items(root)
      OBVIOUS
    <3>1. PICK S : got \in Seq(S)
      BY <1>3 DEF AnsweredWith
    <3>2. m \in Nat
      BY <1>3 DEF AnsweredWith
    <3>3. IsNext(all, m, got, result.value) /\ FromPlace(all, m, got)
      BY <1>3, <2>1 DEF AnsweredWith, IsNext, FromPlace
    <3>4. FromPlace(all, m, items)
      BY <3>1, <3>2, <3>3, OneItemMore
    <3>5. Len(items) = Len(got) + 1
      <4>1. got \in Seq(S \cup {result.value}) /\ result.value \in S \cup {result.value}
        BY <3>1
      <4> QED BY <4>1
    <3>6. m + Len(items) <= Len(all)
      BY <3>5, <1>3, <2>1 DEF AnsweredWith
    <3> QED BY <2>0, <2>1, <3>4, <3>6
  <2>2. CASE result.type # "item"
    <3>1. /\ m + Len(got) = given[root] /\ given[root] = Len(Items(root)) /\ given[root] \in Nat
          /\ result.type = Mean(root).end
      BY <1>3, <2>2 DEF AnsweredWith
    <3>2. FromPlace(Items(root), m, got)
      BY <1>3 DEF AnsweredWith, FromPlace
    <3>3. m + Len(got) <= Len(Items(root))
      BY <3>1
    <3> QED BY <2>0, <2>2, <3>1, <3>2, <3>3
  <2> QED BY <2>1, <2>2
<1>8. Items(root)' = Items(root) /\ Mean(root)' = Mean(root)
  BY <1>1 DEF Items, Mean
<1>9. ask.end # "item" => ask.before + Len(ask.items) = Len(Items(root))
                          /\ ask.end = EndFor(ask.how, Mean(root).end)
  BY <1>4, <1>7
<1>10. Says(root, n)'
  <2>1. FromPlace(Items(root), heard'[n].before, heard'[n].items)
    BY <1>5, <1>7
  <2>2. /\ heard'[n].before + Len(heard'[n].items) <= Len(Items(root)')
        /\ heard'[n].end # "item" =>
              /\ heard'[n].before + Len(heard'[n].items) = Len(Items(root)')
              /\ heard'[n].end = EndFor(heard'[n].how, Mean(root)'.end)
        /\ heard'[n].before = IF n = 1 THEN 0 ELSE heard'[n - 1].before + Len(heard'[n - 1].items)
    BY <1>5, <1>6, <1>7, <1>8, <1>9
  <2>3. \A i \in 1 .. Len(heard'[n].items) : heard'[n].items[i] = Items(root)'[heard'[n].before + i]
    BY <2>1, <1>8 DEF FromPlace
  <2> QED BY <2>2, <2>3 DEF Says
<1> QED BY <1>10

-------------------------------------------------------------------------------
(* A step asks, or answers, or stays, or is outside.                          *)
Asks(c, v, calls) ==
    /\ Enter(c, v, calls) /\ c \in Objects /\ world' = world /\ heard' = heard
    /\ IsStack(calls) /\ calls # <<>>
    /\ \/ calls = active
       \/ active = <<>> /\ Len(calls) = 1 /\ calls[1].obj = 0 /\ calls[1].got = <<>> /\ IsAsk(calls[1])
    /\ Awaits(calls[Len(calls)], lasti', c)
    /\ \A x \in Objects : lasti'[x] = lasti[x] \/ (x \in Generators /\ running[x])
Replies(o, r) ==
    /\ active # <<>> /\ o \in Objects /\ Top.obj = o /\ r # Nothing /\ Answer(r)
    /\ world' = world /\ heard' = heard
Remains ==
    active # <<>> /\ active' = active /\ result' = Nothing /\ world' = world /\ heard' = heard
\* The frames, and what is given by counting, of those that are not o.
OnlyTouches(o) ==
    \A x \in Objects : x # o => /\ lasti'[x] = lasti[x] /\ yielded'[x] = yielded[x]
                                /\ running'[x] = running[x] /\ index'[x] = index[x]

LEMMA AsksForForms ==
    ASSUME TreeInv, NEW g \in Objects, Execute(g), AsksFor(g)
    PROVE  \E c, v, calls : Asks(c, v, calls)
<1> PICK opcode : opcode = Code(g)[lasti[g] + 1]
  OBVIOUS
<1> PICK v : v = IF opcode.op = "from" THEN top[g] ELSE None
  OBVIOUS
<1>1. IterationInv /\ TypeInv /\ CallsInv(active, running)
  BY DEF TreeInv, IterationInv
<1>2. /\ g \in Generators /\ active[Len(active)].obj = g /\ active # <<>> /\ running[g]
      /\ lasti[g] \in 0 .. Len(Code(g)) - 1 /\ Len(Code(g)) \in Nat
  BY <1>1, OnTop DEF Top, WellFormed
<1>3. Fetch(g) /\ Enter(opcode.of, v, active) /\ world' = world /\ heard' = heard
      /\ opcode.op \in {"next", "iter", "from"}
  BY DEF AsksFor, At
<1>4. opcode.of \in Objects
  BY <1>1, AsksForAnObject
<1>5. lasti'[g] = lasti[g] + 1 /\ \A h \in Objects : h # g => lasti'[h] = lasti[h]
  BY <1>1, <1>3 DEF Fetch, TypeInv
<1>6. Awaits(active[Len(active)], lasti', opcode.of)
  <2>1. g # 0
    BY ObjectsAssumption
  <2>2. world[g].kind = "generator"
    BY <1>2 DEF Generators, IsGenerator
  <2>3. /\ lasti[g] + 1 \in Places(world, g)
        /\ AskedAt(world, g, lasti[g] + 1) = opcode.of
    BY <2>2, <1>2, <1>3 DEF Places, AskedAt, Code, AdapterKinds
  <2> QED BY <2>1, <2>3, <1>2, <1>5 DEF Awaits, PlaceOf
<1>7. Asks(opcode.of, v, active)
  BY <1>1, <1>2, <1>3, <1>4, <1>5, <1>6 DEF Asks, CallsInv
<1> QED BY <1>7

LEMMA AdapterAsksForms ==
    ASSUME TreeInv, NEW o \in Objects, AdapterAsks(o)
    PROVE  \E c, v, calls : Asks(c, v, calls)
<1> PICK i : i = Len(Top.got) + 1
  OBVIOUS
<1>1. IterationInv /\ CallsInv(active, running)
  BY DEF TreeInv, IterationInv
<1>2. /\ o \in Adapters /\ o \notin Generators /\ active # <<>> /\ Top.obj = o
      /\ i \in 1 .. Len(world[o].of) /\ world[o].of[i] \in Objects
  BY <1>1, AdapterOnTop DEF AdapterAsks
<1>3. /\ Enter(world[o].of[i], None, active) /\ world' = world /\ lasti' = lasti /\ heard' = heard
  BY DEF AdapterAsks
<1>4. Awaits(active[Len(active)], lasti', world[o].of[i])
  <2>1. o # 0
    BY ObjectsAssumption
  <2>2. world[o].kind # "generator" /\ world[o].kind \in AdapterKinds
    BY <1>2 DEF Adapters, AdapterKinds
  <2>3. i \in Places(world, o) /\ AskedAt(world, o, i) = world[o].of[i]
    BY <2>2, <1>2 DEF Places, AskedAt
  <2> QED BY <2>1, <2>3, <1>2 DEF Awaits, PlaceOf, Top
<1>5. Asks(world[o].of[i], None, active)
  BY <1>1, <1>2, <1>3, <1>4 DEF Asks, CallsInv
<1> QED BY <1>5

LEMMA OutsideAsksForms ==
    ASSUME TreeInv,
           AskAgain \/ \E how \in {"next", "send", "list", "all", "for"}, o \in Asked : \E v : Begin(how, o, v)
    PROVE  \E c, v, calls : Asks(c, v, calls)
<1>1. IterationInv /\ CallsInv(active, running)
  BY DEF TreeInv, IterationInv
<1>2. CASE AskAgain
  <2>1. /\ active # <<>> /\ Top.obj = 0 /\ Enter(Top.of, None, active)
        /\ world' = world /\ lasti' = lasti /\ heard' = heard
    BY <1>2 DEF AskAgain
  <2>2. Top.of \in Objects
    BY <1>1, <2>1, OutsideOnTop
  <2>3. Awaits(active[Len(active)], lasti', Top.of)
    BY <2>1 DEF Awaits, Top
  <2>4. Asks(Top.of, None, active)
    BY <1>1, <2>1, <2>2, <2>3 DEF Asks, CallsInv
  <2> QED BY <2>4
<1>3. ASSUME NEW how \in {"next", "send", "list", "all", "for"}, NEW o \in Asked, NEW v, Begin(how, o, v)
      PROVE  \E d, w, calls : Asks(d, w, calls)
  <2> PICK c : c = Asking(how, o, v)
    OBVIOUS
  <2> PICK calls : calls = <<c>>
    OBVIOUS
  <2>1. /\ active = <<>> /\ Enter(o, v, calls) /\ world' = world /\ lasti' = lasti /\ heard' = heard
    BY <1>3 DEF Begin
  <2>2. o \in Objects
    BY ObjectsAssumption
  <2>3. /\ c.obj = 0 /\ c.of = o /\ c.got = <<>> /\ c.how = how
        /\ DOMAIN c = {"obj", "got", "how", "of", "sent"}
    BY DEF Asking
  <2>4. calls \in Seq({c}) /\ Len(calls) = 1 /\ calls[1] = c /\ calls # <<>>
    OBVIOUS
  <2>5. IsStack(calls)
    <3>1. \A i \in 1 .. Len(calls) : {"obj", "got"} \subseteq DOMAIN calls[i]
      BY <2>3, <2>4
    <3> QED BY <3>1, <2>4 DEF IsStack
  <2>6. IsAsk(calls[1])
    <3>1. <<>> \in Seq({})
      OBVIOUS
    <3>2. c.got \in Seq({})
      BY <3>1, <2>3
    <3> QED BY <3>2, <2>3, <2>4 DEF IsAsk
  <2>7. Awaits(calls[Len(calls)], lasti', o)
    BY <2>3, <2>4 DEF Awaits
  <2>8. calls[1].obj = 0 /\ calls[1].got = <<>>
    BY <2>3, <2>4
  <2>9. Asks(o, v, calls)
    BY <2>1, <2>2, <2>4, <2>5, <2>6, <2>7, <2>8 DEF Asks
  <2> QED BY <2>9
<1> QED BY <1>2, <1>3

LEMMA OpcodeForms ==
    ASSUME TreeInv, NEW g \in Objects, Execute(g), ~AsksFor(g), ResultInv
    PROVE  /\ g \in Generators /\ running[g] /\ OnlyTouches(g) /\ index' = index
           /\ Remains \/ \E r : /\ Replies(g, r) /\ r.type \in {"item", "stop", "stopped", "error"}
                                /\ r.type = "stop" => ~running'[g] /\ Over(g)'
<1>1. /\ g \in Generators /\ running[g] /\ active # <<>> /\ Top.obj = g
      /\ world' = world /\ index' = index /\ \A o \in Objects : o # g => lasti'[o] = lasti[o]
      /\ lasti \in [Objects -> Nat] /\ yielded \in [Objects -> BOOLEAN]
      /\ running \in [Objects -> BOOLEAN]
  BY OnTop, ExecuteForms DEF TreeInv, IterationInv, TypeInv
<1>2. CASE Yields(g) \/ YieldsTop(g) \/ Raises(g)
  <2>1. /\ heard' = heard
        /\ yielded' = yielded \/ yielded' = [yielded EXCEPT ![g] = TRUE]
        /\ \E r : Leave(g, r) /\ (r = Failed \/ \E v : r = Item(v))
    BY <1>2 DEF Yields, YieldsTop, Raises, YieldValue
  <2>5. PICK r : Leave(g, r) /\ (r = Failed \/ \E v : r = Item(v))
    BY <2>1
  <2>6. r # Nothing /\ r.type \in {"item", "error"} /\ Answer(r) /\ running' = [running EXCEPT ![g] = FALSE]
    BY <2>5, NothingIsNoAnswer DEF Item, Failed, Leave
  <2>2. OnlyTouches(g)
    BY <1>1, <2>1, <2>6 DEF OnlyTouches
  <2>4. Replies(g, r) /\ r.type \in {"item", "stop", "stopped", "error"} /\ r.type # "stop"
    BY <1>1, <2>1, <2>6 DEF Replies
  <2> QED BY <1>1, <2>2, <2>4
<1>3. CASE ReturnValue(g)
  <2>1. /\ heard' = heard /\ running' = [running EXCEPT ![g] = FALSE]
        /\ yielded' = [yielded EXCEPT ![g] = FALSE] /\ lasti' = [lasti EXCEPT ![g] = @ + 1]
        /\ Answer(Stop)
    BY <1>3 DEF ReturnValue, Leave, Fetch
  <2>2. OnlyTouches(g) /\ ~running'[g] /\ ~yielded'[g] /\ lasti'[g] # 0
    BY <1>1, <2>1 DEF OnlyTouches
  <2>3. Replies(g, Stop) /\ Stop.type = "stop"
    BY <1>1, <2>1, NothingIsNoAnswer DEF Replies, Stop
  <2>4. ~running'[g] /\ Over(g)'
    BY <2>2 DEF Over
  <2> QED BY <1>1, <2>2, <2>3, <2>4
<1>4. CASE JumpAbsolute(g) \/ CallFunction(g) \/ ForIter(g)
  <2>1. /\ heard' = heard /\ running' = running /\ yielded' = yielded
        /\ active' = active /\ result' = Nothing
    BY <1>4 DEF JumpAbsolute, CallFunction, ForIter, frames, At
  <2>2. OnlyTouches(g) /\ Remains
    BY <1>1, <2>1 DEF OnlyTouches, Remains
  <2> QED BY <1>1, <2>2
<1>5. CASE YieldFrom(g)
  <2>1. /\ heard' = heard /\ (running' = running \/ running' = [running EXCEPT ![g] = FALSE])
        /\ yielded' = yielded \/ yielded' = [yielded EXCEPT ![g] = TRUE]
        /\ \/ \E r : r # Nothing /\ Answer(r) /\ r.type \in {"item", "error"}
           \/ active' = active /\ result' = Nothing
    BY <1>5, NothingIsNoAnswer DEF YieldFrom, YieldValue, Leave, Item, Failed
  <2>2. OnlyTouches(g)
    BY <1>1, <2>1 DEF OnlyTouches
  <2>3. CASE active' = active /\ result' = Nothing
    BY <1>1, <2>1, <2>2, <2>3 DEF Remains
  <2>4. ASSUME NEW r, r # Nothing, Answer(r), r.type \in {"item", "error"}
        PROVE  Replies(g, r) /\ r.type \in {"item", "stop", "stopped", "error"} /\ r.type # "stop"
    BY <1>1, <2>1, <2>4 DEF Replies
  <2> QED BY <1>1, <2>1, <2>2, <2>3, <2>4
<1>6. CASE NextAnswers(g)
  <2> PICK r : r = IF IsStopIteration(result) THEN Stopped ELSE Failed
    OBVIOUS
  <2>1. r # Nothing /\ r.type \in {"stopped", "error"}
    BY NothingIsNoAnswer DEF Stopped, Failed
  <2>2. /\ heard' = heard /\ (running' = running \/ running' = [running EXCEPT ![g] = FALSE])
        /\ yielded' = yielded
        /\ Answer(r) \/ (active' = active /\ result' = Nothing)
    BY <1>6 DEF NextAnswers, Leave
  <2>3. OnlyTouches(g)
    BY <1>1, <2>2 DEF OnlyTouches
  <2>4. CASE active' = active /\ result' = Nothing
    BY <1>1, <2>2, <2>3, <2>4 DEF Remains
  <2>5. CASE Answer(r)
    <3>1. Replies(g, r) /\ r.type \in {"item", "stop", "stopped", "error"} /\ r.type # "stop"
      BY <1>1, <2>1, <2>2, <2>5 DEF Replies
    <3> QED BY <1>1, <2>3, <3>1
  <2> QED BY <2>2, <2>4, <2>5
<1> QED BY <1>2, <1>3, <1>4, <1>5, <1>6 DEF Execute

\* What an adapter does that does not ask.
TakesPart(o) ==
    /\ ZipNext(o) /\ result' = Nothing
    /\ active' = [active EXCEPT ![Len(active)].got = Append(Top.got, result.value)]
PassesOn(o, r) ==
    \/ result.type # "item" /\ r = result
    \/ /\ result.type = "item" /\ r.type = "item"
       /\ world[o].kind = "zip" => Len(Append(Top.got, result.value)) = Len(world[o].of)

LEMMA AdapterForms ==
    ASSUME TreeInv, DataInv, NEW o \in Objects, Adapt(o), ~AdapterAsks(o)
    PROVE  /\ o \in Adapters /\ o \notin Generators /\ OnlyTouches(o) /\ result # Nothing
           /\ lasti' = lasti /\ world' = world /\ heard' = heard /\ active # <<>> /\ Top.obj = o
           /\ yielded' = yielded /\ running' = running /\ top' = top
           /\ index' = index \/ index' = [index EXCEPT ![o] = @ + 1]
           /\ \/ Remains \/ TakesPart(o)
              \/ \E r : Replies(o, r) /\ PassesOn(o, r)
<1>1. /\ o \in Adapters /\ o \notin Generators /\ active # <<>> /\ Top.obj = o
  BY AdapterOnTop
     DEF TreeInv, Adapt, AdapterAsks, AdapterFails, EnumerateNext, FilterNext, ZipNext, Adapter
<1>2. /\ lasti' = lasti /\ world' = world /\ heard' = heard /\ result # Nothing
      /\ yielded' = yielded /\ running' = running /\ top' = top
      /\ index' = index \/ index' = [index EXCEPT ![o] = @ + 1]
  BY DEF Adapt, AdapterFails, EnumerateNext, FilterNext, ZipNext, frames, Nothing
<1>3. OnlyTouches(o)
  BY <1>2 DEF OnlyTouches, DataInv
<1>4. CASE AdapterFails(o)
  <2>1. result.type # "item" /\ Answer(result)
    BY <1>4 DEF AdapterFails
  <2>2. Replies(o, result) /\ PassesOn(o, result)
    BY <1>1, <1>2, <2>1 DEF Replies, PassesOn
  <2> QED BY <1>1, <1>2, <1>3, <2>2
<1>5. CASE EnumerateNext(o)
  <2> PICK r : r = Item(Tuple(o, index[o], <<result.value>>))
    OBVIOUS
  <2>1. result.type = "item" /\ Answer(r) /\ r # Nothing /\ r.type = "item" /\ world[o].kind = "enumerate"
    BY <1>5, NothingIsNoAnswer DEF EnumerateNext, Adapts, Item
  <2>2. Replies(o, r) /\ PassesOn(o, r)
    BY <1>1, <1>2, <2>1 DEF Replies, PassesOn
  <2> QED BY <1>1, <1>2, <1>3, <2>2
<1>6. CASE FilterNext(o)
  <2>1. /\ result.type = "item" /\ world[o].kind = "filter"
        /\ Answer(result) \/ (result' = Nothing /\ active' = active)
    BY <1>6 DEF FilterNext, Adapts
  <2>2. CASE Answer(result)
    <3>1. Replies(o, result) /\ PassesOn(o, result)
      BY <1>1, <1>2, <2>1, <2>2 DEF Replies, PassesOn
    <3> QED BY <1>1, <1>2, <1>3, <3>1
  <2>3. CASE result' = Nothing /\ active' = active
    <3>1. Remains
      BY <1>1, <1>2, <2>3 DEF Remains
    <3> QED BY <1>1, <1>2, <1>3, <3>1
  <2> QED BY <2>1, <2>2, <2>3
<1>7. CASE ZipNext(o)
  <2> PICK got : got = Append(Top.got, result.value)
    OBVIOUS
  <2> PICK r : r = Item(Tuple(o, 0, got))
    OBVIOUS
  <2>1. /\ result.type = "item" /\ r # Nothing /\ r.type = "item"
        /\ IF Len(got) = Len(world[o].of) THEN Answer(r)
           ELSE active' = [active EXCEPT ![Len(active)].got = got] /\ result' = Nothing
    BY <1>7, NothingIsNoAnswer DEF ZipNext, Item
  <2>2. CASE Len(got) = Len(world[o].of)
    <3>1. Replies(o, r) /\ PassesOn(o, r)
      BY <1>1, <1>2, <2>1, <2>2 DEF Replies, PassesOn
    <3> QED BY <1>1, <1>2, <1>3, <3>1
  <2>3. CASE Len(got) # Len(world[o].of)
    <3>1. TakesPart(o)
      BY <1>7, <2>1, <2>3 DEF TakesPart
    <3> QED BY <1>1, <1>2, <1>3, <3>1
  <2> QED BY <2>2, <2>3
<1> QED BY <1>4, <1>5, <1>6, <1>7 DEF Adapt

-------------------------------------------------------------------------------
(* What is past its end stays there.                                          *)
FramesStay(past) ==
    \A x \in past :
        /\ world[x].kind = "generator" => /\ running'[x] = running[x] /\ yielded'[x] = yielded[x]
                                          /\ lasti'[x] = lasti[x]
        /\ world[x].kind = "iterator" => index'[x] = index[x]
PartsStay(past) ==
    \A x \in past :
        /\ world[x].kind \in {"enumerate", "filter"} =>
              (Got(active, x) = <<>> => Got(active', x) = <<>>)
        /\ world[x].kind = "zip" =>
              \A j \in 1 .. Len(world[x].of) :
                  world[x].of[j] \in past /\ Len(Got(active, x)) < j => Len(Got(active', x)) < j
NoneOf(past) ==
    active' # <<>> /\ result'.type = "item" =>
        \A c \in Objects : Awaits(Top, lasti, c)' => c \notin past

LEMMA EndKept ==
    ASSUME world' = world, NEW past, AtTheEnd(past), FramesStay(past), PartsStay(past), NoneOf(past)
    PROVE  AtTheEnd(past)'
<1>1. ASSUME NEW x \in past
      PROVE  /\ world'[x].kind = "generator" => ~running'[x] /\ Over(x)'
             /\ world'[x].kind = "iterator" => index'[x] >= Len(world'[x].seq)
             /\ world'[x].kind \in {"enumerate", "filter"} =>
                   world'[x].of[1] \in past /\ Got(active', x) = <<>>
             /\ world'[x].kind = "zip" => \E j \in 1 .. Len(world'[x].of) :
                                            world'[x].of[j] \in past /\ Len(Got(active', x)) < j
  <2>1. world[x].kind = "generator" => ~running'[x] /\ Over(x)'
    BY DEF AtTheEnd, FramesStay, Over
  <2>2. world[x].kind = "iterator" => index'[x] >= Len(world[x].seq)
    BY DEF AtTheEnd, FramesStay
  <2>3. world[x].kind \in {"enumerate", "filter"} => world[x].of[1] \in past /\ Got(active', x) = <<>>
    BY DEF AtTheEnd, PartsStay
  <2>4. world[x].kind = "zip" => \E j \in 1 .. Len(world[x].of) :
                                     world[x].of[j] \in past /\ Len(Got(active', x)) < j
    BY DEF AtTheEnd, PartsStay
  <2> QED BY <2>1, <2>2, <2>3, <2>4
<1>2. \A x : Got(active, x)' = Got(active', x)
  BY DEF Got
<1> QED BY <1>1, <1>2 DEF AtTheEnd, NoneOf

OldOrNew(calls) ==
    \A i \in 1 .. Len(calls) :
        calls[i].obj = 0 \/ calls[i].got = <<>> \/ (i \in 1 .. Len(active) /\ calls[i] = active[i])

LEMMA PartsOfCalls ==
    ASSUME Once(active), NEW calls, Once(calls), OldOrNew(calls), NEW x \in Objects
    PROVE  Got(calls, x) = Got(active, x) \/ Got(calls, x) = <<>>
<1>1. CASE \A i \in 1 .. Len(calls) : calls[i].obj # x
  BY <1>1, GotNowhere
<1>2. CASE ~\A i \in 1 .. Len(calls) : calls[i].obj # x
  <2> PICK i \in 1 .. Len(calls) : calls[i].obj = x
    BY <1>2
  <2>1. Got(calls, x) = calls[i].got
    BY GotHere
  <2>2. calls[i].got = <<>> \/ (i \in 1 .. Len(active) /\ calls[i] = active[i])
    BY ObjectsAssumption DEF OldOrNew
  <2>3. i \in 1 .. Len(active) /\ calls[i] = active[i] => Got(active, x) = calls[i].got
    <3> SUFFICES ASSUME i \in 1 .. Len(active), calls[i] = active[i] PROVE Got(active, x) = calls[i].got
      OBVIOUS
    <3>1. Got(active, active[i].obj) = active[i].got
      BY GotHere
    <3> QED BY <3>1
  <2> QED BY <2>1, <2>2, <2>3
<1> QED BY <1>1, <1>2

LEMMA PartsAreKept ==
    ASSUME TreeInv, TreeInv', IsTree(world), world' = world, OldOrNew(active'),
           NEW past \in SUBSET Objects
    PROVE  PartsStay(past)
<1>1. Once(active) /\ Once(active')
  BY DEF TreeInv, ChainInv, NotTwice, Once
<1> PICK calls : calls = active'
  OBVIOUS
<1>2. \A x \in Objects : Got(calls, x) = Got(active, x) \/ Got(calls, x) = <<>>
  BY <1>1, PartsOfCalls
<1> QED BY <1>2 DEF PartsStay

LEMMA AskedForms ==
    ASSUME TypeInv, NEW c, NEW v, NEW calls, Asks(c, v, calls)
    PROVE  \/ active' = calls /\ active' # <<>> /\ result' # Nothing /\ Awaits(Top, lasti, c)'
           \/ active' = Append(calls, Calling(c)) /\ result' = Nothing
<1>1. \/ active' = calls /\ result' # Nothing
      \/ active' = Append(calls, Calling(c)) /\ result' = Nothing
  BY EnterForms DEF Asks
<1>2. Generators' = Generators
  BY DEF Asks, Generators, IsGenerator
<1>3. active' = calls => Awaits(Top, lasti, c)'
  BY <1>2 DEF Asks, Awaits, PlaceOf, Top
<1> QED BY <1>1, <1>3 DEF Asks

LEMMA AskAtTheEnd ==
    ASSUME TypeInv, DataInv, NEW c, NEW v, NEW calls, Asks(c, v, calls),
           NEW past \in SUBSET Objects, AtTheEnd(past)
    PROVE  FramesStay(past) /\ (result'.type = "item" => c \notin past)
<1>1. /\ Enter(c, v, calls) /\ c \in Objects /\ running \in [Objects -> BOOLEAN]
      /\ index \in [Objects -> Nat]
      /\ \A x \in Objects : lasti'[x] = lasti[x] \/ (x \in Generators /\ running[x])
  BY DEF Asks, TypeInv, DataInv
<1>2. ASSUME NEW x \in past, world[x].kind = "generator" PROVE ~running[x] /\ Over(x) /\ lasti'[x] = lasti[x]
  BY <1>1, <1>2 DEF AtTheEnd
<1>3. yielded' = yielded
  BY <1>1, EnterForms
<1>4. CASE IsGenerator(c)
  <2>1. Send(c, v, calls) /\ index' = index
    BY <1>1, <1>4 DEF Enter, IsGenerator
  <2>2. result'.type # "item" /\ \A x \in Objects : x # c => running'[x] = running[x]
    BY <2>1, <1>1 DEF Send, frames, Failed, Stop, Nothing
  <2>3. c \in past => running' = running
    <3> SUFFICES ASSUME c \in past PROVE running' = running
      OBVIOUS
    <3>1. ~running[c] /\ Over(c)
      BY <1>2, <1>4 DEF IsGenerator
    <3> QED BY <2>1, <3>1 DEF Send, frames
  <2> QED BY <2>1, <2>2, <2>3, <1>2, <1>3 DEF FramesStay
<1>5. CASE ~IsGenerator(c) /\ world[c].kind = "iterator" /\ v = None
  <2>1. NextOfSequence(c, calls)
    BY <1>1, <1>5 DEF Enter
  <2>2. running' = running
    BY <2>1 DEF NextOfSequence, frames
  <2>3. CASE index[c] >= Len(world[c].seq)
    <3>1. result' = Stop /\ index' = index
      BY <2>1, <2>3 DEF NextOfSequence
    <3> QED BY <3>1, <2>2, <1>2, <1>3 DEF FramesStay, Stop
  <2>4. CASE ~(index[c] >= Len(world[c].seq))
    <3>1. index' = [index EXCEPT ![c] = @ + 1]
      BY <2>1, <2>4 DEF NextOfSequence
    <3>2. c \notin past
      BY <2>4, <1>5 DEF AtTheEnd
    <3>3. \A x \in past : index'[x] = index[x]
      BY <3>1, <3>2, <1>1
    <3> QED BY <3>2, <3>3, <2>2, <1>2, <1>3 DEF FramesStay
  <2> QED BY <2>3, <2>4
<1>6. CASE ~IsGenerator(c) /\ ~(world[c].kind = "iterator" /\ v = None)
  <2>1. running' = running /\ index' = index /\ result' \in {Nothing, Failed}
    BY <1>1, <1>6 DEF Enter, frames
  <2> QED BY <2>1, <1>2, <1>3 DEF FramesStay, Nothing, Failed
<1> QED BY <1>4, <1>5, <1>6

LEMMA AskedIsNew ==
    ASSUME TreeInv, NEW c, NEW v, NEW calls, Asks(c, v, calls)
    PROVE  OldOrNew(active')
<1>1. active' = calls \/ active' = Append(calls, Calling(c))
  BY AskedForms DEF TreeInv, IterationInv
<1>2. OldOrNew(calls)
  <2>1. CASE calls = active
    BY <2>1 DEF OldOrNew
  <2>2. CASE Len(calls) = 1 /\ calls[1].obj = 0
    <3>1. \A i \in 1 .. Len(calls) : i = 1
      BY <2>2
    <3> QED BY <2>2, <3>1 DEF OldOrNew
  <2> QED BY <2>1, <2>2 DEF Asks
<1>3. OldOrNew(active')
  <2>1. CASE active' = calls
    BY <2>1, <1>2
  <2>2. CASE active' = Append(calls, Calling(c))
    <3>1. /\ Len(calls) \in Nat /\ Len(active') = Len(calls) + 1
          /\ \A i \in 1 .. Len(calls) : active'[i] = calls[i]
          /\ active'[Len(calls) + 1].got = <<>>
      BY <2>2, StackGrows DEF Calling, Asks
    <3>2. \A i \in 1 .. Len(calls) + 1 : i \in 1 .. Len(calls) \/ i = Len(calls) + 1
      BY <3>1
    <3> QED BY <3>1, <3>2, <1>2 DEF OldOrNew
  <2> QED BY <1>1, <2>1, <2>2
<1> QED BY <1>3

LEMMA AskKeepsEnds ==
    ASSUME TreeInv, TreeInv', IsTree(world), DataInv, NEW c, NEW v, NEW calls, Asks(c, v, calls),
           NEW past \in SUBSET Objects, AtTheEnd(past)
    PROVE  AtTheEnd(past)'
<1>1. TypeInv /\ world' = world
  BY DEF TreeInv, IterationInv, Asks
<1>2. FramesStay(past) /\ (result'.type = "item" => c \notin past)
  BY <1>1, AskAtTheEnd
<1>3. \/ active' = calls /\ Awaits(Top, lasti, c)'
      \/ active' = Append(calls, Calling(c)) /\ result' = Nothing
  BY <1>1, AskedForms
<1>4. NoneOf(past)
  <2>1. CASE active' = calls /\ Awaits(Top, lasti, c)'
    BY <2>1, <1>2 DEF NoneOf, Awaits
  <2>2. CASE result' = Nothing
    BY <2>2 DEF NoneOf, Nothing
  <2> QED BY <1>3, <2>1, <2>2
<1>6. OldOrNew(active')
  BY AskedIsNew
<1>7. PartsStay(past)
  BY <1>1, <1>6, PartsAreKept
<1> QED BY <1>1, <1>2, <1>4, <1>7, EndKept

LEMMA RepliedIsOld ==
    ASSUME TreeInv, TreeInv', IsTree(world), NEW o, NEW r, Replies(o, r), OnlyTouches(o)
    PROVE  OldOrNew(active') /\ active' # <<>> /\ result' = r /\ Awaits(Top, lasti, o)'
<1>1. /\ active # <<>> /\ o \in Objects /\ Top.obj = o /\ r # Nothing /\ Answer(r) /\ world' = world
      /\ \A g \in Generators : g # o => lasti'[g] = lasti[g]
  BY DEF Replies, OnlyTouches, Generators
<1>2. /\ Len(active') = Len(active) - 1 /\ result' = r /\ Awaits(Top, lasti, o)' /\ active' # <<>>
      /\ \A i \in 1 .. Len(active') : active'[i] = active[i]
  BY <1>1, BelowTop
<1>4. OldOrNew(active')
  <2>1. Len(active) \in Nat \ {0}
    BY <1>1, TopCall
  <2>2. \A i \in 1 .. Len(active) - 1 : i \in 1 .. Len(active)
    BY <2>1
  <2> QED BY <2>2, <1>2 DEF OldOrNew
<1> QED BY <1>2, <1>4

LEMMA ReplyKeepsEnds ==
    ASSUME TreeInv, TreeInv', IsTree(world), NEW o, NEW r, Replies(o, r), OnlyTouches(o),
           NEW past \in SUBSET Objects, AtTheEnd(past), FramesStay(past),
           r.type = "item" => o \notin past
    PROVE  AtTheEnd(past)'
<1>1. /\ active # <<>> /\ o \in Objects /\ Top.obj = o /\ r # Nothing /\ Answer(r) /\ world' = world
      /\ \A g \in Generators : g # o => lasti'[g] = lasti[g]
  BY DEF Replies, OnlyTouches, Generators
<1>2. /\ Len(active') = Len(active) - 1 /\ result' = r /\ Awaits(Top, lasti, o)'
      /\ \A i \in 1 .. Len(active') : active'[i] = active[i]
  BY <1>1, BelowTop
<1>3. NoneOf(past)
  BY <1>2 DEF NoneOf, Awaits
<1>4. OldOrNew(active')
  BY RepliedIsOld
<1>5. PartsStay(past)
  BY <1>1, <1>4, PartsAreKept
<1> QED BY <1>1, <1>3, <1>5, EndKept

LEMMA ExecuteKeepsEnds ==
    ASSUME TreeInv, TreeInv', IsTree(world), ResultInv, NEW g \in Objects, Execute(g), ~AsksFor(g),
           NEW past \in SUBSET Objects, AtTheEnd(past)
    PROVE  AtTheEnd(past)'
<1>1. /\ g \in Generators /\ running[g] /\ OnlyTouches(g) /\ index' = index
      /\ Remains \/ \E r : Replies(g, r)
  BY OpcodeForms
<1>2. g \notin past
  BY <1>1 DEF AtTheEnd, Generators, IsGenerator
<1>3. FramesStay(past)
  BY <1>1, <1>2 DEF FramesStay, OnlyTouches
<1>4. CASE Remains
  <2>1. world' = world /\ NoneOf(past) /\ OldOrNew(active')
    BY <1>4 DEF Remains, NoneOf, OldOrNew, Nothing
  <2>2. PartsStay(past)
    BY <2>1, PartsAreKept
  <2> QED BY <2>1, <2>2, <1>3, EndKept
<1>5. CASE \E r : Replies(g, r)
  BY <1>1, <1>2, <1>3, <1>5, ReplyKeepsEnds
<1> QED BY <1>1, <1>4, <1>5

\* What an adapter has taken is from nothing that is past its end.
LEMMA TakenIsNotPast ==
    ASSUME TreeInv, IsTree(world), active # <<>>, NEW o \in Adapters, Top.obj = o,
           result.type = "item", NEW past, AtTheEnd(past), NEW w, w = Len(Top.got) + 1
    PROVE  world[o].of[w] \notin past
<1>1. o \in Objects /\ o # 0 /\ o \notin Generators /\ world[o].kind # "generator"
      /\ world[o].kind \in AdapterKinds /\ TypeInv
  BY ObjectsAssumption DEF Adapters, Generators, IsGenerator, AdapterKinds, TreeInv, IterationInv
<1>2. PICK c : Awaits(Top, lasti, c)
  <2>1. result # Nothing
    BY DEF Nothing
  <2> QED BY <2>1 DEF TreeInv, ChainInv, TopAwaits, Top
<1>3. PlaceOf(Top, lasti) = w
  BY <1>1 DEF PlaceOf
<1>4. c = world[o].of[w] /\ w \in Places(world, o)
  BY <1>1, <1>2, <1>3 DEF Awaits, AskedAt
<1>5. c \in Objects
  BY <1>1, <1>4, PlacesAskObjects DEF Adapters
<1> QED BY <1>2, <1>4, <1>5 DEF AtTheEnd

LEMMA AdaptKeepsEnds ==
    ASSUME TreeInv, TreeInv', IsTree(world), DataInv, NEW o \in Objects, Adapt(o), ~AdapterAsks(o),
           NEW past \in SUBSET Objects, AtTheEnd(past)
    PROVE  AtTheEnd(past)'
<1>1. /\ o \in Adapters /\ o \notin Generators /\ OnlyTouches(o) /\ result # Nothing
      /\ lasti' = lasti /\ world' = world /\ active # <<>> /\ Top.obj = o
      /\ yielded' = yielded /\ running' = running
      /\ Remains \/ TakesPart(o) \/ \E r : Replies(o, r) /\ PassesOn(o, r)
  BY AdapterForms
<1>2. FramesStay(past)
  <2>1. \A x \in past : world[x].kind = "iterator" => x # o
    BY <1>1 DEF Adapters
  <2> QED BY <2>1, <1>1 DEF FramesStay, OnlyTouches
<1> PICK w : w = Len(Top.got) + 1
  OBVIOUS
<1>3. Got(active, o) = Top.got /\ Once(active) /\ Len(active) \in 1 .. Len(active) /\ IsStack(active)
      /\ active[Len(active)].obj = o
  BY <1>1, TopCall
<1>4. (\E S : Top.got \in Seq(S)) /\ Len(Top.got) < Len(world[o].of)
  BY <1>1, <1>3 DEF TreeInv, IterationInv, CallsInv, PartsFit, Top
<1>5. Len(Top.got) \in Nat /\ \A v : Len(Append(Top.got, v)) = w
  <2> PICK S : Top.got \in Seq(S)
    BY <1>4
  <2>1. ASSUME NEW v PROVE Len(Append(Top.got, v)) = w
    <3>1. Top.got \in Seq(S \cup {v}) /\ v \in S \cup {v}
      OBVIOUS
    <3> QED BY <3>1
  <2> QED BY <2>1
<1>6. CASE Remains
  <2>1. NoneOf(past) /\ OldOrNew(active')
    BY <1>6 DEF Remains, NoneOf, OldOrNew, Nothing
  <2>2. PartsStay(past)
    BY <2>1, <1>1, PartsAreKept
  <2> QED BY <2>1, <2>2, <1>1, <1>2, EndKept
<1>7. ASSUME NEW r, Replies(o, r), PassesOn(o, r)
      PROVE  AtTheEnd(past)'
  <2>1. ASSUME r.type = "item", o \in past PROVE FALSE
    <3>1. result.type = "item"
      BY <1>7, <2>1 DEF PassesOn
    <3>2. world[o].of[w] \notin past
      BY <1>1, <3>1, TakenIsNotPast
    <3>3. CASE world[o].kind \in {"enumerate", "filter"}
      <4>1. world[o].of[1] \in past /\ Top.got = <<>>
        BY <1>3, <2>1, <3>3 DEF AtTheEnd
      <4>2. w = 1
        BY <4>1
      <4> QED BY <4>1, <4>2, <3>2
    <3>4. CASE world[o].kind = "zip"
      <4>1. PICK j \in 1 .. Len(world[o].of) : world[o].of[j] \in past /\ Len(Top.got) < j
        BY <1>3, <2>1, <3>4 DEF AtTheEnd
      <4>2. Len(world[o].of) = w
        BY <1>5, <1>7, <3>1, <3>4 DEF PassesOn
      <4>3. j = w
        BY <4>1, <4>2, <1>5
      <4> QED BY <4>1, <4>3, <3>2
    <3> QED BY <3>3, <3>4, <1>1 DEF Adapters
  <2> QED BY <2>1, <1>1, <1>2, <1>7, ReplyKeepsEnds
<1>8. CASE TakesPart(o)
  <2>1. /\ world[o].kind = "zip" /\ result.type = "item" /\ result' = Nothing
        /\ active' = [active EXCEPT ![Len(active)].got = Append(Top.got, result.value)]
    BY <1>8 DEF TakesPart, ZipNext, Adapts
  <2>2. world[o].of[w] \notin past
    BY <1>1, <2>1, TakenIsNotPast
  <2>3. NoneOf(past)
    BY <2>1 DEF NoneOf, Nothing
  <2> DEFINE n == Len(active)
             got == Append(Top.got, result.value)
             c == [active[n] EXCEPT !.got = got]
  <2>4. /\ active' = [active EXCEPT ![n] = c] /\ c.obj = o /\ c.got = got
    BY <2>1, <1>3 DEF IsStack
  <2>5. Len(got) = w
    BY <1>5
  <2> HIDE DEF c, got
  <2>6. Len(active') = n /\ active'[n] = c /\ \A i \in 1 .. n : i # n => active'[i] = active[i]
    <3> PICK S : active \in Seq(S)
      BY <1>3 DEF IsStack
    <3>1. active \in Seq(S \cup {c}) /\ c \in S \cup {c} /\ n \in 1 .. Len(active)
      BY <1>3
    <3> QED BY <3>1, <2>4
  <2>7. Once(active')
    BY <1>1 DEF TreeInv, ChainInv, NotTwice, Once
  <2>8. Got(active', o) = got
    <3> PICK calls : calls = active'
      OBVIOUS
    <3>1. Once(calls) /\ n \in 1 .. Len(calls) /\ calls[n].obj = o /\ calls[n].got = got
      BY <1>3, <2>4, <2>6, <2>7
    <3>2. Got(calls, calls[n].obj) = calls[n].got
      BY <3>1, GotHere
    <3> QED BY <3>1, <3>2
  <2>9. ASSUME NEW x, x # o PROVE Got(active', x) = Got(active, x)
    <3>1. \A i \in 1 .. Len(active) : active[i].obj = x => i \in 1 .. Len(active') /\ active'[i] = active[i]
      BY <2>6, <2>9, <1>3
    <3>2. \A i \in 1 .. Len(active') : active'[i].obj = x => i \in 1 .. Len(active) /\ active'[i] = active[i]
      BY <2>4, <2>6, <2>9
    <3> HIDE DEF n
    <3> QED BY <3>1, <3>2, <1>3, <2>7, GotAsBefore
  <2>10. PartsStay(past)
    <3>1. ASSUME NEW j \in 1 .. Len(world[o].of), world[o].of[j] \in past, Len(Got(active, o)) < j
          PROVE  Len(Got(active', o)) < j
      <4>1. j # w
        BY <2>2, <3>1
      <4>2. Len(Top.got) < j /\ j \in Nat
        BY <1>3, <1>4, <3>1
      <4> QED BY <4>1, <4>2, <1>5, <2>5, <2>8
    <3> QED BY <3>1, <2>1, <2>9 DEF PartsStay
  <2> QED BY <2>3, <2>10, <1>1, <1>2, EndKept
<1> QED BY <1>1, <1>6, <1>7, <1>8

LEMMA HeardIsNew ==
    ASSUME TreeInv, IsTree(world), AsksInv, NEW root, Asked = {root}, Hear
    PROVE  OldOrNew(active')
<1>1. GoesOn(root) \/ \E ask : IsOver(ask)
  BY HearForms
<1>3. OldOrNew(active')
  <2>1. CASE GoesOn(root)
    <3> PICK calls : calls = active'
      OBVIOUS
    <3>1. Len(calls) = 1 /\ calls[1].obj = 0
      BY <2>1 DEF GoesOn
    <3>2. \A i \in 1 .. Len(calls) : i = 1
      BY <3>1
    <3>3. OldOrNew(calls)
      BY <3>1, <3>2 DEF OldOrNew
    <3> QED BY <3>3
  <2>2. CASE \E ask : IsOver(ask)
    BY <2>2 DEF IsOver, OldOrNew
  <2> QED BY <1>1, <2>1, <2>2
<1> QED BY <1>3

LEMMA HearKeepsEnds ==
    ASSUME TreeInv, TreeInv', IsTree(world), AsksInv, NEW root, Asked = {root}, Hear,
           NEW past \in SUBSET Objects, AtTheEnd(past)
    PROVE  AtTheEnd(past)'
<1>1. /\ world' = world /\ lasti' = lasti /\ index' = index /\ result' = Nothing
      /\ yielded' = yielded /\ running' = running
      /\ GoesOn(root) \/ \E ask : IsOver(ask)
  BY HearForms
<1>2. FramesStay(past) /\ NoneOf(past)
  BY <1>1 DEF FramesStay, NoneOf, Nothing
<1>3. OldOrNew(active')
  BY HeardIsNew
<1>4. PartsStay(past)
  BY <1>1, <1>3, PartsAreKept
<1> QED BY <1>1, <1>2, <1>4, EndKept

-------------------------------------------------------------------------------
(* Every step is one of five.                                                 *)
FrameSteps   == \E g \in Objects : Execute(g) /\ ~AsksFor(g)
AdapterSteps == \E o \in Objects : Adapt(o) /\ ~AdapterAsks(o)
SomeAsks     == \E c, v, calls : Asks(c, v, calls)

LEMMA StepForms ==
    ASSUME TreeInv, [Next]_vars
    PROVE  UNCHANGED vars \/ FrameSteps \/ AdapterSteps \/ Hear \/ SomeAsks
<1>1. CASE \E g \in Objects : Execute(g)
  BY <1>1, AsksForForms DEF FrameSteps, SomeAsks
<1>2. CASE \E o \in Objects : Adapt(o)
  BY <1>2, AdapterAsksForms DEF AdapterSteps, SomeAsks
<1>3. CASE AskAgain \/ \E how \in {"next", "send", "list", "all", "for"}, o \in Asked,
                          v \in Sent \cup {None} : Begin(how, o, v)
  <2>1. AskAgain \/ \E how \in {"next", "send", "list", "all", "for"}, o \in Asked : \E v : Begin(how, o, v)
    BY <1>3
  <2> QED BY <2>1, OutsideAsksForms DEF SomeAsks
<1>4. CASE Hear \/ UNCHANGED vars
  BY <1>4
<1> QED BY <1>1, <1>2, <1>3, <1>4 DEF Next, Running

LEMMA UnchangedKeepsEnds ==
    ASSUME UNCHANGED vars, NEW past, AtTheEnd(past)
    PROVE  AtTheEnd(past)'
<1>1. /\ world' = world /\ running' = running /\ yielded' = yielded /\ lasti' = lasti
      /\ index' = index /\ active' = active /\ result' = result
  BY DEF vars, frames
<1>2. FramesStay(past) /\ PartsStay(past)
  BY <1>1 DEF FramesStay, PartsStay
<1>3. \A c : Awaits(Top, lasti, c)' <=> Awaits(Top, lasti, c)
  BY <1>1 DEF Awaits, PlaceOf, Top, Generators, IsGenerator
<1>4. NoneOf(past)
  BY <1>1, <1>3 DEF NoneOf, AtTheEnd
<1> QED BY <1>1, <1>2, <1>4, EndKept

LEMMA EndsAreKept ==
    ASSUME TreeInv, TreeInv', IsTree(world), DataInv, ResultInv, AsksInv,
           NEW root, Asked = {root}, [Next]_vars, NEW past \in SUBSET Objects, AtTheEnd(past)
    PROVE  AtTheEnd(past)'
<1>1. CASE UNCHANGED vars
  BY <1>1, UnchangedKeepsEnds
<1>2. CASE FrameSteps
  BY <1>2, ExecuteKeepsEnds DEF FrameSteps
<1>3. CASE AdapterSteps
  BY <1>3, AdaptKeepsEnds DEF AdapterSteps
<1>4. CASE Hear
  BY <1>4, HearKeepsEnds
<1>5. CASE SomeAsks
  BY <1>5, AskKeepsEnds DEF SomeAsks
<1> QED BY <1>1, <1>2, <1>3, <1>4, <1>5, StepForms

LEMMA StaysStopped ==
    ASSUME TreeInv, TreeInv', IsTree(world), DataInv, ResultInv, AsksInv,
           NEW root, Asked = {root}, [Next]_vars, NEW o, HasStopped(o)
    PROVE  HasStopped(o)'
<1> PICK past \in SUBSET Objects : o \in past /\ AtTheEnd(past)
  BY DEF HasStopped
<1>1. AtTheEnd(past)'
  BY EndsAreKept
<1> QED BY <1>1 DEF HasStopped

-------------------------------------------------------------------------------
(* What enumerate and filter ask is one at a time: their calls keep nothing.  *)
PartsInv ==
    \A i \in 1 .. Len(active) :
        /\ active[i].obj \in Objects
        /\ world[active[i].obj].kind \in {"enumerate", "filter"}
        => active[i].got = <<>>

LEMMA PartTaken ==
    ASSUME TreeInv, active # <<>>, NEW o \in Objects, Top.obj = o, TakesPart(o),
           NEW i \in 1 .. Len(active')
    PROVE  \/ i \in 1 .. Len(active) /\ active'[i] = active[i]
           \/ active'[i].obj = o /\ world[o].kind = "zip" /\ active'[i].sent = active[i].sent
<1>1. /\ world[o].kind = "zip"
      /\ active' = [active EXCEPT ![Len(active)].got = Append(Top.got, result.value)]
  BY DEF TakesPart, ZipNext, Adapts
<1>2. IsStack(active)
  BY DEF TreeInv, IterationInv, CallsInv
<1> DEFINE n == Len(active)
           got == Append(Top.got, result.value)
           c == [active[n] EXCEPT !.got = got]
<1>3. n \in 1 .. Len(active) /\ "got" \in DOMAIN active[n]
  <2>1. n \in 1 .. n
    BY <1>2 DEF IsStack
  <2> QED BY <2>1, <1>2 DEF IsStack
<1>4. active' = [active EXCEPT ![n] = c] /\ c.obj = o /\ c.sent = active[n].sent
  BY <1>1, <1>3 DEF Top
<1> HIDE DEF c, got
<1>5. Len(active') = n /\ active'[n] = c /\ \A j \in 1 .. n : j # n => active'[j] = active[j]
  <2> PICK S : active \in Seq(S)
    BY <1>2 DEF IsStack
  <2>1. active \in Seq(S \cup {c}) /\ c \in S \cup {c} /\ n \in 1 .. Len(active)
    BY <1>3
  <2> QED BY <2>1, <1>4
<1> QED BY <1>1, <1>4, <1>5

LEMMA PartsStep ==
    ASSUME TreeInv, TreeInv', IsTree(world), DataInv, ResultInv, AsksInv, PartsInv,
           NEW root, Asked = {root}, [Next]_vars
    PROVE  PartsInv'
<1>1. CASE world' = world /\ OldOrNew(active')
  <2>1. ASSUME NEW i \in 1 .. Len(active'), active'[i].obj \in Objects,
               world[active'[i].obj].kind \in {"enumerate", "filter"}
        PROVE  active'[i].got = <<>>
    <3>1. CASE active'[i].obj = 0
      BY <2>1, <3>1, ObjectsAssumption
    <3>2. CASE active'[i].got = <<>>
      BY <3>2
    <3>3. CASE i \in 1 .. Len(active) /\ active'[i] = active[i]
      BY <2>1, <3>3 DEF PartsInv
    <3> QED BY <3>1, <3>2, <3>3, <1>1 DEF OldOrNew
  <2> QED BY <1>1, <2>1 DEF PartsInv
<1>2. ASSUME NEW o \in Objects, active # <<>>, Top.obj = o, TakesPart(o), world' = world
      PROVE  PartsInv'
  <2>1. ASSUME NEW i \in 1 .. Len(active'), active'[i].obj \in Objects,
               world[active'[i].obj].kind \in {"enumerate", "filter"}
        PROVE  active'[i].got = <<>>
    <3>1. i \in 1 .. Len(active) /\ active'[i] = active[i]
      BY <1>2, <2>1, PartTaken
    <3> QED BY <2>1, <3>1 DEF PartsInv
  <2> QED BY <1>2, <2>1 DEF PartsInv
<1>3. CASE UNCHANGED vars
  BY <1>1, <1>3 DEF vars, OldOrNew
<1>4. CASE FrameSteps
  <2> PICK g \in Objects : Execute(g) /\ ~AsksFor(g)
    BY <1>4 DEF FrameSteps
  <2>1. OnlyTouches(g) /\ (Remains \/ \E r : Replies(g, r))
    BY OpcodeForms
  <2>2. CASE Remains
    BY <1>1, <2>2 DEF Remains, OldOrNew
  <2>3. CASE \E r : Replies(g, r)
    BY <1>1, <2>1, <2>3, RepliedIsOld DEF Replies
  <2> QED BY <2>1, <2>2, <2>3
<1>5. CASE AdapterSteps
  <2> PICK o \in Objects : Adapt(o) /\ ~AdapterAsks(o)
    BY <1>5 DEF AdapterSteps
  <2>1. /\ OnlyTouches(o) /\ world' = world /\ active # <<>> /\ Top.obj = o
        /\ Remains \/ TakesPart(o) \/ \E r : Replies(o, r)
    BY AdapterForms
  <2>2. CASE Remains
    BY <1>1, <2>2 DEF Remains, OldOrNew
  <2>3. CASE \E r : Replies(o, r)
    BY <1>1, <2>1, <2>3, RepliedIsOld
  <2>4. CASE TakesPart(o)
    BY <1>2, <2>1, <2>4
  <2> QED BY <2>1, <2>2, <2>3, <2>4
<1>6. CASE Hear
  BY <1>1, <1>6, HeardIsNew, HearForms
<1>7. CASE SomeAsks
  BY <1>1, <1>7, AskedIsNew DEF SomeAsks, Asks
<1> QED BY <1>3, <1>4, <1>5, <1>6, <1>7, StepForms

-------------------------------------------------------------------------------
(* What answers with the StopIteration that no frame has raised has stopped.  *)
LEMMA AskedStops ==
    ASSUME TypeInv, DataInv, NEW c, NEW v, NEW calls, Asks(c, v, calls), result'.type = "stop"
    PROVE  AtTheEnd({c})' /\ active' # <<>> /\ Awaits(Top, lasti, c)'
<1>1. /\ Enter(c, v, calls) /\ c \in Objects /\ world' = world /\ running \in [Objects -> BOOLEAN]
      /\ index \in [Objects -> Nat]
      /\ \A x \in Objects : lasti'[x] = lasti[x] \/ (x \in Generators /\ running[x])
  BY DEF Asks, TypeInv, DataInv
<1>2. active' # <<>> /\ Awaits(Top, lasti, c)'
  BY AskedForms DEF Nothing
<1>3. result'.type # "item"
  OBVIOUS
<1>4. yielded' = yielded
  BY <1>1, EnterForms
<1>5. CASE IsGenerator(c)
  <2>1. Send(c, v, calls)
    BY <1>1, <1>5 DEF Enter, IsGenerator
  <2>2. ~running[c] /\ Over(c) /\ running' = running
    BY <2>1 DEF Send, frames, Failed, Stop, Nothing
  <2>3. lasti'[c] = lasti[c]
    BY <1>1, <2>2
  <2>4. ~running'[c] /\ Over(c)' /\ world'[c].kind = "generator"
    BY <1>1, <1>4, <1>5, <2>2, <2>3 DEF Over, IsGenerator
  <2> QED BY <1>2, <1>3, <2>4 DEF AtTheEnd
<1>6. CASE ~IsGenerator(c) /\ world[c].kind = "iterator" /\ v = None
  <2>1. NextOfSequence(c, calls)
    BY <1>1, <1>6 DEF Enter
  <2>2. index[c] >= Len(world[c].seq) /\ index' = index
    BY <2>1 DEF NextOfSequence, Item, Stop
  <2> QED BY <1>1, <1>2, <1>3, <1>6, <2>2 DEF AtTheEnd
<1>7. CASE ~IsGenerator(c) /\ ~(world[c].kind = "iterator" /\ v = None)
  <2>1. result' \in {Nothing, Failed}
    BY <1>1, <1>7 DEF Enter
  <2> QED BY <2>1 DEF Nothing, Failed
<1> QED BY <1>5, <1>6, <1>7

LEMMA PassedOnStops ==
    ASSUME TreeInv, TreeInv', IsTree(world), DataInv, PartsInv, StopsForGood,
           NEW o \in Objects, Adapt(o), ~AdapterAsks(o), NEW r, Replies(o, r), PassesOn(o, r),
           r.type = "stop"
    PROVE  HasStopped(o)'
<1>1. /\ o \in Adapters /\ o \notin Generators /\ OnlyTouches(o) /\ result # Nothing
      /\ lasti' = lasti /\ world' = world /\ active # <<>> /\ Top.obj = o
  BY AdapterForms
<1>2. r = result /\ Answer(r) /\ result' = r
  BY DEF PassesOn, Replies, Answer
<1> PICK w : w = Len(Top.got) + 1
  OBVIOUS
<1>3. Got(active, o) = Top.got /\ Len(active) \in 1 .. Len(active) /\ IsStack(active)
  BY <1>1, TopCall
<1>4. (\E S : Top.got \in Seq(S)) /\ Len(Top.got) < Len(world[o].of)
  BY <1>1, <1>3 DEF TreeInv, IterationInv, CallsInv, PartsFit, Top
<1>5. o # 0 /\ world[o].kind # "generator" /\ world[o].kind \in AdapterKinds /\ TypeInv
  BY <1>1, ObjectsAssumption
     DEF Adapters, Generators, IsGenerator, AdapterKinds, TreeInv, IterationInv
<1>6. PICK c : Awaits(Top, lasti, c)
  BY <1>1 DEF TreeInv, ChainInv, TopAwaits, Top
<1>7. c = world[o].of[w] /\ w \in Places(world, o)
  <2>1. PlaceOf(Top, lasti) = w
    BY <1>1 DEF PlaceOf
  <2> QED BY <2>1, <1>1, <1>5, <1>6 DEF Awaits, AskedAt
<1>8. c \in Objects /\ w \in 1 .. Len(world[o].of)
  BY <1>1, <1>5, <1>7, PlacesAskObjects
<1>9. HasStopped(c)
  BY <1>1, <1>2, <1>6, <1>8 DEF StopsForGood
<1>10. PICK past \in SUBSET Objects : c \in past /\ AtTheEnd(past)
  BY <1>9 DEF HasStopped
<1>11. AtTheEnd(past)'
  BY <1>10, AdaptKeepsEnds
<1>12. Got(active', o) = <<>>
  <2>1. \A g \in Generators : g # o => lasti'[g] = lasti[g]
    BY <1>1
  <2>2. r # Nothing
    BY DEF Replies
  <2>3. \A i \in 1 .. Len(active') : active'[i].obj # o
    BY <1>1, <1>2, <2>1, <2>2, BelowTop
  <2> PICK calls : calls = active'
    OBVIOUS
  <2> QED BY <2>3, GotNowhere
<1>13. world[o].kind \in {"enumerate", "filter"} => world[o].of[1] \in past
  <2> SUFFICES ASSUME world[o].kind \in {"enumerate", "filter"} PROVE world[o].of[1] = c
    BY <1>10
  <2>1. Top.got = <<>>
    BY <1>1, <1>3 DEF PartsInv, Top
  <2>2. w = 1
    BY <2>1
  <2> QED BY <2>2, <1>7
<1>14. world[o].kind = "zip" => \E j \in 1 .. Len(world[o].of) :
                                   world[o].of[j] \in past /\ Len(Got(active', o)) < j
  <2>1. Len(Got(active', o)) = 0 /\ w > 0
    BY <1>8, <1>12
  <2> QED BY <2>1, <1>7, <1>8, <1>10
<1>15. result'.type # "item"
  BY <1>2
<1> DEFINE more == past \cup {o}
<1>16. AtTheEnd(more)'
  <2>1. Got(active, o)' = Got(active', o)
    BY DEF Got
  <2>2. world'[o].kind \notin {"generator", "iterator"}
    BY <1>1, <1>5 DEF AdapterKinds
  <2>3. \A x : Got(active, x)' = Got(active', x)
    BY DEF Got
  <2>4. world[o].kind \in {"enumerate", "filter"} => world[o].of[1] \in more
    BY <1>13
  <2>5. world[o].kind = "zip" => \E j \in 1 .. Len(world[o].of) :
                                    world[o].of[j] \in more /\ Len(Got(active', o)) < j
    BY <1>14
  <2>6. ASSUME NEW x \in past
        PROVE  /\ world'[x].kind = "generator" => ~running'[x] /\ Over(x)'
               /\ world'[x].kind = "iterator" => index'[x] >= Len(world'[x].seq)
               /\ world'[x].kind \in {"enumerate", "filter"} =>
                     world'[x].of[1] \in more /\ Got(active', x) = <<>>
               /\ world'[x].kind = "zip" => \E j \in 1 .. Len(world'[x].of) :
                                              world'[x].of[j] \in more /\ Len(Got(active', x)) < j
    BY <1>11, <2>3 DEF AtTheEnd
  <2> HIDE DEF more
  <2>7. \A x \in more : x \in past \/ x = o
    BY DEF more
  <2> QED BY <1>1, <1>12, <1>15, <2>2, <2>3, <2>4, <2>5, <2>6, <2>7 DEF AtTheEnd
<1> QED BY <1>10, <1>16 DEF HasStopped

LEMMA StopsStep ==
    ASSUME TreeInv, TreeInv', IsTree(world), DataInv, ResultInv, AsksInv, PartsInv, StopsForGood,
           NEW root, Asked = {root}, [Next]_vars
    PROVE  StopsForGood'
<1>1. TypeInv /\ TypeInv'
  BY DEF TreeInv, IterationInv
<1>2. CASE result' = Nothing
  BY <1>2 DEF StopsForGood, Nothing
<1>3. ASSUME NEW o, Awaits(Top, lasti, o)', result'.type = "stop" => HasStopped(o)'
      PROVE  StopsForGood'
  <2>1. \A c : Awaits(Top, lasti, c)' => c = o
    BY <1>1, <1>3 DEF Awaits
  <2> QED BY <1>3, <2>1 DEF StopsForGood
<1>4. CASE UNCHANGED vars
  <2>1. /\ world' = world /\ lasti' = lasti /\ active' = active /\ result' = result
    BY <1>4 DEF vars
  <2>2. \A c : Awaits(Top, lasti, c)' <=> Awaits(Top, lasti, c)
    BY <2>1 DEF Awaits, PlaceOf, Top, Generators, IsGenerator
  <2>3. \A c : HasStopped(c) => HasStopped(c)'
    BY <1>4, UnchangedKeepsEnds DEF HasStopped
  <2> QED BY <2>1, <2>2, <2>3 DEF StopsForGood
<1>5. CASE FrameSteps
  <2> PICK g \in Objects : Execute(g) /\ ~AsksFor(g)
    BY <1>5 DEF FrameSteps
  <2>1. /\ g \in Generators /\ OnlyTouches(g)
        /\ Remains \/ \E r : Replies(g, r) /\ (r.type = "stop" => ~running'[g] /\ Over(g)')
    BY OpcodeForms
  <2>2. CASE Remains
    BY <2>2, <1>2 DEF Remains
  <2>3. ASSUME NEW r, Replies(g, r), r.type = "stop" => ~running'[g] /\ Over(g)'
        PROVE  StopsForGood'
    <3>1. result' = r /\ Awaits(Top, lasti, g)' /\ world' = world
      BY <2>1, <2>3, RepliedIsOld DEF Replies
    <3>2. ASSUME r.type = "stop" PROVE HasStopped(g)'
      <4>1. world'[g].kind = "generator" /\ result'.type # "item"
        BY <2>1, <3>1, <3>2 DEF Generators, IsGenerator
      <4>2. AtTheEnd({g})'
        BY <2>3, <3>2, <4>1 DEF AtTheEnd
      <4> QED BY <4>2 DEF HasStopped
    <3> QED BY <3>1, <3>2, <1>3
  <2> QED BY <2>1, <2>2, <2>3
<1>6. CASE AdapterSteps
  <2> PICK o \in Objects : Adapt(o) /\ ~AdapterAsks(o)
    BY <1>6 DEF AdapterSteps
  <2>1. OnlyTouches(o) /\ (Remains \/ TakesPart(o) \/ \E r : Replies(o, r) /\ PassesOn(o, r))
    BY AdapterForms
  <2>2. CASE Remains \/ TakesPart(o)
    BY <2>2, <1>2 DEF Remains, TakesPart
  <2>3. ASSUME NEW r, Replies(o, r), PassesOn(o, r)
        PROVE  StopsForGood'
    <3>1. result' = r /\ Awaits(Top, lasti, o)'
      BY <2>1, <2>3, RepliedIsOld
    <3>2. r.type = "stop" => HasStopped(o)'
      BY <2>3, PassedOnStops
    <3> QED BY <3>1, <3>2, <1>3
  <2> QED BY <2>1, <2>2, <2>3
<1>7. CASE Hear
  BY <1>7, <1>2, HearForms
<1>8. CASE SomeAsks
  <2> PICK c, v, calls : Asks(c, v, calls)
    BY <1>8 DEF SomeAsks
  <2>1. CASE result'.type = "stop"
    <3>1. AtTheEnd({c})' /\ Awaits(Top, lasti, c)' /\ c \in Objects
      BY <1>1, <2>1, AskedStops DEF Asks
    <3>2. HasStopped(c)'
      BY <3>1 DEF HasStopped
    <3> QED BY <3>1, <3>2, <1>3
  <2>2. CASE result'.type # "stop"
    BY <2>2 DEF StopsForGood
  <2> QED BY <2>1, <2>2
<1> QED BY <1>4, <1>5, <1>6, <1>7, <1>8, StepForms

-------------------------------------------------------------------------------
(* The types of the rest of the state.                                        *)
LEMMA ResultStep ==
    ASSUME TreeInv, TreeInv', IsTree(world), DataInv, ResultInv, AsksInv,
           NEW root, Asked = {root}, [Next]_vars
    PROVE  ResultInv'
<1>1. CASE result' = Nothing
  BY <1>1 DEF ResultInv
<1>2. CASE result' = result
  BY <1>2 DEF ResultInv
<1>3. CASE FrameSteps
  <2> PICK g \in Objects : Execute(g) /\ ~AsksFor(g)
    BY <1>3 DEF FrameSteps
  <2>1. /\ OnlyTouches(g)
        /\ Remains \/ \E r : Replies(g, r) /\ r.type \in {"item", "stop", "stopped", "error"}
    BY OpcodeForms
  <2> QED BY <2>1, <1>1 DEF Remains, Replies, Answer, ResultInv
<1>4. CASE AdapterSteps
  <2> PICK o \in Objects : Adapt(o) /\ ~AdapterAsks(o)
    BY <1>4 DEF AdapterSteps
  <2>1. OnlyTouches(o) /\ (Remains \/ TakesPart(o) \/ \E r : Replies(o, r) /\ PassesOn(o, r))
    BY AdapterForms
  <2>2. CASE Remains \/ TakesPart(o)
    BY <2>2, <1>1 DEF Remains, TakesPart
  <2>3. ASSUME NEW r, Replies(o, r), PassesOn(o, r)
        PROVE  result' = result \/ result'.type = "item"
    BY <2>3 DEF Replies, PassesOn, Answer
  <2>4. result'.type = "item" => ResultInv'
    BY DEF ResultInv
  <2> QED BY <2>1, <2>2, <2>3, <2>4, <1>2
<1>5. CASE Hear
  BY <1>5, <1>1, HearForms
<1>6. CASE SomeAsks
  <2> PICK c, v, calls : Enter(c, v, calls)
    BY <1>6 DEF SomeAsks, Asks
  <2>1. result' \in {Nothing, Stop, Failed} \/ \E i : result' = Item(i)
    BY DEF Enter, Send, NextOfSequence
  <2> QED BY <2>1 DEF ResultInv, Nothing, Stop, Failed, Item
<1>7. CASE UNCHANGED vars
  BY <1>2, <1>7 DEF vars
<1> QED BY <1>3, <1>4, <1>5, <1>6, <1>7, StepForms

LEMMA DataStep ==
    ASSUME TreeInv, IsTree(world), DataInv, ResultInv, AsksInv, SentTypes',
           NEW root, Asked = {root}, [Next]_vars
    PROVE  DataInv'
<1>1. index \in [Objects -> Nat]
  BY DEF DataInv
<1>2. CASE index' = index \/ \E o : index' = [index EXCEPT ![o] = @ + 1]
  <2>1. index' \in [Objects -> Nat]
    BY <1>1, <1>2
  <2>2. \E S : top' \in [Objects -> S]
    BY DEF SentTypes
  <2> QED BY <2>1, <2>2 DEF DataInv
<1>3. CASE FrameSteps
  BY <1>2, <1>3, OpcodeForms DEF FrameSteps
<1>4. CASE AdapterSteps
  BY <1>2, <1>4, AdapterForms DEF AdapterSteps
<1>5. CASE Hear
  BY <1>2, <1>5, HearForms
<1>6. CASE SomeAsks
  BY <1>2, <1>6 DEF SomeAsks, Asks, Enter, NextOfSequence
<1>7. CASE UNCHANGED vars
  BY <1>2, <1>7 DEF vars
<1> QED BY <1>3, <1>4, <1>5, <1>6, <1>7, StepForms

\* Only Hear changes the ask that is active, or what has been heard.
AskStays ==
    /\ heard' = heard
    /\ active' = <<>> => active = <<>>
    /\ active' # <<>> => \/ active # <<>> /\ active'[1] = active[1]
                         \/ active = <<>> /\ IsAsk(active'[1]) /\ active'[1].got = <<>>

LEMMA FirstStays ==
    ASSUME TreeInv, TreeInv', IsTree(world), DataInv, ResultInv, [Next]_vars
    PROVE  Hear \/ AskStays
<1>1. CASE active' = active /\ heard' = heard
  BY <1>1 DEF AskStays
<1>2. ASSUME NEW o, NEW r, Replies(o, r), OnlyTouches(o)
      PROVE  AskStays
  <2>1. /\ active # <<>> /\ o \in Objects /\ Top.obj = o /\ r # Nothing /\ Answer(r) /\ world' = world
        /\ heard' = heard /\ \A g \in Generators : g # o => lasti'[g] = lasti[g]
    BY <1>2 DEF Replies, OnlyTouches, Generators
  <2>2. active' # <<>> /\ active'[1] = active[1]
    BY <2>1, BelowTop
  <2> QED BY <2>1, <2>2 DEF AskStays
<1>3. CASE FrameSteps
  <2> PICK g \in Objects : Execute(g) /\ ~AsksFor(g)
    BY <1>3 DEF FrameSteps
  <2>1. OnlyTouches(g) /\ (Remains \/ \E r : Replies(g, r))
    BY OpcodeForms
  <2> QED BY <2>1, <1>1, <1>2 DEF Remains
<1>4. CASE AdapterSteps
  <2> PICK o \in Objects : Adapt(o) /\ ~AdapterAsks(o)
    BY <1>4 DEF AdapterSteps
  <2>1. /\ OnlyTouches(o) /\ heard' = heard /\ active # <<>> /\ Top.obj = o
        /\ Remains \/ TakesPart(o) \/ \E r : Replies(o, r)
    BY AdapterForms
  <2>2. CASE TakesPart(o)
    <3>1. active' # <<>> => active'[1].obj = 0
      BY DEF TreeInv, ChainInv, Based
    <3>2. IsStack(active) /\ IsStack(active')
      BY DEF TreeInv, IterationInv, CallsInv
    <3>3. active' = [active EXCEPT ![Len(active)].got = Append(Top.got, result.value)]
      BY <2>2 DEF TakesPart
    <3>4. active' # <<>> /\ 1 \in 1 .. Len(active')
      <4>1. DOMAIN active' = DOMAIN active
        BY <3>3
      <4>2. Len(active') = Len(active) /\ Len(active) \in Nat \ {0}
        <5> PICK S : active \in Seq(S)
          BY <3>2 DEF IsStack
        <5> PICK T : active' \in Seq(T)
          BY <3>2 DEF IsStack
        <5> QED BY <4>1, <2>1
      <4> QED BY <4>2
    <3>5. active'[1] = active[1]
      BY <2>1, <2>2, <3>1, <3>4, PartTaken, ObjectsAssumption
    <3> QED BY <2>1, <3>4, <3>5 DEF AskStays
  <2> QED BY <2>1, <2>2, <1>1, <1>2 DEF Remains
<1>5. CASE SomeAsks
  <2> PICK c, v, calls : Asks(c, v, calls)
    BY <1>5 DEF SomeAsks
  <2>1. /\ calls # <<>> /\ IsStack(calls) /\ heard' = heard
        /\ \/ calls = active
           \/ active = <<>> /\ calls[1].got = <<>> /\ IsAsk(calls[1])
    BY DEF Asks
  <2>2. active' # <<>> /\ active'[1] = calls[1]
    <3>1. CASE active' = calls
      BY <3>1, <2>1
    <3>2. CASE active' = Append(calls, Calling(c))
      <4>1. /\ Len(calls) \in Nat /\ Len(active') = Len(calls) + 1 /\ IsStack(active')
            /\ \A i \in 1 .. Len(calls) : active'[i] = calls[i]
        BY <3>2, <2>1, StackGrows DEF Calling
      <4>2. 1 \in 1 .. Len(calls)
        BY <2>1 DEF IsStack
      <4>3. active' # <<>>
        BY <4>1
      <4> QED BY <4>1, <4>2, <4>3
    <3> QED BY <3>1, <3>2, AskedForms DEF TreeInv, IterationInv
  <2> QED BY <2>1, <2>2 DEF AskStays
<1>6. CASE UNCHANGED vars
  BY <1>1, <1>6 DEF vars
<1> QED BY <1>3, <1>4, <1>5, <1>6, StepForms

LEMMA AsksStep ==
    ASSUME TreeInv, TreeInv', IsTree(world), DataInv, ResultInv, AsksInv,
           NEW root, Asked = {root}, [Next]_vars
    PROVE  AsksInv'
<1>1. CASE AskStays
  <2>1. active' # <<>> => IsAsk(active'[1])
    BY <1>1 DEF AskStays, AsksInv
  <2>2. heard' = heard
    BY <1>1 DEF AskStays
  <2> QED BY <2>1, <2>2 DEF AsksInv
<1>2. CASE Hear /\ GoesOn(root)
  BY <1>2 DEF GoesOn, AsksInv
<1>3. ASSUME Hear, NEW ask, IsOver(ask) PROVE AsksInv'
  <2>1. active # <<>> /\ Top.obj = 0 /\ world' = world
    BY <1>3, HearForms
  <2>2. active' = <<>> /\ heard' = Append(heard, ask)
    BY <1>3 DEF IsOver
  <2> PICK S : heard \in Seq(S)
    BY DEF AsksInv
  <2>3. heard' \in Seq(S \cup {ask})
    BY <2>2
  <2>4. HeardBefore \in Nat /\ IsAsk(active[1])
    BY <2>1, HeardBeforeIsNat DEF AsksInv
  <2>5. ask.before \in Nat
    BY <1>3, <2>4 DEF IsOver
  <2>6. Len(ask.items) \in Nat
    <3> PICK T : active[1].got \in Seq(T)
      BY <2>4 DEF IsAsk
    <3>1. active[1].got \in Seq(T \cup {result.value}) /\ result.value \in T \cup {result.value}
      OBVIOUS
    <3>2. Append(active[1].got, result.value) \in Seq(T \cup {result.value})
      BY <3>1
    <3>3. ask.items = active[1].got \/ ask.items = Append(active[1].got, result.value)
      BY <1>3 DEF IsOver
    <3> QED BY <3>1, <3>2, <3>3
  <2>7. PICK k : k = Len(heard) + 1
    OBVIOUS
  <2>8. /\ Len(heard) \in Nat /\ Len(heard') = k /\ heard'[k] = ask
        /\ \A n \in 1 .. Len(heard) : heard'[n] = heard[n]
    BY <1>3, <2>1, <2>7, HeardLonger
  <2>9. ASSUME NEW n \in 1 .. Len(heard') PROVE heard'[n].before \in Nat /\ Len(heard'[n].items) \in Nat
    <3>1. n \in 1 .. Len(heard) \/ n = k
      BY <2>7, <2>8
    <3>2. CASE n \in 1 .. Len(heard)
      BY <3>2, <2>8 DEF AsksInv
    <3>3. CASE n = k
      BY <3>3, <2>5, <2>6, <2>8
    <3> QED BY <3>1, <3>2, <3>3
  <2> QED BY <2>2, <2>3, <2>9 DEF AsksInv
<1> QED BY <1>1, <1>2, <1>3, FirstStays, HearForms

-------------------------------------------------------------------------------
(* Every step leaves the objects where they are meant to be.                  *)
LEMMA StutterAsWritten ==
    ASSUME TreeInv, IsTree(world), UNCHANGED vars,
           NEW root, NEW given, NEW unended, AsWritten(root, given, unended)
    PROVE  AsWritten(root, given, unended)'
<1>1. /\ world' = world /\ running' = running /\ yielded' = yielded /\ lasti' = lasti
      /\ index' = index /\ active' = active /\ result' = result /\ heard' = heard /\ top' = top
  BY DEF vars, frames
<1>2. \A x : Got(active, x)' = Got(active, x)
  BY <1>1 DEF Got
<1>3. \A x : Mean(x)' = Mean(x) /\ Items(x)' = Items(x)
  BY <1>1 DEF Items, Mean
<1>4. \A x : (Goes(x)' <=> Goes(x)) /\ (Pending(x)' <=> Pending(x)) /\ (Ending(x)' <=> Ending(x))
  BY <1>1 DEF Goes, Pending, Ending, Top
<1>5. Generators' = Generators /\ Top' = Top
  BY <1>1 DEF Generators, IsGenerator, Top
<1>6. \A x : WaitsAt(x)' = WaitsAt(x)
  BY <1>1, <1>2, <1>5 DEF WaitsAt
<1>7. ASSUME NEW x \in unended PROVE ObjectAsWritten(x, given, unended)'
  <2>1. \A q : AskedAt(world, x, q)' = AskedAt(world, x, q)
    BY <1>1 DEF AskedAt
  <2>2. SeesTheSame(x, given, unended, given, unended)
    BY <1>4, <1>6, <2>1 DEF SeesTheSame, TakenAt, HereAt
  <2>3. Still(x) /\ Got(active', x) = Got(active, x)
    BY <1>1 DEF Still
  <2>4. x \in Objects /\ TypeInv /\ ObjectAsWritten(x, given, unended)
    BY DEF AsWritten, TreeInv, IterationInv
  <2> QED BY <1>1, <1>4, <2>2, <2>3, <2>4, SameView
<1>8. \A c : Awaits(Top, lasti, c)' <=> Awaits(Top, lasti, c)
  BY <1>1, <1>5 DEF Awaits, PlaceOf
<1>9. AnswerAsWritten(given, unended)'
  BY <1>1, <1>3, <1>8 DEF AnswerAsWritten, AsWritten
<1>10. AskAsWritten(root, given, unended)'
  <2>1. HeardBefore' = HeardBefore
    BY <1>1 DEF HeardBefore
  <2> QED BY <1>1, <1>3, <1>4, <2>1 DEF AskAsWritten, AsWritten
<1> QED BY <1>1, <1>7, <1>9, <1>10 DEF AsWritten

\* What is quiet has been quiet.
LEMMA BegunWith ==
    ASSUME TreeInv, NEW how, NEW o \in Asked, NEW v, Begin(how, o, v)
    PROVE  active' # <<>> /\ active'[1].sent = v
<1> PICK c : c = Asking(how, o, v)
  OBVIOUS
<1> PICK calls : calls = <<c>>
  OBVIOUS
<1>1. Enter(o, v, calls) /\ o \in Objects /\ TypeInv
  BY ObjectsAssumption DEF Begin, TreeInv, IterationInv
<1>2. c.sent = v /\ DOMAIN c = {"obj", "got", "how", "of", "sent"}
  BY DEF Asking
<1>3. calls \in Seq({c}) /\ Len(calls) = 1 /\ calls[1] = c /\ calls # <<>>
  OBVIOUS
<1>4. IsStack(calls)
  <2>1. \A i \in 1 .. Len(calls) : {"obj", "got"} \subseteq DOMAIN calls[i]
    BY <1>2, <1>3
  <2> QED BY <2>1, <1>3 DEF IsStack
<1>5. active' = calls \/ active' = Append(calls, Calling(o))
  BY <1>1, EnterForms
<1>6. CASE active' = Append(calls, Calling(o))
  <2>1. /\ Len(active') = Len(calls) + 1 /\ IsStack(active')
        /\ \A i \in 1 .. Len(calls) : active'[i] = calls[i]
    BY <1>4, <1>6, StackGrows DEF Calling
  <2>2. 1 \in 1 .. Len(calls) /\ Len(active') = 2
    BY <1>3, <2>1
  <2>3. active' # <<>>
    BY <2>2
  <2> QED BY <1>2, <1>3, <2>1, <2>2, <2>3
<1> QED BY <1>2, <1>3, <1>5, <1>6

LEMMA QuietBefore ==
    ASSUME TreeInv, TreeInv', IsTree(world), DataInv, ResultInv, AsksInv,
           NEW root, Asked = {root}, [Next]_vars, Quiet'
    PROVE  /\ Quiet
           /\ \A ask : Hear /\ IsOver(ask) => result.type = "item"
<1>1. CASE AskStays /\ ~Hear
  BY <1>1 DEF AskStays, Quiet
<1>2. CASE Hear /\ GoesOn(root)
  <2>1. active' # <<>> /\ heard' = heard /\ active'[1].sent = active[1].sent
    BY <1>2 DEF GoesOn
  <2>2. Quiet
    BY <2>1 DEF Quiet
  <2> QED BY <1>2, <2>1, <2>2 DEF IsOver
<1>3. ASSUME Hear, NEW ask, IsOver(ask) PROVE Quiet /\ result.type = "item"
  <2>1. /\ active # <<>> /\ Top.obj = 0 /\ world' = world /\ result # Nothing
    BY <1>3, HearForms
  <2>2. Top = active[1]
    BY <2>1, OutsideIsFirst
  <2>3. PICK k : k = Len(heard) + 1
    OBVIOUS
  <2>4. /\ Len(heard) \in Nat /\ Len(heard') = k /\ heard'[k] = ask
        /\ \A n \in 1 .. Len(heard) : heard'[n] = heard[n]
    BY <1>3, <2>1, <2>3, HeardLonger
  <2>5. k \in 1 .. Len(heard') /\ \A n \in 1 .. Len(heard) : n \in 1 .. Len(heard')
    BY <2>3, <2>4
  <2>6. ask.end = "item" /\ ask.sent = None
    BY <2>4, <2>5 DEF Quiet
  <2>7. \A n \in 1 .. Len(heard) : heard[n].end = "item" /\ heard[n].sent = None
    BY <2>4, <2>5 DEF Quiet
  <2>8. active[1].sent = None
    BY <1>3, <2>6 DEF IsOver
  <2>9. result.type = "item"
    BY <1>3, <2>1, <2>2, <2>6, EndsOfAsks
  <2> QED BY <2>7, <2>8, <2>9 DEF Quiet
<1> QED BY <1>1, <1>2, <1>3, FirstStays, HearForms

LEMMA AsWrittenStep ==
    ASSUME TreeInv, TreeInv', IsTree(world), DataInv, ResultInv, AsksInv,
           NEW root, Asked = {root}, [Next]_vars, Quiet',
           NEW given, NEW unended, AsWritten(root, given, unended)
    PROVE  \E given2, unended2 : AsWritten(root, given2, unended2)'
<1>1. CASE \E g \in Objects : Execute(g)
  BY <1>1, ExecuteAsWritten
<1>2. CASE \E o \in Objects : Adapt(o)
  BY <1>2, AdaptAsWritten
<1>3. CASE AskAgain
  BY <1>3, AskAgainAsWritten
<1>4. CASE Hear
  <2>1. GoesOn(root) \/ (result.type = "item" /\ \E ask : IsOver(ask))
    BY <1>4, HearForms, QuietBefore
  <2>2. AsWritten(root, given, unended)'
    BY <1>4, <2>1, HearAsWritten
  <2> QED BY <2>2
<1>5. ASSUME NEW how, NEW o \in Asked, NEW v, Begin(how, o, v)
      PROVE  \E given2, unended2 : AsWritten(root, given2, unended2)'
  <2>1. active' # <<>> /\ active'[1].sent = v
    BY <1>5, BegunWith
  <2>2. v = None /\ o = root
    BY <2>1 DEF Quiet
  <2>3. Begin(how, root, v)
    BY <1>5, <2>2
  <2> QED BY <2>2, <2>3, BeginAsWritten
<1>6. CASE UNCHANGED vars
  <2>1. AsWritten(root, given, unended)'
    BY <1>6, StutterAsWritten
  <2> QED BY <2>1
<1> QED BY <1>1, <1>2, <1>3, <1>4, <1>5, <1>6 DEF Next, Running

-------------------------------------------------------------------------------
(* What has been heard, and what comes after the end.                         *)
AllSaid(root) == \A n \in 1 .. Len(heard) : UnendedAt(n) => Says(root, n)
IsMeant(root) == Quiet => \E given, unended : AsWritten(root, given, unended)

LEMMA SameSaid ==
    ASSUME world' = world, heard' = heard, NEW root
    PROVE  /\ AllSaid(root)' <=> AllSaid(root)
           /\ Mean(root)' = Mean(root)
           /\ \A n : UnendedAt(n)' <=> UnendedAt(n)
<1>1. Items(root)' = Items(root) /\ Mean(root)' = Mean(root)
  BY DEF Items, Mean
<1>2. \A n : Says(root, n)' <=> Says(root, n)
  BY <1>1 DEF Says
<1>3. \A n : UnendedAt(n)' <=> UnendedAt(n)
  BY DEF UnendedAt
<1> QED BY <1>1, <1>2, <1>3 DEF AllSaid

LEMMA SaidStep ==
    ASSUME TreeInv, TreeInv', IsTree(world), DataInv, ResultInv, AsksInv,
           NEW root, Asked = {root}, [Next]_vars, IsMeant(root), AllSaid(root)
    PROVE  AllSaid(root)'
<1>1. world' = world
  BY WorldStays DEF TreeInv
<1>2. CASE heard' = heard
  BY <1>1, <1>2, SameSaid
<1>3. ASSUME Hear, NEW ask, IsOver(ask) PROVE AllSaid(root)'
  <2>1. PICK k : k = Len(heard) + 1
    OBVIOUS
  <2>2. /\ Len(heard) \in Nat /\ Len(heard') = k
        /\ \A n \in 1 .. Len(heard) : /\ UnendedAt(n)' <=> UnendedAt(n)
                                      /\ Says(root, n)' <=> Says(root, n)
        /\ UnendedAt(k)' => Quiet
    BY <1>1, <1>3, <2>1, HeardLonger
  <2>3. UnendedAt(k)' => Says(root, k)'
    <3> SUFFICES ASSUME UnendedAt(k)' PROVE Says(root, k)'
      OBVIOUS
    <3>1. PICK given, unended : AsWritten(root, given, unended)
      BY <2>2 DEF IsMeant
    <3> QED BY <1>3, <2>1, <3>1, OverSays
  <2>4. \A n \in 1 .. k : n \in 1 .. Len(heard) \/ n = k
    BY <2>1, <2>2
  <2>5. ASSUME NEW n \in 1 .. k, UnendedAt(n)' PROVE Says(root, n)'
    BY <2>2, <2>3, <2>4, <2>5 DEF AllSaid
  <2> QED BY <2>2, <2>5 DEF AllSaid
<1> QED BY <1>2, <1>3, FirstStays, HearForms DEF AskStays, GoesOn

LEMMA LateStep ==
    ASSUME TreeInv, TreeInv', IsTree(world), DataInv, ResultInv, AsksInv, StopsForGood,
           NEW root, Asked = {root}, [Next]_vars, IsMeant(root), Late(root)
    PROVE  Late(root)'
<1>1. world' = world
  BY WorldStays DEF TreeInv
<1>2. HasStopped(root) => HasStopped(root)'
  BY StaysStopped
<1>3. HasStopped(root) /\ Hear => result.type # "item"
  <2> SUFFICES ASSUME HasStopped(root), Hear, result.type = "item" PROVE FALSE
    OBVIOUS
  <2>1. active # <<>> /\ Top.obj = 0
    BY HearForms
  <2>2. Awaits(Top, lasti, root) /\ root \in Objects
    BY <2>1, OutsideIsFirst, ObjectsAssumption
  <2> QED BY <2>1, <2>2 DEF HasStopped, AtTheEnd
<1>4. CASE /\ heard' = heard
           /\ HasStopped(root) /\ (active # <<>> => active[1].got = <<>>) /\ active' # <<>>
              => active'[1].got = <<>>
  <2>1. ASSUME NEW n \in 1 .. Len(heard'), UnendedAt(n)', heard'[n].end # "item", Mean(root)'.end = "stop"
        PROVE  /\ HasStopped(root)'
               /\ active' # <<>> => active'[1].got = <<>>
               /\ \A i \in n + 1 .. Len(heard') : heard'[i].items = <<>>
    <3>1. n \in 1 .. Len(heard) /\ UnendedAt(n) /\ heard[n].end # "item" /\ Mean(root).end = "stop"
      BY <1>1, <1>4, <2>1, SameSaid
    <3>2. /\ HasStopped(root)
          /\ active # <<>> => active[1].got = <<>>
          /\ \A i \in n + 1 .. Len(heard) : heard[i].items = <<>>
      BY <3>1 DEF Late
    <3> QED BY <3>2, <1>2, <1>4
  <2> QED BY <2>1 DEF Late
<1>5. ASSUME Hear, NEW ask, IsOver(ask) PROVE Late(root)'
  <2>1. PICK k : k = Len(heard) + 1
    OBVIOUS
  <2>2. /\ Len(heard) \in Nat /\ Len(heard') = k /\ heard'[k] = ask
        /\ \A n \in 1 .. Len(heard) : heard'[n] = heard[n] /\ (UnendedAt(n)' <=> UnendedAt(n))
        /\ UnendedAt(k)' => Quiet
    BY <1>1, <1>5, <2>1, HeardLonger
  <2>3. Mean(root)' = Mean(root)
    BY <1>1 DEF Mean
  <2>4. active # <<>> /\ Top.obj = 0 /\ result # Nothing
    BY <1>5, HearForms
  <2>5. Top = active[1] /\ Awaits(Top, lasti, root) /\ root \in Objects
    BY <2>4, OutsideIsFirst, ObjectsAssumption
  <2>6. active' = <<>> /\ (result.type # "item" => ask.items = active[1].got)
    BY <1>5 DEF IsOver
  <2>7. ASSUME UnendedAt(k)', ask.end # "item", Mean(root).end = "stop"
        PROVE  HasStopped(root)
    <3>1. PICK given, unended : AsWritten(root, given, unended)
      BY <2>2, <2>7 DEF IsMeant
    <3> PICK got : got = active[1].got
      OBVIOUS
    <3> PICK m : m = HeardBefore
      OBVIOUS
    <3>2. AnsweredWith(root, given, unended, got, m)
      BY <2>4, <3>1, AnswerOutside
    <3>3. result.type # "item"
      BY <1>5, <2>4, <2>5, <2>7, EndsOfAsks
    <3>4. result.type = "stop"
      BY <2>7, <3>2, <3>3 DEF AnsweredWith
    <3> QED BY <2>4, <2>5, <3>4 DEF StopsForGood
  <2>8. ASSUME NEW n \in 1 .. k, UnendedAt(n)', heard'[n].end # "item", Mean(root).end = "stop"
        PROVE  HasStopped(root)' /\ \A i \in n + 1 .. k : heard'[i].items = <<>>
    <3>1. CASE n = k
      <4>1. \A i \in n + 1 .. k : FALSE
        BY <2>1, <2>2, <3>1
      <4> QED BY <4>1, <2>2, <2>7, <2>8, <3>1, <1>2
    <3>2. CASE n \in 1 .. Len(heard)
      <4>1. UnendedAt(n) /\ heard[n].end # "item"
        BY <2>2, <2>8, <3>2
      <4>2. /\ HasStopped(root) /\ active[1].got = <<>>
            /\ \A i \in n + 1 .. Len(heard) : heard[i].items = <<>>
        BY <2>4, <2>8, <3>2, <4>1 DEF Late
      <4>3. ask.items = <<>>
        BY <4>2, <2>6, <1>3, <1>5
      <4>4. \A i \in n + 1 .. k : i = k \/ (i \in n + 1 .. Len(heard) /\ i \in 1 .. Len(heard))
        BY <2>1, <2>2, <3>2
      <4> QED BY <1>2, <2>2, <4>2, <4>3, <4>4
    <3>3. n = k \/ n \in 1 .. Len(heard)
      BY <2>1, <2>2
    <3> QED BY <3>1, <3>2, <3>3
  <2> QED BY <2>2, <2>3, <2>6, <2>8 DEF Late
<1>6. CASE AskStays
  BY <1>4, <1>6 DEF AskStays
<1>7. CASE Hear /\ GoesOn(root)
  BY <1>3, <1>4, <1>7 DEF GoesOn
<1> QED BY <1>5, <1>6, <1>7, FirstStays, HearForms

-------------------------------------------------------------------------------
(* At first nothing is given, and no object has ended.                        *)
LEMMA StartsAsWritten ==
    ASSUME Init, TypeInv, IsTree(world), NEW root \in Objects
    PROVE  AsWritten(root, [x \in Objects |-> 0], Objects)
<1> PICK given : given = [x \in Objects |-> 0]
  OBVIOUS
<1>1. given \in [Objects -> Nat] /\ \A x \in Objects : given[x] = 0
  OBVIOUS
<1>2. /\ active = <<>> /\ result = Nothing /\ heard = <<>>
      /\ \A x \in Objects : lasti[x] = 0 /\ ~running[x] /\ index[x] = 0
  BY DEF Init
<1>3. \A x : ~Goes(x) /\ ~Pending(x) /\ ~Ending(x) /\ Got(active, x) = <<>>
  <2>1. \A x : \A i \in 1 .. Len(active) : active[i].obj # x
    BY <1>2
  <2>2. \A x : Got(active, x) = <<>>
    BY <2>1, GotNowhere
  <2> QED BY <2>2, <1>2 DEF Goes, Pending, Ending
<1>4. ASSUME NEW x \in Objects, NEW q \in Places(world, x)
      PROVE  TakenAt(x, q, given) = 0 /\ HereAt(x, q, Objects)
  BY <1>1, <1>3, <1>4, PlacesAskObjects DEF TakenAt, HereAt
<1>5. ASSUME NEW x \in Objects PROVE ObjectAsWritten(x, given, Objects)
  <2>1. Len(Items(x)) \in Nat /\ ObjectMeans(world, Meaning[world], x)
    BY MeaningOfWorld
  <2>2. given[x] <= Len(Items(x))
    BY <1>1, <2>1
  <2>3. ASSUME world[x].kind = "generator" PROVE GeneratorAsWritten(x, given, Objects)
    <3>1. GeneratorMeans(world, Meaning[world], x)
      BY <2>1, <2>3 DEF ObjectMeans
    <3>2. 0 \in DOMAIN Mean(x).at /\ Mean(x).at[0] = 0
      BY <3>1 DEF GeneratorMeans, Mean
    <3>3. lasti[x] = 0 /\ ~Suspended(x) /\ given[x] = 0 /\ ~Goes(x)
      BY <1>1, <1>2, <1>3 DEF Suspended
    <3>4. StatementAsWritten(x, 0, given, Objects)
      <4> PICK passed : passed = IF Code(x)[0 + 1].op \in {"from", "iter"} THEN TakenAt(x, 0 + 1, given) ELSE 0
        OBVIOUS
      <4>1. Code(x)[0 + 1].op \in {"from", "iter", "next"} => 0 + 1 \in Places(world, x)
        <5>1. 0 + 1 = 1 /\ WellFormed(Code(x)) /\ 1 \in 1 .. Len(Code(x))
          BY <2>3, CodeIsWellFormed DEF WellFormed, Generators, IsGenerator
        <5>2. Code(x)[1].op \in {"next", "iter", "from"} => 1 \in Places(world, x)
          BY <5>1, <2>3 DEF Places, Code, AdapterKinds
        <5> QED BY <5>1, <5>2
      <4>2. passed = 0
        BY <4>1, <1>4
      <4>3. \A q \in Places(world, x) : q > 0 + 1 => HereAt(x, q, Objects) /\ TakenAt(x, q, given) = 0
        BY <1>4
      <4>4. 0 + 1 \in Places(world, x) => HereAt(x, 0 + 1, Objects)
        BY <1>4
      <4>5. Code(x)[0 + 1].op = "next" => TakenAt(x, 0 + 1, given) = 0
        BY <4>1, <1>4
      <4>6. given[x] = Mean(x).at[0] + passed
        BY <4>2, <3>2, <3>3
      <4> QED BY <4>3, <4>4, <4>5, <4>6, <3>3 DEF StatementAsWritten
    <3> QED BY <3>2, <3>3, <3>4 DEF GeneratorAsWritten
  <2>4. world[x].kind \in AdapterKinds => \A q \in 1 .. Len(world[x].of) : q \in Places(world, x)
    BY DEF Places, AdapterKinds
  <2>5. world[x].kind \in AdapterKinds => 1 \in 1 .. Len(world[x].of)
    BY WorldsAssumption DEF AdapterKinds, TypeInv
  <2>6. world[x].kind \in {"enumerate", "filter"} => HereAt(x, 1, Objects) /\ TakenAt(x, 1, given) = 0
    BY <2>4, <2>5, <1>4 DEF AdapterKinds
  <2>7. world[x].kind = "filter" => given[x] = Mean(x).at[TakenAt(x, 1, given)] /\ TakenAt(x, 1, given) \in Nat
    <3> SUFFICES ASSUME world[x].kind = "filter" PROVE Mean(x).at[0] = 0
      BY <1>1, <2>6
    <3> QED BY <2>1 DEF ObjectMeans, FilterMeans, Mean
  <2>8. world[x].kind = "zip" => ZipAsWritten(x, given, Objects)
    <3> SUFFICES ASSUME world[x].kind = "zip", NEW j \in 1 .. Len(world[x].of)
                 PROVE  /\ HereAt(x, j, Objects) /\ TakenAt(x, j, given) = given[x]
                        /\ ~(j <= Len(Got(active, x)))
      BY DEF ZipAsWritten
    <3>1. j \in Places(world, x)
      BY <2>4 DEF AdapterKinds
    <3>2. Len(Got(active, x)) = 0
      BY <1>3
    <3>3. j > 0
      BY <2>5, WorldsAssumption DEF TypeInv
    <3> QED BY <3>1, <3>2, <3>3, <1>1, <1>4
  <2> QED BY <1>1, <1>2, <1>3, <2>2, <2>3, <2>6, <2>7, <2>8 DEF ObjectAsWritten
<1>6. AnswerAsWritten(given, Objects)
  BY <1>2 DEF AnswerAsWritten
<1>7. AskAsWritten(root, given, Objects)
  BY <1>1, <1>2 DEF AskAsWritten, HeardBefore
<1>8. AsWritten(root, given, Objects)
  BY <1>1, <1>2, <1>5, <1>6, <1>7 DEF AsWritten
<1> QED BY <1>8

(* All that is kept from step to step.                                        *)
FromOutside(root) ==
    /\ DataInv /\ AsksInv /\ ResultInv /\ PartsInv /\ StopsForGood
    /\ IsMeant(root) /\ AllSaid(root) /\ Late(root)

ItemsInv ==
    /\ ArriveInv
    /\ IsTree(world) => \A root \in Asked : Asked = {root} => FromOutside(root)

LEMMA ItemsStart == Init => ItemsInv
<1> SUFFICES ASSUME Init PROVE ItemsInv
  OBVIOUS
<1>1. ArriveInv /\ TypeInv
  BY ArriveStart DEF ArriveInv, TreeInv, IterationInv
<1>2. /\ active = <<>> /\ result = Nothing /\ heard = <<>>
      /\ index \in [Objects -> Nat] /\ top \in [Objects -> {None}]
  BY DEF Init
<1>3. ASSUME IsTree(world), NEW root \in Asked, Asked = {root}
      PROVE  FromOutside(root)
  <2>1. root \in Objects
    BY ObjectsAssumption
  <2>2. DataInv
    BY <1>2 DEF DataInv
  <2>3. AsksInv
    <3>1. heard \in Seq({}) /\ \A n \in 1 .. Len(heard) : FALSE
      BY <1>2
    <3> QED BY <3>1, <1>2 DEF AsksInv
  <2>4. ResultInv /\ StopsForGood
    BY <1>2 DEF ResultInv, StopsForGood
  <2>5. PartsInv
    BY <1>2 DEF PartsInv
  <2>6. IsMeant(root)
    BY <1>1, <1>3, <2>1, StartsAsWritten DEF IsMeant
  <2>7. AllSaid(root) /\ Late(root)
    BY <1>2 DEF AllSaid, Late
  <2> QED BY <2>2, <2>3, <2>4, <2>5, <2>6, <2>7 DEF FromOutside
<1> QED BY <1>1, <1>3 DEF ItemsInv

LEMMA ItemsStep == ItemsInv /\ [Next]_vars => ItemsInv'
<1> SUFFICES ASSUME ItemsInv, [Next]_vars PROVE ItemsInv'
  OBVIOUS
<1>1. ArriveInv /\ ArriveInv'
  BY ArriveStep DEF ItemsInv
<1>2. TreeInv /\ TreeInv' /\ SentTypes'
  BY <1>1 DEF ArriveInv
<1>3. world' = world
  BY <1>2, WorldStays DEF TreeInv
<1>4. ASSUME IsTree(world), NEW root \in Asked, Asked = {root}
      PROVE  FromOutside(root)'
  <2>1. /\ DataInv /\ AsksInv /\ ResultInv /\ PartsInv /\ StopsForGood
        /\ IsMeant(root) /\ AllSaid(root) /\ Late(root)
    BY <1>4 DEF ItemsInv, FromOutside
  <2>2. DataInv' /\ AsksInv' /\ ResultInv'
    BY <1>2, <1>4, <2>1, DataStep, AsksStep, ResultStep
  <2>3. PartsInv' /\ StopsForGood'
    BY <1>2, <1>4, <2>1, PartsStep, StopsStep
  <2>4. AllSaid(root)' /\ Late(root)'
    BY <1>2, <1>4, <2>1, SaidStep, LateStep
  <2>5. IsMeant(root)'
    <3> SUFFICES ASSUME Quiet' PROVE \E given, unended : AsWritten(root, given, unended)'
      BY DEF IsMeant
    <3>1. Quiet
      BY <1>2, <1>4, <2>1, QuietBefore
    <3>2. PICK given, unended : AsWritten(root, given, unended)
      BY <2>1, <3>1 DEF IsMeant
    <3> QED BY <1>2, <1>4, <2>1, <3>2, AsWrittenStep
  <2> QED BY <2>2, <2>3, <2>4, <2>5 DEF FromOutside
<1>5. ASSUME IsTree(world'), NEW root \in Asked, Asked = {root}
      PROVE  FromOutside(root)'
  BY <1>3, <1>4, <1>5
<1> QED BY <1>1, <1>5 DEF ItemsInv

(* However the asks are mixed, and through whatever generators, loops, yield  *)
(* froms, enumerates, filters and zips it gets them, the object asked from    *)
(* outside gives the items that its program means, in order, none twice and   *)
(* none left out, ends as it means to, and gives nothing after its stop.      *)
THEOREM IterationItemsAsWritten == Spec => []ItemsAsWritten
<1>1. ItemsInv => ItemsAsWritten
  <2> SUFFICES ASSUME ItemsInv, NEW root \in Asked, Asked = {root}, IsTree(world),
                      NEW n \in 1 .. Len(heard), UnendedAt(n)
               PROVE  LET ask     == heard[n]
                          meaning == Meaning[world][root]
                          upTo    == ask.before + Len(ask.items)
                      IN /\ ask.before = IF n = 1 THEN 0
                                         ELSE heard[n - 1].before + Len(heard[n - 1].items)
                         /\ upTo <= Len(meaning.items)
                         /\ \A i \in 1 .. Len(ask.items) : ask.items[i] = meaning.items[ask.before + i]
                         /\ ask.end # "item" =>
                               /\ upTo = Len(meaning.items)
                               /\ ask.end = EndFor(ask.how, meaning.end)
                               /\ meaning.end = "stop" =>
                                     \A i \in n + 1 .. Len(heard) : heard[i].items = <<>>
    BY DEF ItemsAsWritten
  <2>1. FromOutside(root)
    BY DEF ItemsInv
  <2>2. Says(root, n)
    BY <2>1 DEF FromOutside, AllSaid
  <2>3. heard[n].end # "item" /\ Mean(root).end = "stop" =>
            \A i \in n + 1 .. Len(heard) : heard[i].items = <<>>
    BY <2>1 DEF FromOutside, Late
  <2> QED BY <2>2, <2>3 DEF Says, Items, Mean
<1>2. Init => ItemsInv
  BY ItemsStart
<1>3. ItemsInv /\ [Next]_vars => ItemsInv'
  BY ItemsStep
<1> QED BY <1>1, <1>2, <1>3, PTL DEF Spec
===============================================================================
