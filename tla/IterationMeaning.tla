---------------------------- MODULE IterationMeaning ----------------------------
(***************************************************************************)
(* What generators and iterators give, by what their programs say.  It is  *)
(* said of objects that make a tree: each is asked at one place of one     *)
(* other, or from outside, and no place is come to twice.                  *)
(***************************************************************************)
EXTENDS Iteration

\* By world, what every object gives in all when it is asked again and again:
\* its items, the end after them, and at, which has the number of items given
\* before each place of a generator's code that it comes to, and before each
\* item that a filter takes.
CONSTANT Meaning

-------------------------------------------------------------------------------
(* Trees.  A body without branches: the only jump goes back to the loop that   *)
(* it ends, and that loop does nothing but give on what it is given.           *)

AdapterKinds == {"enumerate", "filter", "zip"}

Straight(code) ==
    \A i \in 1 .. Len(code) :
        /\ code[i].op \in {"yield", "raise", "next", "call", "from", "iter", "yield top",
                           "jump", "return"}
        /\ code[i].op = "from" => i > 1 /\ code[i - 1].op = "call"
        /\ code[i].op = "iter" => /\ i + 2 <= Len(code)
                                  /\ code[i + 1].op = "yield top"
                                  /\ code[i + 2].op = "jump"
                                  /\ code[i].exit = i + 2
        /\ code[i].op = "yield top" => i > 1 /\ code[i - 1].op = "iter"
        /\ code[i].op = "jump" => i > 2 /\ code[i - 2].op = "iter" /\ code[i].to = i - 3

\* The places where an object asks, and what it asks there.
Places(w, o) ==
    CASE w[o].kind = "generator" ->
           {i \in 1 .. Len(w[o].code) : w[o].code[i].op \in {"next", "iter", "from"}}
      [] w[o].kind \in AdapterKinds -> 1 .. Len(w[o].of)
      [] OTHER -> {}
AskedAt(w, o, i) == IF w[o].kind = "generator" THEN w[o].code[i].of ELSE w[o].of[i]

IsTree(w) ==
    /\ \A o \in Objects : w[o].kind = "generator" => Straight(w[o].code)
    /\ \A o \in Objects : \A i \in Places(w, o) :
          /\ AskedAt(w, o, i) \notin Asked
          /\ \A p \in Objects : \A j \in Places(w, p) :
                AskedAt(w, p, j) = AskedAt(w, o, i) => p = o /\ j = i

-------------------------------------------------------------------------------
(* What each kind of object means, by what those mean that it asks.            *)

\* A statement from place p of the code on gives its items after those that are
\* given before, and goes on or ends there.  A loop over an object ends when that
\* has no item, for whatever reason; yield from an object fails when it fails.
GeneratorMeans(w, m, g) ==
    LET code     == w[g].code
        items    == m[g].items
        at       == m[g].at
        Ends(n, end)     == Len(items) = n /\ m[g].end = end
        GoesOn(place, n) == place \in DOMAIN at /\ at[place] = n
    IN /\ GoesOn(0, 0)
       /\ \A p \in DOMAIN at :
             LET opcode == code[p + 1]
                 part   == m[opcode.of]
                 after  == at[p] + Len(part.items)
                 GivesAll == after <= Len(items)
                             /\ \A i \in 1 .. Len(part.items) : items[at[p] + i] = part.items[i]
             IN /\ p \in 0 .. Len(code) - 1
                /\ at[p] \in 0 .. Len(items)
                /\ CASE opcode.op = "yield" ->
                          /\ at[p] < Len(items) /\ items[at[p] + 1] = Leaf(g, opcode.n)
                          /\ GoesOn(p + 1, at[p] + 1)
                     [] opcode.op = "raise"  -> Ends(at[p], "error")
                     [] opcode.op = "return" -> Ends(at[p], "stop")
                     [] opcode.op = "call"   -> GoesOn(p + 1, at[p])
                     [] opcode.op = "next"   ->
                          IF Len(part.items) > 0 THEN GoesOn(p + 1, at[p])
                          ELSE Ends(at[p], IF part.end = "error" THEN "error" ELSE "stopped")
                     [] opcode.op = "from"   ->
                          /\ GivesAll
                          /\ IF part.end = "error" THEN Ends(after, "error") ELSE GoesOn(p + 1, after)
                     [] opcode.op = "iter"   -> GivesAll /\ GoesOn(opcode.exit, after)
                     [] OTHER -> FALSE

IteratorMeans(w, m, o) == m[o].items = w[o].seq /\ m[o].end = "stop"

EnumerateMeans(w, m, o) ==
    LET part == m[w[o].of[1]]
    IN /\ Len(m[o].items) = Len(part.items) /\ m[o].end = part.end
       /\ \A i \in 1 .. Len(part.items) : m[o].items[i] = Tuple(o, i - 1, <<part.items[i]>>)

FilterMeans(w, m, o) ==
    LET part == m[w[o].of[1]]
        at   == m[o].at
    IN /\ at \in [0 .. Len(part.items) -> 0 .. Len(m[o].items)]
       /\ at[0] = 0 /\ at[Len(part.items)] = Len(m[o].items) /\ m[o].end = part.end
       /\ \A p \in 0 .. Len(part.items) - 1 :
             IF ObjectIsTrue(part.items[p + 1])
             THEN at[p + 1] = at[p] + 1 /\ m[o].items[at[p] + 1] = part.items[p + 1]
             ELSE at[p + 1] = at[p]

\* The first that has no more ends all, when those before it have given one more.
ZipMeans(w, m, o) ==
    LET of == w[o].of
        n  == Len(m[o].items)
    IN /\ \A i \in 1 .. n : m[o].items[i] = Tuple(o, 0, [j \in 1 .. Len(of) |-> m[of[j]].items[i]])
       /\ \A j \in 1 .. Len(of) : n <= Len(m[of[j]].items)
       /\ \E j \in 1 .. Len(of) :
             /\ n = Len(m[of[j]].items) /\ m[o].end = m[of[j]].end
             /\ \A k \in 1 .. j - 1 : n < Len(m[of[k]].items)

ObjectMeans(w, m, o) ==
    CASE w[o].kind = "generator" -> GeneratorMeans(w, m, o)
      [] w[o].kind = "iterator"  -> IteratorMeans(w, m, o)
      [] w[o].kind = "enumerate" -> EnumerateMeans(w, m, o)
      [] w[o].kind = "filter"    -> FilterMeans(w, m, o)
      [] w[o].kind = "zip"       -> ZipMeans(w, m, o)

ASSUME MeaningAssumption ==
    \A w \in Worlds, o \in Objects : IsTree(w) =>
        /\ Len(Meaning[w][o].items) \in Nat
        /\ ObjectMeans(w, Meaning[w], o)

-------------------------------------------------------------------------------
\* How an ask ends that has come to the end of its object: list, which makes a
\* list of the items, knows only the StopIteration that no frame has raised.
EndFor(how, end) ==
    CASE how = "for" -> "done"
      [] how = "list" -> IF end = "stop" THEN "done" ELSE "error"
      [] how = "all" -> IF end = "error" THEN "error" ELSE "done"
      [] OTHER -> end

\* The object has not come to its end before ask n, and has been sent nothing.
UnendedAt(n) ==
    /\ \A i \in 1 .. n - 1 : heard[i].end = "item"
    /\ \A i \in 1 .. n : heard[i].sent = None

\* However the asks are mixed, the object that is asked from outside gives the
\* items its program means, in order, each once, and ends as it means to; when it
\* has stopped it gives nothing more.  This is about objects that make a tree, and
\* about asks that send nothing up to the first end.
ItemsAsWritten ==
    \A root \in Asked : Asked = {root} /\ IsTree(world) =>
        \A n \in 1 .. Len(heard) : UnendedAt(n) =>
            LET ask     == heard[n]
                meaning == Meaning[world][root]
                upTo    == ask.before + Len(ask.items)
            IN /\ ask.before = IF n = 1 THEN 0 ELSE heard[n - 1].before + Len(heard[n - 1].items)
               /\ upTo <= Len(meaning.items)
               /\ \A i \in 1 .. Len(ask.items) : ask.items[i] = meaning.items[ask.before + i]
               /\ ask.end # "item" =>
                     /\ upTo = Len(meaning.items)
                     /\ ask.end = EndFor(ask.how, meaning.end)
                     /\ meaning.end = "stop" => \A i \in n + 1 .. Len(heard) : heard[i].items = <<>>

\* The last values of the first are those of the second.
EndsWith(all, last) ==
    /\ Len(last) <= Len(all)
    /\ \A i \in 1 .. Len(last) : all[Len(all) - Len(last) + i] = last[i]

\* What is sent to a generator that is waiting in a yield from reaches the one
\* it waits for: since then both have been sent the same, in the same order,
\* and all of it before the next item comes back.
ValuesArrive ==
    \A g \in Objects :
        LET waiting == IsGenerator(g) /\ lasti[g] < Len(Code(g)) /\ Code(g)[lasti[g] + 1].op = "from"
            o       == Code(g)[lasti[g] + 1].of
        IN active = <<>> /\ IsTree(world) /\ waiting /\ yielded[g] /\ IsGenerator(o) =>
               EndsWith(received[g], received[o])
===============================================================================
