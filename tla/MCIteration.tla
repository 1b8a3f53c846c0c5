----------------------------- MODULE MCIteration ------------------------------
(***************************************************************************)
(* Generators and iterators of bounded shapes, against what their programs *)
(* mean: object 1 asks objects 2 and 3, and those ask nobody, or each      *)
(* other, or object 1 again.                                               *)
(***************************************************************************)
EXTENDS IterationMeaning, FiniteSets

LOCAL INSTANCE SequencesExt

MCObjects == 1 .. 3
MCSent    == {Leaf(0, 1)}

\* Statements, and the opcodes they are compiled to from a given place on.
Yield(n) == [do |-> "yield", n |-> n]
Raise    == [do |-> "raise"]
From(o)  == [do |-> "from", of |-> o]
For(o)   == [do |-> "for", of |-> o]
Once(o)  == [do |-> "next", of |-> o]

Opcodes(s, at) ==
    CASE s.do = "yield" -> <<[op |-> "yield", n |-> s.n]>>
      [] s.do = "raise" -> <<[op |-> "raise"]>>
      [] s.do = "next"  -> <<[op |-> "next", of |-> s.of]>>
      [] s.do = "from"  -> <<[op |-> "call"], [op |-> "from", of |-> s.of]>>
      [] s.do = "for"   -> <<[op |-> "call"], [op |-> "iter", of |-> s.of, exit |-> at + 4],
                             [op |-> "yield top"], [op |-> "jump", to |-> at + 1]>>

Generator(body) ==
    LET Placed(code, s) == code \o Opcodes(s, Len(code))
    IN [kind |-> "generator", body |-> body, of |-> <<>>,
        code |-> Append(FoldLeft(Placed, <<>>, body), [op |-> "return"])]
Iterator(o, size) ==
    [kind |-> "iterator", seq |-> [i \in 1 .. size |-> Leaf(o, i)], of |-> <<>>]
Adapting(kind, of) == [kind |-> kind, of |-> of]

Asks(s) == s.do \in {"from", "for", "next"}

\* A generator of at most two statements that asks no object twice; an object
\* that asks others.
Delegations == UNION {{From(o), For(o), Once(o)} : o \in {2, 3}}
Statements  == {Yield(1), Raise} \cup Delegations
Bodies == {<<s>> : s \in Statements}
          \cup {p \in Statements \X (Delegations \cup {Yield(2), Raise}) :
                  ~(Asks(p[1]) /\ Asks(p[2]) /\ p[1].of = p[2].of)}
Roots  == {Generator(b) : b \in {b \in Bodies : \E i \in DOMAIN b : Asks(b[i])}}
          \cup {Adapting("zip", <<2, 3>>), Adapting("zip", <<3, 2>>),
                Adapting("enumerate", <<2>>), Adapting("filter", <<2>>)}
Leaves(o) == {Generator(b) : b \in {<<>>, <<Yield(1), Yield(2)>>, <<Yield(1), Raise>>,
                                    <<Yield(1), Raise, Yield(2)>>, <<Raise, Yield(2)>>}}
             \cup {Iterator(o, 2)}
Third == {Generator(<<Yield(1), Raise>>), Iterator(3, 1)}

Tree(r, s, t) == [o \in MCObjects |-> CASE o = 1 -> r [] o = 2 -> s [] o = 3 -> t]
Trees == {Tree(r, s, t) : r \in Roots, s \in Leaves(2), t \in Third}

\* Generators that ask one another in a line and in a ring.
Line == {Tree(Generator(<<x>>), Generator(<<y>>), Generator(<<Yield(1), Yield(2)>>)) :
           x \in {From(2), For(2)}, y \in {From(3), For(3)}}
Ring == {Tree(Generator(<<x, Yield(2)>>), Generator(<<Yield(1), y>>), t) :
           x \in {From(2), For(2), Once(2)}, y \in {From(1), For(1), Once(1)}, t \in Third}

MCWorlds == Trees \cup Line \cup Ring

\* What an object gives in all and how it ends, from its statements alone, with
\* the places of its code where its statements begin and where they ask; nothing
\* that it asks is asked by another.
RECURSIVE MeaningOf(_, _)
RECURSIVE Meant(_, _, _, _)
MeaningOf(w, o) ==
    LET c(i)     == MeaningOf(w, w[o].of[i])
        Kept(n)  == SelectSeq(SubSeq(c(1).items, 1, n), ObjectIsTrue)
        Gives(items, end) == [items |-> items, end |-> end, at |-> <<>>]
    IN CASE w[o].kind = "generator" -> Meant(w, o, w[o].body, 0)
         [] w[o].kind = "iterator"  -> Gives(w[o].seq, "stop")
         [] w[o].kind = "enumerate" ->
              Gives([i \in DOMAIN c(1).items |-> Tuple(o, i - 1, <<c(1).items[i]>>)], c(1).end)
         [] w[o].kind = "filter" ->
              [Gives(Kept(Len(c(1).items)), c(1).end) EXCEPT
                  !.at = [n \in 0 .. Len(c(1).items) |-> Len(Kept(n))]]
         [] w[o].kind = "zip" ->
              LET both == DOMAIN c(1).items \cap DOMAIN c(2).items
              IN Gives([i \in both |-> Tuple(o, 0, <<c(1).items[i], c(2).items[i]>>)],
                       IF DOMAIN c(1).items = both THEN c(1).end ELSE c(2).end)

Meant(w, o, body, p) ==
    IF body = <<>> THEN [items |-> <<>>, end |-> "stop", at |-> p :> 0]
    ELSE LET s    == body[1]
             part == MeaningOf(w, s.of)
             rest == Meant(w, o, Tail(body), p + Len(Opcodes(s, p)))
             here == IF s.do \in {"from", "for"} THEN p :> 0 @@ (p + 1) :> 0 ELSE p :> 0
             Only(items, end) == [items |-> items, end |-> end, at |-> here]
             After(items) ==
                 [items |-> items \o rest.items, end |-> rest.end,
                  at |-> here @@ [q \in DOMAIN rest.at |-> Len(items) + rest.at[q]]]
         IN CASE s.do = "yield" -> After(<<Leaf(o, s.n)>>)
              [] s.do = "raise" -> Only(<<>>, "error")
              [] s.do = "for"   -> After(part.items)
              [] s.do = "from"  -> IF part.end = "error" THEN Only(part.items, "error")
                                   ELSE After(part.items)
              [] s.do = "next"  -> IF part.items # <<>> THEN After(<<>>)
                                   ELSE Only(<<>>, IF part.end = "error" THEN "error" ELSE "stopped")

MCMeaning == [w \in Trees \cup Line |-> [o \in MCObjects |-> MeaningOf(w, o)]]

\* Every ask from outside gets its answer: no chain of generators goes round for
\* ever without an item, an end or an error, rings of them neither.
EveryAskAnswers == active # <<>> ~> active = <<>>
===============================================================================
