----------------------------- MODULE NamesMeaning ------------------------------
(***************************************************************************)
(* What the programs of Names mean, by the rules of the language for the   *)
(* binding of names: who binds a name is found in the text of the program, *)
(* and every call makes a new binding of the names of its block.           *)
(***************************************************************************)
EXTENDS Names

LOCAL INSTANCE Naturals
LOCAL INSTANCE Sequences
LOCAL INSTANCE FiniteSets
LOCAL INSTANCE SequencesExt
LOCAL INSTANCE FiniteSetsExt

\* A path: the blocks around a statement, the module first and its own last.
Block(type, names, body) == [type |-> type, names |-> names, body |-> body]

Says(b, how, x) == \E i \in DOMAIN b.body : b.body[i].do = how /\ b.body[i].name = x
BindsIn(s) ==
    CASE s.do \in {"bind", "del", "def", "class", "take"} -> {s.name}
      [] s.do = "import" -> {s.parts[1]}
      [] OTHER -> {}
Binds(b, x) == x \in b.names \/ \E i \in DOMAIN b.body : x \in BindsIn(b.body[i])
Mentions(s) ==
    BindsIn(s) \cup (CASE s.do \in {"use", "call"}   -> {s.name}
                       [] s.do \in {"def", "lambda"} -> ToSet(s.defaults)
                       [] s.do = "comp"              -> {s.iter}
                       [] OTHER -> {})

\* Where a name that a function does not bind is looked for: in the functions
\* around it from the inside, up to one that says it is global.
RECURSIVE Enclosing(_, _)
Enclosing(path, x) ==
    IF Len(path) = 1 THEN 1
    ELSE LET b == Last(path)
         IN IF b.type = "class" THEN IF x = ClassVar THEN Len(path) ELSE Enclosing(Front(path), x)
            ELSE IF Says(b, "global", x) THEN 1
            ELSE IF Binds(b, x) /\ ~Says(b, "nonlocal", x) THEN Len(path)
            ELSE Enclosing(Front(path), x)

\* The place in the path of the block whose binding a name of the last block is.
Owner(path, x) ==
    IF Says(Last(path), "global", x) THEN 1
    ELSE IF Binds(Last(path), x) /\ ~Says(Last(path), "nonlocal", x) THEN Len(path)
    ELSE IF Len(path) = 1 THEN 1 ELSE Enclosing(Front(path), x)

Inner(path, s) ==
    Append(path,
           CASE s.do = "class" -> Block("class", {}, s.body)
             [] s.do = "comp"  -> Block("function", {s.target}, s.body)
             [] OTHER          -> Block("function", ToSet(s.params), s.body))

\* A declaration comes before any mention but in an import, is not about a
\* parameter or declared both ways, and a nonlocal one has something to be about.
RECURSIVE Refused(_)
Refused(path) ==
    LET b == Last(path)
        Wrong(i) ==
            LET s == b.body[i]
            IN s.do \in {"global", "nonlocal"} /\
                 \/ \E j \in 1 .. i - 1 : b.body[j].do # "import" /\ s.name \in Mentions(b.body[j])
                 \/ s.name \in b.names
                 \/ Says(b, "global", s.name) /\ Says(b, "nonlocal", s.name)
                 \/ s.do = "nonlocal" /\ (Len(path) = 1 \/ Enclosing(Front(path), s.name) = 1)
    IN \E i \in DOMAIN b.body :
         Wrong(i) \/ (Makes(b.body[i]) /\ Refused(Inner(path, b.body[i])))

\* Running with a store of bindings: env is the binding of every block of the path.
Bind(r, env, k, x, v) == [r EXCEPT !.store[env[k]] = Put(@, x, v)]

\* A class falls back on the globals for what it has not bound yet.
Value(r, path, env, x) ==
    LET k    == Owner(path, x)
        v    == Read(r.store[env[k]], x)
        back == IF k = Len(path) /\ Last(path).type # "class" /\ k # 1 THEN Unset
                ELSE IF k = Len(path) \/ k = 1 THEN
                    IF Read(r.store[env[1]], x) = Unset THEN Read(Builtins, x)
                    ELSE Read(r.store[env[1]], x)
                ELSE Unset
    IN IF v = Unset THEN back ELSE v

Note(r, v)  == [r EXCEPT !.log = Append(@, <<v.is, v.n>>)]
Wrong(r)    == [r EXCEPT !.log = Append(@, <<"error", 0>>)]

RECURSIVE Means(_, _, _)
\* A call of f: its parameters are given or have their defaults.
Apply(r, f, args) ==
    LET missing == Len(f.params) - Len(args)
        given   == args \o SubSeq(f.defaults, Len(f.defaults) - missing + 1, Len(f.defaults))
        own     == [x \in ToSet(f.params) |-> given[IndexIn(f.params, x)]]
    IN IF f.is # "function" \/ missing < 0 \/ missing > Len(f.defaults) THEN Wrong(r)
       ELSE Means([r EXCEPT !.store = Append(@, own)], f.path, Append(f.env, Len(r.store) + 1))

Statement(r, path, env, s) ==
    LET Set(q, x, v) == Bind(q, env, Owner(path, x), x, v)
        Get(x)       == Value(r, path, env, x)
        Function(ps, body) ==
            [is |-> "function", n |-> s.name, params |-> ps, path |-> Inner(path, s), env |-> env,
             defaults |-> [i \in DOMAIN s.defaults |-> Get(s.defaults[i])]]
        Missing      == \E i \in DOMAIN s.defaults : Get(s.defaults[i]) = Unset
    IN CASE s.do = "use"    -> IF Get(s.name) = Unset THEN Wrong(r) ELSE Note(r, Get(s.name))
         [] s.do = "bind"   -> Set(r, s.name, s.value)
         [] s.do = "import" -> Set(r, s.parts[1], s.value)
         [] s.do = "del"    ->
              IF Read(r.store[env[Owner(path, s.name)]], s.name) = Unset THEN Wrong(r)
              ELSE Set(r, s.name, Unset)
         [] s.do = "call"   -> IF Get(s.name) = Unset THEN Wrong(r) ELSE Apply(r, Get(s.name), <<>>)
         [] s.do = "def"    -> IF Missing THEN Wrong(r)
                               ELSE Set(r, s.name, Function(s.params, s.body))
         [] s.do = "lambda" -> IF Missing THEN Wrong(r) ELSE Apply(r, Function(s.params, s.body), <<>>)
         [] s.do = "class"  ->
              LET k   == Len(r.store) + 1
                  ran == Means([r EXCEPT !.store = Append(@, << >>)], Inner(path, s), Append(env, k))
              IN Set([ran EXCEPT !.store[k] = [x \in {ClassVar} |-> Class(s.name)]],
                     s.name, Class(s.name))
         [] s.do = "comp"   ->
              LET own == [x \in {s.target} |-> Get(s.iter)]
              IN IF Get(s.iter) = Unset THEN Wrong(r)
                 ELSE Means([r EXCEPT !.store = Append(@, own)], Inner(path, s),
                            Append(env, Len(r.store) + 1))
         [] OTHER -> r
Means(r, path, env) ==
    LET Run(q, s) == Statement(q, path, env, s) IN FoldLeft(Run, r, Last(path).body)

Meaning(body) ==
    LET module == <<Block("module", {}, body)>>
    IN IF Refused(module) THEN <<<<"SyntaxError", 0>>>>
       ELSE Means([store |-> <<<< >>>>, log |-> <<>>], module, <<1>>).log

\* A name taken from around is the one the rules of the language say, at the time
\* it is taken, wherever it is bound, deleted or declared, and a program is
\* refused just when it should be.  Decorated functions with defaults are left
\* out: the decorator is made a default.  So are imports of more than two parts
\* within functions: what they bind is not among the names of the function.
NamesResolve(body) == RunModule(body) = Meaning(body)
===============================================================================
