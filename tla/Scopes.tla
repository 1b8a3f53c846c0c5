-------------------------------- MODULE Scopes ---------------------------------
(***************************************************************************)
(* The symbol table of symtable/symtable.go: a table for every block of a  *)
(* module, filled from its statements, and the scope of every name in it.  *)
(* Names are numbers, which sort like the strings they stand for.          *)
(***************************************************************************)
LOCAL INSTANCE Naturals
LOCAL INSTANCE Sequences
LOCAL INSTANCE FiniteSets
LOCAL INSTANCE SequencesExt
LOCAL INSTANCE FiniteSetsExt

\* super and __class__, and the argument of a comprehension.
Super    == 90
ClassVar == 91
Argument == 92

DefBound   == {"local", "param", "import"}
DefinesOne(flags) == flags \cap DefBound # {}

-------------------------------------------------------------------------------
(* First pass: what the statements of a block say of its names. *)

\* names is what is known of every name, a set of flags; varnames the parameters
\* in order; global the names that a global statement somewhere declares.
NewSymTable(type, nested) ==
    [type |-> type, nested |-> nested, names |-> << >>, varnames |-> <<>>,
     children |-> <<>>, global |-> {}, error |-> FALSE]
Flags(st, x) == IF x \in DOMAIN st.names THEN st.names[x] ELSE {}
Known(names, x, flags) ==
    [y \in DOMAIN names \cup {x} |->
        IF y = x THEN flags \cup (IF x \in DOMAIN names THEN names[x] ELSE {}) ELSE names[y]]

AddDef(st, x, flag) ==
    [st EXCEPT !.names    = Known(@, x, {flag}),
               !.varnames = IF flag = "param" THEN Append(@, x) ELSE @,
               !.global   = IF flag = "global" THEN @ \cup {x} ELSE @,
               !.error    = @ \/ (flag = "param" /\ "param" \in Flags(st, x))]

AddUses(st, names) ==
    LET AddUse(t, x) == AddDef(t, x, "use") IN FoldLeft(AddUse, st, names)
AddArguments(st, params) ==
    LET AddParam(t, x) == AddDef(t, x, "param") IN FoldLeft(AddParam, st, params)

\* global and nonlocal come before any other mention of the name.
Declare(st, x, flag) ==
    AddDef([st EXCEPT !.error = @ \/ Flags(st, x) \cap {"local", "use"} # {}], x, flag)

\* A block within this one: what it declares global is known to the module.
AddChild(st, child) ==
    [st EXCEPT !.children = Append(@, child), !.global = @ \cup child.global,
               !.error = @ \/ child.error]
Inside(st, type) == NewSymTable(type, st.nested \/ st.type = "function")

\* What import a.b.c stores is a.b, the name up to the last dot.
StoreName(parts) == IF Len(parts) > 1 THEN Front(parts) ELSE parts

RECURSIVE Parse(_, _)
Visit(st, s) ==
    CASE s.do = "use"      -> AddDef(st, s.name, "use")
      [] s.do = "super"    -> LET t == AddDef(st, Super, "use")
                              IN IF st.type = "function" THEN AddDef(t, ClassVar, "use") ELSE t
      [] s.do \in {"bind", "del"} -> AddDef(st, s.name, "local")
      [] s.do = "import"   -> IF Len(StoreName(s.parts)) > 1 THEN st
                              ELSE AddDef(st, StoreName(s.parts)[1], "import")
      [] s.do \in {"global", "nonlocal"} -> Declare(st, s.name, s.do)
      [] s.do = "call"     -> AddDef(st, s.name, "use")
      [] s.do = "def"      ->
           LET own == AddUses(AddDef(st, s.name, "local"), s.defaults \o s.decorators)
           IN AddChild(own, Parse(AddArguments(Inside(own, "function"), s.params), s.body))
      [] s.do = "class"    ->
           LET own == AddDef(st, s.name, "local")
           IN AddChild(own, Parse(Inside(own, "class"), s.body))
      [] s.do = "lambda"   ->
           LET own == AddUses(st, s.defaults)
           IN AddChild(own, Parse(AddArguments(Inside(own, "function"), s.params), s.body))
      [] s.do = "comp"     ->
           LET own == AddDef(st, s.iter, "use")
               new == AddDef(Inside(own, "function"), Argument, "param")
           IN AddChild(own, Parse(AddDef(new, s.target, "local"), s.body))
Parse(st, body) == FoldLeft(Visit, st, body)

\* The table of a module is told of every name declared global.
ParseModule(body) ==
    LET st == Parse(NewSymTable("module", FALSE), body)
        Told(names, x) == Known(names, x, {"global"})
    IN [st EXCEPT !.names = FoldLeft(Told, @, SetToSeq(st.global))]

-------------------------------------------------------------------------------
(* Second pass: scopes.  bound are the names that the functions around a block   *)
(* bind, free those that it or a block within it takes from around it.  A name  *)
(* that a block around it declares global is global implicitly like any other.  *)

\* A module has nothing around it, not even a set of names.
NoBlock == "no block"
Around(st, bound) == IF st.type = "module" THEN {} ELSE bound

AnalyzeName(st, x, bound) ==
    LET flags == st.names[x]
    IN CASE "global" \in flags ->
              IF {"param", "nonlocal"} \cap flags # {} THEN "error" ELSE "global explicit"
         [] "global" \notin flags /\ "nonlocal" \in flags ->
              IF "param" \in flags \/ x \notin Around(st, bound) THEN "error" ELSE "free"
         [] flags \cap {"global", "nonlocal"} = {} /\ DefinesOne(flags) -> "local"
         [] OTHER -> IF x \in Around(st, bound) THEN "free" ELSE "global implicit"

With(scopes, scope) == {x \in DOMAIN scopes : scopes[x] = scope}

\* A local name that a block within takes is in a cell.
AnalyzeCells(scopes, free) ==
    [x \in DOMAIN scopes |-> IF scopes[x] = "local" /\ x \in free THEN "cell" ELSE scopes[x]]

\* A class provides __class__ to its methods.
DropClassFree(free) == free \ {ClassVar}

\* Names that only go through a block on their way inwards are free in it; in a
\* class, those that are also its own are marked.
Update(st, scopes, bound, free) ==
    LET passing == (free \ DOMAIN scopes) \cap Around(st, bound)
    IN [type |-> st.type, varnames |-> st.varnames,
        scopes |-> [x \in DOMAIN scopes \cup passing |->
                       IF x \in passing THEN "free" ELSE scopes[x]],
        freeClass |-> IF st.type # "class" THEN {}
                      ELSE {x \in free \cap DOMAIN st.names :
                              st.names[x] \cap (DefBound \cup {"global"}) # {}}]

\* The names bound in a class are not seen from the blocks within it; what is
\* declared global is not taken from around.
RECURSIVE AnalyzeBlock(_, _)
AnalyzeBlock(st, bound) ==
    LET scopes    == [x \in DOMAIN st.names |-> AnalyzeName(st, x, bound)]
        explicit  == With(scopes, "global explicit")
        own       == With(scopes, "local")
        bound2    == Around(st, bound) \ explicit
        newbound  == CASE st.type = "class"    -> Around(st, bound) \cup {ClassVar}
                       [] st.type = "function" -> bound2 \cup own
                       [] st.type = "module"   -> {}
        inner     == [i \in DOMAIN st.children |->
                        AnalyzeBlock(st.children[i], newbound)]
        allfree   == UNION {inner[i].free : i \in DOMAIN inner}
        newfree   == CASE st.type = "function" -> allfree \ own
                       [] st.type = "class"    -> DropClassFree(allfree)
                       [] st.type = "module"   -> allfree
        final     == IF st.type = "function" THEN AnalyzeCells(scopes, allfree) ELSE scopes
    IN [table |-> Update(st, final, bound2, newfree),
        children |-> inner,
        needsClassClosure |-> st.type = "class" /\ ClassVar \in allfree,
        free |-> newfree \cup With(scopes, "free"),
        error |-> st.error \/ With(scopes, "error") # {} \/ \E i \in DOMAIN inner : inner[i].error]

Analyze(body) == AnalyzeBlock(ParseModule(body), NoBlock)

\* Names in order.
Find(names) == SetToSortSeq(names, LAMBDA x, y : x < y)
CellVars(block) ==
    Find(With(block.table.scopes, "cell") \cup (IF block.needsClassClosure THEN {ClassVar} ELSE {}))
FreeVars(block) == Find(With(block.table.scopes, "free") \cup block.table.freeClass)
===============================================================================
