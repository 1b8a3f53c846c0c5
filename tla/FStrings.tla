-------------------------------- MODULE FStrings --------------------------------
(***************************************************************************)
(* fstring_rewrite.go: before a source is parsed its f-strings are made     *)
(* into strings that are formatted with %.  A source is a sequence of       *)
(* characters, with dq for the other quote; what the rewriting makes is     *)
(* evaluated again, and is what the f-string says.                          *)
(***************************************************************************)
LOCAL INSTANCE Integers
LOCAL INSTANCE Sequences
LOCAL INSTANCE SequencesExt
LOCAL INSTANCE FiniteSetsExt

Quotes          == {"'", "dq"}
IdentifierBytes == {"a", "f", "s"}
Blanks          == {" ", "newline"}
Placeholder     == "nul"

FailedAt == [ok |-> FALSE, out |-> <<>>, next |-> 0, exprs |-> <<>>]
Found(out, next, exprs) == [ok |-> TRUE, out |-> out, next |-> next, exprs |-> exprs]

Has(s, i, chars) == i + Len(chars) - 1 <= Len(s) /\ SubSeq(s, i, i + Len(chars) - 1) = chars

\* The quotes a literal starts with, three or one.
MarkAt(s, start) ==
    LET three == [k \in 1 .. 3 |-> s[start]]
    IN IF Has(s, start, three) THEN three ELSE <<s[start]>>

\* The place after the literal, 0 when it has no end.
RECURSIVE EndFrom(_, _, _)
EndFrom(s, i, mark) ==
    IF i > Len(s) THEN 0
    ELSE IF s[i] = "backslash" THEN EndFrom(s, i + 2, mark)
    ELSE IF Has(s, i, mark) THEN i + Len(mark)
    ELSE EndFrom(s, i + 1, mark)
ScanStringLiteral(s, start) == EndFrom(s, start + Len(MarkAt(s, start)), MarkAt(s, start))

Trimmed(s) ==
    LET kept == {i \in DOMAIN s : s[i] \notin Blanks}
    IN IF kept = {} THEN <<>> ELSE SubSeq(s, Min(kept), Max(kept))

\* An expression from i on, up to the brace that closes it.
RECURSIVE ParseFStringExpr(_, _, _, _)
ParseFStringExpr(s, i, depth, expr) ==
    LET More(next, deeper) == ParseFStringExpr(s, next, depth + deeper, expr \o SubSeq(s, i, next - 1))
        end == ScanStringLiteral(s, i)
    IN IF i > Len(s) THEN FailedAt
       ELSE CASE s[i] = "backslash" -> IF i < Len(s) THEN More(i + 2, 0) ELSE FailedAt
              [] s[i] \in Quotes    -> IF end = 0 THEN FailedAt ELSE More(end, 0)
              [] s[i] = "{"         -> More(i + 1, 1)
              [] s[i] = "}" /\ depth > 0 -> More(i + 1, -1)
              [] s[i] = "}" /\ depth = 0 ->
                   IF Trimmed(expr) = <<>> THEN FailedAt ELSE Found(Trimmed(expr), i + 1, <<>>)
              [] s[i] \in {":", "!"} /\ depth = 0 -> FailedAt
              [] OTHER -> More(i + 1, 0)

\* What is between the quotes, from i on, as a template and its expressions.
RECURSIVE ParseFStringContent(_, _, _, _)
ParseFStringContent(s, i, template, exprs) ==
    LET More(next, chars) == ParseFStringContent(s, next, template \o chars, exprs)
        found == ParseFStringExpr(s, i + 1, 0, <<>>)
    IN IF i > Len(s) THEN Found(template, i, exprs)
       ELSE CASE s[i] = "backslash" -> IF i < Len(s) THEN More(i + 2, SubSeq(s, i, i + 1)) ELSE FailedAt
              [] s[i] \in {"{", "}"} /\ Has(s, i, <<s[i], s[i]>>) -> More(i + 2, <<s[i]>>)
              [] s[i] = "}" /\ ~Has(s, i, <<"}", "}">>) -> FailedAt
              [] s[i] = "{" /\ ~Has(s, i, <<"{", "{">>) ->
                   IF ~found.ok THEN FailedAt
                   ELSE ParseFStringContent(s, found.next, Append(template, Placeholder),
                                            Append(exprs, found.out))
              [] OTHER -> More(i + 1, <<s[i]>>)

\* % means itself twice, also where the template is not formatted in the end.
Templated(c) == CASE c = "%" -> <<"%", "%">> [] c = Placeholder -> <<"%", "s">> [] OTHER -> <<c>>
Arguments(exprs) ==
    IF exprs = <<>> THEN <<>>
    ELSE <<" ", "%", " ", "(">> \o FlattenSeq([i \in DOMAIN exprs |->
              IF i = 1 THEN exprs[i] ELSE <<",", " ">> \o exprs[i]])
         \o IF Len(exprs) = 1 THEN <<",", ")">> ELSE <<")">>
RewriteFStringAt(s, start) ==
    LET mark   == MarkAt(s, start + 1)
        litEnd == ScanStringLiteral(s, start + 1)
        parsed == ParseFStringContent(SubSeq(s, start + 1 + Len(mark), litEnd - Len(mark) - 1), 1, <<>>, <<>>)
        text   == FlattenSeq([i \in DOMAIN parsed.out |-> Templated(parsed.out[i])])
    IN IF litEnd = 0 \/ ~parsed.ok THEN FailedAt
       ELSE Found(mark \o text \o mark \o Arguments(parsed.exprs), litEnd, <<>>)

IsFStringStart(s, i) ==
    /\ i + 1 <= Len(s) /\ s[i] = "f" /\ s[i + 1] \in Quotes
    /\ i > 1 => s[i - 1] \notin IdentifierBytes

RECURSIVE RewriteFrom(_, _, _)
RewriteFrom(s, i, out) ==
    LET at      == RewriteFStringAt(s, i)
        lineEnd == CHOOSE k \in i .. Len(s) + 1 :
                      /\ k = Len(s) + 1 \/ s[k] = "newline"
                      /\ \A j \in i .. k - 1 : s[j] # "newline"
        end     == ScanStringLiteral(s, i)
        Copy(next) == IF next = 0 THEN FailedAt ELSE RewriteFrom(s, next, out \o SubSeq(s, i, next - 1))
    IN CASE i > Len(s) -> Found(out, i, <<>>)
         [] i <= Len(s) /\ IsFStringStart(s, i) ->
              IF at.ok THEN RewriteFrom(s, at.next, out \o at.out) ELSE FailedAt
         [] i <= Len(s) /\ ~IsFStringStart(s, i) ->
              Copy(CASE s[i] = "#" -> lineEnd [] s[i] \in Quotes -> end [] OTHER -> i + 1)
RewriteFStrings(s) == RewriteFrom(s, 1, <<>>)

-------------------------------------------------------------------------------
(* An f-string is written as pieces: characters of its text, doubled braces,   *)
(* and expressions.                                                            *)

Piece(is, chars) == [is |-> is, chars |-> chars]
Written(p) ==
    CASE p.is = "text" -> p.chars
      [] p.is = "brace" -> p.chars \o p.chars
      [] p.is = "expr" -> <<"{">> \o p.chars \o <<"}">>
Source(mark, pieces) ==
    <<"f">> \o mark \o FlattenSeq([i \in DOMAIN pieces |-> Written(pieces[i])]) \o mark

\* The text it stands for, with the value of each expression at its place.
ValueOf(expr) == <<[value |-> Trimmed(expr)]>>
Means(pieces) ==
    FlattenSeq([i \in DOMAIN pieces |-> IF pieces[i].is = "expr" THEN ValueOf(pieces[i].chars)
                                        ELSE pieces[i].chars])

\* What "template" % (args) is, and "template" alone; arguments with commas of
\* their own are not told apart.
RECURSIVE Format(_, _), Listed(_, _)
Format(template, args) ==
    IF template = <<>> THEN <<>>
    ELSE IF Head(template) # "%" THEN <<Head(template)>> \o Format(Tail(template), args)
    ELSE IF template[2] = "%" THEN <<"%">> \o Format(SubSeq(template, 3, Len(template)), args)
    ELSE ValueOf(args[1]) \o Format(SubSeq(template, 3, Len(template)), Tail(args))
Listed(s, item) ==
    CASE s = <<>> -> IF Trimmed(item) = <<>> THEN <<>> ELSE <<item>>
      [] s # <<>> /\ Head(s) = "," -> <<item>> \o Listed(Tail(s), <<>>)
      [] s # <<>> /\ Head(s) # "," -> Listed(Tail(s), Append(item, Head(s)))
Evaluated(s) ==
    LET n    == Len(MarkAt(s, 1))
        end  == ScanStringLiteral(s, 1)
        text == SubSeq(s, n + 1, end - n - 1)
    IN IF end > Len(s) THEN text ELSE Format(text, Listed(SubSeq(s, end + 4, Len(s) - 1), <<>>))

\* A : or a ! outside the braces and the strings of an expression.
Bare(expr) ==
    \E i \in DOMAIN expr :
        LET Before(C) == Len(SelectSeq(SubSeq(expr, 1, i - 1), LAMBDA c : c \in C))
        IN expr[i] \in {":", "!"} /\ Before({"{"}) = Before({"}"}) /\ Before(Quotes) % 2 = 0
\* Format specifications and conversions are refused, and with them slices and !=;
\* so are an empty expression and a lone closing brace.
Refused(pieces) ==
    \E i \in DOMAIN pieces :
        \/ pieces[i].is = "expr" /\ (Trimmed(pieces[i].chars) = <<>> \/ Bare(pieces[i].chars))
        \/ pieces[i].is = "text" /\ pieces[i].chars = <<"}">>

\* A rewritten f-string is the text it says, with its expressions where they
\* were, each once and in order; but one with a % and no expression, which has
\* that % twice.
FStringMeans(mark, pieces) ==
    LET source == Source(mark, pieces)
        r      == RewriteFStringAt(source, 1)
        Doubled(t) == FlattenSeq([i \in DOMAIN t |-> IF t[i] = "%" THEN <<"%", "%">> ELSE <<t[i]>>])
    IN /\ r.ok = ~Refused(pieces)
       /\ r.ok => /\ r.next = Len(source) + 1
                  /\ IF \E i \in DOMAIN pieces : pieces[i].is = "expr"
                     THEN Evaluated(r.out) = Means(pieces)
                     ELSE Evaluated(r.out) = Doubled(Means(pieces))

\* A source is rewritten where its f-strings are and nowhere else: not in its
\* comments, its other strings, or names that end with an f.
RewrittenInPlace(parts) ==
    LET Rewrite(p) == IF p.is = "f" THEN RewriteFStringAt(p.chars, 1) ELSE Found(p.chars, 0, <<>>)
        source == FlattenSeq([i \in DOMAIN parts |-> Append(parts[i].chars, " ")])
        r      == RewriteFStrings(source)
    IN /\ r.ok = (\A i \in DOMAIN parts : Rewrite(parts[i]).ok)
       /\ r.ok => r.out = FlattenSeq([i \in DOMAIN parts |-> Append(Rewrite(parts[i]).out, " ")])
===============================================================================
