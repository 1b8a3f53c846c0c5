--------------------------------- MODULE Lexer ---------------------------------
(***************************************************************************)
(* The lexer of parser/lexer.go as far as lines, indentation, brackets and *)
(* strings decide which tokens there are.  A source is a sequence of       *)
(* lines, a line a sequence of lexical elements: blanks, names, brackets,  *)
(* quotes, "#", a backslash and its end, which the last one may lack.      *)
(* What a name or an operator is called, and what numbers and strings      *)
(* stand for, is left out.                                                 *)
(***************************************************************************)
EXTENDS Integers, Sequences, FiniteSets

LOCAL INSTANCE SequencesExt

Blanks  == {" ", "tab"}
Opening == {"[", "(", "{"}
Closing == {"]", ")", "}"}
Quote   == "'"
tabSize == 8

Top(s) == s[Len(s)]
EndsLine(line) == line # <<>> /\ Top(line) = "newline"

NewLex(source, mode) ==
    [reader |-> source, line |-> <<>>, eof |-> FALSE, error |-> FALSE,
     indentStack |-> <<0>>, state |-> "readString", currentIndent |-> <<>>,
     bracket |-> 0, parenthesis |-> 0, brace |-> 0, mode |-> mode,
     queue |-> <<CASE mode = "exec"   -> "FILE_INPUT"
                   [] mode = "eval"   -> "EVAL_INPUT"
                   [] mode = "single" -> "SINGLE_INPUT">>]

\* What a step of the lexer returns: a token, or nothing, and it goes on.
Going(x)    == [lexer |-> x, token |-> "none"]
Return(x, token) == [lexer |-> x, token |-> token]
Dequeue(x)  == Return([x EXCEPT !.queue = Tail(@)], Head(x.queue))
SyntaxError(x) == Return([x EXCEPT !.error = TRUE], "eof")

Refill(x) ==
    LET raw   == IF x.reader = <<>> THEN <<>> ELSE Head(x.reader)
        ended == raw = <<>> \/ Top(raw) \notin {"newline", "return"}
        line  == IF raw # <<>> /\ Top(raw) = "return"
                 THEN Append(SubSeq(raw, 1, Len(raw) - 1), "newline") ELSE raw
    IN [x EXCEPT !.reader = IF @ = <<>> THEN @ ELSE Tail(@),
                 !.eof = @ \/ ended,
                 !.line = IF ended /\ x.mode = "exec" /\ line # <<>> THEN Append(line, "newline")
                          ELSE line]

CountIndent(blanks) ==
    FoldLeft(LAMBDA n, c : IF c = "tab" THEN n + tabSize - (n % tabSize) ELSE n + 1, 0, blanks)

OpenBrackets(x) == x.bracket # 0 \/ x.parenthesis # 0 \/ x.brace # 0

Trimmed(line) ==
    LET first == SelectInSeq(line, LAMBDA c : c \notin Blanks)
    IN IF first = 0 THEN <<>> ELSE SubSeq(line, first, Len(line))

\* A changed QueueDedents: a dedent for every level but the first one.
QueueDedentsButOne(x) ==
    [x EXCEPT !.queue = @ \o [i \in 1 .. Len(x.indentStack) - 2 |-> "DEDENT"],
              !.indentStack = <<Head(@)>>]
QueueDedents(x) ==
    [x EXCEPT !.queue = @ \o [i \in 1 .. Len(x.indentStack) - 1 |-> "DEDENT"],
              !.indentStack = <<Head(@)>>]

-------------------------------------------------------------------------------
(* The states of the lexer *)

\* An interactive statement ends at the end of the input.
ReadString(x) ==
    LET y == Refill(x)
    IN IF y.line # <<>> \/ ~y.eof THEN Going([y EXCEPT !.state = "readIndent"])
       ELSE LET z == [y EXCEPT !.state = "checkEof"]
            IN IF z.mode = "single" /\ ~OpenBrackets(z)
               THEN LET q == QueueDedents(z) IN Dequeue([q EXCEPT !.queue = Append(@, "NEWLINE")])
               ELSE Going(z)

ReadIndent(x) ==
    LET rest == Trimmed(x.line)
    IN Going([x EXCEPT !.currentIndent = SubSeq(x.line, 1, Len(x.line) - Len(rest)),
                       !.line = rest, !.state = "checkEmpty"])

\* Blank lines and lines of a comment count for nothing, not even as indented.
CheckEmpty(x) ==
    IF x.line \in {<<>>, <<"newline">>} \/ Head(x.line) = "#"
    THEN Going([x EXCEPT !.state = "checkEof"])
    ELSE Going([x EXCEPT !.state = "checkIndent"])

CheckIndent(x) ==
    LET y      == [x EXCEPT !.state = "parseTokens"]
        indent == CountIndent(x.currentIndent)
        at     == SelectInSeq(x.indentStack, LAMBDA n : n = indent)
    IN CASE OpenBrackets(x) \/ indent = Top(x.indentStack) -> Going(y)
         [] ~OpenBrackets(x) /\ indent > Top(x.indentStack) ->
              Return([y EXCEPT !.indentStack = Append(@, indent)], "INDENT")
         [] ~OpenBrackets(x) /\ indent < Top(x.indentStack) /\ at # 0 ->
              Dequeue([y EXCEPT !.queue = [i \in 1 .. Len(x.indentStack) - at |-> "DEDENT"],
                                !.indentStack = SubSeq(@, 1, at)])
         [] OTHER -> SyntaxError(y)

\* How far a string goes in its line, from after its opening quotes: the modes
\* are inside it, after a backslash, and what ended the line for the string.
QuotesAt(line, i, n) == i + n - 1 <= Len(line) /\ \A j \in i .. i + n - 1 : line[j] = Quote

ScanLine(line, n) ==
    LET scanned[i \in 0 .. Len(line)] ==
            IF i = 0 THEN [mode |-> "inside", rest |-> <<>>]
            ELSE LET before == scanned[i - 1]
                     c      == line[i]
                 IN CASE before.mode \notin {"inside", "escape"} -> before
                      [] before.mode = "escape" ->
                           [before EXCEPT !.mode = IF c = "newline" THEN "joined" ELSE "inside"]
                      [] before.mode = "inside" ->
                           CASE QuotesAt(line, i, n) ->
                                  [mode |-> "closed", rest |-> SubSeq(line, i + n, Len(line))]
                             [] c = "backslash" -> [before EXCEPT !.mode = "escape"]
                             [] c = "newline" /\ n = 1 -> [before EXCEPT !.mode = "broken"]
                             [] OTHER -> before
    IN scanned[Len(line)]

\* A string of three quotes goes on in the next line, one of one quote only
\* behind a backslash.
ReadStringLiteral(x) ==
    LET n == IF QuotesAt(x.line, 1, 3) THEN 3 ELSE 1
        read[k \in 0 .. Len(x.reader) + 1] ==
            LET y    == IF k = 0 THEN [x EXCEPT !.line = SubSeq(@, n + 1, Len(@))]
                        ELSE Refill(read[k - 1].lexer)
                line == ScanLine(y.line, n)
            IN IF k > 0 /\ read[k - 1].token # "more" THEN read[k - 1]
               ELSE CASE line.mode = "closed" -> Return([y EXCEPT !.line = line.rest], "STRING")
                      [] line.mode # "closed" /\ line.mode # "joined" /\ n = 1 -> SyntaxError(y)
                      [] line.mode # "closed" /\ (line.mode = "joined" \/ n = 3) ->
                           IF y.eof THEN SyntaxError(y) ELSE Return(y, "more")
    IN read[Len(x.reader) + 1]

Count(x, c) ==
    LET one == IF c \in Opening THEN 1 ELSE -1
    IN CASE c \in {"[", "]"} -> [x EXCEPT !.bracket = @ + one]
         [] c \in {"(", ")"} -> [x EXCEPT !.parenthesis = @ + one]
         [] c \in {"{", "}"} -> [x EXCEPT !.brace = @ + one]
         [] OTHER            -> x

ParseTokens(x) ==
    LET y    == [x EXCEPT !.line = Trimmed(@)]
        c    == Head(y.line)
        cut  == [y EXCEPT !.line = Tail(@)]
        done == [y EXCEPT !.state = "checkEof"]
    IN IF y.line = <<>> THEN Going(done)
       ELSE CASE c \in {"newline", "#"} -> IF OpenBrackets(y) THEN Going(done) ELSE Return(done, "NEWLINE")
              [] c = "backslash" /\ (Len(y.line) = 1 \/ y.line[2] = "newline") ->
                   IF y.eof THEN Going(done) ELSE Going(Refill(y))
              [] c \in {"NAME", "NUMBER", "OPERATOR"} -> Return(cut, c)
              [] c = Quote -> ReadStringLiteral(y)
              [] c \in Opening \cup Closing -> Return(Count(cut, c), c)
              [] OTHER -> SyntaxError(y)

CheckEof(x) ==
    IF ~x.eof THEN Going([x EXCEPT !.state = "readString"])
    ELSE LET y == [QueueDedents(x) EXCEPT !.state = "isEof"]
             z == IF y.mode = "single" THEN y ELSE [y EXCEPT !.queue = Append(@, "ENDMARKER")]
         IN IF z.queue = <<>> THEN Going(z) ELSE Dequeue(z)

Step(x) ==
    CASE x.queue # <<>>            -> Dequeue(x)
      [] x.queue = <<>> /\ x.state = "readString"  -> ReadString(x)
      [] x.queue = <<>> /\ x.state = "readIndent"  -> ReadIndent(x)
      [] x.queue = <<>> /\ x.state = "checkEmpty"  -> CheckEmpty(x)
      [] x.queue = <<>> /\ x.state = "checkIndent" -> CheckIndent(x)
      [] x.queue = <<>> /\ x.state = "parseTokens" -> ParseTokens(x)
      [] x.queue = <<>> /\ x.state = "checkEof"    -> CheckEof(x)
      [] x.queue = <<>> /\ x.state = "isEof"       -> Return(x, "eof")

\* The tokens up to the first eof.  A line takes at most six steps besides its
\* elements, and a source three more.
Patience(source) == FoldLeft(LAMBDA n, line : n + Len(line) + 8, 16, source)

Lex(source, mode) ==
    LET run[k \in 0 .. Patience(source)] ==
            IF k = 0 THEN [lexer |-> NewLex(source, mode), tokens |-> <<>>, ended |-> FALSE]
            ELSE LET before == run[k - 1]
                     next   == Step(before.lexer)
                 IN IF before.ended THEN before
                    ELSE [lexer  |-> next.lexer,
                          tokens |-> IF next.token \in {"none", "eof"} THEN before.tokens
                                     ELSE Append(before.tokens, next.token),
                          ended  |-> next.token = "eof"]
    IN run[Patience(source)]

-------------------------------------------------------------------------------
(* What the lexer should do. *)

\* Every source is read to its end or to an error, and without an error every
\* block that begins ends before the end marker.
Occurrences(s, token) == Cardinality({i \in DOMAIN s : s[i] = token})

EndsBalanced(source, mode) ==
    LET out == Lex(source, mode)
    IN /\ out.ended
       /\ ~out.lexer.error =>
              /\ Occurrences(out.tokens, "INDENT") = Occurrences(out.tokens, "DEDENT")
              /\ mode # "single" => Top(out.tokens) = "ENDMARKER"
              /\ \A n \in DOMAIN out.tokens :
                     LET s == SubSeq(out.tokens, 1, n)
                     IN Occurrences(s, "DEDENT") <= Occurrences(s, "INDENT")

\* A blank line or a comment on a line of its own changes nothing, wherever it
\* stands but after a backslash that joins lines, not even in a string of three
\* quotes or a bracket.
LayoutFree(source, at, line, mode) ==
    LET before == IF at = 0 THEN <<>> ELSE source[at]
        joined == \E i \in DOMAIN before : before[i] = "backslash"
        more   == InsertAt(source, at + 1, line)
    IN at < Len(source) /\ ~joined => Lex(more, mode).tokens = Lex(source, mode).tokens
                                      /\ Lex(more, mode).lexer.error = Lex(source, mode).lexer.error

\* A line of one name each: the line is refused when its indentation is that of
\* no line before it whose block is still open, and blocks begin and end where
\* the indentation says.
BlocksExact(indents) ==
    LET d(i)    == CountIndent(indents[i])
        source  == [i \in DOMAIN indents |-> indents[i] \o <<"NAME", "newline">>]
        Open(i) == {0} \cup {d(j) : j \in {j \in 1 .. i : \A k \in j .. i : d(k) >= d(j)}}
        legal(i) == d(i) \in Open(i - 1) \/ \A n \in Open(i - 1) : d(i) > n
        Moves(i) == LET was == Cardinality(Open(i - 1)) now == Cardinality(Open(i))
                    IN [k \in 1 .. IF now > was THEN now - was ELSE was - now |->
                           IF now > was THEN "INDENT" ELSE "DEDENT"]
        n == Len(indents)
        out == Lex(source, "exec")
    IN IF \E i \in 1 .. n : ~legal(i) THEN out.lexer.error
       ELSE out.tokens = <<"FILE_INPUT">>
                \o FlattenSeq([i \in 1 .. n |-> Moves(i) \o <<"NAME", "NEWLINE">>])
                \o [k \in 1 .. Cardinality(Open(n)) - 1 |-> "DEDENT"] \o <<"ENDMARKER">>
===============================================================================
