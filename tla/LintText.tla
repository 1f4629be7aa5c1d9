------------------------------ MODULE LintText ------------------------------
(***************************************************************************)
(* What cpplint.py sees of the text of a file: raw strings, comments and   *)
(* string contents are removed before the checks that count braces or look *)
(* for words.                                                              *)
(*                                                                         *)
(* A line is a sequence of tokens.  A token is what the regular            *)
(* expressions tell apart: a word or a sign, a quote, a mark of a comment, *)
(* the start R( or the end )R of a raw string, or, first, the indentation. *)
(* Escapes, digit separators and the delimiters of raw strings are left    *)
(* out.  Numbers of lines are those of Python: 0 for the marker put before *)
(* the file, so that line n is the element n + 1 of a sequence.            *)
(***************************************************************************)
EXTENDS Integers, FiniteSets, SequencesExt

DQ == "\""
SQ == "'"
Quotes == {DQ, SQ}
Indentation == " "

Indented(line) == line # <<>> /\ line[1] = Indentation
Stripped(line) == IF Indented(line) THEN Tail(line) ELSE line
Blank(line) == Stripped(line) = <<>>
Begins(line, tokens) == ~Blank(line) /\ Stripped(line)[1] \in tokens

Upto(line, i) == SubSeq(line, 1, i)
From(line, i) == SubSeq(line, i, Len(line))
First(line, tokens) == SelectInSeq(line, LAMBDA t : t \in tokens)
Count(line, token) == Cardinality({i \in DOMAIN line : line[i] = token})

\* The position of token in line after position i, or 0.
After(line, i, token) ==
    LET rest == First(From(line, i + 1), {token}) IN IF rest = 0 THEN 0 ELSE i + rest

-----------------------------------------------------------------------------
(***************************************************************************)
(* CleanseRawStrings.                                                      *)
(***************************************************************************)

\* The quote a scan of tokens is inside of, or "".
QuotedBy(tokens) ==
    FoldLeft(LAMBDA q, t : IF q = "" THEN (IF t \in Quotes THEN t ELSE "")
                           ELSE IF t = q THEN "" ELSE q, "", tokens)

InLineComment(prefix) ==
    \E i \in DOMAIN prefix : prefix[i] = "//" /\ QuotedBy(Upto(prefix, i - 1)) = ""

\* A line that starts outside raw strings, and whether it ends inside of one.
RECURSIVE WithoutRaw(_)
WithoutRaw(line) ==
    LET start == First(line, {"R("})
        end == After(line, start, ")R")
        before == Upto(line, start - 1)
    IN  IF start = 0 \/ InLineComment(before) THEN [line |-> line, inside |-> FALSE]
        ELSE IF end = 0 THEN [line |-> before \o <<DQ, DQ>>, inside |-> TRUE]
        ELSE WithoutRaw(before \o <<DQ, DQ>> \o From(line, end + 1))

CleanseRawStrings(rawLines) ==
    LET Next(done, line) ==
            LET end == First(line, {")R"})
                next == IF ~done.inside THEN WithoutRaw(line)
                        ELSE IF end > 0 THEN WithoutRaw(<<DQ, DQ>> \o From(line, end + 1))
                        ELSE [line |-> <<DQ, DQ>>, inside |-> TRUE]
            IN  [lines |-> Append(done.lines, next.line), inside |-> next.inside]
    IN  FoldLeft(Next, [lines |-> <<>>, inside |-> FALSE], rawLines).lines

-----------------------------------------------------------------------------
(***************************************************************************)
(* RemoveMultiLineComments, for comments that start a line and end one.    *)
(***************************************************************************)
StartsComment(line) ==
    Begins(line, {"/*"}) /\ First(line, {"*/"}) = 0
EndsComment(line) == line # <<>> /\ Last(line) = "*/"

FirstLine(lines, from, Test(_)) ==
    LET rest == SelectInSeq(From(lines, from), Test)
    IN  IF rest = 0 THEN 0 ELSE rest + from - 1

\* The lines left, and the line of the error when a comment has no end (the
\* code gives the one that follows the start), or 0.
RECURSIVE RemoveFrom(_, _)
RemoveFrom(lines, from) ==
    LET begin == FirstLine(lines, from, StartsComment)
        end == FirstLine(lines, begin, EndsComment)
    IN  IF begin = 0 THEN [lines |-> lines, unended |-> 0]
        ELSE IF end = 0 THEN [lines |-> lines, unended |-> begin]
        ELSE RemoveFrom([i \in DOMAIN lines |-> IF i \in begin..end THEN <<"/*", "*/">>
                                                ELSE lines[i]], end + 1)

RemoveMultiLineComments(lines) == RemoveFrom(lines, 1)

-----------------------------------------------------------------------------
(***************************************************************************)
(* CleansedLines.                                                          *)
(***************************************************************************)
RECURSIVE CountQuoted(_)
CountQuoted(line) ==
    IF Len(line) < 3 THEN 0
    ELSE IF Upto(line, 3) = <<SQ, DQ, SQ>> THEN 1 + CountQuoted(From(line, 4))
    ELSE CountQuoted(Tail(line))

IsCppString(prefix) == (Count(prefix, DQ) - CountQuoted(prefix)) % 2 = 1

RECURSIVE WithoutBlocks(_)
WithoutBlocks(line) ==
    LET start == First(line, {"/*"})
        end == After(line, start, "*/")
    IN  IF start = 0 \/ end = 0 THEN line
        ELSE WithoutBlocks(Upto(line, start - 1) \o From(line, end + 1))

CleanseComments(line) ==
    LET comment == First(line, {"//"})
    IN  WithoutBlocks(IF comment > 0 /\ ~IsCppString(Upto(line, comment - 1))
                      THEN Upto(line, comment - 1) ELSE line)

\* Strings are collapsed up to the first quote without match on the line.
RECURSIVE CollapseStrings(_)
CollapseStrings(line) ==
    LET open == First(line, Quotes)
        close == After(line, open, line[open])
    IN  IF open = 0 \/ Begins(line, {"#include"}) THEN line
        ELSE IF close = 0 THEN line
        ELSE Upto(line, open) \o <<line[open]>> \o CollapseStrings(From(line, close + 1))

\* The faulty variant removes comments before it collapses strings.
ElidedLate(line) == CollapseStrings(CleanseComments(line))
Elided(line) == CleanseComments(CollapseStrings(line))

\* The four copies of the lines.
CleansedLines(rawLines) ==
    LET without == CleanseRawStrings(rawLines)
    IN  [raw |-> rawLines, withoutRaw |-> without,
         lines |-> [i \in DOMAIN without |-> CleanseComments(without[i])],
         elided |-> [i \in DOMAIN without |-> Elided(without[i])]]

-----------------------------------------------------------------------------
(***************************************************************************)
(* The reference: the tokens of each line a C++ compiler reads outside     *)
(* comments and strings.  An unended string ends with its line.            *)
(***************************************************************************)
ReadToken(read, t) ==
    LET Goes(mode) == [read EXCEPT !.mode = mode]
    IN  CASE read.mode = "code" ->
               (CASE t = "//" -> Goes("line") [] t = "/*" -> Goes("block")
                  [] t \in Quotes -> Goes(t)  [] t = "R(" -> Goes("raw")
                  [] OTHER -> [read EXCEPT !.code = Append(@, t)])
          [] read.mode = "block" /\ t = "*/" -> Goes("code")
          [] read.mode = "block" /\ t \in Quotes -> [read EXCEPT !.quoted = TRUE]
          [] read.mode = "raw" /\ t = ")R" -> Goes("code")
          [] read.mode \in Quotes /\ t = read.mode -> Goes("code")
          [] OTHER -> read

\* For each line, its code, the mode it ends in, and whether a comment between
\* /* and */ has a quote there.
Compiled(lines) ==
    LET Next(done, line) ==
            LET mode == IF done # <<>> /\ Last(done).mode \in {"block", "raw"}
                        THEN Last(done).mode ELSE "code"
            IN  Append(done, FoldLeft(ReadToken, [mode |-> mode, code |-> <<>>, quoted |-> FALSE], line))
    IN  FoldLeft(Next, <<>>, lines)

\* A cleansed line without what stands for strings and indentation.
Bare(line) == SelectSeq(line, LAMBDA t : t \notin Quotes \union {Indentation})

============================================================================
