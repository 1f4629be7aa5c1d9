----------------------------- MODULE LintNesting -----------------------------
(***************************************************************************)
(* The blocks of a file as cpplint.py follows them line by line:           *)
(* NestingState with its block classes, CloseExpression, which it uses to  *)
(* tell classes from template arguments, and the check of indentation in   *)
(* namespaces.  An operator that reports returns its errors as a sequence. *)
(***************************************************************************)
EXTENDS LintText

CONSTANT NamespaceLines \* the length from which a namespace needs a comment

Error(line, category, confidence) ==
    [line |-> line, category |-> category, confidence |-> confidence]

\* Python's number of the line at position i of a sequence of lines.
Number(i) == i - 1

-----------------------------------------------------------------------------
(***************************************************************************)
(* FindEndOfExpressionInLine and CloseExpression: the position after the   *)
(* end of the expression that starts at a position, <<0, 0>> if there is   *)
(* none.  An empty stack before the end gives up.                          *)
(***************************************************************************)
ClosedBy == [t \in {")", "]", "}"} |-> CASE t = ")" -> "(" [] t = "]" -> "[" [] t = "}" -> "{"]

RECURSIVE WithoutAngles(_)
WithoutAngles(stack) ==
    IF stack # <<>> /\ Last(stack) = "<" THEN WithoutAngles(Front(stack)) ELSE stack

\* The stack after a token, which ends the expression when it empties it.
AfterToken(stack, t) ==
    CASE t \in {"(", "[", "{", "<"} -> Append(stack, t)
      [] t \in DOMAIN ClosedBy ->
            LET rest == WithoutAngles(stack)
            IN  IF rest # <<>> /\ Last(rest) = ClosedBy[t] THEN Front(rest) ELSE <<>>
      [] t = ">" -> IF stack # <<>> /\ Last(stack) = "<" THEN Front(stack) ELSE stack
      [] t = ";" -> WithoutAngles(stack)
      [] OTHER -> stack

\* Whether a token that empties the stack closes the expression, or only shows
\* that its < was an operator or that its parentheses do not match.
Closes(stack, t) ==
    \/ t = ">" /\ stack = <<"<">>
    \/ t \in DOMAIN ClosedBy /\ WithoutAngles(stack) = <<ClosedBy[t]>>

RECURSIVE CloseFrom(_, _, _, _)
CloseFrom(lines, i, pos, stack) ==
    IF i > Len(lines) THEN <<0, 0>>
    ELSE IF pos > Len(lines[i]) THEN CloseFrom(lines, i + 1, 1, stack)
    ELSE LET t == lines[i][pos]
             next == AfterToken(stack, t)
         IN  IF next # <<>> THEN CloseFrom(lines, i, pos + 1, next)
             ELSE IF Closes(stack, t) THEN <<i, pos + 1>> ELSE <<0, 0>>

CloseExpression(lines, i, pos) == CloseFrom(lines, i, pos, <<>>)

(***************************************************************************)
(* InTemplateArgumentList, from the position that follows a class head.    *)
(***************************************************************************)
RECURSIVE InTemplateArgumentList(_, _, _)
InTemplateArgumentList(lines, i, pos) ==
    IF i > Len(lines) THEN FALSE
    ELSE LET found == First(From(lines[i], pos), {"{", "}", ";", "=", "[", "]", ".", "<", ">"})
             at == pos + found - 1
             t == lines[i][at]
             end == CloseExpression(lines, i, at)
         IN  IF found = 0 THEN InTemplateArgumentList(lines, i + 1, 1)
             ELSE IF t \in {"{", "}", ";"} THEN FALSE
             ELSE IF t # "<" THEN TRUE
             ELSE IF end = <<0, 0>> THEN FALSE
             ELSE InTemplateArgumentList(lines, end[1], end[2])

-----------------------------------------------------------------------------
(***************************************************************************)
(* A block of the stack: _BlockInfo, _ExternCInfo, _ClassInfo or           *)
(* _NamespaceInfo.  asm is the state of inline assembly in it.             *)
(***************************************************************************)
Block(kind, at, name, indented, seenOpenBrace) ==
    [kind |-> kind, at |-> at, name |-> name, indented |-> indented,
     seenOpenBrace |-> seenOpenBrace, openParentheses |-> 0, asm |-> "no"]

\* previousTop tells which block was the last one before the line: its depth
\* and its line, as the code compares objects.
NoTop == [depth |-> 0, at |-> -1, kind |-> ""]
InitNesting == [stack |-> <<>>, previousTop |-> NoTop, ppStack |-> <<>>]

TopOf(stack) == IF stack = <<>> THEN NoTop
                ELSE [depth |-> Len(stack), at |-> Last(stack).at, kind |-> Last(stack).kind]

SeenOpenBrace(stack) == stack = <<>> \/ Last(stack).seenOpenBrace
InAsmBlock(nesting) == nesting.stack # <<>> /\ Last(nesting.stack).asm # "no"

WithTop(stack, block) == Append(Front(stack), block)

\* UpdatePreprocessor; the faulty variant keeps the last branch.
IfDirectives == {"#if", "#ifdef", "#ifndef"}
ElseDirectives == {"#else", "#elif"}
KeepLastBranch(nesting) == [nesting EXCEPT !.ppStack = Front(@)]
KeepFirstBranch(nesting) ==
    LET last == Last(nesting.ppStack)
    IN  [nesting EXCEPT !.stack = IF last.seenElse THEN last.stackBeforeElse ELSE @,
                        !.ppStack = Front(@)]

UpdatePreprocessor(nesting, line) ==
    LET pp == nesting.ppStack
        last == Last(pp)
    IN  IF Begins(line, IfDirectives)
        THEN [nesting EXCEPT !.ppStack =
                 Append(@, [stackBeforeIf |-> nesting.stack, stackBeforeElse |-> <<>>,
                            seenElse |-> FALSE])]
        ELSE IF pp = <<>> THEN nesting
        ELSE IF Begins(line, ElseDirectives)
        THEN [nesting EXCEPT
                 !.stack = last.stackBeforeIf,
                 !.ppStack = IF last.seenElse THEN @
                             ELSE WithTop(@, [last EXCEPT !.seenElse = TRUE,
                                                          !.stackBeforeElse = nesting.stack])]
        ELSE IF Begins(line, {"#endif"}) THEN KeepFirstBranch(nesting)
        ELSE nesting

-----------------------------------------------------------------------------
(***************************************************************************)
(* Update, in the order of its parts.                                      *)
(***************************************************************************)

\* Whether tokens start with asm and an opening parenthesis or brace.
MatchAsm(tokens) ==
    /\ Begins(tokens, {"asm"})
    /\ Len(Stripped(tokens)) > 1 /\ Stripped(tokens)[2] \in {"(", "{"}

CountParentheses(stack, line) ==
    IF stack = <<>> THEN stack
    ELSE LET top == Last(stack)
             change == Count(line, "(") - Count(line, ")")
             open == top.openParentheses + change
             entered == change # 0 /\ open = 1 /\ MatchAsm(line)
             asm == IF top.asm \in {"no", "end"}
                    THEN (IF entered THEN "inside" ELSE "no")
                    ELSE IF top.asm = "inside" /\ open = 0 THEN "end" ELSE top.asm
         IN  WithTop(stack, [top EXCEPT !.openParentheses = open, !.asm = asm])

\* The namespaces declared at the start of what is left of the line.
RECURSIVE ReadNamespaces(_, _)
ReadNamespaces(read, at) ==
    LET line == Stripped(read.line)
        named == Len(line) > 1 /\ line[2] \notin {"{", "=", ";"}
        rest == From(line, IF named THEN 3 ELSE 2)
        open == First(rest, {"{"})
        block == Block("namespace", at, IF named THEN line[2] ELSE "", FALSE, open > 0)
    IN  IF ~Begins(read.line, {"namespace"}) THEN read
        ELSE ReadNamespaces([stack |-> Append(read.stack, block),
                             line |-> From(rest, open + 1)], at)

\* A class head at the start of what is left: the offset of what follows it in
\* what is left is used as an offset in the whole line.
ReadClass(read, lines, rawLines, i) ==
    LET line == Stripped(read.line)
        head == IF Begins(line, {"template<>"}) THEN 2 ELSE 1
        offset == head + 2 + Len(read.line) - Len(line)
    IN  IF /\ Len(line) > head /\ line[head] \in {"class", "struct"}
           /\ line[head + 1] \notin {"{", ";", ">", ","}
           /\ read.stack = <<>> \/ Last(read.stack).openParentheses = 0
           /\ ~InTemplateArgumentList(lines, i, offset)
        THEN [stack |-> Append(read.stack,
                            Block("class", Number(i), line[head + 1], Indented(rawLines[i]), FALSE)),
              line |-> From(line, head + 2)]
        ELSE read

\* The comment that ends a namespace: what follows }, any ; and the mark.
EndComment(raw) ==
    LET line == Stripped(raw)
        mark == First(line, {"//", "/*"})
    IN  IF mark > 1 /\ line[1] = "}" /\ \A i \in 2..(mark - 1) : line[i] = ";"
        THEN SelectSeq(From(line, mark + 1), LAMBDA t : t # "*/") ELSE <<>>

EndsWith(comment, words) ==
    Len(comment) >= Len(words) /\ From(comment, Len(comment) - Len(words) + 1) = words

\* CheckEnd of a class and of a namespace, on the line of the closing brace.
ClassEnds(block, line, i) ==
    IF Begins(line, {"}"}) /\ Indented(line) # block.indented
    THEN <<Error(Number(i), "whitespace/indent", 3)>> ELSE <<>>

NamespaceEnds(block, raw, i) ==
    LET comment == EndComment(raw)
        name == IF block.name = "" THEN <<>> ELSE <<block.name>>
    IN  IF /\ \/ Number(i) - block.at >= NamespaceLines
              \/ "namespace" \in ToSet(comment)
           /\ ~EndsWith(comment, <<"namespace">> \o name)
        THEN <<Error(Number(i), "readability/namespace", 5)>> ELSE <<>>

CheckEnd(block, lines, rawLines, i) ==
    CASE block.kind = "class" -> ClassEnds(block, lines[i], i)
      [] block.kind = "namespace" -> NamespaceEnds(block, rawLines[i], i)
      [] OTHER -> <<>>

\* One token of what is left; since holds those that follow the last one that
\* counts.
ReadToBlocks(read, t, lines, rawLines, i) ==
    LET stack == read.stack
        since == Append(read.since, t)
        block == IF since = <<"extern", DQ, DQ, "{">>
                 THEN Block("extern", Number(i), "", FALSE, TRUE)
                 ELSE [Block("block", Number(i), "", FALSE, TRUE) EXCEPT
                          !.asm = IF MatchAsm(since) THEN "block" ELSE "no"]
        Goes(next) == [read EXCEPT !.stack = next, !.since = <<>>]
    IN  CASE t = "{" -> Goes(IF ~SeenOpenBrace(stack)
                             THEN WithTop(stack, [Last(stack) EXCEPT !.seenOpenBrace = TRUE])
                             ELSE Append(stack, block))
          [] t \in {";", ")"} -> Goes(IF SeenOpenBrace(stack) THEN stack ELSE Front(stack))
          [] t = "}" /\ stack # <<>> ->
                [Goes(Front(stack)) EXCEPT !.errors = @ \o CheckEnd(Last(stack), lines, rawLines, i)]
          [] t = "}" /\ stack = <<>> -> Goes(stack)
          [] OTHER -> [read EXCEPT !.since = since]

\* The state after line i, and the errors.
Update(nesting, lines, rawLines, i) ==
    LET entered == UpdatePreprocessor([nesting EXCEPT !.previousTop = TopOf(nesting.stack)],
                                      lines[i])
        counted == [stack |-> CountParentheses(entered.stack, lines[i]), line |-> lines[i]]
        heads == ReadClass(ReadNamespaces(counted, Number(i)), lines, rawLines, i)
        read == FoldLeft(LAMBDA r, t : ReadToBlocks(r, t, lines, rawLines, i),
                         [stack |-> heads.stack, since |-> <<>>, errors |-> <<>>], heads.line)
    IN  [nesting |-> [entered EXCEPT !.stack = read.stack], errors |-> read.errors]

CheckCompletedBlocks(nesting) ==
    LET open == SelectSeq(nesting.stack, LAMBDA b : b.kind \in {"class", "namespace"})
    IN  [b \in DOMAIN open |->
            Error(open[b].at, IF open[b].kind = "class" THEN "build/class" ELSE "build/namespaces", 5)]

-----------------------------------------------------------------------------
(***************************************************************************)
(* CheckForNamespaceIndentation, after Update.                             *)
(***************************************************************************)
IsForwardClassDeclaration(line) ==
    LET n == Len(line) IN n >= 3 /\ line[n - 2] = "class" /\ line[n] = ";"

IsMacroDefinition(lines, i) ==
    \/ lines[i] # <<>> /\ lines[i][1] = "#define"
    \/ i > 1 /\ lines[i - 1] # <<>> /\ Last(lines[i - 1]) = "\\"

\* The block that has just been put in the namespace that was innermost.
IsNamespaceIndentItem(nesting) ==
    LET stack == nesting.stack
        top == nesting.previousTop
    IN  /\ Len(stack) > 1 /\ Last(stack).kind \in {"class", "namespace"}
        /\ top.kind = "namespace" /\ top.depth = Len(stack) - 1
        /\ stack[top.depth].at = top.at /\ stack[top.depth].kind = top.kind

CheckForNamespaceIndentation(nesting, lines, i) ==
    LET stack == nesting.stack
        forward == IsForwardClassDeclaration(lines[i])
        inNamespace == IF forward THEN stack # <<>> /\ Last(stack).kind = "namespace"
                       ELSE IsNamespaceIndentItem(nesting)
    IN  IF inNamespace /\ ~IsMacroDefinition(lines, i) /\ Indented(lines[i])
        THEN <<Error(Number(i), "runtime/indentation_namespace", 4)>> ELSE <<>>

============================================================================
