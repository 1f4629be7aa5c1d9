------------------------------ MODULE Dictionary ------------------------------
(***************************************************************************)
(* The dictionary of messages (etc/DFLMessages_<locale>.dic), read twice:  *)
(* by generateMessages.py when the program is built, to generate the enum  *)
(* of keys, and by the constructor of Dico when it runs.                   *)
(*                                                                         *)
(* A line is a record: head, the words before its first "=" (all of them   *)
(* without one), those of Symbols being no identifiers; sign, whether it   *)
(* has an "="; tab, whether a tabulation comes before the message; message *)
(* ("" for none); continued, whether it ends with a backslash.             *)
(***************************************************************************)
LOCAL INSTANCE Naturals
LOCAL INSTANCE SequencesExt

CONSTANT Symbols \* the words that are not of the form \w+

-----------------------------------------------------------------------------
(***************************************************************************)
(* generateMessages.py.  The pattern is matched from the start of a line:  *)
(* blanks, one identifier, blanks, "=", blanks, the message.               *)
(***************************************************************************)
Defines(l) == l.sign /\ Len(l.head) = 1 /\ l.head[1] \notin Symbols

_parse(lines) ==
    LET defining == SelectSeq(lines, Defines)
    IN  [i \in DOMAIN defining |->
            [key |-> defining[i].head[1], message |-> defining[i].message,
             continued |-> defining[i].continued]]

\* The enumerators of the header.  Each is followed by its message in a comment,
\* which takes in the next line when it ends with a backslash.
Enumerators(messages) ==
    {messages[i].key : i \in {j \in DOMAIN messages :
                                 j = 1 \/ ~messages[j - 1].continued}}

\* The generated files compile: distinct enumerators, one for each pair of keys_,
\* and an enum that is closed.
Compiles(messages) ==
    /\ \A i, j \in DOMAIN messages : messages[i].key = messages[j].key => i = j
    /\ Enumerators(messages) = {m.key : m \in ToSet(messages)}
    /\ messages # <<>> => ~Last(messages).continued

-----------------------------------------------------------------------------
(***************************************************************************)
(* The constructor of Dico.  The key is what is before the first "=",      *)
(* without its blanks; the message starts at the first character that is   *)
(* not a space, be it a tabulation, and substr throws when there is none.  *)
(***************************************************************************)
\* Faulty variant: blanks are left.
Untrimmed(l) == FoldLeft(LAMBDA a, w : a \o w \o " ", "", l.head)
KeyOf(l) == FoldLeft(LAMBDA a, w : a \o w, "", l.head)

TextOf(l) == IF l.tab THEN "\t" \o l.message ELSE l.message

Throws(lines) == \E l \in ToSet(lines) : l.sign /\ ~l.tab /\ l.message = ""

\* insert keeps the first message of a key.
Loaded(lines, keys) ==
    LET Naming(key) == SelectSeq(lines, LAMBDA l : l.sign /\ KeyOf(l) = key)
    IN  [key \in {k \in keys : Naming(k) # <<>>} |-> TextOf(Head(Naming(key)))]

\* Dico::message: an unknown key has an empty message.
Message(messages, key) == IF key \in DOMAIN messages THEN messages[key] ELSE ""

=============================================================================
