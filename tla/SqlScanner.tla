----------------------------- MODULE SqlScanner ------------------------------
(***************************************************************************)
(* validateSQL (internal/domain/functions/sql_database.go): the scanner    *)
(* that decides, before SQLite sees a statement, whether it is one         *)
(* statement of an allowed kind, and whether it is a query.  Beside it a   *)
(* reference that reads the text a character at a time and first blanks    *)
(* out what is quoted or commented.  Every text over a small alphabet is   *)
(* typed in; keywords are words over its two letters.  The limits of the   *)
(* lengths and the types of the parameters are left out.                   *)
(***************************************************************************)
EXTENDS Naturals, Sequences

CONSTANTS
    Letters, Digits, Others,    \* the alphabet, besides the characters named below
    Reads, Writes,              \* SELECT, WITH; INSERT, UPDATE, DELETE
    Definitions,                \* the first two words: <<CREATE, TABLE>>, <<ALTER, TABLE>>, ...
    Returning, Forbidden,       \* RETURNING; ATTACH, PRAGMA, ...
    MaxLength                   \* bound on the text

VARIABLE text

Blank == "\n"
Close == [c \in {"'", "["} |-> IF c = "[" THEN "]" ELSE c]
Alphabet == Letters \cup Digits \cup Others \cup DOMAIN Close \cup {Blank, "]", "-", "/", "*", ";"}

Refused == "refused"
Query == "query"
Exec == "exec"

TypeOK == text \in Seq(Alphabet) /\ Len(text) <= MaxLength

Init == text = <<>>

Type(c) ==
    /\ Len(text) < MaxLength
    /\ text' = Append(text, c)

Next == \E c \in Alphabet : Type(c)

Spec == Init /\ [][Next]_text

-----------------------------------------------------------------------------
(* The scanner.                                                            *)

\* s[i], or nothing after the end.
At(s, i) == IF i <= Len(s) THEN s[i] ELSE ""

\* The first position from i on that has P, or one past the end.
First(s, i, P(_)) ==
    LET found == {k \in i .. Len(s) : P(k)}
    IN  IF found = {} THEN Len(s) + 1 ELSE CHOOSE k \in found : \A j \in found : k <= j

\* Kind of statement, from its words.
Verdict(words) ==
    IF words = <<>> THEN Refused
    ELSE IF words[1] \in Reads THEN Query
    ELSE IF words[1] \in Writes
    THEN IF \E i \in DOMAIN words : words[i] = Returning THEN Query ELSE Exec
    ELSE IF Len(words) > 1 /\ <<words[1], words[2]>> \in Definitions THEN Exec
    ELSE Refused

\* Seeded fault: a doubled quote ends the text.
UndoubledQuote(s, i, close) ==
    LET end == First(s, i, LAMBDA k : s[k] = close)
    IN  IF end > Len(s) THEN 0 ELSE IF At(s, end + 1) = close THEN end + 2 ELSE end + 1

\* The position after a quoted text whose inside begins at i, 0 if it has no end.  A
\* doubled closing character stands for itself, except for brackets.
RECURSIVE AfterQuote(_, _, _)
AfterQuote(s, i, close) ==
    LET end == First(s, i, LAMBDA k : s[k] = close)
    IN  IF end > Len(s) THEN 0
        ELSE IF close # "]" /\ At(s, end + 1) = close THEN AfterQuote(s, end + 2, close)
        ELSE end + 1

\* The position after a block comment whose inside begins at i, 0 if it has no end.
AfterComment(s, i) ==
    LET end == First(s, i, LAMBDA k : s[k] = "*" /\ At(s, k + 1) = "/")
    IN  IF end > Len(s) THEN 0 ELSE end + 2

\* The loop of validateSQL from position i.
RECURSIVE Scan(_, _, _, _)
Scan(s, i, tokens, terminated) ==
    CASE i > Len(s) -> Verdict(tokens)
      [] At(s, i) = Blank -> Scan(s, i + 1, tokens, terminated)
      [] At(s, i) = "-" /\ At(s, i + 1) = "-" ->
            Scan(s, First(s, i + 2, LAMBDA k : s[k] = Blank), tokens, terminated)
      [] At(s, i) = "/" /\ At(s, i + 1) = "*" ->
            LET next == AfterComment(s, i + 2)
            IN  IF next = 0 THEN Refused ELSE Scan(s, next, tokens, terminated)
      [] At(s, i) \in DOMAIN Close ->
            LET next == AfterQuote(s, i + 1, Close[s[i]])
            IN  IF next = 0 \/ terminated THEN Refused ELSE Scan(s, next, tokens, terminated)
      [] At(s, i) = ";" ->
            IF terminated \/ tokens = <<>> THEN Refused ELSE Scan(s, i + 1, tokens, TRUE)
      [] At(s, i) \in Letters ->
            LET next == First(s, i, LAMBDA k : s[k] \notin Letters \cup Digits)
                word == SubSeq(s, i, next - 1)
            IN  IF terminated \/ word \in Forbidden THEN Refused
                ELSE Scan(s, next, Append(tokens, word), terminated)
      [] OTHER -> IF terminated THEN Refused ELSE Scan(s, i + 1, tokens, terminated)

validateSQL(s) == Scan(s, 1, <<>>, FALSE)

-----------------------------------------------------------------------------
(* The reference.                                                          *)

\* What a reader is in: plain text, after a - or / that may begin a comment, a comment, or
\* a quoted text, perhaps just after its closing quote.
Plain(out, c) ==
    CASE c = "-" -> [in |-> "dash", out |-> out]
      [] c = "/" -> [in |-> "slash", out |-> out]
      [] c = "'" -> [in |-> "quote", out |-> out]
      [] c = "[" -> [in |-> "bracket", out |-> out]
      [] OTHER -> [in |-> "plain", out |-> Append(out, c)]

Quoted == "q"

Read(st, c) ==
    CASE st.in = "plain" -> Plain(st.out, c)
      [] st.in = "dash" ->
            IF c = "-" THEN [in |-> "line", out |-> st.out] ELSE Plain(Append(st.out, "-"), c)
      [] st.in = "slash" ->
            IF c = "*" THEN [in |-> "block", out |-> st.out] ELSE Plain(Append(st.out, "/"), c)
      [] st.in = "line" ->
            IF c = Blank THEN [in |-> "plain", out |-> Append(st.out, Blank)] ELSE st
      [] st.in = "block" -> IF c = "*" THEN [st EXCEPT !.in = "star"] ELSE st
      [] st.in = "star" ->
            IF c = "/" THEN [in |-> "plain", out |-> Append(st.out, Blank)]
            ELSE IF c = "*" THEN st ELSE [st EXCEPT !.in = "block"]
      [] st.in = "quote" -> IF c = "'" THEN [st EXCEPT !.in = "closed"] ELSE st
      [] st.in = "closed" ->
            IF c = "'" THEN [st EXCEPT !.in = "quote"] ELSE Plain(Append(st.out, Quoted), c)
      [] st.in = "bracket" ->
            IF c = "]" THEN [in |-> "plain", out |-> Append(st.out, Quoted)] ELSE st

\* The text with every comment a blank and every quoted text one character; "" if one of
\* them has no end.
RECURSIVE Reader(_)
Reader(s) ==
    IF s = <<>> THEN [in |-> "plain", out |-> <<>>]
    ELSE Read(Reader(SubSeq(s, 1, Len(s) - 1)), s[Len(s)])

\* A word begins with a letter that only digits separate from what is no part of a word.
WordAt(s, i) ==
    /\ s[i] \in Letters
    /\ \E k \in 1..i : /\ \A j \in k .. i - 1 : s[j] \in Digits
                       /\ k = 1 \/ s[k - 1] \notin Letters \cup Digits

WordsOf(s) ==
    LET word(i) == SubSeq(s, i, First(s, i, LAMBDA k : s[k] \notin Letters \cup Digits) - 1)
        words[i \in 0 .. Len(s)] ==
            IF i = 0 THEN <<>>
            ELSE IF WordAt(s, i) THEN Append(words[i - 1], word(i)) ELSE words[i - 1]
    IN  words[Len(s)]

Reference(s) ==
    LET end == Reader(s)
        plain == end.out \o (CASE end.in = "dash" -> <<"-">>
                               [] end.in = "slash" -> <<"/">>
                               [] end.in = "closed" -> <<Quoted>>
                               [] OTHER -> <<>>)
        boundary == First(plain, 1, LAMBDA k : plain[k] = ";")
        statement == SubSeq(plain, 1, boundary - 1)
        words == WordsOf(statement)
    IN  IF \/ end.in \in {"block", "star", "quote", "bracket"}
           \/ \E k \in boundary + 1 .. Len(plain) : plain[k] # Blank
           \/ \E k \in DOMAIN words : words[k] \in Forbidden
        THEN Refused
        ELSE Verdict(words)

-----------------------------------------------------------------------------

\* "The scanner understands quoted strings, identifiers, and comments so tokens inside them
\* cannot change the statement boundary or the leading operation" (sql_database.go:331).
ScannerAgrees == validateSQL(text) = Reference(text)
=============================================================================
