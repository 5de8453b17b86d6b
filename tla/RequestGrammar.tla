--------------------------- MODULE RequestGrammar ---------------------------
(***************************************************************************)
(* Which sequences of characters are requests, and what they ask for, said *)
(* without a parser: a request is a request line, lines that are headers   *)
(* or continue the header before, and an empty line.                       *)
(*                                                                         *)
(*   request line    method SP uri SP "HTTP/" digits "." digits            *)
(*   header          name ": " value                                       *)
(*   continuation    blanks value                                          *)
(***************************************************************************)
EXTENDS RequestParser, RequestHandler

IsText(c) == ~is_ctl(c)

FirstOf(S) == CHOOSE i \in S : \A j \in S : i <= j
LastOf(S) == CHOOSE i \in S : \A j \in S : j <= i

\* What s holds at the positions in S, in their order.
Chars(s, S) ==
  LET upto[n \in 0 .. Len(s)] ==
        IF n = 0 THEN <<>>
        ELSE IF n \in S THEN Append(upto[n - 1], s[n]) ELSE upto[n - 1]
  IN  upto[Len(s)]

-----------------------------------------------------------------------------
(* Lines.  A line is named by the position where it begins.                *)

LineStarts(s) == {i \in DOMAIN s : i = 1 \/ s[i - 1] = LF}
EndOf(s, i) == FirstOf({j \in i .. Len(s) : s[j] = CR})

\* The positions of line i, without its end.
Line(s, i) == i .. EndOf(s, i) - 1

LineOf(s, j) == LastOf({i \in LineStarts(s) : i <= j})

\* Every CR is followed by LF, there is no other LF, and the last line is the
\* only empty one.
IsLines(s) ==
  /\ Len(s) >= 2 /\ s[Len(s)] = LF
  /\ \A i \in DOMAIN s : s[i] = LF <=> i > 1 /\ s[i - 1] = CR
  /\ {i \in LineStarts(s) : s[i] = CR} = {Len(s) - 1}

-----------------------------------------------------------------------------
(* The request line: the two blanks, and what is around them.              *)

Blanks(s) == {i \in Line(s, 1) : s[i] = SP}

Method(s) == SubSeq(s, 1, FirstOf(Blanks(s)) - 1)
Uri(s) == SubSeq(s, FirstOf(Blanks(s)) + 1, LastOf(Blanks(s)) - 1)

\* "HTTP/", digits, a dot and digits.
IsVersion(s, first, last) ==
  /\ first + 6 < last /\ SubSeq(s, first, first + 4) = <<72, 84, 84, 80, Slash>>
  /\ \E dot \in first + 6 .. last - 1 :
       s[dot] = Dot /\ \A i \in first + 5 .. last : i # dot => is_digit(s[i])

IsRequestLine(s) ==
  LET blanks == Blanks(s)
      m == FirstOf(blanks)
      u == LastOf(blanks)
  IN  /\ blanks # {} /\ m # u /\ blanks = {m, u}
      /\ 1 < m /\ \A i \in 1 .. m - 1 : IsToken(s[i])
      /\ \A i \in m + 1 .. u - 1 : IsText(s[i])
      /\ IsVersion(s, u + 1, EndOf(s, 1) - 1)

-----------------------------------------------------------------------------
(* Headers.                                                                *)

\* Where the lines begin that are a header and no continuation.
Heads(s) == {i \in LineStarts(s) : i # 1 /\ s[i] \notin {SP, HT, CR}}

Name(s, i) == SubSeq(s, i, FirstOf({k \in i .. Len(s) : s[k] = Colon}) - 1)

\* Position j belongs to the value of a header: it is behind the colon and its
\* blank, or in a continuation behind the blanks that this begins with.
InValue(s, j) ==
  LET i == LineOf(s, j)
  IN  /\ s[j] \notin {CR, LF}
      /\ IF i \in Heads(s) THEN \E k \in i .. j - 2 : s[k] = Colon
         ELSE \E k \in i .. j : s[k] \notin {SP, HT}

IsHeader(s, i) ==
  \E k \in Line(s, i) :
    /\ s[k] = Colon /\ s[k + 1] = SP
    /\ i < k /\ \A j \in i .. k - 1 : IsToken(s[j])
    /\ \A j \in Line(s, i) : k < j => IsText(s[j])

IsContinuation(s, i) ==
  /\ s[i] \in {SP, HT}
  /\ \A j \in Line(s, i) : (\E k \in i .. j : s[k] \notin {SP, HT}) => IsText(s[j])

\* The second line, and the lines between the request line and the empty line.
SecondLine(s) == EndOf(s, 1) + 2
HeaderLines(s) == LineStarts(s) \ {1, Len(s) - 1}

IsRequest(s) ==
  /\ IsLines(s)
  /\ IsRequestLine(s)
  /\ \A i \in HeaderLines(s) : IsHeader(s, i) \/ (i # SecondLine(s) /\ IsContinuation(s, i))

\* The value of header i goes on in the lines before the next header.
Value(s, i) ==
  Chars(s, {j \in i .. Len(s) : InValue(s, j) /\ ~\E h \in Heads(s) : i < h /\ h <= j})

\* Of headers with the same name the last one counts.
Headers(s) ==
  LET named(n) == {i \in Heads(s) : Name(s, i) = n}
  IN  [n \in {Name(s, i) : i \in Heads(s)} |-> Value(s, LastOf(named(n)))]

Request(s) == [method |-> Method(s), uri |-> Uri(s), headers |-> Headers(s)]

-----------------------------------------------------------------------------
(* Paths: escapes, which are a percent sign and two hexadecimal digits,    *)
(* and other characters.                                                   *)

\* Where they begin: wherever the one before is over.
Width(c) == IF c = Percent THEN 3 ELSE 1
Starts(s) ==
  CHOOSE S \in SUBSET DOMAIN s :
    \A i \in DOMAIN s : i \in S <=> \A j \in S : j < i => j + Width(s[j]) <= i

\* An escape, and the character it stands for.
IsEscape(s, i) == i + 2 <= Len(s) /\ IsHex(s[i + 1]) /\ IsHex(s[i + 2])
Escaped(s, i) == ToChar(16 * Hex(s[i + 1]) + Hex(s[i + 2]))

\* A number in one digit: a digit before some other character, or a sign before it.
IsHalfEscape(s, i) ==
  /\ i + 2 <= Len(s)
  /\ \/ IsHex(s[i + 1]) /\ ~IsHex(s[i + 2])
     \/ s[i + 1] \in {Plus, Minus} /\ IsHex(s[i + 2])

\* Paths with a meaning, and paths with an escape that is no number at all.
Decodable(s) == \A i \in Starts(s) : s[i] = Percent => IsEscape(s, i)
Garbled(s) == \E i \in Starts(s) : s[i] = Percent /\ ~IsEscape(s, i) /\ ~IsHalfEscape(s, i)

Decoded(s) ==
  LET char(i) == CASE i \in Starts(s) /\ s[i] = Percent -> Escaped(s, i)
                   [] i \in Starts(s) /\ s[i] = Plus -> Blank
                   [] OTHER -> s[i]
  IN  Chars([i \in DOMAIN s |-> char(i)], Starts(s))

-----------------------------------------------------------------------------

Prefix(s, n) == SubSeq(s, 1, n)

\* "G / HTTP/1.0", a header and an empty line.  Whatever is the beginning of a
\* request becomes one with some end of this one.
Sample ==
  <<71, SP, Slash, SP, 72, 84, 84, 80, Slash, 49, Dot, 48, CR, LF,
    65, Colon, SP, 98, CR, LF, CR, LF>>

CanGoOn(s) == \E i \in DOMAIN Sample : IsRequest(s \o SubSeq(Sample, i, Len(Sample)))

\* What becomes of a connection that sends s: the length of the request it
\* begins with, 0 if nothing that follows can make it a request, -1 otherwise.
RequestLength(s) ==
  LET requests == {n \in 1 .. Len(s) : IsRequest(Prefix(s, n))}
  IN  IF requests # {} THEN FirstOf(requests)
      ELSE IF CanGoOn(s) THEN -1 ELSE 0
=============================================================================
