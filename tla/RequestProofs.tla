---------------------------- MODULE RequestProofs ----------------------------
(***************************************************************************)
(* Proofs about RequestGrammar: that the parser of request_parser.hpp,     *)
(* which reads one character after the other, accepts exactly the strings  *)
(* that the grammar calls requests, decides as early as it can, and makes  *)
(* of a request the method, the uri and the headers that its positions say *)
(* (ParserIsGrammar); that url_decode, which reads a path in one loop, is  *)
(* Decoded, which says what every escape stands for (UrlDecodeIsDecoded);  *)
(* and how the list of handlers is ordered.  All of it for strings of any  *)
(* length and any characters.                                              *)
(*                                                                         *)
(* Induction on the length of a string is over sets of natural numbers:    *)
(* a set that 0 is in and that is closed under + 1 up to n holds 0 .. n    *)
(* (UpTo).  Recursive functions are taken by the equation they satisfy.    *)
(***************************************************************************)
EXTENDS RequestGrammar, FiniteSetTheorems, WellFoundedInduction, TLAPS

-----------------------------------------------------------------------------
(* Numbers and strings.                                                    *)

\* A set of natural numbers that is not empty has a least one.
LEMMA LeastNat ==
  ASSUME NEW S \in SUBSET Nat, S # {}
  PROVE  \E x \in S : \A y \in S : x <= y
<1>1. \E x \in S : \A y \in S : <<y, x>> \notin OpToRel(<, Nat)
  BY NatLessThanWellFounded, WFMin
<1>2. \A x, y \in Nat : <<y, x>> \notin OpToRel(<, Nat) => x <= y
  BY DEF OpToRel
<1> QED BY <1>1, <1>2

\* What holds of 0 and, with each number below n, of the next one holds up to n.
LEMMA UpTo ==
  ASSUME NEW n \in Nat, NEW S, 0 \in S, \A k \in 0 .. (n - 1) : k \in S => k + 1 \in S
  PROVE  \A k \in 0 .. n : k \in S
<1> DEFINE bad == {k \in 0 .. n : k \notin S}
<1> SUFFICES ASSUME bad # {} PROVE FALSE
  OBVIOUS
<1>1. PICK k \in bad : \A j \in bad : k <= j
  <2>1. bad \in SUBSET Nat
    OBVIOUS
  <2> HIDE DEF bad
  <2> QED BY <2>1, LeastNat
<1>2. k \in 0 .. n /\ k # 0 /\ k \notin S
  BY <1>1
<1>3. k - 1 \in 0 .. (n - 1) /\ k - 1 + 1 = k /\ ~ (k <= k - 1)
  BY <1>2
<1>4. k - 1 \in S
  <2> SUFFICES ASSUME k - 1 \notin S PROVE FALSE
    OBVIOUS
  <2>1. k - 1 \in 0 .. n
    BY <1>3
  <2>2. k - 1 \in bad
    BY <2>1
  <2> HIDE DEF bad
  <2> QED BY <1>1, <1>3, <2>2
<1> QED BY <1>2, <1>3, <1>4

\* The first and the last of a set of numbers.
LEMMA FirstOfIs ==
  ASSUME NEW S \in SUBSET Int, NEW x \in S, \A y \in S : x <= y
  PROVE  FirstOf(S) = x
<1>1. FirstOf(S) \in S /\ \A y \in S : FirstOf(S) <= y
  BY DEF FirstOf
<1>2. FirstOf(S) <= x /\ x <= FirstOf(S) /\ FirstOf(S) \in Int /\ x \in Int
  BY <1>1
<1> HIDE DEF FirstOf
<1> QED BY <1>2

\* The upper bound of a set that is in it is its last.
LEMMA LastOfIs ==
  ASSUME NEW S \in SUBSET Int, NEW x \in S, \A y \in S : y <= x
  PROVE  LastOf(S) = x
<1>1. LastOf(S) \in S /\ \A y \in S : y <= LastOf(S)
  BY DEF LastOf
<1>2. LastOf(S) <= x /\ x <= LastOf(S) /\ LastOf(S) \in Int /\ x \in Int
  BY <1>1
<1> HIDE DEF LastOf
<1> QED BY <1>2

\* The first of a set of natural numbers is in it and below the others.
LEMMA FirstOfNat ==
  ASSUME NEW S \in SUBSET Nat, S # {}
  PROVE  FirstOf(S) \in S /\ \A y \in S : FirstOf(S) <= y
  BY LeastNat DEF FirstOf

\* The last of a set of positions is in it and above the others.
LEMMA LastOfRange ==
  ASSUME NEW n \in Nat, NEW S \in SUBSET (0 .. n), S # {}
  PROVE  LastOf(S) \in S /\ \A y \in S : y <= LastOf(S)
<1> DEFINE T == {n - y : y \in S}
<1>1. T \in SUBSET Nat /\ T # {}
  <2>1. \A y \in S : y \in 0 .. n /\ n - y \in Nat
    OBVIOUS
  <2>2. T \in SUBSET Nat
    BY <2>1
  <2> QED BY <2>2
<1>2. PICK t \in T : \A u \in T : t <= u
  BY <1>1, LeastNat
<1>3. PICK x \in S : t = n - x
  BY <1>2
<1>4. \A y \in S : y <= x
  BY <1>2, <1>3
<1> QED BY <1>3, <1>4 DEF LastOf

\* Strings are of characters, which are numbers.
String == Seq(Int)

\* The length and the characters of a prefix.
LEMMA PrefixFacts ==
  ASSUME NEW s \in String, NEW n \in 0 .. Len(s)
  PROVE  /\ Prefix(s, n) \in String /\ Len(Prefix(s, n)) = n
         /\ \A i \in 1 .. n : Prefix(s, n)[i] = s[i]
  BY DEF Prefix, String

\* Strings are equal when their characters are.
LEMMA SameString ==
  ASSUME NEW s \in String, NEW t \in String, Len(s) = Len(t),
         \A i \in 1 .. Len(s) : s[i] = t[i]
  PROVE  s = t
  BY DEF String

\* A prefix of a prefix is a prefix of the string.
LEMMA PrefixOfPrefix ==
  ASSUME NEW s \in String, NEW n \in 0 .. Len(s), NEW k \in 0 .. n
  PROVE  Prefix(Prefix(s, n), k) = Prefix(s, k)
<1>1. k \in 0 .. Len(s) /\ k \in 0 .. Len(Prefix(s, n)) /\ Prefix(s, n) \in String
  BY PrefixFacts DEF String
<1>2. /\ Prefix(Prefix(s, n), k) \in String /\ Len(Prefix(Prefix(s, n), k)) = k
      /\ \A i \in 1 .. k : Prefix(Prefix(s, n), k)[i] = Prefix(s, n)[i]
  BY <1>1, PrefixFacts
<1>3. \A i \in 1 .. k : i \in 1 .. n /\ Prefix(s, n)[i] = s[i] /\ Prefix(s, k)[i] = s[i]
  <2> TAKE i \in 1 .. k
  <2>1. i \in 1 .. n
    OBVIOUS
  <2>2. Prefix(s, n)[i] = s[i] /\ Prefix(s, k)[i] = s[i]
    BY <1>1, <2>1, PrefixFacts
  <2> QED BY <2>1, <2>2
<1>4. Prefix(s, k) \in String /\ Len(Prefix(s, k)) = k
  BY <1>1, PrefixFacts
<1> HIDE DEF Prefix
<1> QED BY <1>2, <1>3, <1>4, SameString

\* The longest prefix is the string.
LEMMA WholePrefix ==
  ASSUME NEW s \in String
  PROVE  Prefix(s, Len(s)) = s
<1>1. Len(s) \in 0 .. Len(s)
  BY DEF String
<1> QED BY <1>1, PrefixFacts, SameString

\* One character more.
LEMMA SubSeqGrows ==
  ASSUME NEW s \in String, NEW a \in 1 .. Len(s), NEW z \in (a - 1) .. (Len(s) - 1)
  PROVE  /\ SubSeq(s, a, z + 1) = Append(SubSeq(s, a, z), s[z + 1])
         /\ SubSeq(s, a, z) \in String
         /\ SubSeq(s, a, a - 1) = <<>>
<1>1. SubSeq(s, a, z) \in String /\ SubSeq(s, a, z + 1) \in String
  BY DEF String
<1>2. Len(SubSeq(s, a, z)) = z - a + 1 /\ Len(SubSeq(s, a, z + 1)) = z - a + 2
  BY DEF String
<1>3. s[z + 1] \in Int
  BY DEF String
<1>4. /\ Append(SubSeq(s, a, z), s[z + 1]) \in String
      /\ Len(Append(SubSeq(s, a, z), s[z + 1])) = z - a + 2
  BY <1>1, <1>2, <1>3 DEF String
<1>5. \A i \in 1 .. (z - a + 2) :
        Append(SubSeq(s, a, z), s[z + 1])[i] = SubSeq(s, a, z + 1)[i]
  <2> TAKE i \in 1 .. (z - a + 2)
  <2>1. SubSeq(s, a, z + 1)[i] = s[a + i - 1]
    BY DEF String
  <2>2. CASE i = z - a + 2
    BY <1>1, <1>2, <1>3, <2>1, <2>2 DEF String
  <2>3. CASE i <= z - a + 1
    <3>1. SubSeq(s, a, z)[i] = s[a + i - 1]
      BY <2>3 DEF String
    <3> QED BY <1>1, <1>2, <1>3, <2>1, <2>3, <3>1 DEF String
  <2> QED BY <2>2, <2>3
<1>6. SubSeq(s, a, a - 1) = <<>>
  BY DEF String
<1> QED BY <1>1, <1>2, <1>4, <1>5, <1>6, SameString

-----------------------------------------------------------------------------
(* The parser.                                                             *)

States == DOMAIN Fixed \union HeaderStates \union
  {"method_start", "method", "uri", "http_version_major_start", "http_version_major",
   "http_version_minor_start", "http_version_minor"}

ParserType ==
  [state : States, result : {"indeterminate", "good", "bad"},
   method : String, uri : String, headers : UNION {[D -> String] : D \in SUBSET String},
   header_name : String, header_value : String]

\* One round of parse.
Round(q, c) == IF q.result = "indeterminate" THEN consume(q, c) ELSE q

Started(p) == [p EXCEPT !.result = "indeterminate"]

\* The parser behind n characters of a string, as the recursion of parse says.
Trace(f, p, s, n) ==
  f = [i \in 0 .. n |-> IF i = 0 THEN Started(p) ELSE Round(f[i - 1], s[i])]

\* The recursion has a solution.
LEMMA TraceExists ==
  ASSUME NEW p, NEW s, NEW n \in Nat
  PROVE  \E f : Trace(f, p, s, n)
<1> DEFINE S == {k \in Nat : \E f : Trace(f, p, s, k)}
<1>1. 0 \in S
  <2>1. Trace([i \in 0 .. 0 |-> Started(p)], p, s, 0)
    BY DEF Trace
  <2> QED BY <2>1
<1>2. ASSUME NEW k \in 0 .. (n - 1), k \in S
      PROVE  k + 1 \in S
  <2>1. PICK f : Trace(f, p, s, k)
    BY <1>2
  <2> DEFINE g == [i \in 0 .. (k + 1) |-> IF i = k + 1 THEN Round(f[k], s[k + 1]) ELSE f[i]]
  <2>2. f = [i \in 0 .. k |-> IF i = 0 THEN Started(p) ELSE Round(f[i - 1], s[i])]
    BY <2>1 DEF Trace
  <2>3. ASSUME NEW i \in 0 .. (k + 1)
        PROVE  g[i] = IF i = 0 THEN Started(p) ELSE Round(g[i - 1], s[i])
    <3>1. CASE i = k + 1
      <4>1. g[i] = Round(f[k], s[k + 1]) /\ g[i - 1] = f[k] /\ i # 0
        BY <3>1
      <4> HIDE DEF g
      <4> QED BY <3>1, <4>1
    <3>2. CASE i # k + 1
      <4>1. i \in 0 .. k /\ g[i] = f[i] /\ (i # 0 => g[i - 1] = f[i - 1])
        BY <3>2
      <4>2. f[i] = IF i = 0 THEN Started(p) ELSE Round(f[i - 1], s[i])
        BY <2>2, <4>1
      <4> HIDE DEF g
      <4> QED BY <4>1, <4>2
    <3> QED BY <3>1, <3>2
  <2>4. DOMAIN g = 0 .. (k + 1) /\ g = [i \in 0 .. (k + 1) |-> g[i]]
    OBVIOUS
  <2> HIDE DEF g
  <2>5. Trace(g, p, s, k + 1)
    BY <2>3, <2>4 DEF Trace
  <2> QED BY <2>5
<1>3. n \in 0 .. n
  OBVIOUS
<1> HIDE DEF S
<1>4. n \in S
  BY <1>1, <1>2, <1>3, UpTo
<1> QED BY <1>4 DEF S

\* Two runs over strings that begin alike begin alike.
LEMMA TracesAgree ==
  ASSUME NEW p, NEW s, NEW t, NEW n \in Nat, NEW m \in Nat, n <= m,
         \A i \in 1 .. n : s[i] = t[i],
         NEW f, NEW g, Trace(f, p, s, n), Trace(g, p, t, m)
  PROVE  \A k \in 0 .. n : f[k] = g[k]
<1> DEFINE S == {k \in Nat : f[k] = g[k]}
<1>0. f = [i \in 0 .. n |-> IF i = 0 THEN Started(p) ELSE Round(f[i - 1], s[i])]
      /\ g = [i \in 0 .. m |-> IF i = 0 THEN Started(p) ELSE Round(g[i - 1], t[i])]
  BY DEF Trace
<1>1. 0 \in S
  BY <1>0
<1>2. ASSUME NEW k \in 0 .. (n - 1), k \in S PROVE k + 1 \in S
  <2>1. k + 1 \in 0 .. n /\ k + 1 \in 0 .. m /\ k + 1 # 0 /\ k + 1 - 1 = k /\ k + 1 \in 1 .. n
    OBVIOUS
  <2>2. f[k + 1] = Round(f[k], s[k + 1])
    <3>1. \A i \in 0 .. n : f[i] = IF i = 0 THEN Started(p) ELSE Round(f[i - 1], s[i])
      BY <1>0
    <3>2. f[k + 1] = IF k + 1 = 0 THEN Started(p) ELSE Round(f[k + 1 - 1], s[k + 1])
      BY <2>1, <3>1
    <3> QED BY <2>1, <3>2
  <2>4. g[k + 1] = Round(g[k], t[k + 1])
    <3>1. \A i \in 0 .. m : g[i] = IF i = 0 THEN Started(p) ELSE Round(g[i - 1], t[i])
      BY <1>0
    <3>2. g[k + 1] = IF k + 1 = 0 THEN Started(p) ELSE Round(g[k + 1 - 1], t[k + 1])
      BY <2>1, <3>1
    <3> QED BY <2>1, <3>2
  <2>3. f[k] = g[k]
    BY <1>2
  <2>5. f[k + 1] = g[k + 1]
    BY <2>1, <2>2, <2>3, <2>4
  <2> QED BY <2>5
<1> HIDE DEF S
<1>3. \A k \in 0 .. n : k \in S
  BY <1>1, <1>2, UpTo
<1> QED BY <1>3 DEF S

\* What parse returns is the end of such a trace.
LEMMA ParseIsTrace ==
  ASSUME NEW p, NEW s \in String
  PROVE  \E f : Trace(f, p, s, Len(s)) /\ parse(p, s) = f[Len(s)]
<1> DEFINE after == CHOOSE f : Trace(f, p, s, Len(s))
<1>1. Len(s) \in Nat
  BY DEF String
<1>2. Trace(after, p, s, Len(s))
  BY <1>1, TraceExists
<1>3. parse(p, s) = after[Len(s)]
  BY DEF parse, Trace, Round, Started
<1> QED BY <1>2, <1>3

\* Parsing a string is parsing its beginning, and then the next character.
LEMMA ParseRun ==
  ASSUME NEW p, NEW s \in String
  PROVE  /\ parse(p, Prefix(s, 0)) = Started(p)
         /\ \A n \in 0 .. (Len(s) - 1) :
              parse(p, Prefix(s, n + 1)) = Round(parse(p, Prefix(s, n)), s[n + 1])
<1>1. PICK f : Trace(f, p, s, Len(s))
  BY ParseIsTrace
<1>2. Len(s) \in Nat
  BY DEF String
<1>3. ASSUME NEW n \in 0 .. Len(s)
      PROVE  parse(p, Prefix(s, n)) = f[n]
  <2>1. /\ Prefix(s, n) \in String /\ Len(Prefix(s, n)) = n
        /\ \A i \in 1 .. n : Prefix(s, n)[i] = s[i]
    BY PrefixFacts
  <2>2. PICK g : Trace(g, p, Prefix(s, n), n) /\ parse(p, Prefix(s, n)) = g[n]
    BY <2>1, ParseIsTrace
  <2>3. n \in Nat /\ n <= Len(s) /\ n \in 0 .. n
    BY <1>2
  <2> HIDE DEF Prefix
  <2>4. \A k \in 0 .. n : g[k] = f[k]
    BY <1>1, <1>2, <2>1, <2>2, <2>3, TracesAgree
  <2> QED BY <2>2, <2>3, <2>4
<1>4. f = [i \in 0 .. Len(s) |-> IF i = 0 THEN Started(p) ELSE Round(f[i - 1], s[i])]
  BY <1>1 DEF Trace
<1>5. f[0] = Started(p) /\ 0 \in 0 .. Len(s)
  BY <1>2, <1>4
<1>6. \A n \in 0 .. (Len(s) - 1) :
        n \in 0 .. Len(s) /\ n + 1 \in 0 .. Len(s) /\ f[n + 1] = Round(f[n], s[n + 1])
  BY <1>2, <1>4
<1> QED BY <1>3, <1>5, <1>6

\* A parser stays a parser, whatever it is fed.
LEMMA NewParserType == NewParser \in ParserType /\ Started(NewParser) = NewParser
<1>1. <<>> \in String
  BY DEF String
<1>2. NoHeaders \in [{} -> String] /\ {} \in SUBSET String
  BY DEF NoHeaders
<1>3. "method_start" \in States
  BY DEF States
<1>4. NewParser \in ParserType
  BY <1>1, <1>2, <1>3 DEF NewParser, ParserType
<1>5. Started(NewParser) = NewParser
  BY DEF NewParser, Started
<1> QED BY <1>4, <1>5

\* The length and the characters of a string with one more.
LEMMA AppendString ==
  ASSUME NEW s \in String, NEW c \in Int
  PROVE  /\ Append(s, c) \in String /\ Len(Append(s, c)) = Len(s) + 1
         /\ Append(s, c)[Len(s) + 1] = c
         /\ \A i \in 1 .. Len(s) : Append(s, c)[i] = s[i]
         /\ <<c>> \in String
  BY DEF String

\* Storing a header keeps the type of the headers.
LEMMA StoredType ==
  ASSUME NEW p \in ParserType
  PROVE  Stored(p) \in UNION {[D -> String] : D \in SUBSET String}
<1>1. p.header_name \in String /\ p.header_value \in String
      /\ p.headers \in UNION {[D -> String] : D \in SUBSET String}
  BY DEF ParserType
<1>2. PICK D \in SUBSET String : p.headers \in [D -> String]
  BY <1>1
<1>3. Stored(p) \in [D \union {p.header_name} -> String]
  BY <1>1, <1>2 DEF Stored
<1>4. D \union {p.header_name} \in SUBSET String
  BY <1>1, <1>2
<1> QED BY <1>3, <1>4

\* consume takes a parser to a parser.
LEMMA ConsumeType ==
  ASSUME NEW p \in ParserType, NEW c \in Int
  PROVE  consume(p, c) \in ParserType
<1> DEFINE H == UNION {[D -> String] : D \in SUBSET String}
<1>1. /\ p.state \in States /\ p.method \in String /\ p.uri \in String
      /\ p.headers \in H /\ p.header_name \in String /\ p.header_value \in String
  BY DEF ParserType
<1>2. /\ Append(p.method, c) \in String /\ Append(p.uri, c) \in String
      /\ Append(p.header_name, c) \in String /\ Append(p.header_value, c) \in String
      /\ <<c>> \in String /\ <<>> \in String
  <2>1. <<>> \in String
    BY DEF String
  <2> QED BY <1>1, <2>1, AppendString
<1>3. Stored(p) \in H
  BY StoredType
<1>4. ParserType = [state : States, result : {"indeterminate", "good", "bad"},
                    method : String, uri : String, headers : H,
                    header_name : String, header_value : String]
  BY DEF ParserType
<1> HIDE DEF H
<1>5. Bad(p) \in ParserType /\ p \in ParserType
  BY <1>4 DEF Bad
<1>6. \A q \in States : Goto(p, q) \in ParserType
  BY <1>4 DEF Goto
<1>7. CASE p.state \in DOMAIN Fixed
  <2>1. Fixed[p.state].next \in States
    BY <1>7 DEF Fixed, States, HeaderStates
  <2> QED BY <1>5, <1>6, <1>7, <2>1 DEF consume, consumeFixed
<1>8. CASE p.state \notin DOMAIN Fixed /\ p.state \in HeaderStates
  <2>1. {"expecting_newline_3", "header_lws", "header_name", "header_value",
         "space_before_header_value", "expecting_newline_2"} \in SUBSET States
    BY DEF States, HeaderStates, Fixed
  <2>2. [p EXCEPT !.state = "header_name", !.header_name = <<c>>, !.header_value = <<>>]
          \in ParserType
    BY <1>2, <1>4, <2>1
  <2>3. headerLineStart(p, c) \in ParserType
    BY <1>5, <1>6, <2>1, <2>2 DEF headerLineStart
  <2>4. /\ [p EXCEPT !.header_name = Append(@, c)] \in ParserType
        /\ [p EXCEPT !.state = "expecting_newline_2", !.headers = Stored(p)] \in ParserType
        /\ [p EXCEPT !.state = "header_value", !.header_value = Append(@, c)] \in ParserType
        /\ [p EXCEPT !.result = "good"] \in ParserType
    BY <1>2, <1>3, <1>4, <2>1
  <2>5. consumeHeader(p, c) \in ParserType
    BY <1>5, <1>6, <2>1, <2>3, <2>4 DEF consumeHeader
  <2> QED BY <1>8, <2>5 DEF consume
<1>9. CASE p.state \notin DOMAIN Fixed /\ p.state \notin HeaderStates
  <2>1. {"method", "uri", "http_version_h", "http_version_major", "http_version_minor_start",
         "http_version_minor", "expecting_newline_1"} \in SUBSET States
    BY DEF States, HeaderStates, Fixed
  <2>2. /\ [p EXCEPT !.state = "method", !.method = Append(@, c)] \in ParserType
        /\ [p EXCEPT !.uri = Append(@, c)] \in ParserType
    BY <1>2, <1>4, <2>1
  <2>3. consumeRequestLine(p, c) \in ParserType
    BY <1>5, <1>6, <2>1, <2>2 DEF consumeRequestLine
  <2> QED BY <1>9, <2>3 DEF consume
<1> QED BY <1>7, <1>8, <1>9

-----------------------------------------------------------------------------
(* The characters at some positions of a string.                           *)

Collected(f, s, S, n) ==
  f = [i \in 0 .. n |-> IF i = 0 THEN <<>>
                        ELSE IF i \in S THEN Append(f[i - 1], s[i]) ELSE f[i - 1]]

\* The recursion has a solution.
LEMMA CollectedExists ==
  ASSUME NEW s, NEW S, NEW n \in Nat
  PROVE  \E f : Collected(f, s, S, n)
<1> DEFINE K == {k \in Nat : \E f : Collected(f, s, S, k)}
<1>1. 0 \in K
  <2>1. Collected([i \in 0 .. 0 |-> <<>>], s, S, 0)
    BY DEF Collected
  <2> QED BY <2>1
<1>2. ASSUME NEW k \in 0 .. (n - 1), k \in K
      PROVE  k + 1 \in K
  <2>1. PICK f : Collected(f, s, S, k)
    BY <1>2
  <2> DEFINE new == IF k + 1 \in S THEN Append(f[k], s[k + 1]) ELSE f[k]
             g == [i \in 0 .. (k + 1) |-> IF i = k + 1 THEN new ELSE f[i]]
  <2>2. \A i \in 0 .. k : f[i] = IF i = 0 THEN <<>>
                        ELSE IF i \in S THEN Append(f[i - 1], s[i]) ELSE f[i - 1]
    BY <2>1 DEF Collected
  <2>3. ASSUME NEW i \in 0 .. (k + 1)
        PROVE  g[i] = IF i = 0 THEN <<>>
                      ELSE IF i \in S THEN Append(g[i - 1], s[i]) ELSE g[i - 1]
    <3>1. CASE i = k + 1
      <4>1. g[i] = new /\ g[i - 1] = f[k] /\ i # 0
        BY <3>1
      <4> HIDE DEF g
      <4> QED BY <3>1, <4>1
    <3>2. CASE i # k + 1
      <4>1. i \in 0 .. k /\ g[i] = f[i] /\ (i # 0 => g[i - 1] = f[i - 1])
        BY <3>2
      <4>2. f[i] = IF i = 0 THEN <<>>
                   ELSE IF i \in S THEN Append(f[i - 1], s[i]) ELSE f[i - 1]
        BY <2>2, <4>1
      <4> HIDE DEF g
      <4> QED BY <4>1, <4>2
    <3> QED BY <3>1, <3>2
  <2>4. DOMAIN g = 0 .. (k + 1) /\ g = [i \in 0 .. (k + 1) |-> g[i]]
    OBVIOUS
  <2> HIDE DEF g
  <2>5. Collected(g, s, S, k + 1)
    BY <2>3, <2>4 DEF Collected
  <2> QED BY <2>5
<1>3. n \in 0 .. n
  OBVIOUS
<1> HIDE DEF K
<1>4. n \in K
  BY <1>1, <1>2, <1>3, UpTo
<1> QED BY <1>4 DEF K

\* The recursion of Chars, over n characters.
Collects(f, s, S, n) ==
  f[0] = <<>> /\ \A i \in 1 .. n : f[i] = IF i \in S THEN Append(f[i - 1], s[i]) ELSE f[i - 1]

\* What Chars returns is the end of such a recursion.
LEMMA CharsCollected ==
  ASSUME NEW s \in String, NEW S
  PROVE  \E f : Collects(f, s, S, Len(s)) /\ Chars(s, S) = f[Len(s)]
<1> DEFINE upto == CHOOSE f : Collected(f, s, S, Len(s))
<1>1. Len(s) \in Nat
  BY DEF String
<1>2. Collected(upto, s, S, Len(s))
  BY <1>1, CollectedExists
<1>3. Chars(s, S) = upto[Len(s)]
  BY DEF Chars, Collected
<1> HIDE DEF upto
<1>4. \A i \in 0 .. Len(s) : upto[i] = IF i = 0 THEN <<>>
                        ELSE IF i \in S THEN Append(upto[i - 1], s[i]) ELSE upto[i - 1]
  BY <1>2 DEF Collected
<1>5. upto[0] = <<>>
  BY <1>1, <1>4
<1>6. \A i \in 1 .. Len(s) : i \in 0 .. Len(s) /\ i # 0
  BY <1>1
<1>7. \A i \in 1 .. Len(s) :
         upto[i] = IF i \in S THEN Append(upto[i - 1], s[i]) ELSE upto[i - 1]
  BY <1>4, <1>6
<1> QED BY <1>3, <1>5, <1>7 DEF Collects

\* Two such recursions over the same characters.
LEMMA CollectsAgree ==
  ASSUME NEW s, NEW t, NEW S, NEW T, NEW n \in Nat, NEW f, NEW g,
         Collects(f, s, S, n), Collects(g, t, T, n),
         \A i \in 1 .. n : s[i] = t[i], \A i \in 1 .. n : i \in S <=> i \in T
  PROVE  f[n] = g[n]
<1> DEFINE K == {k \in Nat : f[k] = g[k]}
<1>1. 0 \in K
  BY DEF Collects
<1>2. ASSUME NEW k \in 0 .. (n - 1), k \in K PROVE k + 1 \in K
  <2>1. k + 1 \in 1 .. n /\ k + 1 - 1 = k /\ f[k] = g[k]
    BY <1>2
  <2>2. f[k + 1] = IF k + 1 \in S THEN Append(f[k + 1 - 1], s[k + 1]) ELSE f[k + 1 - 1]
    BY <2>1 DEF Collects
  <2>3. g[k + 1] = IF k + 1 \in T THEN Append(g[k + 1 - 1], t[k + 1]) ELSE g[k + 1 - 1]
    BY <2>1 DEF Collects
  <2>4. s[k + 1] = t[k + 1] /\ (k + 1 \in S <=> k + 1 \in T)
    BY <2>1
  <2>5. f[k + 1] = g[k + 1]
    BY <2>1, <2>2, <2>3, <2>4
  <2> QED BY <2>5
<1> HIDE DEF K
<1>3. n \in 0 .. n
  OBVIOUS
<1>4. n \in K
  BY <1>1, <1>2, <1>3, UpTo
<1> QED BY <1>4 DEF K

\* And one that finds nothing behind n.
LEMMA CollectsStay ==
  ASSUME NEW s, NEW S, NEW n \in Nat, NEW m \in Nat, n <= m, NEW f, Collects(f, s, S, m),
         \A i \in (n + 1) .. m : i \notin S
  PROVE  f[m] = f[n] /\ Collects(f, s, S, n)
<1> DEFINE K == {k \in Nat : f[n + k] = f[n]}
<1>1. 0 \in K /\ m - n \in Nat
  OBVIOUS
<1>2. ASSUME NEW k \in 0 .. (m - n - 1), k \in K PROVE k + 1 \in K
  <2>1. /\ n + (k + 1) \in (n + 1) .. m /\ n + (k + 1) \in 1 .. m
        /\ n + (k + 1) - 1 = n + k /\ k + 1 \in Nat
    OBVIOUS
  <2>2. f[n + (k + 1)] = IF n + (k + 1) \in S THEN Append(f[n + (k + 1) - 1], s[n + (k + 1)])
                         ELSE f[n + (k + 1) - 1]
    BY <2>1 DEF Collects
  <2>3. n + (k + 1) \notin S
    BY <2>1
  <2>4. f[n + (k + 1)] = f[n]
    BY <1>2, <2>1, <2>2, <2>3
  <2> QED BY <2>1, <2>4
<1> HIDE DEF K
<1>3. m - n \in 0 .. (m - n)
  BY <1>1
<1>4. m - n \in K
  BY <1>1, <1>2, <1>3, UpTo
<1>5. n + (m - n) = m
  OBVIOUS
<1>6. \A i \in 1 .. n : i \in 1 .. m
  OBVIOUS
<1>7. Collects(f, s, S, n)
  BY <1>6 DEF Collects
<1> QED BY <1>4, <1>5, <1>7 DEF K

\* Only the positions count, not what is behind them.
LEMMA CharsOfPrefix ==
  ASSUME NEW s \in String, NEW S, NEW T, NEW n \in 0 .. Len(s),
         \A i \in 1 .. n : i \in S <=> i \in T,
         \A i \in (n + 1) .. Len(s) : i \notin S
  PROVE  Chars(s, S) = Chars(Prefix(s, n), T)
<1>1. PICK f : Collects(f, s, S, Len(s)) /\ Chars(s, S) = f[Len(s)]
  BY CharsCollected
<1>2. Prefix(s, n) \in String /\ Len(Prefix(s, n)) = n /\ \A i \in 1 .. n : Prefix(s, n)[i] = s[i]
  BY PrefixFacts
<1>3. PICK g : Collects(g, Prefix(s, n), T, n) /\ Chars(Prefix(s, n), T) = g[n]
  BY <1>2, CharsCollected
<1>4. Len(s) \in Nat /\ n \in Nat /\ n <= Len(s)
  BY DEF String
<1>5. f[Len(s)] = f[n] /\ Collects(f, s, S, n)
  BY <1>1, <1>4, CollectsStay
<1>6. f[n] = g[n]
  <2>1. \A i \in 1 .. n : s[i] = Prefix(s, n)[i]
    BY <1>2
  <2> HIDE DEF Prefix
  <2> QED BY <1>3, <1>4, <1>5, <2>1, CollectsAgree
<1> QED BY <1>1, <1>3, <1>5, <1>6

\* Of no position, Chars collects nothing.
LEMMA CharsOfNone ==
  ASSUME NEW s \in String, NEW S, \A i \in 1 .. Len(s) : i \notin S
  PROVE  Chars(s, S) = <<>>
<1>1. PICK f : Collects(f, s, S, Len(s)) /\ Chars(s, S) = f[Len(s)]
  BY CharsCollected
<1>2. Len(s) \in Nat /\ 0 \in Nat /\ 0 <= Len(s)
  BY DEF String
<1>3. \A i \in (0 + 1) .. Len(s) : i \notin S
  BY <1>2
<1>4. f[Len(s)] = f[0]
  BY <1>1, <1>2, <1>3, CollectsStay
<1> QED BY <1>1, <1>4 DEF Collects

\* One character more.
LEMMA CharsRun ==
  ASSUME NEW s \in String, NEW n \in 0 .. (Len(s) - 1), NEW S
  PROVE  Chars(Prefix(s, n + 1), S) =
           IF n + 1 \in S THEN Append(Chars(Prefix(s, n), S), s[n + 1])
           ELSE Chars(Prefix(s, n), S)
<1> DEFINE t == Prefix(s, n + 1)
<1>1. Len(s) \in Nat /\ n \in 0 .. Len(s) /\ n + 1 \in 0 .. Len(s) /\ n \in Nat /\ n \in 0 .. (n + 1)
  BY DEF String
<1>2. t \in String /\ Len(t) = n + 1 /\ \A i \in 1 .. (n + 1) : t[i] = s[i]
  BY <1>1, PrefixFacts
<1>3. Prefix(s, n) \in String /\ Len(Prefix(s, n)) = n /\ \A i \in 1 .. n : Prefix(s, n)[i] = s[i]
  BY <1>1, PrefixFacts
<1> HIDE DEF t
<1>4. PICK f : Collects(f, t, S, n + 1) /\ Chars(t, S) = f[n + 1]
  BY <1>2, CharsCollected
<1>5. PICK g : Collects(g, Prefix(s, n), S, n) /\ Chars(Prefix(s, n), S) = g[n]
  BY <1>3, CharsCollected
<1>6. n + 1 \in 1 .. (n + 1) /\ n + 1 - 1 = n
  BY <1>1
<1>7. f[n + 1] = IF n + 1 \in S THEN Append(f[n + 1 - 1], t[n + 1]) ELSE f[n + 1 - 1]
  BY <1>4, <1>6 DEF Collects
<1>8. t[n + 1] = s[n + 1]
  BY <1>2, <1>6
<1>9. Collects(f, t, S, n)
  <2>1. \A i \in 1 .. n : i \in 1 .. (n + 1)
    BY <1>1
  <2> QED BY <1>4, <2>1 DEF Collects
<1>10. f[n] = g[n]
  <2>1. \A i \in 1 .. n : t[i] = Prefix(s, n)[i]
    <3> TAKE i \in 1 .. n
    <3>1. i \in 1 .. (n + 1)
      BY <1>1
    <3> QED BY <1>2, <1>3, <3>1
  <2> HIDE DEF Prefix
  <2> QED BY <1>1, <1>5, <1>9, <2>1, CollectsAgree
<1>11. Chars(t, S) = IF n + 1 \in S THEN Append(Chars(Prefix(s, n), S), s[n + 1])
                     ELSE Chars(Prefix(s, n), S)
  BY <1>4, <1>5, <1>6, <1>7, <1>8, <1>10
<1> QED BY <1>11 DEF t

\* One position more, behind the others.
LEMMA CharsGrow ==
  ASSUME NEW s \in String, NEW n \in 0 .. (Len(s) - 1), NEW S, NEW T,
         \A i \in (n + 1) .. Len(s) : i \notin S,
         \A i \in 1 .. Len(s) : i \in T <=> (i \in S \/ i = n + 1)
  PROVE  Chars(s, T) = Append(Chars(s, S), s[n + 1])
<1>1. Len(s) \in Nat /\ n \in 0 .. Len(s) /\ n + 1 \in 0 .. Len(s) /\ n \in Nat
  BY DEF String
<1>2. Chars(s, T) = Chars(Prefix(s, n + 1), T)
  <2>1. \A i \in (n + 1 + 1) .. Len(s) : i \notin T
    <3> TAKE i \in (n + 1 + 1) .. Len(s)
    <3>1. i \in 1 .. Len(s) /\ i \in (n + 1) .. Len(s) /\ i # n + 1
      BY <1>1
    <3> QED BY <3>1
  <2> QED BY <1>1, <2>1, CharsOfPrefix
<1>3. Chars(s, S) = Chars(Prefix(s, n), T)
  <2>1. \A i \in 1 .. n : i \in S <=> i \in T
    <3> TAKE i \in 1 .. n
    <3>1. i \in 1 .. Len(s) /\ i # n + 1
      BY <1>1
    <3> QED BY <3>1
  <2> QED BY <1>1, <2>1, CharsOfPrefix
<1>4. n + 1 \in T
  <2>1. n + 1 \in 1 .. Len(s)
    BY <1>1
  <2> QED BY <2>1
<1> QED BY <1>2, <1>3, <1>4, CharsRun

\* Chars collects a string.
LEMMA CharsType ==
  ASSUME NEW s \in String, NEW S
  PROVE  Chars(s, S) \in String
<1>1. PICK f : Collects(f, s, S, Len(s)) /\ Chars(s, S) = f[Len(s)]
  BY CharsCollected
<1> DEFINE K == {k \in Nat : f[k] \in String}
<1>2. 0 \in K
  <2>1. <<>> \in String
    BY DEF String
  <2>2. f[0] = <<>>
    BY <1>1 DEF Collects
  <2> QED BY <2>1, <2>2
<1>3. ASSUME NEW k \in 0 .. (Len(s) - 1), k \in K PROVE k + 1 \in K
  <2>1. k + 1 \in 1 .. Len(s) /\ k + 1 - 1 = k /\ f[k] \in String /\ s[k + 1] \in Int
    BY <1>3 DEF String
  <2>2. f[k + 1] = IF k + 1 \in S THEN Append(f[k + 1 - 1], s[k + 1]) ELSE f[k + 1 - 1]
    BY <1>1, <2>1 DEF Collects
  <2>3. \A w \in String, c \in Int : Append(w, c) \in String
    BY AppendString
  <2>4. Append(f[k], s[k + 1]) \in String
    BY <2>1, <2>3
  <2>5. f[k + 1] \in String
    BY <2>1, <2>2, <2>4
  <2> QED BY <2>5
<1> HIDE DEF K
<1>4. Len(s) \in Nat /\ Len(s) \in 0 .. Len(s)
  BY DEF String
<1>5. Len(s) \in K
  BY <1>2, <1>3, <1>4, UpTo
<1> QED BY <1>1, <1>5 DEF K

-----------------------------------------------------------------------------
(* What consume does, state by state.                                      *)

\* q has the request, the current header and the result of p.
Keeps(p, q) ==
  /\ q.result = p.result /\ q.method = p.method /\ q.uri = p.uri
  /\ q.headers = p.headers /\ q.header_name = p.header_name /\ q.header_value = p.header_value

\* Going to a state changes nothing else.
LEMMA GotoKeeps ==
  ASSUME NEW p \in ParserType, NEW x
  PROVE  Goto(p, x).state = x /\ Keeps(p, Goto(p, x)) /\ Bad(p).result = "bad"
  BY DEF Goto, Bad, Keeps, ParserType

\* consume where one character is the only one that is accepted.
LEMMA ConsumeFixed ==
  ASSUME NEW p \in ParserType, NEW c \in Int, NEW x \in DOMAIN Fixed, p.state = x
  PROVE  IF c = Fixed[x].char
         THEN consume(p, c).state = Fixed[x].next /\ Keeps(p, consume(p, c))
         ELSE consume(p, c).result = "bad"
<1>1. consume(p, c) = IF c = Fixed[x].char THEN Goto(p, Fixed[x].next) ELSE Bad(p)
  BY DEF consume, consumeFixed
<1> QED BY <1>1, GotoKeeps

\* The states in which one character is accepted, and what follows them.
LEMMA FixedIs ==
  /\ DOMAIN Fixed = {"http_version_h", "http_version_t_1", "http_version_t_2", "http_version_p",
       "http_version_slash", "expecting_newline_1", "space_before_header_value",
       "expecting_newline_2"}
  /\ Fixed["http_version_h"].char = 72 /\ Fixed["http_version_h"].next = "http_version_t_1"
  /\ Fixed["http_version_t_1"].char = 84 /\ Fixed["http_version_t_1"].next = "http_version_t_2"
  /\ Fixed["http_version_t_2"].char = 84 /\ Fixed["http_version_t_2"].next = "http_version_p"
  /\ Fixed["http_version_p"].char = 80 /\ Fixed["http_version_p"].next = "http_version_slash"
  /\ Fixed["http_version_slash"].char = Slash
  /\ Fixed["http_version_slash"].next = "http_version_major_start"
  /\ Fixed["expecting_newline_1"].char = LF
  /\ Fixed["expecting_newline_1"].next = "header_line_start"
  /\ Fixed["space_before_header_value"].char = SP
  /\ Fixed["space_before_header_value"].next = "header_value"
  /\ Fixed["expecting_newline_2"].char = LF
  /\ Fixed["expecting_newline_2"].next = "header_line_start"
  BY DEF Fixed

RequestLineStates ==
  {"method_start", "method", "uri", "http_version_major_start", "http_version_major",
   "http_version_minor_start", "http_version_minor"}

\* consume in the method.
LEMMA ConsumeMethod ==
  ASSUME NEW p \in ParserType, NEW c \in Int, p.state \in {"method_start", "method"}
  PROVE  LET q == consume(p, c)
         IN  IF IsToken(c)
             THEN /\ q.state = "method" /\ q.method = Append(p.method, c)
                  /\ q.result = p.result /\ q.uri = p.uri /\ q.headers = p.headers
             ELSE IF p.state = "method" /\ c = SP THEN q.state = "uri" /\ Keeps(p, q)
             ELSE q.result = "bad"
<1> DEFINE fed == [p EXCEPT !.state = "method", !.method = Append(@, c)]
<1>1. consume(p, c) = IF IsToken(c) THEN fed
                      ELSE IF p.state = "method" /\ c = SP THEN Goto(p, "uri") ELSE Bad(p)
  <2>1. consume(p, c) = consumeRequestLine(p, c)
    BY FixedIs DEF consume, HeaderStates
  <2>2. CASE IsToken(c)
    BY <2>1, <2>2 DEF consumeRequestLine, IsToken, is_tspecial, Tspecials
  <2>3. CASE ~IsToken(c)
    BY <2>1, <2>3 DEF consumeRequestLine
  <2> QED BY <2>2, <2>3
<1>2. /\ fed.state = "method" /\ fed.method = Append(p.method, c)
      /\ fed.result = p.result /\ fed.uri = p.uri /\ fed.headers = p.headers
  BY DEF ParserType
<1> HIDE DEF fed
<1> QED BY <1>1, <1>2, GotoKeeps

\* consume in the uri.
LEMMA ConsumeUri ==
  ASSUME NEW p \in ParserType, NEW c \in Int, p.state = "uri"
  PROVE  LET q == consume(p, c)
         IN  IF c = SP THEN q.state = "http_version_h" /\ Keeps(p, q)
             ELSE IF IsText(c)
             THEN /\ q.state = "uri" /\ q.uri = Append(p.uri, c)
                  /\ q.result = p.result /\ q.method = p.method /\ q.headers = p.headers
             ELSE q.result = "bad"
<1> DEFINE fed == [p EXCEPT !.uri = Append(@, c)]
<1>1. consume(p, c) = IF c = SP THEN Goto(p, "http_version_h")
                      ELSE IF IsText(c) THEN fed ELSE Bad(p)
  <2>1. consume(p, c) = consumeRequestLine(p, c)
    BY FixedIs DEF consume, HeaderStates
  <2> QED BY <2>1 DEF consumeRequestLine, IsText
<1>2. /\ fed.state = "uri" /\ fed.uri = Append(p.uri, c)
      /\ fed.result = p.result /\ fed.method = p.method /\ fed.headers = p.headers
  BY DEF ParserType
<1> HIDE DEF fed
<1> QED BY <1>1, <1>2, GotoKeeps

\* consume in the numbers of the version.
LEMMA ConsumeVersion ==
  ASSUME NEW p \in ParserType, NEW c \in Int
  PROVE  LET q == consume(p, c)
         IN  /\ p.state = "http_version_major_start" =>
                  IF is_digit(c) THEN q.state = "http_version_major" /\ Keeps(p, q)
                  ELSE q.result = "bad"
             /\ p.state = "http_version_major" =>
                  IF is_digit(c) THEN q.state = "http_version_major" /\ Keeps(p, q)
                  ELSE IF c = Dot THEN q.state = "http_version_minor_start" /\ Keeps(p, q)
                  ELSE q.result = "bad"
             /\ p.state = "http_version_minor_start" =>
                  IF is_digit(c) THEN q.state = "http_version_minor" /\ Keeps(p, q)
                  ELSE q.result = "bad"
             /\ p.state = "http_version_minor" =>
                  IF is_digit(c) THEN q.state = "http_version_minor" /\ Keeps(p, q)
                  ELSE IF c = CR THEN q.state = "expecting_newline_1" /\ Keeps(p, q)
                  ELSE q.result = "bad"
<1>1. p.state \in RequestLineStates => consume(p, c) = consumeRequestLine(p, c)
  BY FixedIs DEF consume, HeaderStates, RequestLineStates
<1>2. Keeps(p, p)
  BY DEF Keeps
<1>3. CASE p.state = "http_version_major_start"
  <2>1. consume(p, c) = IF is_digit(c) THEN Goto(p, "http_version_major") ELSE Bad(p)
    BY <1>1, <1>3 DEF consumeRequestLine, RequestLineStates
  <2> QED BY <1>3, <2>1, GotoKeeps
<1>4. CASE p.state = "http_version_major"
  <2>1. ~(is_digit(c) /\ c = Dot)
    BY DEF is_digit, Dot
  <2>2. consume(p, c) = IF is_digit(c) THEN p
                        ELSE IF c = Dot THEN Goto(p, "http_version_minor_start") ELSE Bad(p)
    BY <1>1, <1>4, <2>1 DEF consumeRequestLine, RequestLineStates
  <2> QED BY <1>2, <1>4, <2>2, GotoKeeps
<1>5. CASE p.state = "http_version_minor_start"
  <2>1. consume(p, c) = IF is_digit(c) THEN Goto(p, "http_version_minor") ELSE Bad(p)
    BY <1>1, <1>5 DEF consumeRequestLine, RequestLineStates
  <2> QED BY <1>5, <2>1, GotoKeeps
<1>6. CASE p.state = "http_version_minor"
  <2>1. ~(is_digit(c) /\ c = CR)
    BY DEF is_digit, CR
  <2>2. consume(p, c) = IF is_digit(c) THEN p
                        ELSE IF c = CR THEN Goto(p, "expecting_newline_1") ELSE Bad(p)
    BY <1>1, <1>6, <2>1 DEF consumeRequestLine, RequestLineStates
  <2> QED BY <1>2, <1>6, <2>2, GotoKeeps
<1> QED BY <1>3, <1>4, <1>5, <1>6

\* The same of the headers.
LEMMA ConsumeLineStart ==
  ASSUME NEW p \in ParserType, NEW c \in Int, p.state = "header_line_start"
  PROVE  LET q == consume(p, c)
         IN  IF c = CR THEN q.state = "expecting_newline_3" /\ Keeps(p, q)
             ELSE IF c \in {SP, HT}
             THEN IF p.headers # NoHeaders THEN q.state = "header_lws" /\ Keeps(p, q)
                  ELSE q.result = "bad"
             ELSE IF IsToken(c)
             THEN /\ q.state = "header_name" /\ q.header_name = <<c>> /\ q.header_value = <<>>
                  /\ q.result = p.result /\ q.method = p.method /\ q.uri = p.uri
                  /\ q.headers = p.headers
             ELSE q.result = "bad"
<1> DEFINE fed == [p EXCEPT !.state = "header_name", !.header_name = <<c>>, !.header_value = <<>>]
<1>1. consume(p, c) = headerLineStart(p, c)
  BY FixedIs DEF consume, consumeHeader, HeaderStates
<1>2. IsToken(c) => c # CR /\ c \notin {SP, HT}
  BY DEF IsToken, is_tspecial, is_ctl, Tspecials, CR, SP, HT
<1>3. consume(p, c) = IF c = CR THEN Goto(p, "expecting_newline_3")
                      ELSE IF c \in {SP, HT}
                      THEN IF p.headers # NoHeaders THEN Goto(p, "header_lws") ELSE Bad(p)
                      ELSE IF IsToken(c) THEN fed ELSE Bad(p)
  <2>1. CR \notin {SP, HT}
    BY DEF CR, SP, HT
  <2> QED BY <1>1, <1>2, <2>1 DEF headerLineStart
<1>4. /\ fed.state = "header_name" /\ fed.header_name = <<c>> /\ fed.header_value = <<>>
      /\ fed.result = p.result /\ fed.method = p.method /\ fed.uri = p.uri
      /\ fed.headers = p.headers
  BY DEF ParserType
<1> HIDE DEF fed
<1> QED BY <1>3, <1>4, GotoKeeps

\* consume in the name of a header.
LEMMA ConsumeName ==
  ASSUME NEW p \in ParserType, NEW c \in Int, p.state = "header_name"
  PROVE  LET q == consume(p, c)
         IN  IF c = Colon THEN q.state = "space_before_header_value" /\ Keeps(p, q)
             ELSE IF IsToken(c)
             THEN /\ q.state = "header_name" /\ q.header_name = Append(p.header_name, c)
                  /\ q.result = p.result /\ q.method = p.method /\ q.uri = p.uri
                  /\ q.headers = p.headers /\ q.header_value = p.header_value
             ELSE q.result = "bad"
<1> DEFINE fed == [p EXCEPT !.header_name = Append(@, c)]
<1>1. consume(p, c) = consumeHeader(p, c)
  BY FixedIs DEF consume, HeaderStates
<1>2. consume(p, c) = IF c = Colon THEN Goto(p, "space_before_header_value")
                      ELSE IF IsToken(c) THEN fed ELSE Bad(p)
  <2>1. IsToken(c) => c # Colon
    BY DEF IsToken, is_tspecial, Tspecials
  <2> QED BY <1>1, <2>1 DEF consumeHeader
<1>3. /\ fed.state = "header_name" /\ fed.header_name = Append(p.header_name, c)
      /\ fed.result = p.result /\ fed.method = p.method /\ fed.uri = p.uri
      /\ fed.headers = p.headers /\ fed.header_value = p.header_value
  BY DEF ParserType
<1> HIDE DEF fed
<1> QED BY <1>2, <1>3, GotoKeeps

\* consume in the value of a header and in the blanks of a continuation.
LEMMA ConsumeValue ==
  ASSUME NEW p \in ParserType, NEW c \in Int, p.state \in {"header_lws", "header_value"}
  PROVE  LET q == consume(p, c)
         IN  IF c = CR
             THEN /\ q.state = "expecting_newline_2"
                  /\ q.headers = IF p.state = "header_value" THEN Stored(p) ELSE p.headers
                  /\ q.result = p.result /\ q.method = p.method /\ q.uri = p.uri
                  /\ q.header_name = p.header_name /\ q.header_value = p.header_value
             ELSE IF p.state = "header_lws" /\ c \in {SP, HT}
             THEN q.state = "header_lws" /\ Keeps(p, q)
             ELSE IF IsText(c)
             THEN /\ q.state = "header_value" /\ q.header_value = Append(p.header_value, c)
                  /\ q.result = p.result /\ q.method = p.method /\ q.uri = p.uri
                  /\ q.headers = p.headers /\ q.header_name = p.header_name
             ELSE q.result = "bad"
<1> DEFINE fed == [p EXCEPT !.state = "header_value", !.header_value = Append(@, c)]
           stored == [p EXCEPT !.state = "expecting_newline_2", !.headers = Stored(p)]
<1>1. consume(p, c) = consumeHeader(p, c)
  BY FixedIs DEF consume, HeaderStates
<1>2. is_ctl(CR) /\ is_ctl(HT) /\ ~is_ctl(SP) /\ CR # SP /\ CR # HT
  BY DEF is_ctl, CR, HT, SP
<1>3. /\ fed.state = "header_value" /\ fed.header_value = Append(p.header_value, c)
      /\ fed.result = p.result /\ fed.method = p.method /\ fed.uri = p.uri
      /\ fed.headers = p.headers /\ fed.header_name = p.header_name
  BY DEF ParserType
<1>4. /\ stored.state = "expecting_newline_2" /\ stored.headers = Stored(p)
      /\ stored.result = p.result /\ stored.method = p.method /\ stored.uri = p.uri
      /\ stored.header_name = p.header_name /\ stored.header_value = p.header_value
  BY DEF ParserType
<1>5. Keeps(p, p)
  BY DEF Keeps
<1>6. CASE p.state = "header_lws"
  <2>1. consume(p, c) = IF c = CR THEN Goto(p, "expecting_newline_2")
                        ELSE IF c \in {SP, HT} THEN p
                        ELSE IF IsText(c) THEN fed ELSE Bad(p)
    <3>1. CASE c = CR
      BY <1>1, <1>2, <1>6, <3>1 DEF consumeHeader
    <3>2. CASE c # CR /\ c \in {SP, HT}
      BY <1>1, <1>2, <1>6, <3>2 DEF consumeHeader
    <3>3. CASE c # CR /\ c \notin {SP, HT}
      BY <1>1, <1>6, <3>3 DEF consumeHeader, IsText
    <3> QED BY <3>1, <3>2, <3>3
  <2> HIDE DEF fed
  <2> QED BY <1>3, <1>5, <1>6, <2>1, GotoKeeps DEF Keeps
<1>7. CASE p.state = "header_value"
  <2>1. consume(p, c) = IF c = CR THEN stored ELSE IF IsText(c) THEN fed ELSE Bad(p)
    BY <1>1, <1>2, <1>7 DEF consumeHeader, IsText
  <2> HIDE DEF fed, stored
  <2> QED BY <1>3, <1>4, <1>7, <2>1, GotoKeeps
<1> QED BY <1>6, <1>7

\* consume at the end of the request.
LEMMA ConsumeLast ==
  ASSUME NEW p \in ParserType, NEW c \in Int, p.state = "expecting_newline_3"
  PROVE  LET q == consume(p, c)
         IN  IF c = LF THEN /\ q.result = "good" /\ q.method = p.method /\ q.uri = p.uri
                            /\ q.headers = p.headers
             ELSE q.result = "bad"
<1> DEFINE fed == [p EXCEPT !.result = "good"]
<1>1. consume(p, c) = IF c = LF THEN fed ELSE Bad(p)
  BY FixedIs DEF consume, consumeHeader, HeaderStates
<1>2. fed.result = "good" /\ fed.method = p.method /\ fed.uri = p.uri /\ fed.headers = p.headers
  BY DEF ParserType
<1> HIDE DEF fed
<1> QED BY <1>1, <1>2, GotoKeeps

-----------------------------------------------------------------------------
(* The request line, by its marks: the blanks m and u, the dot d, the end. *)

Target(s, m, u) ==
  /\ m \in 2 .. Len(s) /\ u \in (m + 1) .. Len(s) /\ s[m] = SP /\ s[u] = SP
  /\ \A i \in 1 .. (m - 1) : IsToken(s[i])
  /\ \A i \in (m + 1) .. (u - 1) : s[i] # SP /\ IsText(s[i])

Http(s, u) == s[u + 1] = 72 /\ s[u + 2] = 84 /\ s[u + 3] = 84 /\ s[u + 4] = 80 /\ s[u + 5] = Slash

Digits(s, a, z, d) == \A i \in a .. z : i # d => is_digit(s[i])

Marks(s, m, u, d, e) ==
  /\ Target(s, m, u) /\ Http(s, u)
  /\ e \in 1 .. Len(s) /\ d \in (u + 7) .. (e - 2) /\ s[d] = Dot /\ Digits(s, u + 6, e - 1, d)
  /\ s[e] = CR

\* The length and the characters of a part of a string.
LEMMA SubSeqIs ==
  ASSUME NEW s \in String, NEW a \in Nat \ {0}, NEW z \in (a - 1) .. Len(s)
  PROVE  /\ SubSeq(s, a, z) \in String /\ Len(SubSeq(s, a, z)) = z - a + 1
         /\ \A i \in 1 .. (z - a + 1) : SubSeq(s, a, z)[i] = s[a + i - 1]
  BY DEF String

\* The five characters behind u.
LEMMA FiveBehind ==
  ASSUME NEW s \in String, NEW u \in Nat, u + 5 <= Len(s)
  PROVE  LET v == SubSeq(s, u + 1, u + 5)
         IN  /\ v \in String /\ Len(v) = 5
             /\ v[1] = s[u + 1] /\ v[2] = s[u + 2] /\ v[3] = s[u + 3]
             /\ v[4] = s[u + 4] /\ v[5] = s[u + 5]
<1>1. u + 1 \in Nat \ {0} /\ u + 5 \in (u + 1 - 1) .. Len(s) /\ u + 5 - (u + 1) + 1 = 5
  BY DEF String
<1> DEFINE v == SubSeq(s, u + 1, u + 5)
<1>2. v \in String /\ Len(v) = 5 /\ \A i \in 1 .. 5 : v[i] = s[u + 1 + i - 1]
  <2>1. \A a \in Nat \ {0} : \A z \in (a - 1) .. Len(s) :
          /\ SubSeq(s, a, z) \in String /\ Len(SubSeq(s, a, z)) = z - a + 1
          /\ \A i \in 1 .. (z - a + 1) : SubSeq(s, a, z)[i] = s[a + i - 1]
    BY SubSeqIs
  <2>2. /\ SubSeq(s, u + 1, u + 5) \in String /\ Len(SubSeq(s, u + 1, u + 5)) = u + 5 - (u + 1) + 1
        /\ \A i \in 1 .. (u + 5 - (u + 1) + 1) : SubSeq(s, u + 1, u + 5)[i] = s[u + 1 + i - 1]
    BY <1>1, <2>1
  <2> QED BY <1>1, <2>2
<1> HIDE DEF v
<1>3. /\ u + 1 + 1 - 1 = u + 1 /\ u + 1 + 2 - 1 = u + 2 /\ u + 1 + 3 - 1 = u + 3
      /\ u + 1 + 4 - 1 = u + 4 /\ u + 1 + 5 - 1 = u + 5
  OBVIOUS
<1>4. 1 \in 1 .. 5 /\ 2 \in 1 .. 5 /\ 3 \in 1 .. 5 /\ 4 \in 1 .. 5 /\ 5 \in 1 .. 5
  OBVIOUS
<1>5. /\ v[1] = s[u + 1] /\ v[2] = s[u + 2] /\ v[3] = s[u + 3]
      /\ v[4] = s[u + 4] /\ v[5] = s[u + 5]
  BY <1>2, <1>3, <1>4
<1> QED BY <1>2, <1>5 DEF v

\* Which characters exclude each other.
LEMMA CharFacts ==
  /\ \A c : IsToken(c) => c # SP /\ c # CR /\ c # LF /\ c # HT /\ c # Colon /\ IsText(c)
  /\ \A c : IsText(c) => c # CR /\ c # LF /\ c # HT
  /\ \A c : is_digit(c) => c # SP /\ c # CR /\ c # LF /\ c # Dot
  /\ SP # CR /\ SP # LF /\ HT # CR /\ HT # LF /\ CR # LF /\ Dot # SP /\ Dot # CR /\ Dot # LF
  /\ Colon # SP /\ Colon # CR /\ Colon # LF /\ Colon # HT /\ IsText(SP) /\ IsText(Colon)
<1>1. \A c : IsToken(c) => c # SP /\ c # CR /\ c # LF /\ c # HT /\ c # Colon /\ IsText(c)
  BY DEF IsToken, IsText, is_ctl, is_tspecial, Tspecials, SP, CR, LF, HT, Colon
<1>2. \A c : IsText(c) => c # CR /\ c # LF /\ c # HT
  BY DEF IsText, is_ctl, CR, LF, HT
<1>3. \A c : is_digit(c) => c # SP /\ c # CR /\ c # LF /\ c # Dot
  BY DEF is_digit, SP, CR, LF, Dot
<1>4. SP # CR /\ SP # LF /\ HT # CR /\ HT # LF /\ CR # LF /\ Dot # SP /\ Dot # CR /\ Dot # LF
      /\ Colon # SP /\ Colon # CR /\ Colon # LF /\ Colon # HT /\ IsText(SP) /\ IsText(Colon)
  BY DEF IsText, is_ctl, SP, CR, LF, HT, Colon, Dot
<1> QED BY <1>1, <1>2, <1>3, <1>4

\* Before the end of the request line there is no end of a line.
LEMMA MarksText ==
  ASSUME NEW s \in String, NEW m, NEW u, NEW d, NEW e, Marks(s, m, u, d, e)
  PROVE  /\ m \in Nat /\ u \in Nat /\ d \in Nat /\ e \in Nat /\ Len(s) \in Nat
         /\ 1 < m /\ m < u /\ u + 6 < d /\ d < e - 1 /\ e <= Len(s)
         /\ \A i \in 1 .. (e - 1) : s[i] # CR /\ s[i] # LF
         /\ \A i \in 1 .. (e - 1) : s[i] = SP <=> i = m \/ i = u
<1>1. /\ m \in Nat /\ u \in Nat /\ d \in Nat /\ e \in Nat /\ Len(s) \in Nat
      /\ 1 < m /\ m < u /\ u + 6 < d /\ d < e - 1 /\ e <= Len(s)
  BY DEF Marks, Target, String
<1>2. ASSUME NEW i \in 1 .. (e - 1)
      PROVE  s[i] # CR /\ s[i] # LF /\ (s[i] = SP <=> i = m \/ i = u)
  <2>1. CASE i < m
    <3>1. IsToken(s[i])
      BY <1>1, <2>1 DEF Marks, Target
    <3> QED BY <1>1, <2>1, <3>1, CharFacts
  <2>2. CASE i = m \/ i = u
    BY <2>2, CharFacts DEF Marks, Target
  <2>3. CASE m < i /\ i < u
    <3>1. s[i] # SP /\ IsText(s[i])
      BY <1>1, <2>3 DEF Marks, Target
    <3> QED BY <1>1, <2>3, <3>1, CharFacts
  <2>4. CASE u < i /\ i <= u + 5
    <3>1. i = u + 1 \/ i = u + 2 \/ i = u + 3 \/ i = u + 4 \/ i = u + 5
      BY <1>1, <2>4
    <3>2. s[i] = 72 \/ s[i] = 84 \/ s[i] = 80 \/ s[i] = Slash
      BY <3>1 DEF Marks, Http
    <3> QED BY <1>1, <2>4, <3>2 DEF CR, LF, SP, Slash
  <2>5. CASE u + 5 < i /\ i # d
    <3>1. i \in (u + 6) .. (e - 1)
      BY <1>1, <2>5
    <3>2. is_digit(s[i])
      BY <2>5, <3>1 DEF Marks, Digits
    <3> QED BY <1>1, <2>5, <3>2, CharFacts
  <2>6. CASE i = d
    BY <1>1, <2>6, CharFacts DEF Marks
  <2> QED BY <1>1, <2>1, <2>2, <2>3, <2>4, <2>5, <2>6
<1> QED BY <1>1, <1>2

\* The end of a line is the first CR.
LEMMA EndIs ==
  ASSUME NEW s \in String, NEW i \in 1 .. Len(s), NEW e \in i .. Len(s), s[e] = CR,
         \A j \in i .. (e - 1) : s[j] # CR
  PROVE  EndOf(s, i) = e
<1> DEFINE S == {j \in i .. Len(s) : s[j] = CR}
<1>1. S \in SUBSET Int /\ e \in S
  OBVIOUS
<1>2. \A j \in S : e <= j
  <2> SUFFICES ASSUME NEW j \in S, ~ (e <= j) PROVE FALSE
    OBVIOUS
  <2>1. j \in i .. (e - 1) /\ s[j] = CR
    OBVIOUS
  <2> QED BY <2>1
<1> HIDE DEF S
<1>3. FirstOf(S) = e
  BY <1>1, <1>2, FirstOfIs
<1> QED BY <1>3 DEF EndOf, S

\* The end of a line is the first CR.
LEMMA EndIsFirst ==
  ASSUME NEW s \in String, NEW i \in 1 .. Len(s), NEW j \in i .. Len(s), s[j] = CR
  PROVE  /\ EndOf(s, i) \in i .. j /\ s[EndOf(s, i)] = CR
         /\ \A k \in i .. (EndOf(s, i) - 1) : s[k] # CR
<1> DEFINE S == {k \in i .. Len(s) : s[k] = CR}
<1>1. S \in SUBSET Nat /\ j \in S /\ S # {}
  OBVIOUS
<1> HIDE DEF S
<1>2. FirstOf(S) \in S /\ \A k \in S : FirstOf(S) <= k
  BY <1>1, FirstOfNat
<1>3. FirstOf(S) = EndOf(s, i)
  BY DEF EndOf, S
<1>4. EndOf(s, i) \in i .. Len(s) /\ s[EndOf(s, i)] = CR /\ EndOf(s, i) <= j
  BY <1>1, <1>2, <1>3 DEF S
<1>5. \A k \in i .. (EndOf(s, i) - 1) : s[k] # CR
  <2> SUFFICES ASSUME NEW k \in i .. (EndOf(s, i) - 1), s[k] = CR PROVE FALSE
    OBVIOUS
  <2>1. k \in S
    BY <1>4 DEF S
  <2>2. EndOf(s, i) <= k
    BY <1>2, <1>3, <2>1
  <2> QED BY <1>4, <2>2
<1> QED BY <1>4, <1>5

\* The marks of a request line say what its method and its uri are.
LEMMA MarksAre ==
  ASSUME NEW s \in String, NEW m, NEW u, NEW d, NEW e, Marks(s, m, u, d, e)
  PROVE  /\ IsRequestLine(s) /\ EndOf(s, 1) = e
         /\ Method(s) = SubSeq(s, 1, m - 1) /\ Uri(s) = SubSeq(s, m + 1, u - 1)
<1>1. /\ m \in Nat /\ u \in Nat /\ d \in Nat /\ e \in Nat /\ Len(s) \in Nat
      /\ 1 < m /\ m < u /\ u + 6 < d /\ d < e - 1 /\ e <= Len(s)
      /\ \A i \in 1 .. (e - 1) : s[i] # CR /\ s[i] # LF
      /\ \A i \in 1 .. (e - 1) : s[i] = SP <=> i = m \/ i = u
  BY MarksText
<1>2. EndOf(s, 1) = e
  <2>1. 1 \in 1 .. Len(s) /\ e \in 1 .. Len(s) /\ s[e] = CR
    BY <1>1 DEF Marks
  <2> QED BY <1>1, <2>1, EndIs
<1>3. Blanks(s) = {m, u}
  BY <1>1, <1>2 DEF Blanks, Line
<1>4. FirstOf({m, u}) = m /\ LastOf({m, u}) = u
  <2>1. {m, u} \in SUBSET Int /\ m \in {m, u} /\ u \in {m, u}
    BY <1>1
  <2>2. \A y \in {m, u} : m <= y /\ y <= u
    BY <1>1
  <2> QED BY <2>1, <2>2, FirstOfIs, LastOfIs
<1>5. SubSeq(s, u + 1, u + 5) = <<72, 84, 84, 80, Slash>>
  <2> DEFINE h == <<72, 84, 84, 80, Slash>>
  <2>1. SubSeq(s, u + 1, u + 5) \in String /\ Len(SubSeq(s, u + 1, u + 5)) = 5
    <3>1. u + 5 <= Len(s)
      BY <1>1
    <3> QED BY <1>1, <3>1, FiveBehind
  <2>2. h \in String /\ Len(h) = 5
    BY DEF String, Slash
  <2>3. /\ SubSeq(s, u + 1, u + 5)[1] = s[u + 1] /\ SubSeq(s, u + 1, u + 5)[2] = s[u + 2]
        /\ SubSeq(s, u + 1, u + 5)[3] = s[u + 3] /\ SubSeq(s, u + 1, u + 5)[4] = s[u + 4]
        /\ SubSeq(s, u + 1, u + 5)[5] = s[u + 5]
    <3>1. u + 5 <= Len(s) /\ u \in Nat
      BY <1>1
    <3> QED BY <3>1, FiveBehind
  <2>4. h[1] = 72 /\ h[2] = 84 /\ h[3] = 84 /\ h[4] = 80 /\ h[5] = Slash
    OBVIOUS
  <2>5. \A i \in 1 .. 5 : i = 1 \/ i = 2 \/ i = 3 \/ i = 4 \/ i = 5
    OBVIOUS
  <2> DEFINE v == SubSeq(s, u + 1, u + 5)
  <2>6. v[1] = h[1] /\ v[2] = h[2] /\ v[3] = h[3] /\ v[4] = h[4] /\ v[5] = h[5]
    BY <2>3, <2>4 DEF Marks, Http
  <2>7. v \in String /\ Len(v) = 5
    BY <2>1
  <2> HIDE DEF h, v
  <2>8. \A i \in 1 .. 5 : v[i] = h[i]
    BY <2>5, <2>6
  <2>9. v = h
    BY <2>2, <2>7, <2>8, SameString
  <2> QED BY <2>9 DEF h, v
<1>6. IsVersion(s, u + 1, e - 1)
  <2>1. u + 1 + 6 < e - 1 /\ u + 1 + 4 = u + 5 /\ u + 1 + 6 = u + 7 /\ e - 1 - 1 = e - 2 /\ u + 1 + 5 = u + 6
    BY <1>1
  <2>2. d \in (u + 7) .. (e - 2) /\ s[d] = Dot /\ \A i \in (u + 6) .. (e - 1) : i # d => is_digit(s[i])
    BY DEF Marks, Digits
  <2>3. \E dot \in u + 7 .. e - 2 :
          s[dot] = Dot /\ \A i \in u + 6 .. e - 1 : i # dot => is_digit(s[i])
    BY <2>2
  <2> HIDE DEF is_digit
  <2> QED BY <1>5, <2>1, <2>3 DEF IsVersion
<1>7. IsRequestLine(s)
  <2>1. /\ 1 < m /\ \A i \in 1 .. m - 1 : IsToken(s[i])
        /\ \A i \in m + 1 .. u - 1 : IsText(s[i])
    BY <1>1 DEF Marks, Target
  <2>2. {m, u} # {} /\ m # u
    BY <1>1
  <2> QED BY <1>2, <1>3, <1>4, <1>6, <2>1, <2>2 DEF IsRequestLine
<1> QED BY <1>2, <1>3, <1>4, <1>7 DEF Method, Uri

\* A request line has its marks.
LEMMA RequestLineHasMarks ==
  ASSUME NEW s \in String, IsRequestLine(s), NEW j \in 1 .. Len(s), s[j] = CR
  PROVE  \E m, u, d : Marks(s, m, u, d, EndOf(s, 1))
<1> DEFINE e == EndOf(s, 1)
           m == FirstOf(Blanks(s))
           u == LastOf(Blanks(s))
<1>1. 1 \in 1 .. Len(s) /\ j \in 1 .. Len(s) /\ Len(s) \in Nat
  BY DEF String
<1>2. e \in 1 .. j /\ s[e] = CR /\ \A k \in 1 .. (e - 1) : s[k] # CR
  BY <1>1, EndIsFirst
<1>3. Blanks(s) = {i \in 1 .. (e - 1) : s[i] = SP}
  BY DEF Blanks, Line
<1>4. /\ Blanks(s) = {m, u} /\ m # u
      /\ 1 < m /\ \A i \in 1 .. m - 1 : IsToken(s[i])
      /\ \A i \in m + 1 .. u - 1 : IsText(s[i])
      /\ IsVersion(s, u + 1, e - 1)
  BY DEF IsRequestLine
<1>5. m \in Blanks(s) /\ u \in Blanks(s) /\ m <= u
  <2>1. m \in Blanks(s) /\ u \in Blanks(s)
    BY <1>4
  <2>2. Blanks(s) \in SUBSET Nat /\ Blanks(s) # {}
    BY <1>2, <1>3, <2>1
  <2>3. m <= u
    BY <2>1, <2>2, FirstOfNat
  <2> QED BY <2>1, <2>3
<1> HIDE DEF e, m, u
<1>6. m \in 2 .. (e - 1) /\ u \in (m + 1) .. (e - 1) /\ s[m] = SP /\ s[u] = SP /\ e \in 1 .. Len(s)
  BY <1>1, <1>2, <1>3, <1>4, <1>5
<1>7. \A i \in (m + 1) .. (u - 1) : s[i] # SP /\ IsText(s[i])
  <2> TAKE i \in (m + 1) .. (u - 1)
  <2>1. i \in 1 .. (e - 1) /\ i # m /\ i # u
    BY <1>6
  <2>2. s[i] # SP
    BY <1>3, <1>4, <2>1
  <2> QED BY <1>4, <2>2
<1>8. Target(s, m, u)
  <2>1. m \in 2 .. Len(s) /\ u \in (m + 1) .. Len(s)
    BY <1>1, <1>6
  <2> QED BY <1>4, <1>6, <1>7, <2>1 DEF Target
<1>9. /\ u + 1 + 6 < e - 1 /\ SubSeq(s, u + 1, u + 1 + 4) = <<72, 84, 84, 80, Slash>>
      /\ \E dot \in u + 1 + 6 .. e - 1 - 1 :
           s[dot] = Dot /\ \A i \in u + 1 + 5 .. e - 1 : i # dot => is_digit(s[i])
  BY <1>4 DEF IsVersion
<1>10. u + 1 + 4 = u + 5 /\ u + 1 + 6 = u + 7 /\ e - 1 - 1 = e - 2 /\ u + 1 + 5 = u + 6
  BY <1>6
<1>11. PICK d \in (u + 7) .. (e - 2) : s[d] = Dot /\ \A i \in (u + 6) .. (e - 1) : i # d => is_digit(s[i])
  BY <1>9, <1>10
<1>12. Http(s, u)
  <2> DEFINE v == SubSeq(s, u + 1, u + 5)
  <2>1. v[1] = s[u + 1] /\ v[2] = s[u + 2] /\ v[3] = s[u + 3] /\ v[4] = s[u + 4] /\ v[5] = s[u + 5]
    <3>1. u \in Nat /\ u + 5 <= Len(s)
      BY <1>1, <1>6, <1>9
    <3> QED BY <3>1, FiveBehind
  <2>2. v = <<72, 84, 84, 80, Slash>>
    BY <1>9, <1>10
  <2> HIDE DEF v
  <2>3. v[1] = 72 /\ v[2] = 84 /\ v[3] = 84 /\ v[4] = 80 /\ v[5] = Slash
    BY <2>2
  <2> QED BY <2>1, <2>3 DEF Http
<1>13. Marks(s, m, u, d, e)
  BY <1>2, <1>6, <1>8, <1>11, <1>12 DEF Marks, Digits
<1> QED BY <1>13 DEF e

-----------------------------------------------------------------------------
(* A parser p that follows the request line of s, behind n characters.     *)

Tokens(s, a, z) == \A i \in a .. z : IsToken(s[i])
Texts(s, a, z) == \A i \in a .. z : s[i] # SP /\ IsText(s[i])

AtStart(s, n, p) == n = 0 /\ p.method = <<>> /\ p.uri = <<>>

AtMethod(s, n, p) ==
  n >= 1 /\ Tokens(s, 1, n) /\ p.method = SubSeq(s, 1, n) /\ p.uri = <<>>

AtUri(s, n, p) ==
  \E m \in 2 .. n :
    /\ Tokens(s, 1, m - 1) /\ s[m] = SP /\ Texts(s, m + 1, n)
    /\ p.method = SubSeq(s, 1, m - 1) /\ p.uri = SubSeq(s, m + 1, n)

HasTarget(s, m, u, p) ==
  /\ Target(s, m, u)
  /\ p.method = SubSeq(s, 1, m - 1) /\ p.uri = SubSeq(s, m + 1, u - 1)

\* Behind u there is the part of a version that leads to state q.
Version(s, u, n, q) ==
  \/ q = "http_version_h" /\ n = u
  \/ q = "http_version_t_1" /\ n = u + 1 /\ s[u + 1] = 72
  \/ q = "http_version_t_2" /\ n = u + 2 /\ s[u + 1] = 72 /\ s[u + 2] = 84
  \/ q = "http_version_p" /\ n = u + 3 /\ s[u + 1] = 72 /\ s[u + 2] = 84 /\ s[u + 3] = 84
  \/ /\ q = "http_version_slash" /\ n = u + 4
     /\ s[u + 1] = 72 /\ s[u + 2] = 84 /\ s[u + 3] = 84 /\ s[u + 4] = 80
  \/ q = "http_version_major_start" /\ n = u + 5 /\ Http(s, u)
  \/ q = "http_version_major" /\ n > u + 5 /\ Http(s, u) /\ Digits(s, u + 6, n, 0)
  \/ /\ q = "http_version_minor_start" /\ n > u + 6 /\ Http(s, u)
     /\ s[n] = Dot /\ Digits(s, u + 6, n, n)
  \/ /\ q = "http_version_minor" /\ Http(s, u)
     /\ \E d \in (u + 7) .. (n - 1) : s[d] = Dot /\ Digits(s, u + 6, n, d)
  \/ /\ q = "expecting_newline_1" /\ Http(s, u) /\ s[n] = CR
     /\ \E d \in (u + 7) .. (n - 2) : s[d] = Dot /\ Digits(s, u + 6, n - 1, d)

VersionStates ==
  {"http_version_h", "http_version_t_1", "http_version_t_2", "http_version_p",
   "http_version_slash", "http_version_major_start", "http_version_major",
   "http_version_minor_start", "http_version_minor", "expecting_newline_1"}

AtVersion(s, n, p) == \E m, u \in 1 .. n : HasTarget(s, m, u, p) /\ Version(s, u, n, p.state)

LineStates == {"method_start", "method", "uri"} \union VersionStates

FollowsLine(s, n, p) ==
  /\ p.headers = NoHeaders
  /\ p.state = "method_start" => AtStart(s, n, p)
  /\ p.state = "method" => AtMethod(s, n, p)
  /\ p.state = "uri" => AtUri(s, n, p)
  /\ p.state \in VersionStates => AtVersion(s, n, p)

\* The next character of a version, and the state it leads to.
LEMMA VersionStep ==
  ASSUME NEW s \in String, NEW n \in 0 .. (Len(s) - 1), NEW u \in 1 .. n, NEW p \in ParserType,
         p.state \in VersionStates, p.state # "expecting_newline_1",
         Version(s, u, n, p.state), consume(p, s[n + 1]).result # "bad"
  PROVE  LET q == consume(p, s[n + 1])
         IN  Keeps(p, q) /\ q.state \in VersionStates /\ Version(s, u, n + 1, q.state)
<1> DEFINE c == s[n + 1]
           q == consume(p, c)
<1>1. c \in Int /\ n \in Nat /\ u \in Nat /\ Len(s) \in Nat
  BY DEF String
<1>2. q.result # "bad"
  OBVIOUS
<1>3. \A x \in DOMAIN Fixed : p.state = x =>
        IF c = Fixed[x].char THEN q.state = Fixed[x].next /\ Keeps(p, q) ELSE q.result = "bad"
  <2> HIDE DEF c
  <2> QED BY <1>1, ConsumeFixed
<1>4. /\ p.state = "http_version_major_start" =>
           IF is_digit(c) THEN q.state = "http_version_major" /\ Keeps(p, q)
           ELSE q.result = "bad"
      /\ p.state = "http_version_major" =>
           IF is_digit(c) THEN q.state = "http_version_major" /\ Keeps(p, q)
           ELSE IF c = Dot THEN q.state = "http_version_minor_start" /\ Keeps(p, q)
           ELSE q.result = "bad"
      /\ p.state = "http_version_minor_start" =>
           IF is_digit(c) THEN q.state = "http_version_minor" /\ Keeps(p, q)
           ELSE q.result = "bad"
      /\ p.state = "http_version_minor" =>
           IF is_digit(c) THEN q.state = "http_version_minor" /\ Keeps(p, q)
           ELSE IF c = CR THEN q.state = "expecting_newline_1" /\ Keeps(p, q)
           ELSE q.result = "bad"
  <2> HIDE DEF c
  <2> QED BY <1>1, ConsumeVersion
<1> HIDE DEF q
<1>5. CASE p.state = "http_version_h"
  <2>1. n = u
    BY <1>5 DEF Version
  <2>2. c = 72 /\ Keeps(p, q) /\ q.state = "http_version_t_1"
    BY <1>2, <1>3, <1>5, FixedIs
  <2> QED BY <2>1, <2>2 DEF Version, VersionStates, q
<1>6. CASE p.state = "http_version_t_1"
  <2>1. n = u + 1 /\ s[u + 1] = 72
    BY <1>6 DEF Version
  <2>2. c = 84 /\ Keeps(p, q) /\ q.state = "http_version_t_2"
    BY <1>2, <1>3, <1>6, FixedIs
  <2> QED BY <1>1, <2>1, <2>2 DEF Version, VersionStates, q
<1>7. CASE p.state = "http_version_t_2"
  <2>1. n = u + 2 /\ s[u + 1] = 72 /\ s[u + 2] = 84
    BY <1>7 DEF Version
  <2>2. c = 84 /\ Keeps(p, q) /\ q.state = "http_version_p"
    BY <1>2, <1>3, <1>7, FixedIs
  <2> QED BY <1>1, <2>1, <2>2 DEF Version, VersionStates, q
<1>8. CASE p.state = "http_version_p"
  <2>1. n = u + 3 /\ s[u + 1] = 72 /\ s[u + 2] = 84 /\ s[u + 3] = 84
    BY <1>8 DEF Version
  <2>2. c = 80 /\ Keeps(p, q) /\ q.state = "http_version_slash"
    BY <1>2, <1>3, <1>8, FixedIs
  <2> QED BY <1>1, <2>1, <2>2 DEF Version, VersionStates, q
<1>9. CASE p.state = "http_version_slash"
  <2>1. n = u + 4 /\ s[u + 1] = 72 /\ s[u + 2] = 84 /\ s[u + 3] = 84 /\ s[u + 4] = 80
    BY <1>9 DEF Version
  <2>2. c = Slash /\ Keeps(p, q) /\ q.state = "http_version_major_start"
    BY <1>2, <1>3, <1>9, FixedIs
  <2>3. n + 1 = u + 5 /\ Http(s, u)
    BY <1>1, <2>1, <2>2 DEF Http
  <2> QED BY <2>2, <2>3 DEF Version, VersionStates, q
<1>10. CASE p.state = "http_version_major_start"
  <2>1. n = u + 5 /\ Http(s, u)
    BY <1>10 DEF Version
  <2>2. is_digit(c) /\ Keeps(p, q) /\ q.state = "http_version_major"
    BY <1>2, <1>4, <1>10
  <2>3. n + 1 > u + 5 /\ Digits(s, u + 6, n + 1, 0)
    BY <1>1, <2>1, <2>2 DEF Digits
  <2> QED BY <2>1, <2>2, <2>3 DEF Version, VersionStates, q
<1>11. CASE p.state = "http_version_major"
  <2>1. n > u + 5 /\ Http(s, u) /\ Digits(s, u + 6, n, 0)
    BY <1>11 DEF Version
  <2>2. CASE is_digit(c)
    <3>1. Keeps(p, q) /\ q.state = "http_version_major"
      BY <1>4, <1>11, <2>2
    <3>2. n + 1 > u + 5 /\ Digits(s, u + 6, n + 1, 0)
      BY <1>1, <2>1, <2>2 DEF Digits
    <3> QED BY <2>1, <3>1, <3>2 DEF Version, VersionStates, q
  <2>3. CASE ~is_digit(c)
    <3>1. c = Dot /\ Keeps(p, q) /\ q.state = "http_version_minor_start"
      BY <1>2, <1>4, <1>11, <2>3
    <3>2. n + 1 > u + 6 /\ Digits(s, u + 6, n + 1, n + 1)
      BY <1>1, <2>1 DEF Digits
    <3> QED BY <2>1, <3>1, <3>2 DEF Version, VersionStates, q
  <2> QED BY <2>2, <2>3
<1>12. CASE p.state = "http_version_minor_start"
  <2>1. n > u + 6 /\ Http(s, u) /\ s[n] = Dot /\ Digits(s, u + 6, n, n)
    BY <1>12 DEF Version
  <2>2. is_digit(c) /\ Keeps(p, q) /\ q.state = "http_version_minor"
    BY <1>2, <1>4, <1>12
  <2>3. n \in (u + 7) .. (n + 1 - 1) /\ Digits(s, u + 6, n + 1, n)
    BY <1>1, <2>1, <2>2 DEF Digits
  <2> QED BY <2>1, <2>2, <2>3 DEF Version, VersionStates, q
<1>13. CASE p.state = "http_version_minor"
  <2>1. Http(s, u)
    BY <1>13 DEF Version
  <2>2. PICK d \in (u + 7) .. (n - 1) : s[d] = Dot /\ Digits(s, u + 6, n, d)
    BY <1>13 DEF Version
  <2>3. CASE is_digit(c)
    <3>1. Keeps(p, q) /\ q.state = "http_version_minor"
      BY <1>4, <1>13, <2>3
    <3>2. d \in (u + 7) .. (n + 1 - 1) /\ Digits(s, u + 6, n + 1, d)
      BY <1>1, <2>2, <2>3 DEF Digits
    <3> QED BY <2>1, <2>2, <3>1, <3>2 DEF Version, VersionStates, q
  <2>4. CASE ~is_digit(c)
    <3>1. c = CR /\ Keeps(p, q) /\ q.state = "expecting_newline_1"
      BY <1>2, <1>4, <1>13, <2>4
    <3>2. d \in (u + 7) .. (n + 1 - 2) /\ n + 1 - 1 = n
      BY <1>1, <2>2
    <3> QED BY <2>1, <2>2, <3>1, <3>2 DEF Version, VersionStates, q
  <2> QED BY <2>3, <2>4
<1> QED BY <1>5, <1>6, <1>7, <1>8, <1>9, <1>10, <1>11, <1>12, <1>13 DEF VersionStates

\* A character of the request line.
LEMMA LineStep ==
  ASSUME NEW s \in String, NEW n \in 0 .. (Len(s) - 1), NEW p \in ParserType,
         p.state \in LineStates, p.state # "expecting_newline_1",
         FollowsLine(s, n, p), consume(p, s[n + 1]).result # "bad"
  PROVE  LET q == consume(p, s[n + 1])
         IN  q.state \in LineStates /\ FollowsLine(s, n + 1, q) /\ q.result = p.result
<1> DEFINE c == s[n + 1]
           q == consume(p, c)
<1>1. c \in Int /\ n \in Nat /\ Len(s) \in Nat /\ n + 1 \in Nat \ {0}
  BY DEF String
<1>2. q.result # "bad" /\ p.headers = NoHeaders
  BY DEF FollowsLine
<1>3. \A a \in 1 .. (n + 1) : SubSeq(s, a, n + 1) = Append(SubSeq(s, a, n), c) /\ SubSeq(s, a, a - 1) = <<>>
  <2> TAKE a \in 1 .. (n + 1)
  <2>1. a \in 1 .. Len(s) /\ n \in (a - 1) .. (Len(s) - 1)
    BY <1>1
  <2> QED BY <2>1, SubSeqGrows
<1>4. CASE p.state \in {"method_start", "method"}
  <2>1. IF IsToken(c)
        THEN /\ q.state = "method" /\ q.method = Append(p.method, c)
             /\ q.result = p.result /\ q.uri = p.uri /\ q.headers = p.headers
        ELSE IF p.state = "method" /\ c = SP THEN q.state = "uri" /\ Keeps(p, q)
        ELSE q.result = "bad"
    <3> HIDE DEF c
    <3> QED BY <1>1, <1>4, ConsumeMethod
  <2> HIDE DEF q
  <2>2. /\ n >= 0 /\ Tokens(s, 1, n) /\ p.method = SubSeq(s, 1, n) /\ p.uri = <<>>
        /\ p.state = "method" => n >= 1
    <3>1. CASE p.state = "method_start"
      <4>1. n = 0 /\ p.method = <<>> /\ p.uri = <<>>
        BY <3>1 DEF FollowsLine, AtStart
      <4>2. SubSeq(s, 1, 0) = <<>>
        <5>1. 1 \in 1 .. (n + 1) /\ 1 - 1 = 0
          BY <1>1
        <5> QED BY <1>3, <5>1
      <4> QED BY <3>1, <4>1, <4>2 DEF Tokens
    <3>2. CASE p.state = "method"
      BY <3>2, <1>1 DEF FollowsLine, AtMethod
    <3> QED BY <1>4, <3>1, <3>2
  <2>3. CASE IsToken(c)
    <3>1. /\ q.state = "method" /\ q.method = Append(p.method, c)
          /\ q.result = p.result /\ q.uri = p.uri /\ q.headers = p.headers
      BY <2>1, <2>3
    <3>2. n + 1 >= 1 /\ Tokens(s, 1, n + 1)
      <4>1. \A i \in 1 .. (n + 1) : i \in 1 .. n \/ i = n + 1
        BY <1>1
      <4>2. (\A i \in 1 .. n : IsToken(s[i])) /\ IsToken(s[n + 1])
        BY <2>2, <2>3 DEF Tokens
      <4>3. \A i \in 1 .. (n + 1) : IsToken(s[i])
        BY <4>1, <4>2
      <4> QED BY <1>1, <4>3 DEF Tokens
    <3>3. 1 \in 1 .. (n + 1)
      BY <1>1
    <3>4. q.method = SubSeq(s, 1, n + 1)
      BY <1>3, <2>2, <3>1, <3>3
    <3>5. AtMethod(s, n + 1, q)
      BY <2>2, <3>1, <3>2, <3>4 DEF AtMethod
    <3> QED BY <1>2, <3>1, <3>5 DEF FollowsLine, LineStates, VersionStates, q
  <2>4. CASE ~IsToken(c)
    <3>1. p.state = "method" /\ c = SP /\ q.state = "uri" /\ Keeps(p, q)
      BY <1>2, <2>1, <2>4 DEF q
    <3>2. n >= 1 /\ n + 1 - 1 = n /\ n + 1 \in 2 .. (n + 1)
      BY <1>1, <2>2, <3>1
    <3>3. Texts(s, n + 1 + 1, n + 1) /\ Tokens(s, 1, n + 1 - 1)
      BY <1>1, <2>2, <3>2 DEF Texts
    <3>4. SubSeq(s, n + 1 + 1, n + 1) = <<>>
      BY <1>1 DEF String
    <3>5. AtUri(s, n + 1, q)
      BY <2>2, <3>1, <3>2, <3>3, <3>4 DEF AtUri, Keeps
    <3> QED BY <1>2, <3>1, <3>5 DEF FollowsLine, LineStates, VersionStates, Keeps, q
  <2> QED BY <2>3, <2>4
<1>5. CASE p.state = "uri"
  <2>1. IF c = SP THEN q.state = "http_version_h" /\ Keeps(p, q)
        ELSE IF IsText(c)
        THEN /\ q.state = "uri" /\ q.uri = Append(p.uri, c)
             /\ q.result = p.result /\ q.method = p.method /\ q.headers = p.headers
        ELSE q.result = "bad"
    <3> HIDE DEF c
    <3> QED BY <1>1, <1>5, ConsumeUri
  <2> HIDE DEF q
  <2>2. PICK m \in 2 .. n :
          /\ Tokens(s, 1, m - 1) /\ s[m] = SP /\ Texts(s, m + 1, n)
          /\ p.method = SubSeq(s, 1, m - 1) /\ p.uri = SubSeq(s, m + 1, n)
    BY <1>5 DEF FollowsLine, AtUri
  <2>3. CASE c = SP
    <3>1. q.state = "http_version_h" /\ Keeps(p, q)
      BY <2>1, <2>3
    <3>2. /\ m \in 2 .. Len(s) /\ n + 1 \in (m + 1) .. Len(s) /\ n + 1 - 1 = n
          /\ m \in 1 .. (n + 1) /\ n + 1 \in 1 .. (n + 1)
      BY <1>1
    <3>3. Target(s, m, n + 1)
      BY <2>2, <2>3, <3>2 DEF Target, Tokens, Texts
    <3>4. HasTarget(s, m, n + 1, q)
      BY <2>2, <3>1, <3>2, <3>3 DEF HasTarget, Keeps
    <3>5. Version(s, n + 1, n + 1, q.state)
      BY <3>1 DEF Version
    <3>6. AtVersion(s, n + 1, q)
      BY <3>2, <3>4, <3>5 DEF AtVersion
    <3> QED BY <1>2, <3>1, <3>6 DEF FollowsLine, LineStates, VersionStates, Keeps, q
  <2>4. CASE c # SP
    <3>1. /\ IsText(c) /\ q.state = "uri" /\ q.uri = Append(p.uri, c)
          /\ q.result = p.result /\ q.method = p.method /\ q.headers = p.headers
      BY <1>2, <2>1, <2>4 DEF q
    <3>2. m \in 2 .. (n + 1) /\ m + 1 \in 1 .. (n + 1)
      BY <1>1
    <3>3. Texts(s, m + 1, n + 1)
      <4>1. \A i \in (m + 1) .. (n + 1) : i \in (m + 1) .. n \/ i = n + 1
        BY <1>1
      <4>2. /\ \A i \in (m + 1) .. n : s[i] # SP /\ IsText(s[i])
            /\ s[n + 1] # SP /\ IsText(s[n + 1])
        BY <2>2, <2>4, <3>1 DEF Texts
      <4>3. \A i \in (m + 1) .. (n + 1) : s[i] # SP /\ IsText(s[i])
        BY <4>1, <4>2
      <4> QED BY <4>3 DEF Texts
    <3>4. q.uri = SubSeq(s, m + 1, n + 1)
      BY <1>3, <2>2, <3>1, <3>2
    <3>5. AtUri(s, n + 1, q)
      BY <2>2, <3>1, <3>2, <3>3, <3>4 DEF AtUri
    <3> QED BY <1>2, <3>1, <3>5 DEF FollowsLine, LineStates, VersionStates, q
  <2> QED BY <2>3, <2>4
<1>6. CASE p.state \in VersionStates
  <2>1. PICK m \in 1 .. n, u \in 1 .. n : HasTarget(s, m, u, p) /\ Version(s, u, n, p.state)
    BY <1>6 DEF FollowsLine, AtVersion
  <2>2. Keeps(p, q) /\ q.state \in VersionStates /\ Version(s, u, n + 1, q.state)
    BY <1>2, <1>6, <2>1, VersionStep
  <2> HIDE DEF q
  <2>3. HasTarget(s, m, u, q) /\ m \in 1 .. (n + 1) /\ u \in 1 .. (n + 1)
    BY <1>1, <2>1, <2>2 DEF HasTarget, Keeps
  <2>4. AtVersion(s, n + 1, q)
    BY <2>2, <2>3 DEF AtVersion
  <2>5. q.state \notin {"method_start", "method", "uri"} /\ q.state \in LineStates
    BY <2>2 DEF VersionStates, LineStates
  <2>6. FollowsLine(s, n + 1, q)
    BY <1>2, <2>2, <2>4, <2>5 DEF FollowsLine, Keeps
  <2> QED BY <2>2, <2>5, <2>6 DEF Keeps, q
<1> QED BY <1>4, <1>5, <1>6 DEF LineStates

\* The marks of a request line that ends at n.
LEMMA LineEnd ==
  ASSUME NEW s \in String, NEW n \in 0 .. Len(s), NEW p \in ParserType,
         p.state = "expecting_newline_1", FollowsLine(s, n, p)
  PROVE  /\ p.headers = NoHeaders
         /\ \E m, u, d : Marks(s, m, u, d, n) /\ HasTarget(s, m, u, p)
<1>1. p.headers = NoHeaders /\ p.state \in VersionStates
  BY DEF FollowsLine, VersionStates
<1>2. PICK m \in 1 .. n, u \in 1 .. n : HasTarget(s, m, u, p) /\ Version(s, u, n, p.state)
  BY <1>1 DEF FollowsLine, AtVersion
<1>3. Http(s, u) /\ s[n] = CR
  BY <1>2 DEF Version
<1>4. PICK d \in (u + 7) .. (n - 2) : s[d] = Dot /\ Digits(s, u + 6, n - 1, d)
  BY <1>2 DEF Version
<1>5. n \in 1 .. Len(s)
  BY <1>4 DEF String
<1>6. Marks(s, m, u, d, n)
  BY <1>2, <1>3, <1>4, <1>5 DEF Marks, HasTarget
<1> QED BY <1>1, <1>2, <1>6

\* A request line that is one is not refused.
LEMMA LineAccepted ==
  ASSUME NEW s \in String, NEW n \in 0 .. (Len(s) - 1), NEW p \in ParserType,
         p.state \in LineStates, p.result = "indeterminate", FollowsLine(s, n, p),
         NEW m, NEW u, NEW d, NEW e, Marks(s, m, u, d, e), e < Len(s), s[e + 1] = LF
  PROVE  consume(p, s[n + 1]).result # "bad"
<1> DEFINE c == s[n + 1]
           q == consume(p, c)
<1>0. c \in Int /\ n \in Nat /\ Len(s) \in Nat
  BY DEF String
<1>1. /\ m \in Nat /\ u \in Nat /\ d \in Nat /\ e \in Nat /\ Len(s) \in Nat
      /\ 1 < m /\ m < u /\ u + 6 < d /\ d < e - 1 /\ e <= Len(s)
      /\ \A i \in 1 .. (e - 1) : s[i] # CR /\ s[i] # LF
      /\ \A i \in 1 .. (e - 1) : s[i] = SP <=> i = m \/ i = u
  BY MarksText
<1>2. /\ \A i \in 1 .. (m - 1) : IsToken(s[i])
      /\ \A i \in (m + 1) .. (u - 1) : s[i] # SP /\ IsText(s[i])
      /\ s[m] = SP /\ s[u] = SP /\ Http(s, u) /\ s[d] = Dot /\ s[e] = CR
      /\ \A i \in (u + 6) .. (e - 1) : i # d => is_digit(s[i])
  BY DEF Marks, Target, Digits
<1>3. CASE p.state \in {"method_start", "method"}
  <2>1. IF IsToken(c) THEN q.result = p.result
        ELSE IF p.state = "method" /\ c = SP THEN Keeps(p, q) ELSE q.result = "bad"
    <3> HIDE DEF c
    <3> QED BY <1>0, <1>3, ConsumeMethod
  <2>2. n < m
    <3>1. CASE p.state = "method_start"
      BY <1>1, <3>1 DEF FollowsLine, AtStart
    <3>2. CASE p.state = "method"
      <4>1. \A i \in 1 .. n : IsToken(s[i])
        BY <3>2 DEF FollowsLine, AtMethod, Tokens
      <4>2. m \in 1 .. n => FALSE
        BY <1>2, <4>1, CharFacts
      <4> QED BY <1>0, <1>1, <4>2
    <3> QED BY <1>3, <3>1, <3>2
  <2>3. CASE n + 1 < m
    <3>1. IsToken(c)
      BY <1>0, <1>1, <1>2, <2>3
    <3> QED BY <2>1, <3>1
  <2>4. CASE n + 1 = m
    <3>1. c = SP /\ p.state = "method"
      BY <1>0, <1>1, <1>2, <1>3, <2>4 DEF FollowsLine, AtStart
    <3> HIDE DEF c, q
    <3>2. ~IsToken(c)
      BY <3>1, CharFacts
    <3>3. q.result = p.result
      BY <2>1, <3>1, <3>2 DEF Keeps
    <3> QED BY <3>3 DEF q, c
  <2> QED BY <1>0, <1>1, <2>2, <2>3, <2>4
<1>4. CASE p.state = "uri"
  <2>1. IF c = SP THEN Keeps(p, q) ELSE IF IsText(c) THEN q.result = p.result ELSE q.result = "bad"
    <3> HIDE DEF c
    <3> QED BY <1>0, <1>4, ConsumeUri
  <2>2. PICK k \in 2 .. n : Tokens(s, 1, k - 1) /\ s[k] = SP /\ Texts(s, k + 1, n)
    BY <1>4 DEF FollowsLine, AtUri
  <2>3. k = m
    <3>1. ~ (m \in 1 .. (k - 1))
      BY <1>2, <2>2, CharFacts DEF Tokens
    <3>2. ~ (k \in 1 .. (m - 1))
      BY <1>2, <2>2, CharFacts
    <3> QED BY <1>1, <3>1, <3>2
  <2>4. n < u
    <3>1. ~ (u \in (m + 1) .. n)
      BY <1>2, <2>2, <2>3 DEF Texts
    <3> QED BY <1>0, <1>1, <3>1
  <2>5. c = SP \/ IsText(c)
    <3>1. CASE n + 1 = u
      BY <1>2, <3>1
    <3>2. CASE n + 1 # u
      <4>1. n + 1 \in (m + 1) .. (u - 1)
        BY <1>0, <1>1, <2>3, <2>4, <3>2
      <4> QED BY <1>2, <4>1
    <3> QED BY <3>1, <3>2
  <2> HIDE DEF c, q
  <2>6. q.result = p.result
    BY <2>1, <2>5 DEF Keeps
  <2> QED BY <2>6 DEF c, q
<1>5. CASE p.state \in VersionStates
  <2>1. PICK k \in 1 .. n, v \in 1 .. n : HasTarget(s, k, v, p) /\ Version(s, v, n, p.state)
    BY <1>5 DEF FollowsLine, AtVersion
  <2>2. /\ k \in 2 .. Len(s) /\ v \in (k + 1) .. Len(s) /\ s[k] = SP /\ s[v] = SP
        /\ \A i \in 1 .. (k - 1) : IsToken(s[i])
        /\ \A i \in (k + 1) .. (v - 1) : s[i] # SP /\ IsText(s[i])
    BY <2>1 DEF HasTarget, Target
  <2>3. k = m
    <3>1. ~ (m \in 1 .. (k - 1))
      BY <1>2, <2>2, CharFacts
    <3>2. ~ (k \in 1 .. (m - 1))
      BY <1>2, <2>2, CharFacts
    <3> QED BY <1>1, <2>2, <3>1, <3>2
  <2>4. v = u
    <3>1. ~ (u \in (k + 1) .. (v - 1))
      BY <1>2, <2>2
    <3>2. ~ (v \in (m + 1) .. (u - 1))
      BY <1>2, <2>2
    <3> QED BY <1>1, <2>2, <2>3, <3>1, <3>2
  <2>5. Version(s, u, n, p.state)
    BY <2>1, <2>4
  <2>6. \A x \in DOMAIN Fixed : p.state = x =>
          IF c = Fixed[x].char THEN q.state = Fixed[x].next /\ Keeps(p, q) ELSE q.result = "bad"
    <3> HIDE DEF c
    <3> QED BY <1>0, ConsumeFixed
  <2>7. /\ p.state = "http_version_major_start" => (is_digit(c) => Keeps(p, q))
        /\ p.state = "http_version_major" => (is_digit(c) \/ c = Dot => Keeps(p, q))
        /\ p.state = "http_version_minor_start" => (is_digit(c) => Keeps(p, q))
        /\ p.state = "http_version_minor" => (is_digit(c) \/ c = CR => Keeps(p, q))
    <3> HIDE DEF c
    <3> QED BY <1>0, ConsumeVersion
  <2>8. Keeps(p, q)
    <3> HIDE DEF q
    <3>1. CASE p.state = "http_version_h"
      <4>1. n = u
        BY <2>5, <3>1 DEF Version
      <4>2. c = 72
        BY <1>2, <4>1 DEF Http
      <4> QED BY <2>6, <3>1, <4>2, FixedIs
    <3>2. CASE p.state = "http_version_t_1"
      <4>1. n = u + 1
        BY <2>5, <3>2 DEF Version
      <4>2. c = 84
        BY <1>1, <1>2, <4>1 DEF Http
      <4> QED BY <2>6, <3>2, <4>2, FixedIs
    <3>3. CASE p.state = "http_version_t_2"
      <4>1. n = u + 2
        BY <2>5, <3>3 DEF Version
      <4>2. c = 84
        BY <1>1, <1>2, <4>1 DEF Http
      <4> QED BY <2>6, <3>3, <4>2, FixedIs
    <3>4. CASE p.state = "http_version_p"
      <4>1. n = u + 3
        BY <2>5, <3>4 DEF Version
      <4>2. c = 80
        BY <1>1, <1>2, <4>1 DEF Http
      <4> QED BY <2>6, <3>4, <4>2, FixedIs
    <3>5. CASE p.state = "http_version_slash"
      <4>1. n = u + 4
        BY <2>5, <3>5 DEF Version
      <4>2. c = Slash
        BY <1>1, <1>2, <4>1 DEF Http
      <4> QED BY <2>6, <3>5, <4>2, FixedIs
    <3>6. CASE p.state = "http_version_major_start"
      <4>1. n = u + 5
        BY <2>5, <3>6 DEF Version
      <4>2. is_digit(c)
        <5>1. n + 1 \in (u + 6) .. (e - 1) /\ n + 1 # d
          BY <1>1, <4>1
        <5> QED BY <1>2, <5>1
      <4> QED BY <2>7, <3>6, <4>2
    <3>7. CASE p.state = "http_version_major"
      <4>1. n > u + 5 /\ \A i \in (u + 6) .. n : i # 0 => is_digit(s[i])
        BY <2>5, <3>7 DEF Version, Digits
      <4>2. n < d
        <5>1. ~ (d \in (u + 6) .. n)
          BY <1>1, <1>2, <4>1, CharFacts
        <5> QED BY <1>0, <1>1, <5>1
      <4>3. is_digit(c) \/ c = Dot
        <5>1. n + 1 \in (u + 6) .. (e - 1)
          BY <1>0, <1>1, <4>1, <4>2
        <5> QED BY <1>2, <5>1
      <4> QED BY <2>7, <3>7, <4>3
    <3>8. CASE p.state = "http_version_minor_start"
      <4>1. n > u + 6 /\ s[n] = Dot /\ \A i \in (u + 6) .. n : i # n => is_digit(s[i])
        BY <2>5, <3>8 DEF Version, Digits
      <4>2. n = d
        <5>1. ~ (d \in (u + 6) .. (n - 1))
          <6> SUFFICES ASSUME d \in (u + 6) .. (n - 1) PROVE FALSE
            OBVIOUS
          <6>1. d \in (u + 6) .. n /\ d # n
            BY <1>0
          <6>2. is_digit(Dot)
            BY <1>2, <4>1, <6>1
          <6> QED BY <6>2, CharFacts
        <5>2. ~ (n \in (u + 6) .. (d - 1))
          <6> SUFFICES ASSUME n \in (u + 6) .. (d - 1) PROVE FALSE
            OBVIOUS
          <6>1. n \in (u + 6) .. (e - 1) /\ n # d
            BY <1>0, <1>1
          <6>2. is_digit(Dot)
            BY <1>2, <4>1, <6>1
          <6> QED BY <6>2, CharFacts
        <5> QED BY <1>0, <1>1, <4>1, <5>1, <5>2
      <4>3. is_digit(c)
        <5>1. n + 1 \in (u + 6) .. (e - 1) /\ n + 1 # d
          BY <1>0, <1>1, <4>1, <4>2
        <5> QED BY <1>2, <5>1
      <4> QED BY <2>7, <3>8, <4>3
    <3>9. CASE p.state = "http_version_minor"
      <4>1. PICK f \in (u + 7) .. (n - 1) :
              s[f] = Dot /\ \A i \in (u + 6) .. n : i # f => is_digit(s[i])
        BY <2>5, <3>9 DEF Version, Digits
      <4>2. ~ (e \in (u + 6) .. n)
        <5> SUFFICES ASSUME e \in (u + 6) .. n PROVE FALSE
          OBVIOUS
        <5>1. is_digit(CR) \/ CR = Dot
          BY <1>2, <4>1
        <5> QED BY <5>1, CharFacts
      <4>3. n < e
        BY <1>0, <1>1, <4>2
      <4>4. f = d
        <5> SUFFICES ASSUME f # d PROVE FALSE
          OBVIOUS
        <5>1. f \in (u + 6) .. (e - 1)
          BY <1>0, <1>1, <4>3
        <5>2. is_digit(Dot)
          BY <1>2, <4>1, <5>1
        <5> QED BY <5>2, CharFacts
      <4>5. is_digit(c) \/ c = CR
        <5>1. CASE n + 1 = e
          BY <1>2, <5>1
        <5>2. CASE n + 1 # e
          <6>1. n + 1 \in (u + 6) .. (e - 1) /\ n + 1 # d
            BY <1>0, <1>1, <4>3, <4>4, <5>2
          <6> QED BY <1>2, <6>1
        <5> QED BY <5>1, <5>2
      <4> QED BY <2>7, <3>9, <4>5
    <3>10. CASE p.state = "expecting_newline_1"
      <4>1. s[n] = CR /\ n > u + 6
        BY <1>0, <1>1, <2>5, <3>10 DEF Version
      <4>2. PICK f \in (u + 7) .. (n - 2) :
              s[f] = Dot /\ \A i \in (u + 6) .. (n - 1) : i # f => is_digit(s[i])
        BY <2>5, <3>10 DEF Version, Digits
      <4>3. ~ (e \in (u + 6) .. (n - 1))
        <5> SUFFICES ASSUME e \in (u + 6) .. (n - 1) PROVE FALSE
          OBVIOUS
        <5>1. is_digit(CR) \/ CR = Dot
          BY <1>2, <4>2
        <5> QED BY <5>1, CharFacts
      <4>4. ~ (n \in 1 .. (e - 1))
        BY <1>1, <4>1
      <4>5. n = e
        BY <1>0, <1>1, <4>1, <4>3, <4>4
      <4>6. c = LF
        BY <4>5
      <4> QED BY <2>6, <3>10, <4>6, FixedIs
    <3> QED BY <1>5, <3>1, <3>2, <3>3, <3>4, <3>5, <3>6, <3>7, <3>8, <3>9, <3>10 DEF VersionStates
  <2> HIDE DEF c, q
  <2>9. q.result = p.result
    BY <2>8 DEF Keeps
  <2> QED BY <2>9 DEF c, q
<1> QED BY <1>3, <1>4, <1>5 DEF LineStates

-----------------------------------------------------------------------------
(* The lines of a string of which n characters are read.                   *)

LinesTo(s, n) == \A i \in 1 .. n : s[i] = LF <=> i > 1 /\ s[i - 1] = CR

IsHeaderLine(s, i) == IsHeader(s, i) \/ (i # SecondLine(s) /\ IsContinuation(s, i))

\* The request line is behind, so are the lines before b, and line b is the current one.
Behind(s, n, b) ==
  /\ IsRequestLine(s) /\ EndOf(s, 1) \in 1 .. (n - 1) /\ LinesTo(s, n)
  /\ b \in SecondLine(s) .. (n + 1) /\ s[b - 1] = LF /\ \A i \in b .. n : s[i] # LF
  /\ \A i \in LineStarts(s) : 1 < i /\ i < b => s[i] # CR /\ IsHeaderLine(s, i)

ValueAt(s, i, n) == {j \in i .. n : InValue(s, j) /\ ~\E h \in Heads(s) : i < h /\ h <= j}
ValueUpTo(s, i, n) == Chars(s, ValueAt(s, i, n))

HeadsUpTo(s, n) == {i \in Heads(s) : i <= n}
Named(s, n, x) == {i \in HeadsUpTo(s, n) : Name(s, i) = x}
HeadersUpTo(s, n) ==
  [x \in {Name(s, i) : i \in HeadsUpTo(s, n)} |-> ValueUpTo(s, LastOf(Named(s, n, x)), n)]

\* The header of which h begins is the last in n characters.
LastHead(s, h, n) == h \in HeadsUpTo(s, n) /\ \A i \in HeadsUpTo(s, n) : i <= h

\* Where the line is that begins at b.
LEMMA BehindFacts ==
  ASSUME NEW s \in String, NEW n \in 0 .. Len(s), NEW b, Behind(s, n, b)
  PROVE  /\ n \in Nat /\ b \in Nat /\ Len(s) \in Nat /\ EndOf(s, 1) \in Nat
         /\ 0 < EndOf(s, 1) /\ EndOf(s, 1) < n /\ SecondLine(s) = EndOf(s, 1) + 2
         /\ EndOf(s, 1) + 2 <= b /\ b <= n + 1 /\ s[b - 1] = LF
         /\ b <= Len(s) => b \in LineStarts(s)
<1>1. n \in Nat /\ Len(s) \in Nat
  BY DEF String
<1>2. EndOf(s, 1) \in 1 .. (n - 1) /\ b \in SecondLine(s) .. (n + 1) /\ s[b - 1] = LF
  BY DEF Behind
<1>3. SecondLine(s) = EndOf(s, 1) + 2
  BY DEF SecondLine
<1>4. b \in Nat /\ 2 < b /\ b <= n + 1
  BY <1>1, <1>2, <1>3
<1>5. b <= Len(s) => b \in LineStarts(s)
  BY <1>1, <1>2, <1>4 DEF LineStarts, String
<1> QED BY <1>1, <1>2, <1>3, <1>4, <1>5

\* Where headers begin.
LEMMA HeadFacts ==
  ASSUME NEW s \in String
  PROVE  \A i \in Heads(s) : /\ i \in 1 .. Len(s) /\ i # 1 /\ s[i - 1] = LF /\ i \in LineStarts(s)
                             /\ s[i] \notin {SP, HT, CR}
  BY DEF Heads, LineStarts, String

\* The line of a position is the last that begins before it.
LEMMA LineOfIs ==
  ASSUME NEW s \in String, NEW j \in 1 .. Len(s), NEW b \in 1 .. j, b = 1 \/ s[b - 1] = LF,
         \A i \in b .. (j - 1) : s[i] # LF
  PROVE  LineOf(s, j) = b
<1> DEFINE S == {i \in LineStarts(s) : i <= j}
<1>1. Len(s) \in Nat /\ DOMAIN s = 1 .. Len(s)
  BY DEF String
<1>2. b \in S
  BY <1>1 DEF LineStarts
<1>3. \A i \in S : i <= b
  <2> SUFFICES ASSUME NEW i \in S, ~ (i <= b) PROVE FALSE
    OBVIOUS
  <2>1. i \in 1 .. Len(s) /\ i <= j /\ (i = 1 \/ s[i - 1] = LF)
    BY <1>1 DEF LineStarts
  <2>2. i - 1 \in b .. (j - 1) /\ i # 1
    BY <1>1, <2>1
  <2> QED BY <2>1, <2>2
<1>4. S \in SUBSET Int
  BY <1>1 DEF LineStarts
<1> HIDE DEF S
<1>5. LastOf(S) = b
  BY <1>2, <1>3, <1>4, LastOfIs
<1> QED BY <1>5 DEF LineOf, S

\* The marks of a request line that is behind.
LEMMA RequestLineMarked ==
  ASSUME NEW s \in String, NEW n \in 0 .. Len(s), NEW b, Behind(s, n, b)
  PROVE  \E m, u, d : Marks(s, m, u, d, EndOf(s, 1))
<1> DEFINE e == EndOf(s, 1)
<1>1. e \in Nat /\ 0 < e /\ e < n /\ n \in Nat /\ Len(s) \in Nat /\ e + 2 <= n + 1
  BY BehindFacts
<1>2. IsRequestLine(s) /\ LinesTo(s, n)
  BY DEF Behind
<1>3. \E j \in 1 .. Len(s) : s[j] = CR
  <2>1. s[b - 1] = LF /\ b - 1 \in 1 .. n /\ b - 2 \in 1 .. Len(s)
    <3>1. b \in Nat /\ s[b - 1] = LF /\ e + 2 <= b /\ b <= n + 1
      BY BehindFacts
    <3> QED BY <1>1, <3>1
  <2>2. s[b - 2] = CR
    <3>1. s[b - 1] = LF <=> b - 1 > 1 /\ s[b - 1 - 1] = CR
      BY <1>2, <2>1 DEF LinesTo
    <3>2. b - 1 - 1 = b - 2
      BY BehindFacts
    <3> QED BY <2>1, <3>1, <3>2
  <2> QED BY <2>1, <2>2
<1> HIDE DEF e
<1> QED BY <1>2, <1>3, RequestLineHasMarks

\* The line of the next character, and that there is no head in it but its beginning.
LEMMA CurrentLine ==
  ASSUME NEW s \in String, NEW n \in 0 .. Len(s), NEW b, Behind(s, n, b)
  PROVE  /\ \A j \in b .. (n + 1) : j <= Len(s) => LineOf(s, j) = b
         /\ \A h \in Heads(s) : h <= n + 1 => h <= b
         /\ \A h \in LineStarts(s) : h <= n + 1 => h <= b
<1>1. /\ n \in Nat /\ b \in Nat /\ Len(s) \in Nat /\ 2 < b /\ b <= n + 1 /\ s[b - 1] = LF
  BY BehindFacts
<1>2. \A i \in b .. n : s[i] # LF
  BY DEF Behind
<1>3. ASSUME NEW j \in b .. (n + 1), j <= Len(s) PROVE LineOf(s, j) = b
  <2>1. j \in 1 .. Len(s) /\ b \in 1 .. j
    BY <1>1, <1>3
  <2>2. \A i \in b .. (j - 1) : s[i] # LF
    BY <1>1, <1>2
  <2> QED BY <1>1, <2>1, <2>2, LineOfIs
<1>4. ASSUME NEW h \in LineStarts(s), h <= n + 1 PROVE h <= b
  <2> SUFFICES ASSUME ~ (h <= b) PROVE FALSE
    OBVIOUS
  <2>1. h \in 1 .. Len(s) /\ (h = 1 \/ s[h - 1] = LF)
    BY DEF LineStarts, String
  <2>2. h - 1 \in b .. n /\ h # 1
    BY <1>1, <1>4, <2>1
  <2> QED BY <1>2, <2>1, <2>2
<1> QED BY <1>3, <1>4, HeadFacts

\* One character more that ends no line.
LEMMA BehindOn ==
  ASSUME NEW s \in String, NEW n \in 0 .. (Len(s) - 1), NEW b, Behind(s, n, b),
         s[n] # CR, s[n + 1] # LF
  PROVE  Behind(s, n + 1, b)
<1>0. n \in 0 .. Len(s)
  BY DEF String
<1>1. /\ n \in Nat /\ b \in Nat /\ Len(s) \in Nat /\ EndOf(s, 1) \in Nat
      /\ 0 < EndOf(s, 1) /\ EndOf(s, 1) < n /\ SecondLine(s) = EndOf(s, 1) + 2
      /\ EndOf(s, 1) + 2 <= b /\ b <= n + 1 /\ s[b - 1] = LF
  BY <1>0, BehindFacts
<1>2. LinesTo(s, n + 1)
  <2> SUFFICES ASSUME NEW i \in 1 .. (n + 1) PROVE s[i] = LF <=> i > 1 /\ s[i - 1] = CR
    BY DEF LinesTo
  <2>1. CASE i = n + 1
    BY <1>1, <2>1
  <2>2. CASE i # n + 1
    <3>1. i \in 1 .. n
      BY <1>1, <2>2
    <3> QED BY <3>1 DEF Behind, LinesTo
  <2> QED BY <2>1, <2>2
<1>3. \A i \in b .. (n + 1) : s[i] # LF
  <2> TAKE i \in b .. (n + 1)
  <2>1. i \in b .. n \/ i = n + 1
    BY <1>1
  <2> QED BY <2>1 DEF Behind
<1>4. EndOf(s, 1) \in 1 .. (n + 1 - 1) /\ b \in SecondLine(s) .. (n + 1 + 1)
  BY <1>1
<1> QED BY <1>1, <1>2, <1>3, <1>4 DEF Behind

\* The end of a line.
LEMMA BehindNext ==
  ASSUME NEW s \in String, NEW n \in 0 .. (Len(s) - 1), NEW b, Behind(s, n, b), b <= n,
         s[n] = CR, s[n + 1] = LF, s[b] # CR, IsHeaderLine(s, b)
  PROVE  Behind(s, n + 1, n + 2)
<1>0. n \in 0 .. Len(s)
  BY DEF String
<1>1. /\ n \in Nat /\ b \in Nat /\ Len(s) \in Nat /\ EndOf(s, 1) \in Nat
      /\ 0 < EndOf(s, 1) /\ EndOf(s, 1) < n /\ SecondLine(s) = EndOf(s, 1) + 2
      /\ EndOf(s, 1) + 2 <= b /\ b <= n + 1 /\ s[b - 1] = LF
  BY <1>0, BehindFacts
<1>2. LinesTo(s, n + 1)
  <2> SUFFICES ASSUME NEW i \in 1 .. (n + 1) PROVE s[i] = LF <=> i > 1 /\ s[i - 1] = CR
    BY DEF LinesTo
  <2>1. CASE i = n + 1
    BY <1>1, <2>1
  <2>2. CASE i # n + 1
    <3>1. i \in 1 .. n
      BY <1>1, <2>2
    <3> QED BY <3>1 DEF Behind, LinesTo
  <2> QED BY <2>1, <2>2
<1>3. /\ EndOf(s, 1) \in 1 .. (n + 1 - 1) /\ n + 2 \in SecondLine(s) .. (n + 1 + 1)
      /\ n + 2 - 1 = n + 1 /\ \A i \in (n + 2) .. (n + 1) : FALSE
  BY <1>1
<1>4. ASSUME NEW i \in LineStarts(s), 1 < i, i < n + 2
      PROVE  s[i] # CR /\ IsHeaderLine(s, i)
  <2>1. i <= b
    <3>1. i \in Nat /\ i <= n + 1
      <4>1. i \in Nat
        BY DEF LineStarts, String
      <4> QED BY <1>1, <1>4, <4>1
    <3> QED BY <1>0, <1>4, <3>1, CurrentLine
  <2>2. i = b \/ i < b
    BY <1>1, <2>1 DEF LineStarts, String
  <2> QED BY <1>4, <2>2 DEF Behind
<1> QED BY <1>2, <1>3, <1>4 DEF Behind

-----------------------------------------------------------------------------
(* Values and headers as they grow.                                        *)

\* One more character of the string is one more of the value, or none.
LEMMA ValueStep ==
  ASSUME NEW s \in String, NEW n \in 0 .. (Len(s) - 1), NEW h \in Nat, 1 <= h, h <= n + 1,
         \A i \in Heads(s) : i <= n + 1 => i <= h
  PROVE  ValueUpTo(s, h, n + 1) =
           IF InValue(s, n + 1) THEN Append(ValueUpTo(s, h, n), s[n + 1]) ELSE ValueUpTo(s, h, n)
<1>0. n \in Nat /\ Len(s) \in Nat
  BY DEF String
<1>1. CASE InValue(s, n + 1)
  <2> DEFINE S == ValueAt(s, h, n)
             T == ValueAt(s, h, n + 1)
  <2>1. \A i \in (n + 1) .. Len(s) : i \notin S
    BY <1>0 DEF ValueAt
  <2>2. ASSUME NEW i \in 1 .. Len(s)
        PROVE  i \in T <=> (i \in S \/ i = n + 1)
    <3>1. CASE i = n + 1
      <4>1. i \in h .. (n + 1) /\ ~\E k \in Heads(s) : h < k /\ k <= i
        <5>1. \A k \in Heads(s) : k \in Nat
          BY HeadFacts
        <5> QED BY <1>0, <3>1, <5>1
      <4> QED BY <1>1, <3>1, <4>1 DEF ValueAt
    <3>2. CASE i # n + 1
      <4>1. i \in h .. (n + 1) <=> i \in h .. n
        BY <1>0, <3>2
      <4> QED BY <3>2, <4>1 DEF ValueAt
    <3> QED BY <3>1, <3>2
  <2> HIDE DEF S, T
  <2>3. Chars(s, T) = Append(Chars(s, S), s[n + 1])
    BY <2>1, <2>2, CharsGrow
  <2> QED BY <1>1, <2>3 DEF ValueUpTo, S, T
<1>2. CASE ~InValue(s, n + 1)
  <2>1. \A i : i \in h .. (n + 1) => i \in h .. n \/ i = n + 1
    BY <1>0
  <2>2. \A i \in h .. n : i \in h .. (n + 1)
    BY <1>0
  <2>3. ValueAt(s, h, n + 1) = ValueAt(s, h, n)
    BY <1>2, <2>1, <2>2 DEF ValueAt
  <2> QED BY <1>2, <2>3 DEF ValueUpTo
<1> QED BY <1>1, <1>2

\* Nothing of a header between k and n.
LEMMA HeadersSame ==
  ASSUME NEW s \in String, NEW n \in 0 .. Len(s), NEW k \in 0 .. n,
         \A i \in Heads(s) : i <= n => i <= k,
         \A j \in (k + 1) .. n : ~InValue(s, j)
  PROVE  HeadersUpTo(s, n) = HeadersUpTo(s, k)
<1>0. n \in Nat /\ Len(s) \in Nat /\ k \in Nat /\ k <= n
  BY DEF String
<1>1. \A i \in Heads(s) : i \in Nat
  BY HeadFacts
<1>2. HeadsUpTo(s, n) = HeadsUpTo(s, k)
  BY <1>0, <1>1 DEF HeadsUpTo
<1>3. \A x : Named(s, n, x) = Named(s, k, x)
  BY <1>2 DEF Named
<1>4. ASSUME NEW i
      PROVE  ValueAt(s, i, n) = ValueAt(s, i, k)
  <2>1. ASSUME NEW j \in i .. n, InValue(s, j) PROVE j \in i .. k
    <3>1. j \notin (k + 1) .. n
      BY <2>1
    <3>2. j \in Int /\ i <= j /\ j <= n
      BY <2>1
    <3> QED BY <1>0, <3>1, <3>2
  <2>2. \A j \in i .. k : j \in i .. n
    BY <1>0
  <2> QED BY <2>1, <2>2 DEF ValueAt
<1>5. \A x : ValueUpTo(s, LastOf(Named(s, n, x)), n) = ValueUpTo(s, LastOf(Named(s, k, x)), k)
  BY <1>3, <1>4 DEF ValueUpTo
<1> QED BY <1>2, <1>5 DEF HeadersUpTo

\* The headers up to k, and the one that begins at h up to n.
Grown(s, h, k, n) ==
  [x \in DOMAIN HeadersUpTo(s, k) \union {Name(s, h)} |->
     IF x = Name(s, h) THEN ValueUpTo(s, h, n) ELSE HeadersUpTo(s, k)[x]]

\* The header that begins at h is the only one that grows behind k.
LEMMA HeadersGrow ==
  ASSUME NEW s \in String, NEW n \in 0 .. Len(s), NEW h, LastHead(s, h, n),
         NEW k \in Nat, h - 1 <= k, k <= n
  PROVE  HeadersUpTo(s, n) = Grown(s, h, k, n)
<1>0. n \in Nat /\ Len(s) \in Nat /\ \A i \in Heads(s) : i \in Nat /\ i \in 1 .. Len(s)
  BY HeadFacts DEF String
<1>1. h \in Heads(s) /\ h \in Nat /\ h <= n /\ \A i \in Heads(s) : i <= n => i <= h
  BY <1>0 DEF LastHead, HeadsUpTo
<1>2. HeadsUpTo(s, n) = HeadsUpTo(s, k) \union {h}
  <2>1. ASSUME NEW i \in Heads(s) PROVE i <= n <=> (i <= k \/ i = h)
    <3>1. i \in Nat /\ (i <= n => i <= h)
      BY <1>0, <1>1
    <3> QED BY <1>0, <1>1, <3>1
  <2> QED BY <1>1, <2>1 DEF HeadsUpTo
<1> DEFINE D == DOMAIN HeadersUpTo(s, k)
<1>3. D = {Name(s, i) : i \in HeadsUpTo(s, k)}
  BY DEF HeadersUpTo
<1>4. {Name(s, i) : i \in HeadsUpTo(s, n)} = D \union {Name(s, h)}
  BY <1>2, <1>3
<1>5. ValueUpTo(s, LastOf(Named(s, n, Name(s, h))), n) = ValueUpTo(s, h, n)
  <2>1. h \in Named(s, n, Name(s, h)) /\ \A i \in Named(s, n, Name(s, h)) : i <= h
    BY <1>1, <1>2 DEF Named, HeadsUpTo
  <2>2. Named(s, n, Name(s, h)) \in SUBSET Int
    BY <1>0 DEF Named, HeadsUpTo
  <2>3. LastOf(Named(s, n, Name(s, h))) = h
    BY <2>1, <2>2, LastOfIs
  <2> QED BY <2>3
<1>6. ASSUME NEW x \in D, x # Name(s, h)
      PROVE  ValueUpTo(s, LastOf(Named(s, n, x)), n) = HeadersUpTo(s, k)[x]
  <2>1. Named(s, n, x) = Named(s, k, x)
    BY <1>2, <1>6 DEF Named
  <2> DEFINE i == LastOf(Named(s, k, x))
  <2>2. HeadersUpTo(s, k)[x] = ValueUpTo(s, i, k)
    BY <1>3, <1>6 DEF HeadersUpTo
  <2>3. i \in Named(s, k, x)
    <3>1. Named(s, k, x) # {}
      BY <1>3 DEF Named
    <3>2. Named(s, k, x) \in SUBSET (0 .. k)
      BY <1>0 DEF Named, HeadsUpTo
    <3> QED BY <3>1, <3>2, LastOfRange
  <2> HIDE DEF i
  <2>4. i \in Heads(s) /\ i \in Nat /\ i <= n /\ i < h
    <3>1. i \in Heads(s) /\ i <= k /\ Name(s, i) = x
      BY <2>3 DEF Named, HeadsUpTo
    <3>2. i \in Nat /\ i <= n
      BY <1>0, <3>1
    <3>3. i <= h /\ i # h
      BY <1>1, <1>6, <3>1, <3>2
    <3> QED BY <1>1, <3>1, <3>2, <3>3
  <2>5. ValueAt(s, i, n) = ValueAt(s, i, k)
    <3>1. ASSUME NEW j \in i .. n, ~\E g \in Heads(s) : i < g /\ g <= j
          PROVE  j \in i .. k
      <4>1. ~ (h <= j)
        BY <1>1, <2>4, <3>1
      <4> QED BY <1>0, <1>1, <2>4, <4>1
    <3>2. \A j \in i .. k : j \in i .. n
      BY <1>0, <2>4
    <3> QED BY <3>1, <3>2 DEF ValueAt
  <2> QED BY <2>1, <2>2, <2>5 DEF ValueUpTo, i
<1> DEFINE grown == [x \in D \union {Name(s, h)} |->
              IF x = Name(s, h) THEN ValueUpTo(s, h, n) ELSE HeadersUpTo(s, k)[x]]
           upto == [x \in D \union {Name(s, h)} |-> ValueUpTo(s, LastOf(Named(s, n, x)), n)]
<1>7. HeadersUpTo(s, n) = upto
  BY <1>4 DEF HeadersUpTo
<1>8. upto = grown
  <2> HIDE DEF D
  <2>1. \A x \in D \union {Name(s, h)} :
          ValueUpTo(s, LastOf(Named(s, n, x)), n) =
            IF x = Name(s, h) THEN ValueUpTo(s, h, n) ELSE HeadersUpTo(s, k)[x]
    BY <1>5, <1>6
  <2> QED BY <2>1
<1> QED BY <1>7, <1>8 DEF Grown

-----------------------------------------------------------------------------
(* A parser p that follows the headers of s, behind n characters.          *)

\* The header that is read is the last one.
Current(s, n, p) ==
  \A h : LastHead(s, h, n) => p.header_name = Name(s, h) /\ p.header_value = ValueUpTo(s, h, n)

AtLineStart(s, n, p) ==
  Behind(s, n, n + 1) /\ Current(s, n, p) /\ p.headers = HeadersUpTo(s, n)

AtName(s, n, p) ==
  \E b \in 1 .. n :
    /\ Behind(s, n, b) /\ Tokens(s, b, n)
    /\ p.header_name = SubSeq(s, b, n) /\ p.header_value = <<>>
    /\ p.headers = HeadersUpTo(s, b - 1)

AtColon(s, n, p) ==
  \E b \in 1 .. (n - 1) :
    /\ Behind(s, n, b) /\ Tokens(s, b, n - 1) /\ s[n] = Colon
    /\ p.header_name = SubSeq(s, b, n - 1) /\ p.header_value = <<>>
    /\ p.headers = HeadersUpTo(s, b - 1)

InHeader(s, b, n) ==
  \E k \in (b + 1) .. (n - 1) :
    /\ Tokens(s, b, k - 1) /\ s[k] = Colon /\ s[k + 1] = SP
    /\ \A j \in (k + 1) .. n : IsText(s[j])

InContinuation(s, b, n) ==
  /\ s[b] \in {SP, HT} /\ b # SecondLine(s)
  /\ \E k \in b .. n :
       /\ s[k] \notin {SP, HT} /\ (\A j \in b .. (k - 1) : s[j] \in {SP, HT})
       /\ \A j \in k .. n : IsText(s[j])

AtValue(s, n, p) ==
  \E b, h \in 1 .. n :
    /\ Behind(s, n, b) /\ LastHead(s, h, n) /\ Current(s, n, p)
    /\ InHeader(s, b, n) \/ InContinuation(s, b, n)
    /\ p.headers = HeadersUpTo(s, b - 1)

AtBlanks(s, n, p) ==
  \E b, h \in 1 .. n :
    /\ Behind(s, n, b) /\ LastHead(s, h, n) /\ Current(s, n, p)
    /\ b # SecondLine(s) /\ \A j \in b .. n : s[j] \in {SP, HT}
    /\ p.headers = HeadersUpTo(s, b - 1)

AtReturn(s, n, p) ==
  \E b \in 1 .. (n - 1) :
    /\ Behind(s, n, b) /\ Current(s, n, p) /\ s[b] # CR /\ IsHeaderLine(s, b) /\ s[n] = CR
    /\ p.headers = HeadersUpTo(s, n)

AtLast(s, n, p) == Behind(s, n, n) /\ s[n] = CR /\ p.headers = HeadersUpTo(s, n)

FollowsHeaders(s, n, p) ==
  /\ p.method = Method(s) /\ p.uri = Uri(s)
  /\ p.state = "header_line_start" => AtLineStart(s, n, p)
  /\ p.state = "header_name" => AtName(s, n, p)
  /\ p.state = "space_before_header_value" => AtColon(s, n, p)
  /\ p.state = "header_value" => AtValue(s, n, p)
  /\ p.state = "header_lws" => AtBlanks(s, n, p)
  /\ p.state = "expecting_newline_2" => AtReturn(s, n, p)
  /\ p.state = "expecting_newline_3" => AtLast(s, n, p)

\* The line after the request line.
LEMMA HeadersBegin ==
  ASSUME NEW s \in String, NEW n \in 0 .. (Len(s) - 1), NEW p \in ParserType,
         p.state = "expecting_newline_1", FollowsLine(s, n, p),
         consume(p, s[n + 1]).result # "bad"
  PROVE  LET q == consume(p, s[n + 1])
         IN  q.state = "header_line_start" /\ FollowsHeaders(s, n + 1, q) /\ q.result = p.result
<1> DEFINE c == s[n + 1]
           q == consume(p, c)
<1>0. c \in Int /\ n \in Nat /\ Len(s) \in Nat /\ n \in 0 .. Len(s)
  BY DEF String
<1>1. p.headers = NoHeaders
  BY <1>0, LineEnd
<1>2. PICK m, u, d : Marks(s, m, u, d, n) /\ HasTarget(s, m, u, p)
  BY <1>0, LineEnd
<1>3. /\ IsRequestLine(s) /\ EndOf(s, 1) = n
      /\ p.method = Method(s) /\ p.uri = Uri(s)
  BY <1>2, MarksAre DEF HasTarget
<1>4. n > 1 /\ s[n] = CR /\ \A i \in 1 .. (n - 1) : s[i] # CR /\ s[i] # LF
  <2>1. /\ m \in Nat /\ u \in Nat /\ d \in Nat /\ 1 < m /\ m < u /\ u + 6 < d /\ d < n - 1
        /\ \A i \in 1 .. (n - 1) : s[i] # CR /\ s[i] # LF
    BY <1>2, MarksText
  <2>2. s[n] = CR
    BY <1>2 DEF Marks
  <2> QED BY <1>0, <2>1, <2>2
<1>5. c = LF /\ q.state = "header_line_start" /\ Keeps(p, q)
  <2> HIDE DEF c
  <2>1. \A x \in DOMAIN Fixed : p.state = x =>
          IF c = Fixed[x].char THEN q.state = Fixed[x].next /\ Keeps(p, q) ELSE q.result = "bad"
    BY <1>0, ConsumeFixed
  <2>2. q.result # "bad"
    BY DEF c
  <2> HIDE DEF q
  <2> QED BY <2>1, <2>2, FixedIs
<1>6. \A i \in LineStarts(s) : 1 < i => i >= n + 2
  <2> SUFFICES ASSUME NEW i \in LineStarts(s), 1 < i, ~ (i >= n + 2) PROVE FALSE
    OBVIOUS
  <2>1. i \in Nat /\ s[i - 1] = LF
    BY DEF LineStarts, String
  <2>2. i - 1 \in 1 .. (n - 1) \/ i - 1 = n
    BY <1>0, <2>1
  <2> QED BY <1>4, <2>1, <2>2, CharFacts
<1>7. Behind(s, n + 1, n + 2)
  <2>1. LinesTo(s, n + 1)
    <3> SUFFICES ASSUME NEW i \in 1 .. (n + 1) PROVE s[i] = LF <=> i > 1 /\ s[i - 1] = CR
      BY DEF LinesTo
    <3>1. CASE i = n + 1
      BY <1>0, <1>4, <1>5, <3>1
    <3>2. CASE i = n
      <4>1. n - 1 \in 1 .. (n - 1)
        BY <1>0, <1>4
      <4> QED BY <1>4, <3>2, <4>1, CharFacts
    <3>3. CASE i < n
      <4>1. i \in 1 .. (n - 1) /\ (i > 1 => i - 1 \in 1 .. (n - 1))
        BY <1>0, <3>3
      <4> QED BY <1>4, <4>1
    <3> QED BY <1>0, <3>1, <3>2, <3>3
  <2>2. /\ n \in 1 .. (n + 1 - 1) /\ SecondLine(s) = n + 2 /\ n + 2 \in (n + 2) .. (n + 1 + 1)
        /\ n + 2 - 1 = n + 1 /\ \A i \in (n + 2) .. (n + 1) : s[i] # LF
    BY <1>0, <1>3, <1>4 DEF SecondLine
  <2>3. ASSUME NEW i \in LineStarts(s), 1 < i, i < n + 2
        PROVE  s[i] # CR /\ IsHeaderLine(s, i)
    <3>1. i \in Nat /\ i >= n + 2
      BY <1>6, <2>3 DEF LineStarts, String
    <3> QED BY <1>0, <2>3, <3>1
  <2> QED BY <1>3, <1>5, <2>1, <2>2, <2>3 DEF Behind
<1>8. HeadsUpTo(s, n + 1) = {}
  <2>1. ASSUME NEW i \in Heads(s) PROVE ~ (i <= n + 1)
    <3>1. i \in LineStarts(s) /\ i \in Nat /\ 1 < i
      BY HeadFacts
    <3> QED BY <1>0, <1>6, <3>1
  <2> QED BY <2>1 DEF HeadsUpTo
<1>9. HeadersUpTo(s, n + 1) = NoHeaders
  <2>1. {Name(s, i) : i \in HeadsUpTo(s, n + 1)} = {}
    BY <1>8
  <2> DEFINE g == [x \in {} |-> ValueUpTo(s, LastOf(Named(s, n + 1, x)), n + 1)]
  <2>2. HeadersUpTo(s, n + 1) = g
    BY <2>1 DEF HeadersUpTo
  <2>3. g = NoHeaders
    BY DEF NoHeaders
  <2> QED BY <2>2, <2>3
<1>10. Current(s, n + 1, q)
  BY <1>8 DEF Current, LastHead
<1> HIDE DEF q
<1>11. AtLineStart(s, n + 1, q)
  <2>1. n + 1 + 1 = n + 2
    BY <1>0
  <2> QED BY <1>1, <1>5, <1>7, <1>9, <1>10, <2>1 DEF AtLineStart, Keeps
<1>12. FollowsHeaders(s, n + 1, q)
  BY <1>3, <1>5, <1>11 DEF FollowsHeaders, Keeps
<1> QED BY <1>5, <1>12 DEF Keeps, q

-----------------------------------------------------------------------------
(* The parser in the names of headers.                                     *)

\* The parser at the beginning of a line.
LEMMA StepLineStart ==
  ASSUME NEW s \in String, NEW n \in 0 .. (Len(s) - 1), NEW p \in ParserType,
         p.state = "header_line_start", FollowsHeaders(s, n, p),
         consume(p, s[n + 1]).result # "bad"
  PROVE  LET q == consume(p, s[n + 1])
         IN  /\ q.result = p.result
             /\ q.state \in {"expecting_newline_3", "header_lws", "header_name"}
             /\ FollowsHeaders(s, n + 1, q)
<1> DEFINE c == s[n + 1]
           q == consume(p, c)
<1>0. c \in Int /\ n \in Nat /\ Len(s) \in Nat /\ n \in 0 .. Len(s) /\ n + 1 \in 1 .. Len(s)
  BY DEF String
<1>1. /\ p.method = Method(s) /\ p.uri = Uri(s)
      /\ Behind(s, n, n + 1) /\ Current(s, n, p) /\ p.headers = HeadersUpTo(s, n)
  BY DEF FollowsHeaders, AtLineStart
<1>2. q.result # "bad"
  OBVIOUS
<1>3. IF c = CR THEN q.state = "expecting_newline_3" /\ Keeps(p, q)
      ELSE IF c \in {SP, HT}
      THEN IF p.headers # NoHeaders THEN q.state = "header_lws" /\ Keeps(p, q)
           ELSE q.result = "bad"
      ELSE IF IsToken(c)
      THEN /\ q.state = "header_name" /\ q.header_name = <<c>> /\ q.header_value = <<>>
           /\ q.result = p.result /\ q.method = p.method /\ q.uri = p.uri
           /\ q.headers = p.headers
      ELSE q.result = "bad"
  <2> HIDE DEF c
  <2> QED BY <1>0, ConsumeLineStart
<1>4. /\ n >= 1 /\ s[n] = LF /\ s[n] # CR /\ SecondLine(s) <= n + 1 /\ SecondLine(s) \in Nat
      /\ n + 1 \in LineStarts(s)
  <2>1. /\ n + 1 - 1 = n /\ EndOf(s, 1) \in Nat
        /\ SecondLine(s) = EndOf(s, 1) + 2 /\ EndOf(s, 1) + 2 <= n + 1
        /\ s[n + 1 - 1] = LF /\ n + 1 \in LineStarts(s)
    BY <1>0, <1>1, BehindFacts
  <2> QED BY <1>0, <2>1, CharFacts
<1>5. LineOf(s, n + 1) = n + 1
  <2>1. n + 1 \in (n + 1) .. (n + 1)
    BY <1>0
  <2> QED BY <1>0, <1>1, <2>1, CurrentLine
<1>6. c # LF => Behind(s, n + 1, n + 1)
  BY <1>1, <1>4, BehindOn
<1>7. \A i \in Heads(s) : i \in Nat
  BY HeadFacts
<1>8. n + 1 \notin Heads(s) => \A i \in Heads(s) : i <= n + 1 => i <= n
  BY <1>0, <1>7
<1>9. c \in {CR, SP, HT} => ~InValue(s, n + 1) /\ n + 1 \notin Heads(s)
  <2> SUFFICES ASSUME c \in {CR, SP, HT} PROVE ~InValue(s, n + 1) /\ n + 1 \notin Heads(s)
    OBVIOUS
  <2>1. n + 1 \notin Heads(s)
    BY HeadFacts
  <2>2. \A k \in (n + 1) .. (n + 1) : k = n + 1
    BY <1>0
  <2> QED BY <1>5, <2>1, <2>2 DEF InValue
<1>10. CASE c = CR
  <2>1. q.state = "expecting_newline_3" /\ Keeps(p, q)
    BY <1>3, <1>10
  <2> HIDE DEF q
  <2>2. HeadersUpTo(s, n + 1) = HeadersUpTo(s, n)
    <3>1. n + 1 \in 0 .. Len(s) /\ n \in 0 .. (n + 1) /\ \A j \in (n + 1) .. (n + 1) : j = n + 1
      BY <1>0
    <3> QED BY <1>8, <1>9, <1>10, <3>1, HeadersSame
  <2>3. AtLast(s, n + 1, q)
    BY <1>1, <1>6, <1>10, <2>1, <2>2, CharFacts DEF AtLast, Keeps
  <2> QED BY <1>1, <2>1, <2>3 DEF FollowsHeaders, Keeps, q
<1>11. CASE c \in {SP, HT}
  <2>1. q.state = "header_lws" /\ Keeps(p, q) /\ p.headers # NoHeaders
    BY <1>2, <1>3, <1>11, CharFacts
  <2> HIDE DEF q
  <2>2. PICK h : LastHead(s, h, n)
    <3>1. HeadsUpTo(s, n) # {}
      <4> SUFFICES ASSUME HeadsUpTo(s, n) = {} PROVE FALSE
        OBVIOUS
      <4>1. {Name(s, i) : i \in HeadsUpTo(s, n)} = {}
        OBVIOUS
      <4> DEFINE g == [x \in {} |-> ValueUpTo(s, LastOf(Named(s, n, x)), n)]
      <4>2. HeadersUpTo(s, n) = g
        BY <4>1 DEF HeadersUpTo
      <4>3. g = NoHeaders
        BY DEF NoHeaders
      <4> QED BY <1>1, <2>1, <4>2, <4>3
    <3>2. HeadsUpTo(s, n) \in SUBSET (0 .. n)
      BY <1>0, <1>7 DEF HeadsUpTo
    <3>3. LastOf(HeadsUpTo(s, n)) \in HeadsUpTo(s, n)
          /\ \A y \in HeadsUpTo(s, n) : y <= LastOf(HeadsUpTo(s, n))
      BY <1>0, <3>1, <3>2, LastOfRange
    <3> QED BY <3>3 DEF LastHead
  <2>3. HeadsUpTo(s, n + 1) = HeadsUpTo(s, n)
    <3>1. \A i \in Heads(s) : i <= n + 1 <=> i <= n
      BY <1>0, <1>7, <1>8, <1>9, <1>11
    <3> QED BY <3>1 DEF HeadsUpTo
  <2>4. LastHead(s, h, n + 1) /\ h \in Heads(s) /\ h <= n /\ h \in Nat
    BY <1>7, <2>2, <2>3 DEF LastHead, HeadsUpTo
  <2>5. h \in 1 .. (n + 1) /\ n + 1 \in 1 .. (n + 1) /\ 1 <= h /\ h <= n + 1
    <3>1. h \in 1 .. Len(s)
      BY <2>4, HeadFacts
    <3> QED BY <1>0, <2>4, <3>1
  <2>6. Current(s, n + 1, q)
    <3> SUFFICES ASSUME NEW g, LastHead(s, g, n + 1)
                 PROVE  q.header_name = Name(s, g) /\ q.header_value = ValueUpTo(s, g, n + 1)
      BY DEF Current
    <3>1. LastHead(s, g, n)
      BY <2>3 DEF LastHead
    <3>2. g \in Heads(s) /\ g <= n /\ g \in 1 .. Len(s)
          /\ \A i \in Heads(s) : i <= n + 1 => i <= g
      BY <2>3, <3>1, HeadFacts DEF LastHead, HeadsUpTo
    <3>3. g \in Nat /\ 1 <= g /\ g <= n + 1
      BY <1>0, <3>2
    <3>4. ValueUpTo(s, g, n + 1) = ValueUpTo(s, g, n)
      BY <1>9, <1>11, <3>2, <3>3, ValueStep
    <3> QED BY <1>1, <2>1, <3>1, <3>4 DEF Current, Keeps
  <2>7. n + 1 # SecondLine(s)
    <3>1. h \in LineStarts(s) /\ h # 1 /\ s[h - 1] = LF
      BY <2>4, HeadFacts
    <3>2. SecondLine(s) <= h
      <4>1. PICK m, u, d : Marks(s, m, u, d, EndOf(s, 1))
        BY <1>0, <1>1, RequestLineMarked
      <4>2. /\ EndOf(s, 1) \in Nat /\ s[EndOf(s, 1)] = CR
            /\ \A i \in 1 .. (EndOf(s, 1) - 1) : s[i] # LF
        <5> DEFINE e == EndOf(s, 1)
        <5>1. Marks(s, m, u, d, e)
          BY <4>1
        <5> HIDE DEF e
        <5>2. e \in Nat /\ \A i \in 1 .. (e - 1) : s[i] # CR /\ s[i] # LF
          BY <5>1, MarksText
        <5>3. s[e] = CR
          BY <5>1 DEF Marks
        <5> QED BY <5>2, <5>3 DEF e
      <4>3. ~ (h - 1 \in 1 .. (EndOf(s, 1) - 1)) /\ h - 1 # EndOf(s, 1)
        BY <3>1, <4>2, CharFacts
      <4> QED BY <2>5, <3>1, <4>2, <4>3 DEF SecondLine
    <3> QED BY <1>0, <1>4, <2>4, <3>2
  <2>8. \A j \in (n + 1) .. (n + 1) : s[j] \in {SP, HT}
    BY <1>0, <1>11
  <2>9. n + 1 - 1 = n /\ c # LF
    BY <1>0, <1>11, CharFacts
  <2>10. AtBlanks(s, n + 1, q)
    <3>1. q.headers = HeadersUpTo(s, n + 1 - 1)
      BY <1>1, <2>1, <2>9 DEF Keeps
    <3> QED BY <1>6, <2>4, <2>5, <2>6, <2>7, <2>8, <2>9, <3>1 DEF AtBlanks
  <2> QED BY <1>1, <2>1, <2>10 DEF FollowsHeaders, Keeps, q
<1>12. CASE c # CR /\ c \notin {SP, HT}
  <2>1. /\ IsToken(c) /\ q.state = "header_name" /\ q.header_name = <<c>> /\ q.header_value = <<>>
        /\ q.result = p.result /\ q.method = p.method /\ q.uri = p.uri
        /\ q.headers = p.headers
    BY <1>2, <1>3, <1>12
  <2> HIDE DEF q
  <2>2. SubSeq(s, n + 1, n + 1) = <<c>>
    <3>1. n + 1 \in 1 .. Len(s) /\ n \in (n + 1 - 1) .. (Len(s) - 1) /\ n + 1 - 1 = n
      BY <1>0
    <3>2. SubSeq(s, n + 1, n + 1) = Append(SubSeq(s, n + 1, n), s[n + 1])
      BY <3>1, SubSeqGrows
    <3>3. SubSeq(s, n + 1, n) = <<>>
      BY <1>0 DEF String
    <3>4. Append(<<>>, c) = <<c>>
      OBVIOUS
    <3> QED BY <3>2, <3>3, <3>4
  <2>3. Tokens(s, n + 1, n + 1) /\ n + 1 - 1 = n /\ n + 1 \in 1 .. (n + 1) /\ c # LF
    BY <1>0, <2>1, CharFacts DEF Tokens
  <2>4. AtName(s, n + 1, q)
    <3>1. q.headers = HeadersUpTo(s, n + 1 - 1) /\ Behind(s, n + 1, n + 1)
      BY <1>1, <1>6, <2>1, <2>3
    <3>2. q.header_name = SubSeq(s, n + 1, n + 1)
      BY <2>1, <2>2
    <3> QED BY <2>1, <2>3, <3>1, <3>2 DEF AtName
  <2> QED BY <1>1, <2>1, <2>4 DEF FollowsHeaders, q
<1> QED BY <1>10, <1>11, <1>12

\* The parser in the name of a header.
LEMMA StepName ==
  ASSUME NEW s \in String, NEW n \in 0 .. (Len(s) - 1), NEW p \in ParserType,
         p.state = "header_name", FollowsHeaders(s, n, p),
         consume(p, s[n + 1]).result # "bad"
  PROVE  LET q == consume(p, s[n + 1])
         IN  /\ q.result = p.result
             /\ q.state \in {"header_name", "space_before_header_value"}
             /\ FollowsHeaders(s, n + 1, q)
<1> DEFINE c == s[n + 1]
           q == consume(p, c)
<1>0. c \in Int /\ n \in Nat /\ Len(s) \in Nat /\ n \in 0 .. Len(s) /\ n + 1 \in 1 .. Len(s)
  BY DEF String
<1>1. PICK b \in 1 .. n :
        /\ Behind(s, n, b) /\ Tokens(s, b, n)
        /\ p.header_name = SubSeq(s, b, n) /\ p.header_value = <<>>
        /\ p.headers = HeadersUpTo(s, b - 1)
  BY DEF FollowsHeaders, AtName
<1>2. q.result # "bad" /\ p.method = Method(s) /\ p.uri = Uri(s)
  BY DEF FollowsHeaders
<1>3. IF c = Colon THEN q.state = "space_before_header_value" /\ Keeps(p, q)
      ELSE IF IsToken(c)
      THEN /\ q.state = "header_name" /\ q.header_name = Append(p.header_name, c)
           /\ q.result = p.result /\ q.method = p.method /\ q.uri = p.uri
           /\ q.headers = p.headers /\ q.header_value = p.header_value
      ELSE q.result = "bad"
  <2> HIDE DEF c
  <2> QED BY <1>0, ConsumeName
<1>4. s[n] # CR /\ b \in Nat /\ b <= n
  <2>1. n \in b .. n
    BY <1>0
  <2> QED BY <1>0, <1>1, <2>1, CharFacts DEF Tokens
<1>5. CASE c = Colon
  <2>1. q.state = "space_before_header_value" /\ Keeps(p, q)
    BY <1>3, <1>5
  <2> HIDE DEF q
  <2>2. Behind(s, n + 1, b)
    BY <1>1, <1>4, <1>5, BehindOn, CharFacts
  <2>3. n + 1 - 1 = n /\ b \in 1 .. (n + 1 - 1)
    BY <1>0
  <2>4. AtColon(s, n + 1, q)
    <3>1. Tokens(s, b, n + 1 - 1) /\ q.header_name = SubSeq(s, b, n + 1 - 1)
      BY <1>1, <2>1, <2>3 DEF Keeps
    <3>2. q.header_value = <<>> /\ q.headers = HeadersUpTo(s, b - 1) /\ s[n + 1] = Colon
      BY <1>1, <1>5, <2>1 DEF Keeps
    <3>3. b \in 1 .. (n + 1 - 1)
      BY <2>3
    <3> DEFINE N == n + 1
    <3>4. /\ b \in 1 .. (N - 1) /\ Behind(s, N, b) /\ Tokens(s, b, N - 1) /\ s[N] = Colon
          /\ q.header_name = SubSeq(s, b, N - 1)
          /\ q.header_value = <<>> /\ q.headers = HeadersUpTo(s, b - 1)
      BY <2>2, <3>1, <3>2, <3>3
    <3> HIDE DEF N
    <3>5. AtColon(s, N, q)
      BY <3>4 DEF AtColon
    <3> QED BY <3>5 DEF N
  <2> QED BY <1>2, <2>1, <2>4 DEF FollowsHeaders, Keeps, q
<1>6. CASE c # Colon
  <2>1. /\ IsToken(c) /\ q.state = "header_name" /\ q.header_name = Append(p.header_name, c)
        /\ q.result = p.result /\ q.method = p.method /\ q.uri = p.uri
        /\ q.headers = p.headers /\ q.header_value = p.header_value
    BY <1>2, <1>3, <1>6
  <2> HIDE DEF q
  <2>2. Behind(s, n + 1, b)
    BY <1>1, <1>4, <2>1, BehindOn, CharFacts
  <2>3. b \in 1 .. (n + 1) /\ b \in 1 .. Len(s) /\ n \in (b - 1) .. (Len(s) - 1)
    BY <1>0, <1>4
  <2>4. SubSeq(s, b, n + 1) = Append(SubSeq(s, b, n), s[n + 1])
    BY <2>3, SubSeqGrows
  <2>5. Tokens(s, b, n + 1)
    <3>1. \A i \in b .. (n + 1) : i \in b .. n \/ i = n + 1
      BY <1>0, <1>4
    <3>2. (\A i \in b .. n : IsToken(s[i])) /\ IsToken(s[n + 1])
      BY <1>1, <2>1 DEF Tokens
    <3>3. \A i \in b .. (n + 1) : IsToken(s[i])
      BY <3>1, <3>2
    <3> QED BY <3>3 DEF Tokens
  <2>6. AtName(s, n + 1, q)
    BY <1>1, <2>1, <2>2, <2>3, <2>4, <2>5 DEF AtName
  <2> QED BY <1>2, <2>1, <2>6 DEF FollowsHeaders, q
<1> QED BY <1>5, <1>6

-----------------------------------------------------------------------------
(* The parser behind the colon of a header.                                *)

\* The name of a header ends at its first colon.
LEMMA NameIs ==
  ASSUME NEW s \in String, NEW b \in 1 .. Len(s), NEW k \in b .. Len(s), s[k] = Colon,
         \A i \in b .. (k - 1) : s[i] # Colon
  PROVE  Name(s, b) = SubSeq(s, b, k - 1)
<1> DEFINE S == {i \in b .. Len(s) : s[i] = Colon}
<1>1. S \in SUBSET Int /\ k \in S
  OBVIOUS
<1>2. \A j \in S : k <= j
  <2> SUFFICES ASSUME NEW j \in S, ~ (k <= j) PROVE FALSE
    OBVIOUS
  <2>1. j \in b .. (k - 1) /\ s[j] = Colon
    OBVIOUS
  <2> QED BY <2>1
<1> HIDE DEF S
<1>3. FirstOf(S) = k
  BY <1>1, <1>2, FirstOfIs
<1> QED BY <1>3 DEF Name, S

\* The header that is read, after one more character of its line.
LEMMA CurrentOn ==
  ASSUME NEW s \in String, NEW n \in 0 .. (Len(s) - 1), NEW b, Behind(s, n, b), b <= n,
         NEW p, NEW q, Current(s, n, p), q.header_name = p.header_name,
         q.header_value = IF InValue(s, n + 1) THEN Append(p.header_value, s[n + 1])
                          ELSE p.header_value
  PROVE  /\ Current(s, n + 1, q)
         /\ \A h : LastHead(s, h, n) <=> LastHead(s, h, n + 1)
         /\ \A h \in Heads(s) : h <= n + 1 => h <= n
<1>0. n \in Nat /\ Len(s) \in Nat /\ n \in 0 .. Len(s) /\ b \in Nat
  BY BehindFacts DEF String
<1>1. \A i \in Heads(s) : i \in Nat /\ 1 <= i
  BY HeadFacts
<1>2. \A i \in Heads(s) : i <= n + 1 => i <= n
  <2>1. \A i \in Heads(s) : i <= n + 1 => i <= b
    BY <1>0, CurrentLine
  <2> QED BY <1>0, <1>1, <2>1
<1>3. HeadsUpTo(s, n + 1) = HeadsUpTo(s, n)
  <2>1. \A i \in Heads(s) : i <= n + 1 <=> i <= n
    BY <1>0, <1>1, <1>2
  <2> QED BY <2>1 DEF HeadsUpTo
<1>4. \A h : LastHead(s, h, n) <=> LastHead(s, h, n + 1)
  BY <1>3 DEF LastHead
<1>5. ASSUME NEW h, LastHead(s, h, n + 1)
      PROVE  q.header_name = Name(s, h) /\ q.header_value = ValueUpTo(s, h, n + 1)
  <2>1. LastHead(s, h, n)
    BY <1>4, <1>5
  <2>2. h \in Heads(s) /\ h <= n /\ \A i \in Heads(s) : i <= n + 1 => i <= h
    BY <1>3, <2>1 DEF LastHead, HeadsUpTo
  <2>3. h \in Nat /\ 1 <= h /\ h <= n + 1
    BY <1>0, <1>1, <2>2
  <2>4. ValueUpTo(s, h, n + 1) =
          IF InValue(s, n + 1) THEN Append(ValueUpTo(s, h, n), s[n + 1]) ELSE ValueUpTo(s, h, n)
    BY <2>2, <2>3, ValueStep
  <2>5. p.header_name = Name(s, h) /\ p.header_value = ValueUpTo(s, h, n)
    BY <2>1 DEF Current
  <2> QED BY <2>4, <2>5
<1>6. Current(s, n + 1, q)
  BY <1>5 DEF Current
<1> QED BY <1>2, <1>4, <1>6

\* The parser behind the colon of a header.
LEMMA StepColon ==
  ASSUME NEW s \in String, NEW n \in 0 .. (Len(s) - 1), NEW p \in ParserType,
         p.state = "space_before_header_value", FollowsHeaders(s, n, p),
         consume(p, s[n + 1]).result # "bad"
  PROVE  LET q == consume(p, s[n + 1])
         IN  /\ q.result = p.result /\ q.state = "header_value"
             /\ FollowsHeaders(s, n + 1, q)
<1> DEFINE c == s[n + 1]
           q == consume(p, c)
           N == n + 1
<1>0. c \in Int /\ n \in Nat /\ Len(s) \in Nat /\ n \in 0 .. Len(s) /\ n + 1 \in 1 .. Len(s)
  BY DEF String
<1>1. PICK b \in 1 .. (n - 1) :
        /\ Behind(s, n, b) /\ Tokens(s, b, n - 1) /\ s[n] = Colon
        /\ p.header_name = SubSeq(s, b, n - 1) /\ p.header_value = <<>>
        /\ p.headers = HeadersUpTo(s, b - 1)
  BY DEF FollowsHeaders, AtColon
<1>2. q.result # "bad" /\ p.method = Method(s) /\ p.uri = Uri(s)
  BY DEF FollowsHeaders
<1>3. c = SP /\ q.state = "header_value" /\ Keeps(p, q)
  <2> HIDE DEF c
  <2>1. \A x \in DOMAIN Fixed : p.state = x =>
          IF c = Fixed[x].char THEN q.state = Fixed[x].next /\ Keeps(p, q) ELSE q.result = "bad"
    BY <1>0, ConsumeFixed
  <2> HIDE DEF q
  <2> QED BY <1>2, <2>1, FixedIs
<1> HIDE DEF q
<1>4. /\ b \in Nat /\ b < n /\ b \in 1 .. Len(s) /\ b \in LineStarts(s) /\ b # 1
      /\ n \in b .. Len(s) /\ b \in 1 .. N /\ N \in Nat
  <2>1. b \in Nat /\ b < n /\ b \in 1 .. Len(s)
    BY <1>0
  <2>2. b \in LineStarts(s) /\ EndOf(s, 1) + 2 <= b /\ 0 < EndOf(s, 1) /\ EndOf(s, 1) \in Nat
    BY <1>0, <1>1, <2>1, BehindFacts
  <2> QED BY <1>0, <2>1, <2>2
<1>5. \A i \in b .. (n - 1) : s[i] # Colon /\ s[i] \notin {SP, HT, CR}
  BY <1>1, CharFacts DEF Tokens
<1>6. b \in Heads(s)
  <2>1. b \in b .. (n - 1)
    BY <1>0, <1>4
  <2> QED BY <1>4, <1>5, <2>1 DEF Heads
<1>7. Behind(s, N, b)
  BY <1>1, <1>3, BehindOn, CharFacts
<1>8. LastHead(s, b, N) /\ \A i \in HeadsUpTo(s, N) : i <= b
  <2>1. \A i \in Heads(s) : i <= n + 1 => i <= b
    BY <1>0, <1>1, CurrentLine
  <2> QED BY <1>0, <1>4, <1>6, <2>1 DEF LastHead, HeadsUpTo
<1>9. Name(s, b) = SubSeq(s, b, n - 1)
  BY <1>1, <1>4, <1>5, NameIs
<1>10. ValueUpTo(s, b, N) = <<>>
  <2>1. ASSUME NEW i \in 1 .. Len(s), i \in ValueAt(s, b, N)
        PROVE  FALSE
    <3>1. i \in b .. (n + 1) /\ InValue(s, i)
      BY <2>1 DEF ValueAt
    <3>2. LineOf(s, i) = b
      BY <1>0, <1>1, <2>1, <3>1, CurrentLine
    <3>3. PICK k \in b .. (i - 2) : s[k] = Colon
      BY <1>6, <3>1, <3>2 DEF InValue
    <3>4. k \in b .. (n - 1)
      BY <1>0, <1>4, <3>1
    <3> QED BY <1>5, <3>3, <3>4
  <2> HIDE DEF N
  <2> QED BY <2>1, CharsOfNone DEF ValueUpTo
<1>11. Current(s, N, q)
  <2> SUFFICES ASSUME NEW h, LastHead(s, h, N)
               PROVE  q.header_name = Name(s, h) /\ q.header_value = ValueUpTo(s, h, N)
    BY DEF Current
  <2>1. h = b
    <3>1. h <= b /\ b <= h /\ h \in Heads(s)
      BY <1>8 DEF LastHead, HeadsUpTo
    <3>2. h \in Nat
      BY <3>1, HeadFacts
    <3> QED BY <1>4, <3>1, <3>2
  <2> QED BY <1>1, <1>3, <1>9, <1>10, <2>1 DEF Keeps
<1>12. InHeader(s, b, N)
  <2>1. /\ n \in (b + 1) .. (N - 1) /\ Tokens(s, b, n - 1) /\ s[n] = Colon /\ s[n + 1] = SP
    BY <1>0, <1>1, <1>3, <1>4
  <2>2. \A j \in (n + 1) .. N : IsText(s[j])
    <3>1. \A j \in (n + 1) .. N : j = n + 1
      BY <1>0
    <3> QED BY <1>3, <3>1, CharFacts
  <2> HIDE DEF N
  <2> QED BY <2>1, <2>2 DEF InHeader
<1>13. AtValue(s, N, q)
  <2> HIDE DEF N
  <2>1. q.headers = HeadersUpTo(s, b - 1)
    BY <1>1, <1>3 DEF Keeps
  <2> QED BY <1>4, <1>7, <1>8, <1>11, <1>12, <2>1 DEF AtValue
<1> QED BY <1>2, <1>3, <1>13 DEF FollowsHeaders, Keeps, q

\* The end of a line that has been read.
LEMMA LineRead ==
  ASSUME NEW s \in String, NEW n \in 0 .. (Len(s) - 1), NEW b \in 1 .. n, s[n + 1] = CR,
         InHeader(s, b, n) \/ InContinuation(s, b, n)
           \/ (b # SecondLine(s) /\ \A j \in b .. n : s[j] \in {SP, HT})
  PROVE  IsHeaderLine(s, b) /\ s[b] # CR
<1>0. n \in Nat /\ b \in Nat /\ Len(s) \in Nat /\ b <= n /\ n + 1 <= Len(s)
  BY DEF String
<1>1. ASSUME \A j \in b .. n : s[j] # CR
      PROVE  Line(s, b) = b .. n
  <2>1. b \in 1 .. Len(s) /\ n + 1 \in b .. Len(s) /\ n + 1 - 1 = n
    BY <1>0
  <2>2. EndOf(s, b) = n + 1
    BY <1>1, <2>1, EndIs
  <2> QED BY <2>1, <2>2 DEF Line
<1>2. CASE InHeader(s, b, n)
  <2>1. PICK k \in (b + 1) .. (n - 1) :
          /\ Tokens(s, b, k - 1) /\ s[k] = Colon /\ s[k + 1] = SP
          /\ \A j \in (k + 1) .. n : IsText(s[j])
    BY <1>2 DEF InHeader
  <2>2. \A j \in b .. n : s[j] # CR
    <3> TAKE j \in b .. n
    <3>1. j \in b .. (k - 1) \/ j = k \/ j \in (k + 1) .. n
      BY <1>0
    <3> QED BY <2>1, <3>1, CharFacts DEF Tokens
  <2>3. k \in Line(s, b) /\ b < k /\ b \in b .. n
    BY <1>0, <1>1, <2>2
  <2>4. \A j \in Line(s, b) : k < j => IsText(s[j])
    <3> TAKE j \in Line(s, b)
    <3>1. k < j => j \in (k + 1) .. n
      BY <1>0, <1>1, <2>2
    <3> QED BY <2>1, <3>1
  <2>5. IsHeader(s, b)
    BY <2>1, <2>3, <2>4 DEF IsHeader, Tokens
  <2> QED BY <2>2, <2>3, <2>5 DEF IsHeaderLine
<1>3. CASE InContinuation(s, b, n)
  <2>1. s[b] \in {SP, HT} /\ b # SecondLine(s)
    BY <1>3 DEF InContinuation
  <2>2. PICK k \in b .. n :
          /\ s[k] \notin {SP, HT} /\ (\A j \in b .. (k - 1) : s[j] \in {SP, HT})
          /\ \A j \in k .. n : IsText(s[j])
    BY <1>3 DEF InContinuation
  <2>3. \A j \in b .. n : s[j] # CR
    <3> TAKE j \in b .. n
    <3>1. j \in b .. (k - 1) \/ j \in k .. n
      BY <1>0
    <3> QED BY <2>2, <3>1, CharFacts
  <2>4. ASSUME NEW j \in Line(s, b), \E i \in b .. j : s[i] \notin {SP, HT}
        PROVE  IsText(s[j])
    <3>1. PICK i \in b .. j : s[i] \notin {SP, HT}
      BY <2>4
    <3>2. j \in b .. n /\ ~ (i \in b .. (k - 1))
      BY <1>1, <2>2, <2>3, <3>1
    <3>3. j \in k .. n
      BY <1>0, <3>2
    <3> QED BY <2>2, <3>3
  <2>5. IsContinuation(s, b)
    BY <2>1, <2>4 DEF IsContinuation
  <2> QED BY <2>1, <2>5, CharFacts DEF IsHeaderLine
<1>4. CASE b # SecondLine(s) /\ \A j \in b .. n : s[j] \in {SP, HT}
  <2>1. \A j \in b .. n : s[j] # CR
    BY <1>4, CharFacts
  <2>2. b \in b .. n /\ \A j \in Line(s, b) : j \in b .. n
    BY <1>0, <1>1, <2>1
  <2>3. ASSUME NEW j \in Line(s, b), NEW i \in b .. j PROVE s[i] \in {SP, HT}
    <3>1. i \in b .. n
      BY <1>0, <2>2
    <3> QED BY <1>4, <3>1
  <2>4. IsContinuation(s, b)
    BY <1>4, <2>2, <2>3 DEF IsContinuation
  <2> QED BY <1>4, <2>1, <2>2, <2>4 DEF IsHeaderLine
<1> QED BY <1>2, <1>3, <1>4

-----------------------------------------------------------------------------
(* The parser in the values of headers.                                    *)

\* What a character of the line adds to the value of the header.
LEMMA ValueChars ==
  ASSUME NEW s \in String, NEW n \in 0 .. (Len(s) - 1), NEW b \in 1 .. n, Behind(s, n, b)
  PROVE  /\ s[n + 1] \in {CR, LF} => ~InValue(s, n + 1)
         /\ InHeader(s, b, n) /\ IsText(s[n + 1]) => InValue(s, n + 1) /\ InHeader(s, b, n + 1)
         /\ InContinuation(s, b, n) /\ IsText(s[n + 1]) =>
              InValue(s, n + 1) /\ InContinuation(s, b, n + 1)
<1>0. n \in Nat /\ Len(s) \in Nat /\ n \in 0 .. Len(s) /\ b \in Nat /\ b <= n /\ n + 1 <= Len(s)
  BY DEF String
<1>1. LineOf(s, n + 1) = b
  BY <1>0, CurrentLine
<1>2. b \in LineStarts(s) /\ b # 1
  <2>1. b \in LineStarts(s) /\ EndOf(s, 1) + 2 <= b /\ 0 < EndOf(s, 1) /\ EndOf(s, 1) \in Nat
    BY <1>0, BehindFacts
  <2> QED BY <1>0, <2>1
<1>3. s[n + 1] \in {CR, LF} => ~InValue(s, n + 1)
  BY DEF InValue
<1>4. ASSUME IsText(s[n + 1]), InHeader(s, b, n)
      PROVE  InValue(s, n + 1) /\ InHeader(s, b, n + 1)
  <2>1. PICK k \in (b + 1) .. (n - 1) :
          /\ Tokens(s, b, k - 1) /\ s[k] = Colon /\ s[k + 1] = SP
          /\ \A j \in (k + 1) .. n : IsText(s[j])
    BY <1>4 DEF InHeader
  <2>2. b \in Heads(s)
    <3>1. b \in b .. (k - 1)
      BY <1>0
    <3>2. s[b] \notin {SP, HT, CR}
      BY <2>1, <3>1, CharFacts DEF Tokens
    <3> QED BY <1>2, <3>2 DEF Heads
  <2>3. k \in b .. (n + 1 - 2) /\ k \in (b + 1) .. (n + 1 - 1)
    BY <1>0
  <2>4. InValue(s, n + 1)
    BY <1>1, <1>4, <2>1, <2>2, <2>3, CharFacts DEF InValue
  <2>5. \A j \in (k + 1) .. (n + 1) : IsText(s[j])
    <3> TAKE j \in (k + 1) .. (n + 1)
    <3>1. j \in (k + 1) .. n \/ j = n + 1
      BY <1>0
    <3> QED BY <1>4, <2>1, <3>1
  <2> DEFINE N == n + 1
  <2>6. k \in (b + 1) .. (N - 1) /\ \A j \in (k + 1) .. N : IsText(s[j])
    BY <2>3, <2>5
  <2> HIDE DEF N
  <2>7. InHeader(s, b, N)
    BY <2>1, <2>6 DEF InHeader
  <2> QED BY <2>4, <2>7 DEF N
<1>5. ASSUME IsText(s[n + 1]), InContinuation(s, b, n)
      PROVE  InValue(s, n + 1) /\ InContinuation(s, b, n + 1)
  <2>1. PICK k \in b .. n :
          /\ s[k] \notin {SP, HT} /\ (\A j \in b .. (k - 1) : s[j] \in {SP, HT})
          /\ \A j \in k .. n : IsText(s[j])
    BY <1>5 DEF InContinuation
  <2>2. b \notin Heads(s)
    BY <1>5, HeadFacts DEF InContinuation
  <2>3. k \in b .. (n + 1)
    BY <1>0
  <2>4. InValue(s, n + 1)
    BY <1>1, <1>5, <2>1, <2>2, <2>3, CharFacts DEF InValue
  <2>5. \A j \in k .. (n + 1) : IsText(s[j])
    <3> TAKE j \in k .. (n + 1)
    <3>1. j \in k .. n \/ j = n + 1
      BY <1>0
    <3> QED BY <1>5, <2>1, <3>1
  <2>6. InContinuation(s, b, n + 1)
    BY <1>5, <2>1, <2>3, <2>5 DEF InContinuation
  <2> QED BY <2>4, <2>6
<1> QED BY <1>3, <1>4, <1>5

\* The parser in the value of a header.
LEMMA StepValue ==
  ASSUME NEW s \in String, NEW n \in 0 .. (Len(s) - 1), NEW p \in ParserType,
         p.state = "header_value", FollowsHeaders(s, n, p),
         consume(p, s[n + 1]).result # "bad"
  PROVE  LET q == consume(p, s[n + 1])
         IN  /\ q.result = p.result /\ q.state \in {"header_value", "expecting_newline_2"}
             /\ FollowsHeaders(s, n + 1, q)
<1> DEFINE c == s[n + 1]
           q == consume(p, c)
           N == n + 1
<1>0. c \in Int /\ n \in Nat /\ Len(s) \in Nat /\ n \in 0 .. Len(s) /\ n + 1 \in 1 .. Len(s)
      /\ N \in 0 .. Len(s) /\ N \in Nat
  BY DEF String
<1>1. PICK b \in 1 .. n, h \in 1 .. n :
        /\ Behind(s, n, b) /\ LastHead(s, h, n) /\ Current(s, n, p)
        /\ InHeader(s, b, n) \/ InContinuation(s, b, n)
        /\ p.headers = HeadersUpTo(s, b - 1)
  BY DEF FollowsHeaders, AtValue
<1>2. q.result # "bad" /\ p.method = Method(s) /\ p.uri = Uri(s)
  BY DEF FollowsHeaders
<1>3. IF c = CR
      THEN /\ q.state = "expecting_newline_2" /\ q.headers = Stored(p)
           /\ q.result = p.result /\ q.method = p.method /\ q.uri = p.uri
           /\ q.header_name = p.header_name /\ q.header_value = p.header_value
      ELSE IF IsText(c)
      THEN /\ q.state = "header_value" /\ q.header_value = Append(p.header_value, c)
           /\ q.result = p.result /\ q.method = p.method /\ q.uri = p.uri
           /\ q.headers = p.headers /\ q.header_name = p.header_name
      ELSE q.result = "bad"
  <2> HIDE DEF c
  <2>1. p.state # "header_lws"
    OBVIOUS
  <2> QED BY <1>0, <2>1, ConsumeValue
<1> HIDE DEF q
<1>4. /\ b \in Nat /\ b <= n /\ b \in 1 .. N /\ h \in 1 .. N /\ b - 1 \in Nat /\ b - 1 <= N
      /\ h \in Nat /\ s[n] # CR
  <2>1. IsText(s[n])
    <3>1. CASE InHeader(s, b, n)
      <4>1. PICK k \in (b + 1) .. (n - 1) : \A j \in (k + 1) .. n : IsText(s[j])
        BY <3>1 DEF InHeader
      <4>2. n \in (k + 1) .. n
        BY <1>0
      <4> QED BY <4>1, <4>2
    <3>2. CASE InContinuation(s, b, n)
      <4>1. PICK k \in b .. n : \A j \in k .. n : IsText(s[j])
        BY <3>2 DEF InContinuation
      <4>2. n \in k .. n
        BY <1>0
      <4> QED BY <4>1, <4>2
    <3> QED BY <1>1, <3>1, <3>2
  <2> QED BY <1>0, <2>1, CharFacts
<1>5. CASE c = CR
  <2>1. /\ q.state = "expecting_newline_2" /\ q.headers = Stored(p)
        /\ q.result = p.result /\ q.method = p.method /\ q.uri = p.uri
        /\ q.header_name = p.header_name /\ q.header_value = p.header_value
    BY <1>3, <1>5
  <2>2. ~InValue(s, n + 1)
    BY <1>1, <1>5, ValueChars
  <2>3. Current(s, N, q) /\ LastHead(s, h, N)
    BY <1>1, <1>4, <2>1, <2>2, CurrentOn
  <2>4. Behind(s, N, b)
    BY <1>1, <1>4, <1>5, BehindOn, CharFacts
  <2>5. IsHeaderLine(s, b) /\ s[b] # CR
    BY <1>1, <1>5, LineRead
  <2>6. h - 1 <= b - 1
    <3>1. h \in Heads(s) /\ h <= n + 1
      BY <1>0, <2>3 DEF LastHead, HeadsUpTo
    <3>2. h <= b
      BY <1>0, <1>1, <3>1, CurrentLine
    <3> QED BY <1>4, <3>2
  <2>7. HeadersUpTo(s, N) = Stored(p)
    <3> DEFINE k == b - 1
    <3>1. k \in Nat /\ h - 1 <= k /\ k <= N
      BY <1>4, <2>6
    <3>2. p.headers = HeadersUpTo(s, k)
      BY <1>1
    <3> HIDE DEF k, N
    <3>3. HeadersUpTo(s, N) = Grown(s, h, k, N)
      BY <1>0, <2>3, <3>1, HeadersGrow
    <3>4. p.header_name = Name(s, h) /\ p.header_value = ValueUpTo(s, h, N)
      BY <2>1, <2>3 DEF Current
    <3> QED BY <3>2, <3>3, <3>4 DEF Stored, Grown
  <2>8. b \in 1 .. (N - 1) /\ s[N] = CR
    BY <1>0, <1>4, <1>5
  <2> HIDE DEF N
  <2>9. AtReturn(s, N, q)
    BY <2>1, <2>3, <2>4, <2>5, <2>7, <2>8 DEF AtReturn
  <2> QED BY <1>2, <2>1, <2>9 DEF FollowsHeaders, q, N
<1>6. CASE c # CR
  <2>1. /\ q.state = "header_value" /\ q.header_value = Append(p.header_value, c)
        /\ q.result = p.result /\ q.method = p.method /\ q.uri = p.uri
        /\ q.headers = p.headers /\ q.header_name = p.header_name /\ IsText(c)
    BY <1>2, <1>3, <1>6
  <2>2. /\ InValue(s, n + 1) /\ (InHeader(s, b, N) \/ InContinuation(s, b, N))
    BY <1>1, <2>1, ValueChars
  <2>3. Current(s, N, q) /\ LastHead(s, h, N)
    BY <1>1, <1>4, <2>1, <2>2, CurrentOn
  <2>4. Behind(s, N, b)
    BY <1>1, <1>4, <2>1, BehindOn, CharFacts
  <2> HIDE DEF N
  <2>5. q.headers = HeadersUpTo(s, b - 1)
    BY <1>1, <2>1
  <2>6. AtValue(s, N, q)
    BY <1>4, <2>2, <2>3, <2>4, <2>5 DEF AtValue
  <2> QED BY <1>2, <2>1, <2>6 DEF FollowsHeaders, q, N
<1> QED BY <1>5, <1>6

\* The parser in the blanks of a continuation.
LEMMA StepBlanks ==
  ASSUME NEW s \in String, NEW n \in 0 .. (Len(s) - 1), NEW p \in ParserType,
         p.state = "header_lws", FollowsHeaders(s, n, p),
         consume(p, s[n + 1]).result # "bad"
  PROVE  LET q == consume(p, s[n + 1])
         IN  /\ q.result = p.result
             /\ q.state \in {"header_lws", "header_value", "expecting_newline_2"}
             /\ FollowsHeaders(s, n + 1, q)
<1> DEFINE c == s[n + 1]
           q == consume(p, c)
           N == n + 1
<1>0. c \in Int /\ n \in Nat /\ Len(s) \in Nat /\ n \in 0 .. Len(s) /\ n + 1 \in 1 .. Len(s)
      /\ N \in 0 .. Len(s) /\ N \in Nat
  BY DEF String
<1>1. PICK b \in 1 .. n, h \in 1 .. n :
        /\ Behind(s, n, b) /\ LastHead(s, h, n) /\ Current(s, n, p)
        /\ b # SecondLine(s) /\ \A j \in b .. n : s[j] \in {SP, HT}
        /\ p.headers = HeadersUpTo(s, b - 1)
  BY DEF FollowsHeaders, AtBlanks
<1>2. q.result # "bad" /\ p.method = Method(s) /\ p.uri = Uri(s)
  BY DEF FollowsHeaders
<1>3. IF c = CR
      THEN /\ q.state = "expecting_newline_2" /\ q.headers = p.headers
           /\ q.result = p.result /\ q.method = p.method /\ q.uri = p.uri
           /\ q.header_name = p.header_name /\ q.header_value = p.header_value
      ELSE IF c \in {SP, HT}
      THEN q.state = "header_lws" /\ Keeps(p, q)
      ELSE IF IsText(c)
      THEN /\ q.state = "header_value" /\ q.header_value = Append(p.header_value, c)
           /\ q.result = p.result /\ q.method = p.method /\ q.uri = p.uri
           /\ q.headers = p.headers /\ q.header_name = p.header_name
      ELSE q.result = "bad"
  <2> HIDE DEF c
  <2>1. p.state # "header_value"
    OBVIOUS
  <2> QED BY <1>0, <2>1, ConsumeValue
<1> HIDE DEF q
<1>4. /\ b \in Nat /\ b <= n /\ b \in 1 .. N /\ h \in 1 .. N /\ b - 1 \in Nat /\ b - 1 <= N
      /\ h \in Nat /\ s[n] # CR /\ b \in b .. n /\ n \in b .. n
  <2>1. b \in b .. n /\ n \in b .. n
    BY <1>0
  <2> QED BY <1>0, <1>1, <2>1, CharFacts
<1>5. b \notin Heads(s)
  BY <1>1, <1>4, HeadFacts
<1>6. ASSUME NEW j \in b .. n PROVE ~InValue(s, j)
  <2>1. LineOf(s, j) = b
    BY <1>0, <1>1, <1>4, CurrentLine
  <2>2. \A k \in b .. j : s[k] \in {SP, HT}
    <3> TAKE k \in b .. j
    <3>1. k \in b .. n
      BY <1>0, <1>4
    <3> QED BY <1>1, <3>1
  <2> QED BY <1>5, <2>1, <2>2 DEF InValue
<1>7. CASE c = CR
  <2>1. /\ q.state = "expecting_newline_2" /\ q.headers = p.headers
        /\ q.result = p.result /\ q.method = p.method /\ q.uri = p.uri
        /\ q.header_name = p.header_name /\ q.header_value = p.header_value
    BY <1>3, <1>7
  <2>2. ~InValue(s, n + 1)
    BY <1>1, <1>7, ValueChars
  <2>3. Current(s, N, q) /\ \A i \in Heads(s) : i <= n + 1 => i <= n
    BY <1>1, <1>4, <2>1, <2>2, CurrentOn
  <2>4. Behind(s, N, b)
    BY <1>1, <1>4, <1>7, BehindOn, CharFacts
  <2>5. IsHeaderLine(s, b) /\ s[b] # CR
    BY <1>1, <1>7, LineRead
  <2>6. HeadersUpTo(s, N) = HeadersUpTo(s, b - 1)
    <3>1. ASSUME NEW i \in Heads(s), i <= N PROVE i <= b - 1
      <4>1. i <= b /\ i \in Nat
        BY <1>0, <1>1, <3>1, CurrentLine, HeadFacts
      <4> QED BY <1>4, <1>5, <4>1
    <3>2. ASSUME NEW j \in (b - 1 + 1) .. N PROVE ~InValue(s, j)
      <4>1. j \in b .. n \/ j = n + 1
        BY <1>0, <1>4
      <4> QED BY <1>6, <2>2, <4>1
    <3> DEFINE k == b - 1
    <3>3. k \in 0 .. N
      BY <1>4
    <3>4. (\A i \in Heads(s) : i <= N => i <= k) /\ \A j \in (k + 1) .. N : ~InValue(s, j)
      BY <3>1, <3>2
    <3> HIDE DEF k, N
    <3>5. HeadersUpTo(s, N) = HeadersUpTo(s, k)
      BY <1>0, <3>3, <3>4, HeadersSame
    <3> QED BY <3>5 DEF k
  <2>7. b \in 1 .. (N - 1) /\ s[N] = CR
    BY <1>0, <1>4, <1>7
  <2> HIDE DEF N
  <2>8. AtReturn(s, N, q)
    BY <1>1, <2>1, <2>3, <2>4, <2>5, <2>6, <2>7 DEF AtReturn
  <2> QED BY <1>2, <2>1, <2>8 DEF FollowsHeaders, q, N
<1>8. CASE c \in {SP, HT}
  <2>1. q.state = "header_lws" /\ Keeps(p, q)
    BY <1>3, <1>8, CharFacts
  <2>2. \A j \in b .. N : s[j] \in {SP, HT}
    <3> TAKE j \in b .. N
    <3>1. j \in b .. n \/ j = n + 1
      BY <1>0, <1>4
    <3> QED BY <1>1, <1>8, <3>1
  <2>3. ~InValue(s, n + 1)
    <3>1. LineOf(s, n + 1) = b
      <4>1. n + 1 \in b .. (n + 1) /\ n + 1 <= Len(s)
        BY <1>0, <1>4
      <4> QED BY <1>0, <1>1, <4>1, CurrentLine
    <3> QED BY <1>5, <2>2, <3>1 DEF InValue
  <2>4. Current(s, N, q) /\ LastHead(s, h, N)
    BY <1>1, <1>4, <2>1, <2>3, CurrentOn DEF Keeps
  <2>5. Behind(s, N, b)
    BY <1>1, <1>4, <1>8, BehindOn, CharFacts
  <2> HIDE DEF N
  <2>6. q.headers = HeadersUpTo(s, b - 1)
    BY <1>1, <2>1 DEF Keeps
  <2>7. AtBlanks(s, N, q)
    BY <1>1, <1>4, <2>2, <2>4, <2>5, <2>6 DEF AtBlanks
  <2> QED BY <1>2, <2>1, <2>7 DEF FollowsHeaders, Keeps, q, N
<1>9. CASE c # CR /\ c \notin {SP, HT}
  <2>1. /\ q.state = "header_value" /\ q.header_value = Append(p.header_value, c)
        /\ q.result = p.result /\ q.method = p.method /\ q.uri = p.uri
        /\ q.headers = p.headers /\ q.header_name = p.header_name /\ IsText(c)
    BY <1>2, <1>3, <1>9
  <2>2. InContinuation(s, b, N)
    <3>1. /\ n + 1 \in b .. N /\ s[n + 1] \notin {SP, HT} /\ s[b] \in {SP, HT}
          /\ \A j \in b .. (n + 1 - 1) : s[j] \in {SP, HT}
      BY <1>0, <1>1, <1>4, <1>9
    <3>2. \A j \in (n + 1) .. N : IsText(s[j])
      <4>1. \A j \in (n + 1) .. N : j = n + 1
        BY <1>0
      <4> QED BY <2>1, <4>1
    <3> DEFINE k == n + 1
    <3>3. k \in b .. N /\ s[k] \notin {SP, HT} /\ (\A j \in b .. (k - 1) : s[j] \in {SP, HT})
          /\ \A j \in k .. N : IsText(s[j])
      BY <3>1, <3>2
    <3> HIDE DEF k, N
    <3> QED BY <1>1, <3>1, <3>3 DEF InContinuation
  <2>3. InValue(s, n + 1)
    <3>1. LineOf(s, n + 1) = b
      <4>1. n + 1 \in b .. (n + 1) /\ n + 1 <= Len(s)
        BY <1>0, <1>4
      <4> QED BY <1>0, <1>1, <4>1, CurrentLine
    <3>2. n + 1 \in b .. (n + 1)
      BY <1>0, <1>4
    <3> QED BY <1>5, <1>9, <2>1, <3>1, <3>2, CharFacts DEF InValue
  <2>4. Current(s, N, q) /\ LastHead(s, h, N)
    BY <1>1, <1>4, <2>1, <2>3, CurrentOn
  <2>5. Behind(s, N, b)
    BY <1>1, <1>4, <2>1, BehindOn, CharFacts
  <2> HIDE DEF N
  <2>6. q.headers = HeadersUpTo(s, b - 1)
    BY <1>1, <2>1
  <2>7. AtValue(s, N, q)
    BY <1>4, <2>2, <2>4, <2>5, <2>6 DEF AtValue
  <2> QED BY <1>2, <2>1, <2>7 DEF FollowsHeaders, q, N
<1> QED BY <1>7, <1>8, <1>9

\* The parser behind the CR of a line.
LEMMA StepReturn ==
  ASSUME NEW s \in String, NEW n \in 0 .. (Len(s) - 1), NEW p \in ParserType,
         p.state = "expecting_newline_2", FollowsHeaders(s, n, p),
         consume(p, s[n + 1]).result # "bad"
  PROVE  LET q == consume(p, s[n + 1])
         IN  /\ q.result = p.result /\ q.state = "header_line_start"
             /\ FollowsHeaders(s, n + 1, q)
<1> DEFINE c == s[n + 1]
           q == consume(p, c)
           N == n + 1
<1>0. c \in Int /\ n \in Nat /\ Len(s) \in Nat /\ n \in 0 .. Len(s) /\ n + 1 \in 1 .. Len(s)
      /\ N \in 0 .. Len(s) /\ N \in Nat
  BY DEF String
<1>1. PICK b \in 1 .. (n - 1) :
        /\ Behind(s, n, b) /\ Current(s, n, p) /\ s[b] # CR /\ IsHeaderLine(s, b) /\ s[n] = CR
        /\ p.headers = HeadersUpTo(s, n)
  BY DEF FollowsHeaders, AtReturn
<1>2. q.result # "bad" /\ p.method = Method(s) /\ p.uri = Uri(s)
  BY DEF FollowsHeaders
<1>3. c = LF /\ q.state = "header_line_start" /\ Keeps(p, q)
  <2> HIDE DEF c
  <2>1. \A x \in DOMAIN Fixed : p.state = x =>
          IF c = Fixed[x].char THEN q.state = Fixed[x].next /\ Keeps(p, q) ELSE q.result = "bad"
    BY <1>0, ConsumeFixed
  <2> HIDE DEF q
  <2> QED BY <1>2, <2>1, FixedIs
<1> HIDE DEF q
<1>4. b <= n /\ b \in 1 .. n
  BY <1>0
<1>5. Behind(s, N, n + 2)
  BY <1>1, <1>3, <1>4, BehindNext
<1>6. ~InValue(s, n + 1)
  BY <1>1, <1>3, <1>4, ValueChars
<1>7. Current(s, N, q) /\ \A i \in Heads(s) : i <= n + 1 => i <= n
  BY <1>1, <1>3, <1>4, <1>6, CurrentOn DEF Keeps
<1>8. HeadersUpTo(s, N) = HeadersUpTo(s, n)
  <2>1. \A j \in (n + 1) .. N : ~InValue(s, j)
    <3>1. \A j \in (n + 1) .. N : j = n + 1
      BY <1>0
    <3> QED BY <1>6, <3>1
  <2>2. n \in 0 .. N
    BY <1>0
  <2> QED BY <1>0, <1>7, <2>1, <2>2, HeadersSame
<1>9. AtLineStart(s, N, q)
  <2>1. N + 1 = n + 2
    BY <1>0
  <2> HIDE DEF N
  <2> QED BY <1>1, <1>3, <1>5, <1>7, <1>8, <2>1 DEF AtLineStart, Keeps
<1> QED BY <1>2, <1>3, <1>9 DEF FollowsHeaders, Keeps, q

-----------------------------------------------------------------------------
(* The parser follows a string as long as it accepts it.                   *)

HeadersStates ==
  {"header_line_start", "header_name", "space_before_header_value", "header_value",
   "header_lws", "expecting_newline_2", "expecting_newline_3"}

Follows(s, n, p) ==
  /\ p.state \in LineStates => FollowsLine(s, n, p)
  /\ p.state \in HeadersStates => FollowsHeaders(s, n, p)

\* The states are those of the request line and those of the headers.
LEMMA StatesAre ==
  States = LineStates \union HeadersStates /\ LineStates \intersect HeadersStates = {}
<1>1. States = LineStates \union HeadersStates
  BY FixedIs DEF States, LineStates, VersionStates, HeadersStates, HeaderStates
<1>2. LineStates \intersect HeadersStates = {}
  BY DEF LineStates, VersionStates, HeadersStates
<1> QED BY <1>1, <1>2

\* A parser that follows the string goes on doing so, up to the end of the request.
LEMMA FollowStep ==
  ASSUME NEW s \in String, NEW n \in 0 .. (Len(s) - 1), NEW p \in ParserType,
         p.result = "indeterminate", Follows(s, n, p), consume(p, s[n + 1]).result # "bad"
  PROVE  LET q == consume(p, s[n + 1])
         IN  IF p.state = "expecting_newline_3"
             THEN /\ q.result = "good" /\ s[n + 1] = LF /\ AtLast(s, n, p)
                  /\ q.method = Method(s) /\ q.uri = Uri(s) /\ q.headers = HeadersUpTo(s, n)
             ELSE q.result = "indeterminate" /\ Follows(s, n + 1, q)
<1> DEFINE c == s[n + 1]
           q == consume(p, c)
<1>0. c \in Int
  BY DEF String
<1>1. p.state \in LineStates \/ p.state \in HeadersStates
  BY StatesAre DEF ParserType
<1>2. q.result # "bad"
  OBVIOUS
<1>3. CASE p.state \in LineStates /\ p.state # "expecting_newline_1"
  <2>1. q.state \in LineStates /\ FollowsLine(s, n + 1, q) /\ q.result = p.result
    BY <1>3, LineStep DEF Follows
  <2>2. p.state # "expecting_newline_3" /\ q.state \notin HeadersStates
    BY <1>3, <2>1, StatesAre DEF HeadersStates
  <2> HIDE DEF q
  <2>3. Follows(s, n + 1, q) /\ q.result = "indeterminate"
    BY <2>1, <2>2 DEF Follows
  <2> QED BY <2>2, <2>3 DEF q
<1>4. ASSUME q.state \in HeadersStates, FollowsHeaders(s, n + 1, q)
      PROVE  Follows(s, n + 1, q)
  <2> HIDE DEF q
  <2> QED BY <1>4, StatesAre DEF Follows
<1>5. CASE p.state = "expecting_newline_1"
  <2>1. FollowsLine(s, n, p)
    BY <1>5 DEF Follows, LineStates, VersionStates
  <2>2. q.state = "header_line_start" /\ FollowsHeaders(s, n + 1, q) /\ q.result = p.result
    BY <1>5, <2>1, HeadersBegin
  <2>3. q.state \in HeadersStates
    BY <2>2 DEF HeadersStates
  <2> QED BY <1>4, <1>5, <2>2, <2>3
<1>6. CASE p.state \in HeadersStates /\ p.state # "expecting_newline_3"
  <2>1. FollowsHeaders(s, n, p)
    BY <1>6 DEF Follows
  <2>2. q.state \in HeadersStates /\ FollowsHeaders(s, n + 1, q) /\ q.result = p.result
    <3>1. CASE p.state = "header_line_start"
      <4>1. /\ q.result = p.result /\ FollowsHeaders(s, n + 1, q)
            /\ q.state \in {"expecting_newline_3", "header_lws", "header_name"}
        BY <2>1, <3>1, StepLineStart
      <4> HIDE DEF q
      <4>2. q.state \in HeadersStates
        BY <4>1 DEF HeadersStates
      <4> QED BY <4>1, <4>2
    <3>2. CASE p.state = "header_name"
      <4>1. /\ q.result = p.result /\ FollowsHeaders(s, n + 1, q)
            /\ q.state \in {"header_name", "space_before_header_value"}
        BY <2>1, <3>2, StepName
      <4> HIDE DEF q
      <4>2. q.state \in HeadersStates
        BY <4>1 DEF HeadersStates
      <4> QED BY <4>1, <4>2
    <3>3. CASE p.state = "space_before_header_value"
      <4>1. q.result = p.result /\ FollowsHeaders(s, n + 1, q) /\ q.state = "header_value"
        BY <2>1, <3>3, StepColon
      <4> HIDE DEF q
      <4>2. q.state \in HeadersStates
        BY <4>1 DEF HeadersStates
      <4> QED BY <4>1, <4>2
    <3>4. CASE p.state = "header_value"
      <4>1. /\ q.result = p.result /\ FollowsHeaders(s, n + 1, q)
            /\ q.state \in {"header_value", "expecting_newline_2"}
        BY <2>1, <3>4, StepValue
      <4> HIDE DEF q
      <4>2. q.state \in HeadersStates
        BY <4>1 DEF HeadersStates
      <4> QED BY <4>1, <4>2
    <3>5. CASE p.state = "header_lws"
      <4>1. /\ q.result = p.result /\ FollowsHeaders(s, n + 1, q)
            /\ q.state \in {"header_lws", "header_value", "expecting_newline_2"}
        BY <2>1, <3>5, StepBlanks
      <4> HIDE DEF q
      <4>2. q.state \in HeadersStates
        BY <4>1 DEF HeadersStates
      <4> QED BY <4>1, <4>2
    <3>6. CASE p.state = "expecting_newline_2"
      <4>1. q.result = p.result /\ FollowsHeaders(s, n + 1, q) /\ q.state = "header_line_start"
        BY <2>1, <3>6, StepReturn
      <4> HIDE DEF q
      <4>2. q.state \in HeadersStates
        BY <4>1 DEF HeadersStates
      <4> QED BY <4>1, <4>2
    <3> HIDE DEF q
    <3> QED BY <1>6, <3>1, <3>2, <3>3, <3>4, <3>5, <3>6 DEF HeadersStates
  <2> QED BY <1>4, <1>6, <2>2
<1>7. CASE p.state = "expecting_newline_3"
  <2>1. /\ p.method = Method(s) /\ p.uri = Uri(s) /\ AtLast(s, n, p)
    BY <1>7 DEF Follows, HeadersStates, FollowsHeaders
  <2>2. c = LF /\ q.result = "good" /\ q.method = p.method /\ q.uri = p.uri /\ q.headers = p.headers
    <3> HIDE DEF c
    <3> QED BY <1>0, <1>2, <1>7, ConsumeLast
  <2> HIDE DEF q
  <2>3. q.headers = HeadersUpTo(s, n)
    BY <2>1, <2>2 DEF AtLast
  <2> QED BY <1>7, <2>1, <2>2, <2>3 DEF q
<1> QED BY <1>1, <1>3, <1>5, <1>6, <1>7

\* The empty line makes it a request.
LEMMA LastLine ==
  ASSUME NEW s \in String, NEW n \in Nat, n + 1 = Len(s), NEW p, AtLast(s, n, p), s[n + 1] = LF
  PROVE  IsRequest(s) /\ HeadersUpTo(s, n) = Headers(s)
<1>0. n \in Nat /\ Len(s) \in Nat /\ n \in 0 .. Len(s) /\ n <= Len(s) /\ DOMAIN s = 1 .. Len(s)
      /\ n + 1 \in 1 .. Len(s)
  BY DEF String
<1>1. Behind(s, n, n) /\ s[n] = CR
  BY DEF AtLast
<1>2. /\ EndOf(s, 1) \in Nat /\ 0 < EndOf(s, 1) /\ EndOf(s, 1) < n /\ n >= 2
      /\ SecondLine(s) = EndOf(s, 1) + 2 /\ s[n - 1] = LF /\ n \in LineStarts(s)
  <2>1. /\ EndOf(s, 1) \in Nat /\ 0 < EndOf(s, 1) /\ EndOf(s, 1) < n
        /\ SecondLine(s) = EndOf(s, 1) + 2 /\ s[n - 1] = LF /\ n \in LineStarts(s)
    BY <1>0, <1>1, BehindFacts
  <2> QED BY <1>0, <2>1
<1>3. \A h \in LineStarts(s) : h <= n + 1 => h <= n
  BY <1>0, <1>1, CurrentLine
<1>4. \A h \in LineStarts(s) : h \in Nat /\ 1 <= h /\ h <= n + 1
  BY <1>0 DEF LineStarts
<1>5. \A i \in LineStarts(s) : 1 < i /\ i < n => s[i] # CR /\ IsHeaderLine(s, i)
  BY <1>1 DEF Behind
<1>6. s[1] # CR
  <2> DEFINE e == EndOf(s, 1)
  <2>1. PICK m, u, d : Marks(s, m, u, d, e)
    BY <1>0, <1>1, RequestLineMarked
  <2> HIDE DEF e
  <2>2. e \in Nat /\ 1 < m /\ m < u /\ u + 6 < d /\ d < e - 1 /\ m \in Nat /\ u \in Nat /\ d \in Nat
        /\ \A i \in 1 .. (e - 1) : s[i] # CR
    BY <2>1, MarksText
  <2>3. 1 \in 1 .. (e - 1)
    BY <2>2
  <2> QED BY <2>2, <2>3
<1>7. IsLines(s)
  <2>1. Len(s) >= 2 /\ s[Len(s)] = LF
    BY <1>0, <1>2
  <2>2. ASSUME NEW i \in DOMAIN s PROVE s[i] = LF <=> i > 1 /\ s[i - 1] = CR
    <3>1. CASE i = n + 1
      <4>1. i > 1 /\ i - 1 = n
        BY <1>0, <1>2, <3>1
      <4> QED BY <1>1, <3>1, <4>1
    <3>2. CASE i # n + 1
      <4>1. i \in 1 .. n
        BY <1>0, <2>2, <3>2
      <4> QED BY <1>1, <4>1 DEF Behind, LinesTo
    <3> QED BY <3>1, <3>2
  <2>3. {i \in LineStarts(s) : s[i] = CR} = {Len(s) - 1}
    <3>1. ASSUME NEW i \in LineStarts(s), s[i] = CR PROVE i = n
      <4>1. i <= n /\ i \in Nat /\ 1 <= i
        BY <1>3, <1>4
      <4>2. ~ (1 < i /\ i < n) /\ i # 1
        BY <1>5, <1>6, <3>1
      <4> QED BY <1>0, <4>1, <4>2
    <3>2. Len(s) - 1 = n
      BY <1>0
    <3> QED BY <1>1, <1>2, <3>1, <3>2
  <2> QED BY <2>1, <2>2, <2>3 DEF IsLines
<1>8. ASSUME NEW i \in HeaderLines(s)
      PROVE  IsHeader(s, i) \/ (i # SecondLine(s) /\ IsContinuation(s, i))
  <2>1. i \in LineStarts(s) /\ i # 1 /\ i # n
    BY <1>0 DEF HeaderLines
  <2>2. 1 < i /\ i < n
    BY <1>0, <1>3, <1>4, <2>1
  <2>3. IsHeaderLine(s, i)
    BY <1>5, <2>1, <2>2
  <2> QED BY <2>3 DEF IsHeaderLine
<1>9. IsRequest(s)
  BY <1>1, <1>7, <1>8 DEF IsRequest, Behind
<1>10. HeadersUpTo(s, n) = HeadersUpTo(s, n + 1)
  <2>1. \A i \in Heads(s) : i <= n + 1 => i <= n
    BY <1>3, HeadFacts
  <2>2. \A j \in (n + 1) .. (n + 1) : ~InValue(s, j)
    <3>1. \A j \in (n + 1) .. (n + 1) : j = n + 1
      BY <1>0
    <3> QED BY <3>1 DEF InValue
  <2>3. n + 1 \in 0 .. Len(s) /\ n \in 0 .. (n + 1)
    BY <1>0
  <2> QED BY <2>1, <2>2, <2>3, HeadersSame
<1>11. HeadersUpTo(s, Len(s)) = Headers(s)
  <2>1. HeadsUpTo(s, Len(s)) = Heads(s)
    <3>1. \A i \in Heads(s) : i <= Len(s)
      BY <1>0, HeadFacts
    <3> QED BY <3>1 DEF HeadsUpTo
  <2>2. \A i : ValueUpTo(s, i, Len(s)) = Value(s, i)
    BY DEF ValueUpTo, ValueAt, Value
  <2>3. \A x : Named(s, Len(s), x) = {i \in Heads(s) : Name(s, i) = x}
    BY <2>1 DEF Named
  <2> QED BY <2>1, <2>2, <2>3 DEF HeadersUpTo, Headers
<1> QED BY <1>0, <1>9, <1>10, <1>11

\* A request is accepted to the end.
LEMMA RequestAccepted ==
  ASSUME NEW s \in String, IsRequest(s), NEW n \in 0 .. (Len(s) - 1), NEW p \in ParserType,
         p.result = "indeterminate", Follows(s, n, p)
  PROVE  consume(p, s[n + 1]).result # "bad"
<1> DEFINE c == s[n + 1]
           q == consume(p, c)
<1>0. c \in Int /\ n \in Nat /\ Len(s) \in Nat /\ n \in 0 .. Len(s) /\ n + 1 \in 1 .. Len(s)
      /\ DOMAIN s = 1 .. Len(s)
  BY DEF String
<1>1. /\ Len(s) >= 2 /\ s[Len(s)] = LF
      /\ \A i \in 1 .. Len(s) : s[i] = LF <=> i > 1 /\ s[i - 1] = CR
      /\ {i \in LineStarts(s) : s[i] = CR} = {Len(s) - 1}
      /\ IsRequestLine(s)
      /\ \A i \in HeaderLines(s) : IsHeader(s, i) \/ (i # SecondLine(s) /\ IsContinuation(s, i))
  BY <1>0 DEF IsRequest, IsLines
<1>2. s[Len(s) - 1] = CR /\ Len(s) - 1 \in LineStarts(s) /\ Len(s) - 1 \in 1 .. Len(s)
  BY <1>0, <1>1
<1>3. \A i \in 1 .. (Len(s) - 1) : s[i] = CR => s[i + 1] = LF
  <2> TAKE i \in 1 .. (Len(s) - 1)
  <2> DEFINE j == i + 1
  <2>1. j \in 1 .. Len(s) /\ j > 1 /\ j - 1 = i
    BY <1>0
  <2> HIDE DEF j
  <2>2. s[i] = CR => s[j] = LF
    BY <1>1, <2>1
  <2> QED BY <2>2 DEF j
<1>4. CASE p.state \in LineStates
  <2> DEFINE e == EndOf(s, 1)
  <2>1. PICK m, u, d : Marks(s, m, u, d, e)
    BY <1>1, <1>2, RequestLineHasMarks
  <2> HIDE DEF e
  <2>2. e \in 1 .. Len(s) /\ s[e] = CR
    BY <2>1 DEF Marks
  <2>3. e \in 1 .. (Len(s) - 1) /\ e < Len(s)
    <3>1. e # Len(s)
      BY <1>1, <2>2, CharFacts
    <3>2. e \in Nat /\ 1 <= e /\ e <= Len(s)
      BY <1>0, <2>2
    <3>3. \A x, y \in Nat : 1 <= x /\ x <= y /\ x # y => x \in 1 .. (y - 1) /\ x < y
      OBVIOUS
    <3>4. Len(s) \in Nat
      BY <1>0
    <3> QED BY <3>1, <3>2, <3>3, <3>4
  <2>4. s[e + 1] = LF
    BY <1>3, <2>2, <2>3
  <2>5. FollowsLine(s, n, p)
    BY <1>4 DEF Follows
  <2> QED BY <1>4, <2>1, <2>3, <2>4, <2>5, LineAccepted
<1>5. CASE p.state \in HeadersStates
  <2>1. FollowsHeaders(s, n, p)
    BY <1>5 DEF Follows
  <2>2. ASSUME NEW b \in 1 .. n, Behind(s, n, b), s[b] # CR
        PROVE  /\ b \in LineStarts(s) /\ b # 1 /\ b # Len(s) - 1 /\ b \in Nat
               /\ IsHeader(s, b) \/ (b # SecondLine(s) /\ IsContinuation(s, b))
    <3>1. /\ b \in LineStarts(s) /\ EndOf(s, 1) + 2 <= b /\ EndOf(s, 1) \in Nat
      BY <1>0, <2>2, BehindFacts
    <3>2. b \in Nat /\ b # 1 /\ b # Len(s) - 1
      BY <1>2, <2>2, <3>1
    <3> QED BY <1>1, <3>1, <3>2 DEF HeaderLines
  <2>3. ASSUME NEW b \in 1 .. n, \A j \in b .. n : s[j] # CR
        PROVE  /\ n + 1 \in Line(s, b) \/ c = CR
               /\ \A j \in b .. n : j \in Line(s, b)
               /\ \A j \in Line(s, b) : j \in b .. Len(s) /\ s[j] # CR
    <3>1. b \in 1 .. Len(s) /\ Len(s) - 1 \in b .. Len(s)
      <4>1. Len(s) - 1 \notin b .. n
        BY <1>2, <2>3
      <4> QED BY <1>0, <4>1
    <3> DEFINE e == EndOf(s, b)
    <3>2. e \in b .. (Len(s) - 1) /\ s[e] = CR /\ \A k \in b .. (e - 1) : s[k] # CR
      BY <1>2, <3>1, EndIsFirst
    <3>3. Line(s, b) = b .. (e - 1)
      BY DEF Line
    <3> HIDE DEF e
    <3>4. e \notin b .. n
      BY <2>3, <3>2
    <3>5. e > n /\ e \in Nat
      BY <1>0, <3>1, <3>2, <3>4
    <3>6. CASE e = n + 1
      BY <1>0, <3>2, <3>3, <3>6
    <3>7. CASE e > n + 1
      BY <1>0, <3>2, <3>3, <3>7
    <3> QED BY <1>0, <3>5, <3>6, <3>7
  <2>4. CASE p.state = "header_line_start"
    <3>1. Behind(s, n, n + 1) /\ p.headers = HeadersUpTo(s, n)
      BY <2>1, <2>4 DEF FollowsHeaders, AtLineStart
    <3>2. /\ n + 1 \in LineStarts(s) /\ EndOf(s, 1) + 2 <= n + 1 /\ EndOf(s, 1) \in Nat
          /\ 0 < EndOf(s, 1) /\ SecondLine(s) = EndOf(s, 1) + 2
      BY <1>0, <3>1, BehindFacts
    <3>3. IF c = CR THEN Keeps(p, q)
          ELSE IF c \in {SP, HT}
          THEN IF p.headers # NoHeaders THEN Keeps(p, q) ELSE q.result = "bad"
          ELSE IF IsToken(c) THEN q.result = p.result ELSE q.result = "bad"
      <4> HIDE DEF c
      <4> QED BY <1>0, <2>4, ConsumeLineStart
    <3> HIDE DEF q
    <3>4. CASE c = CR
      <4>1. q.result = p.result
        BY <3>3, <3>4 DEF Keeps
      <4> QED BY <4>1 DEF q
    <3>5. CASE c # CR
      <4>1. n + 1 # 1 /\ n + 1 # Len(s) - 1
        <5>1. n + 1 # 1
          BY <1>0, <3>2
        <5>2. n + 1 # Len(s) - 1
          BY <1>2, <3>5
        <5> QED BY <5>1, <5>2
      <4>2. n + 1 \in HeaderLines(s)
        BY <3>2, <4>1 DEF HeaderLines
      <4>3. CASE IsHeader(s, n + 1)
        <5>1. PICK k \in Line(s, n + 1) : n + 1 < k /\ \A j \in (n + 1) .. (k - 1) : IsToken(s[j])
          BY <4>3 DEF IsHeader
        <5>2. n + 1 \in (n + 1) .. (k - 1)
          BY <1>0, <5>1 DEF Line
        <5>3. IsToken(c) /\ c \notin {SP, HT}
          BY <5>1, <5>2, CharFacts
        <5>4. q.result = p.result
          BY <3>3, <3>5, <5>3
        <5> QED BY <5>4 DEF q
      <4>4. CASE n + 1 # SecondLine(s) /\ IsContinuation(s, n + 1)
        <5>1. c \in {SP, HT}
          BY <4>4 DEF IsContinuation
        <5>2. p.headers # NoHeaders
          <6> DEFINE g == SecondLine(s)
          <6>1. g \in Nat /\ g < n + 1 /\ g \in 1 .. Len(s) /\ 1 < g /\ g - 1 = EndOf(s, 1) + 1
            BY <1>0, <3>2, <4>4
          <6>2. s[g - 1] = LF
            <7>1. EndOf(s, 1) \in 1 .. (Len(s) - 1)
              BY <1>0, <6>1, <3>2
            <7>2. s[EndOf(s, 1)] = CR
              <8>1. 1 \in 1 .. Len(s) /\ Len(s) - 1 \in 1 .. Len(s)
                BY <1>0, <1>2
              <8> QED BY <1>2, <8>1, EndIsFirst
            <7> QED BY <1>3, <6>1, <7>1, <7>2
          <6>3. g \in LineStarts(s)
            BY <1>0, <6>1, <6>2 DEF LineStarts
          <6>4. IsHeader(s, g)
            BY <3>1, <6>1, <6>3 DEF Behind, IsHeaderLine
          <6> HIDE DEF g
          <6>5. PICK k \in Line(s, g) : g < k /\ \A j \in g .. (k - 1) : IsToken(s[j])
            BY <6>4 DEF IsHeader
          <6>6. IsToken(s[g])
            <7>1. g \in g .. (k - 1)
              BY <6>1, <6>5 DEF Line
            <7> QED BY <6>5, <7>1
          <6>7. g \in Heads(s)
            BY <6>1, <6>3, <6>6, CharFacts DEF Heads
          <6>8. Name(s, g) \in DOMAIN HeadersUpTo(s, n)
            BY <1>0, <6>1, <6>7 DEF HeadersUpTo, HeadsUpTo
          <6>9. DOMAIN NoHeaders = {}
            BY DEF NoHeaders
          <6> QED BY <3>1, <6>8, <6>9
        <5>3. q.result = p.result
          BY <3>3, <3>5, <5>1, <5>2 DEF Keeps
        <5> QED BY <5>3 DEF q
      <4> QED BY <1>1, <4>2, <4>3, <4>4
    <3> QED BY <3>4, <3>5
  <2>5. CASE p.state = "header_name"
    <3>1. PICK b \in 1 .. n : Behind(s, n, b) /\ Tokens(s, b, n)
      BY <2>1, <2>5 DEF FollowsHeaders, AtName
    <3>2. b \in b .. n /\ (\A j \in b .. n : IsToken(s[j]) /\ s[j] # CR)
      BY <1>0, <3>1, CharFacts DEF Tokens
    <3>3. IsHeader(s, b)
      <4>1. ~IsContinuation(s, b)
        BY <3>2, CharFacts DEF IsContinuation
      <4> QED BY <2>2, <3>1, <3>2, <4>1
    <3>4. PICK k \in Line(s, b) :
            s[k] = Colon /\ b < k /\ \A j \in b .. (k - 1) : IsToken(s[j])
      BY <3>3 DEF IsHeader
    <3>5. k \notin b .. n /\ k \in b .. Len(s)
      BY <2>3, <3>2, <3>4, CharFacts
    <3>6. c = Colon \/ IsToken(c)
      <4>1. CASE k = n + 1
        BY <3>4, <4>1
      <4>2. CASE k # n + 1
        <5>1. n + 1 \in b .. (k - 1)
          BY <1>0, <3>5, <4>2
        <5> QED BY <3>4, <5>1
      <4> QED BY <4>1, <4>2
    <3>7. IF c = Colon THEN Keeps(p, q) ELSE IF IsToken(c) THEN q.result = p.result ELSE q.result = "bad"
      <4> HIDE DEF c
      <4> QED BY <1>0, <2>5, ConsumeName
    <3> HIDE DEF q
    <3>8. q.result = p.result
      BY <3>6, <3>7 DEF Keeps
    <3> QED BY <3>8 DEF q
  <2>6. CASE p.state = "space_before_header_value"
    <3>1. PICK b \in 1 .. (n - 1) : Behind(s, n, b) /\ Tokens(s, b, n - 1) /\ s[n] = Colon
      BY <2>1, <2>6 DEF FollowsHeaders, AtColon
    <3>2. b \in 1 .. n /\ b \in b .. n /\ \A j \in b .. n : s[j] # CR
      <4>1. \A j \in b .. n : j \in b .. (n - 1) \/ j = n
        BY <1>0
      <4> QED BY <1>0, <3>1, <4>1, CharFacts DEF Tokens
    <3>3. IsHeader(s, b)
      <4>1. b \in b .. (n - 1)
        BY <1>0
      <4>2. ~IsContinuation(s, b)
        BY <3>1, <4>1, CharFacts DEF IsContinuation, Tokens
      <4> QED BY <2>2, <3>1, <3>2, <4>2
    <3>4. PICK k \in Line(s, b) :
            s[k] = Colon /\ s[k + 1] = SP /\ b < k /\ \A j \in b .. (k - 1) : IsToken(s[j])
      BY <3>3 DEF IsHeader
    <3>5. k = n
      <4>1. k \notin b .. (n - 1) /\ k \in b .. Len(s)
        BY <2>3, <3>1, <3>2, <3>4, CharFacts DEF Tokens
      <4>2. n \notin b .. (k - 1)
        BY <3>1, <3>4, CharFacts
      <4> QED BY <1>0, <4>1, <4>2
    <3>6. c = SP
      BY <3>4, <3>5
    <3>7. IF c = SP THEN Keeps(p, q) ELSE q.result = "bad"
      <4> HIDE DEF c
      <4>1. \A x \in DOMAIN Fixed : p.state = x =>
              IF c = Fixed[x].char THEN q.state = Fixed[x].next /\ Keeps(p, q) ELSE q.result = "bad"
        BY <1>0, ConsumeFixed
      <4> HIDE DEF q
      <4> QED BY <2>6, <4>1, FixedIs
    <3> HIDE DEF q
    <3>8. q.result = p.result
      BY <3>6, <3>7 DEF Keeps
    <3> QED BY <3>8 DEF q
  <2>7. CASE p.state \in {"header_value", "header_lws"}
    <3>1. IF c = CR THEN q.result = p.result
          ELSE IF p.state = "header_lws" /\ c \in {SP, HT} THEN Keeps(p, q)
          ELSE IF IsText(c) THEN q.result = p.result ELSE q.result = "bad"
      <4> HIDE DEF c
      <4> QED BY <1>0, <2>7, ConsumeValue
    <3>2. c = CR \/ (p.state = "header_lws" /\ c \in {SP, HT}) \/ IsText(c)
      <4>1. CASE p.state = "header_lws"
        <5>1. PICK b \in 1 .. n : Behind(s, n, b) /\ \A j \in b .. n : s[j] \in {SP, HT}
          BY <2>1, <4>1 DEF FollowsHeaders, AtBlanks
        <5>2. b \in b .. n /\ \A j \in b .. n : s[j] # CR
          BY <1>0, <5>1, CharFacts
        <5>3. IsContinuation(s, b)
          <6>1. ~IsHeader(s, b)
            <7> SUFFICES ASSUME NEW k \in Line(s, b), b < k, \A j \in b .. (k - 1) : IsToken(s[j])
                         PROVE  FALSE
              BY DEF IsHeader
            <7>1. b \in b .. (k - 1)
              BY <2>3, <5>2
            <7> QED BY <5>1, <5>2, <7>1, CharFacts
          <6> QED BY <2>2, <5>1, <5>2, <6>1
        <5>4. CASE n + 1 \in Line(s, b)
          <6>1. n + 1 \in b .. (n + 1)
            BY <1>0
          <6>2. c \notin {SP, HT} => IsText(c)
            BY <5>3, <5>4, <6>1 DEF IsContinuation
          <6> QED BY <4>1, <6>2
        <5> QED BY <2>3, <5>2, <5>4
      <4>2. CASE p.state = "header_value"
        <5>1. PICK b \in 1 .. n : Behind(s, n, b) /\ (InHeader(s, b, n) \/ InContinuation(s, b, n))
          BY <2>1, <4>2 DEF FollowsHeaders, AtValue
        <5>2. CASE InHeader(s, b, n)
          <6>1. PICK k \in (b + 1) .. (n - 1) :
                  /\ Tokens(s, b, k - 1) /\ s[k] = Colon
                  /\ \A j \in (k + 1) .. n : IsText(s[j])
            BY <5>2 DEF InHeader
          <6>2. \A j \in b .. n : s[j] # CR
            <7> TAKE j \in b .. n
            <7>1. j \in b .. (k - 1) \/ j = k \/ j \in (k + 1) .. n
              BY <1>0
            <7> QED BY <6>1, <7>1, CharFacts DEF Tokens
          <6>3. b \in b .. n /\ b \in b .. (k - 1)
            BY <1>0
          <6>4. IsHeader(s, b)
            <7>1. ~IsContinuation(s, b)
              BY <6>1, <6>3, CharFacts DEF IsContinuation, Tokens
            <7> QED BY <2>2, <5>1, <6>2, <6>3, <7>1
          <6>5. PICK f \in Line(s, b) :
                  /\ s[f] = Colon /\ b < f /\ \A j \in b .. (f - 1) : IsToken(s[j])
                  /\ \A j \in Line(s, b) : f < j => IsText(s[j])
            BY <6>4 DEF IsHeader
          <6>6. f = k
            <7>1. f \notin b .. (k - 1) /\ f \in b .. Len(s)
              BY <2>3, <6>1, <6>2, <6>5, CharFacts DEF Tokens
            <7>2. k \notin b .. (f - 1)
              BY <6>1, <6>5, CharFacts
            <7> QED BY <1>0, <7>1, <7>2
          <6>7. n + 1 \in Line(s, b) => IsText(c)
            <7>1. k < n + 1
              BY <1>0
            <7> QED BY <6>5, <6>6, <7>1
          <6> QED BY <2>3, <6>2, <6>7
        <5>3. CASE InContinuation(s, b, n)
          <6>1. PICK k \in b .. n :
                  /\ s[k] \notin {SP, HT} /\ (\A j \in b .. (k - 1) : s[j] \in {SP, HT})
                  /\ \A j \in k .. n : IsText(s[j])
            BY <5>3 DEF InContinuation
          <6>2. s[b] \in {SP, HT} /\ b \in b .. n
            BY <1>0, <5>3 DEF InContinuation
          <6>3. \A j \in b .. n : s[j] # CR
            <7> TAKE j \in b .. n
            <7>1. j \in b .. (k - 1) \/ j \in k .. n
              BY <1>0
            <7> QED BY <6>1, <7>1, CharFacts
          <6>4. IsContinuation(s, b)
            <7>1. ~IsHeader(s, b)
              <8> SUFFICES ASSUME NEW i \in Line(s, b), b < i, \A j \in b .. (i - 1) : IsToken(s[j])
                           PROVE  FALSE
                BY DEF IsHeader
              <8>1. b \in b .. (i - 1)
                BY <2>3, <6>3
              <8> QED BY <6>2, <8>1, CharFacts
            <7> QED BY <2>2, <5>1, <6>2, <6>3, <7>1
          <6>5. n + 1 \in Line(s, b) => IsText(c)
            <7>1. k \in b .. (n + 1)
              BY <1>0
            <7> QED BY <6>1, <6>4, <7>1 DEF IsContinuation
          <6> QED BY <2>3, <6>3, <6>5
        <5> QED BY <5>1, <5>2, <5>3
      <4> QED BY <2>7, <4>1, <4>2
    <3> HIDE DEF c, q
    <3>3. q.result = p.result
      BY <3>1, <3>2 DEF Keeps
    <3> QED BY <3>3 DEF q, c
  <2>8. CASE p.state \in {"expecting_newline_2", "expecting_newline_3"}
    <3>1. s[n] = CR /\ n >= 1
      <4>1. CASE p.state = "expecting_newline_2"
        <5>1. PICK b \in 1 .. (n - 1) : s[n] = CR
          BY <2>1, <4>1 DEF FollowsHeaders, AtReturn
        <5> QED BY <1>0, <5>1
      <4>2. CASE p.state = "expecting_newline_3"
        <5>1. Behind(s, n, n) /\ s[n] = CR
          BY <2>1, <4>2 DEF FollowsHeaders, AtLast
        <5>2. EndOf(s, 1) \in Nat /\ EndOf(s, 1) < n
          BY <1>0, <5>1, BehindFacts
        <5> QED BY <1>0, <5>1, <5>2
      <4> QED BY <2>8, <4>1, <4>2
    <3>2. c = LF
      <4>1. n \in 1 .. (Len(s) - 1)
        BY <1>0, <3>1
      <4> QED BY <1>3, <3>1, <4>1
    <3>3. CASE p.state = "expecting_newline_2"
      <4>1. IF c = LF THEN Keeps(p, q) ELSE q.result = "bad"
        <5> HIDE DEF c
        <5>1. \A x \in DOMAIN Fixed : p.state = x =>
                IF c = Fixed[x].char THEN q.state = Fixed[x].next /\ Keeps(p, q) ELSE q.result = "bad"
          BY <1>0, ConsumeFixed
        <5> HIDE DEF q
        <5> QED BY <3>3, <5>1, FixedIs
      <4> HIDE DEF q
      <4>2. q.result = p.result
        BY <3>2, <4>1 DEF Keeps
      <4> QED BY <4>2 DEF q
    <3>4. CASE p.state = "expecting_newline_3"
      <4>1. c = LF => q.result = "good"
        <5> HIDE DEF c
        <5> QED BY <1>0, <3>4, ConsumeLast
      <4> QED BY <3>2, <4>1
    <3> QED BY <2>8, <3>3, <3>4
  <2> QED BY <1>5, <2>4, <2>5, <2>6, <2>7, <2>8 DEF HeadersStates
<1> QED BY <1>4, <1>5, StatesAre DEF ParserType

-----------------------------------------------------------------------------
(* What the parser makes of a string.                                      *)

\* The parser behind n characters of s.
Parsed(s, n) == parse(NewParser, Prefix(s, n))

\* The parser behind a string is consume of the last character, unless it has decided.
LEMMA ParsedRun ==
  ASSUME NEW s \in String
  PROVE  /\ Parsed(s, 0) = NewParser
         /\ \A n \in 0 .. (Len(s) - 1) : Parsed(s, n + 1) = Round(Parsed(s, n), s[n + 1])
         /\ \A n \in 0 .. Len(s) : Parsed(s, n) \in ParserType
<1>1. Parsed(s, 0) = NewParser
  BY ParseRun, NewParserType DEF Parsed
<1>2. \A n \in 0 .. (Len(s) - 1) : Parsed(s, n + 1) = Round(Parsed(s, n), s[n + 1])
  BY ParseRun DEF Parsed
<1> DEFINE S == {n \in 0 .. Len(s) : Parsed(s, n) \in ParserType}
<1>3. Len(s) \in Nat
  BY DEF String
<1>4. 0 \in S
  BY <1>1, <1>3, NewParserType
<1>5. ASSUME NEW n \in 0 .. (Len(s) - 1), n \in S PROVE n + 1 \in S
  <2>1. n + 1 \in 0 .. Len(s) /\ s[n + 1] \in Int
    BY <1>3 DEF String
  <2>2. Parsed(s, n) \in ParserType
    BY <1>5
  <2>3. consume(Parsed(s, n), s[n + 1]) \in ParserType
    BY <2>1, <2>2, ConsumeType
  <2> QED BY <1>2, <2>1, <2>2, <2>3 DEF Round
<1> HIDE DEF S
<1>6. \A n \in 0 .. Len(s) : n \in S
  BY <1>3, <1>4, <1>5, UpTo
<1> QED BY <1>1, <1>2, <1>6 DEF S

\* As long as the parser goes on, it follows the string.
LEMMA FollowsParsed ==
  ASSUME NEW s \in String, NEW n \in 0 .. Len(s), Parsed(s, n).result = "indeterminate"
  PROVE  Follows(s, n, Parsed(s, n))
<1> DEFINE S == {k \in 0 .. Len(s) :
                   Parsed(s, k).result = "indeterminate" => Follows(s, k, Parsed(s, k))}
<1>1. Len(s) \in Nat
  BY DEF String
<1>2. 0 \in S
  <2>1. Follows(s, 0, NewParser)
    BY DEF Follows, FollowsLine, AtStart, NewParser, VersionStates, HeadersStates
  <2>2. Parsed(s, 0) = NewParser
    BY ParsedRun
  <2> QED BY <1>1, <2>1, <2>2
<1>3. ASSUME NEW k \in 0 .. (Len(s) - 1), k \in S PROVE k + 1 \in S
  <2>1. k + 1 \in 0 .. Len(s) /\ k \in 0 .. Len(s)
    BY <1>1
  <2> SUFFICES ASSUME Parsed(s, k + 1).result = "indeterminate"
               PROVE  Follows(s, k + 1, Parsed(s, k + 1))
    BY <2>1
  <2>2. Parsed(s, k + 1) = Round(Parsed(s, k), s[k + 1]) /\ Parsed(s, k) \in ParserType
    BY <2>1, ParsedRun
  <2>3. Parsed(s, k).result = "indeterminate" /\ Parsed(s, k + 1) = consume(Parsed(s, k), s[k + 1])
    BY <2>2 DEF Round
  <2>4. Follows(s, k, Parsed(s, k))
    BY <1>3, <2>3
  <2>5. \A p \in ParserType : p.result = "indeterminate" /\ Follows(s, k, p) =>
          LET q == consume(p, s[k + 1])
          IN  q.result = "indeterminate" => Follows(s, k + 1, q)
    <3> TAKE p \in ParserType
    <3> HAVE p.result = "indeterminate" /\ Follows(s, k, p)
    <3> DEFINE q == consume(p, s[k + 1])
    <3> SUFFICES ASSUME q.result = "indeterminate" PROVE Follows(s, k + 1, q)
      OBVIOUS
    <3>1. q.result # "bad" /\ q.result # "good"
      OBVIOUS
    <3> QED BY <3>1, FollowStep
  <2> HIDE DEF Parsed
  <2> QED BY <2>2, <2>3, <2>4, <2>5
<1> HIDE DEF S
<1>4. \A k \in 0 .. Len(s) : k \in S
  BY <1>1, <1>2, <1>3, UpTo
<1> QED BY <1>4 DEF S

\* Where the parser says "good" for the first time there is a request, and the
\* fields that it has filled in are what the request says.
LEMMA GoodIsRequest ==
  ASSUME NEW s \in String, NEW n \in Nat, n + 1 = Len(s),
         Parsed(s, n).result = "indeterminate", Parsed(s, n + 1).result = "good"
  PROVE  /\ IsRequest(s)
         /\ Parsed(s, n + 1).method = Method(s) /\ Parsed(s, n + 1).uri = Uri(s)
         /\ Parsed(s, n + 1).headers = Headers(s)
<1>0. n \in 0 .. (Len(s) - 1) /\ n \in 0 .. Len(s)
  OBVIOUS
<1>1. \A p \in ParserType :
        p.result = "indeterminate" /\ Follows(s, n, p) /\ consume(p, s[n + 1]).result = "good" =>
          LET q == consume(p, s[n + 1])
          IN  /\ IsRequest(s) /\ q.method = Method(s) /\ q.uri = Uri(s)
              /\ q.headers = Headers(s)
  <2> TAKE p \in ParserType
  <2> DEFINE q == consume(p, s[n + 1])
  <2> HAVE p.result = "indeterminate" /\ Follows(s, n, p) /\ q.result = "good"
  <2>1. q.result # "bad" /\ q.result # "indeterminate"
    OBVIOUS
  <2>2. /\ s[n + 1] = LF /\ AtLast(s, n, p)
        /\ q.method = Method(s) /\ q.uri = Uri(s) /\ q.headers = HeadersUpTo(s, n)
    BY <1>0, <2>1, FollowStep
  <2>3. IsRequest(s) /\ HeadersUpTo(s, n) = Headers(s)
    BY <2>2, LastLine
  <2> QED BY <2>2, <2>3
<1>2. Parsed(s, n + 1) = Round(Parsed(s, n), s[n + 1]) /\ Parsed(s, n) \in ParserType
  BY <1>0, ParsedRun
<1>3. Parsed(s, n + 1) = consume(Parsed(s, n), s[n + 1])
  BY <1>2 DEF Round
<1>4. Follows(s, n, Parsed(s, n))
  BY <1>0, FollowsParsed
<1> QED BY <1>1, <1>2, <1>3, <1>4

\* The states in which LF is accepted.
LEMMA ConsumeLF ==
  ASSUME NEW p \in ParserType, consume(p, LF).result # "bad"
  PROVE  p.state \in {"expecting_newline_1", "expecting_newline_2", "expecting_newline_3"}
<1>1. /\ LF \in Int /\ ~ IsToken(LF) /\ ~ IsText(LF) /\ ~ is_digit(LF) /\ LF # SP /\ LF # CR
      /\ LF # HT /\ LF # Colon /\ LF # Dot /\ LF # 72 /\ LF # 84 /\ LF # 80 /\ LF # Slash
  BY CharFacts DEF IsToken, IsText, is_char, is_ctl, is_digit, LF, SP, CR, HT, Colon, Dot, Slash
<1>2. p.state \in States
  BY DEF ParserType
<1>3. p.state \notin {"method_start", "method"}
  BY <1>1, ConsumeMethod
<1>4. p.state # "uri"
  BY <1>1, ConsumeUri
<1>5. /\ p.state # "http_version_major_start" /\ p.state # "http_version_major"
      /\ p.state # "http_version_minor_start" /\ p.state # "http_version_minor"
  BY <1>1, ConsumeVersion
<1>6. p.state # "header_line_start"
  BY <1>1, ConsumeLineStart
<1>7. p.state # "header_name"
  BY <1>1, ConsumeName
<1>8. p.state \notin {"header_lws", "header_value"}
  BY <1>1, ConsumeValue
<1>9. \A x \in DOMAIN Fixed : p.state = x => LF = Fixed[x].char
  BY <1>1, ConsumeFixed
<1>10. p.state \notin {"http_version_h", "http_version_t_1", "http_version_t_2", "http_version_p",
         "http_version_slash", "space_before_header_value"}
  BY <1>1, <1>9, FixedIs
<1> QED BY <1>2, <1>3, <1>4, <1>5, <1>6, <1>7, <1>8, <1>10, FixedIs DEF States, HeaderStates

\* Every request is parsed to its end, and not decided before.
LEMMA RequestIsGood ==
  ASSUME NEW s \in String, IsRequest(s)
  PROVE  /\ Len(s) >= 2
         /\ \A k \in 0 .. (Len(s) - 1) : Parsed(s, k).result = "indeterminate"
         /\ Parsed(s, Len(s)).result = "good"
<1>0. Len(s) \in Nat /\ Len(s) >= 2 /\ s[Len(s)] = LF
      /\ {i \in LineStarts(s) : s[i] = CR} = {Len(s) - 1}
  BY DEF IsRequest, IsLines, String
<1> DEFINE S == {k \in 0 .. (Len(s) - 1) : Parsed(s, k).result = "indeterminate"}
<1>1. 0 \in S
  <2>1. Parsed(s, 0) = NewParser
    BY ParsedRun
  <2> QED BY <1>0, <2>1 DEF NewParser
<1>2. ASSUME NEW k \in 0 .. (Len(s) - 1), NEW p \in ParserType, p.result = "indeterminate",
             Follows(s, k, p), consume(p, s[k + 1]).result = "good"
      PROVE  k = Len(s) - 1
  <2>1. consume(p, s[k + 1]).result # "bad" /\ consume(p, s[k + 1]).result # "indeterminate"
    BY <1>2
  <2>2. AtLast(s, k, p)
    BY <1>2, <2>1, FollowStep
  <2>3. Behind(s, k, k) /\ s[k] = CR
    BY <2>2 DEF AtLast
  <2>4. k \in 0 .. Len(s) /\ k <= Len(s)
    BY <1>0
  <2>5. k \in LineStarts(s)
    BY <2>3, <2>4, BehindFacts
  <2> QED BY <1>0, <2>3, <2>5
<1>3. ASSUME NEW k \in 0 .. (Len(s) - 1), Parsed(s, k).result = "indeterminate"
      PROVE  /\ Parsed(s, k) \in ParserType /\ Follows(s, k, Parsed(s, k))
             /\ Parsed(s, k + 1) = consume(Parsed(s, k), s[k + 1])
             /\ Parsed(s, k + 1).result # "bad"
  <2>1. k \in 0 .. Len(s)
    BY <1>0
  <2>2. Parsed(s, k) \in ParserType /\ Parsed(s, k + 1) = Round(Parsed(s, k), s[k + 1])
    BY <2>1, ParsedRun
  <2>3. Follows(s, k, Parsed(s, k))
    BY <1>3, <2>1, FollowsParsed
  <2>4. Parsed(s, k + 1) = consume(Parsed(s, k), s[k + 1])
    BY <1>3, <2>2 DEF Round
  <2>5. consume(Parsed(s, k), s[k + 1]).result # "bad"
    BY <1>3, <2>2, <2>3, RequestAccepted
  <2> QED BY <2>2, <2>3, <2>4, <2>5
<1>4. ASSUME NEW k \in 0 .. (Len(s) - 2), k \in S PROVE k + 1 \in S
  <2>1. k + 1 \in 0 .. (Len(s) - 1) /\ k + 1 \in 0 .. Len(s) /\ k \in 0 .. (Len(s) - 1)
        /\ k # Len(s) - 1
    BY <1>0
  <2>2. Parsed(s, k).result = "indeterminate"
    BY <1>4
  <2>3. /\ Parsed(s, k) \in ParserType /\ Follows(s, k, Parsed(s, k))
        /\ Parsed(s, k + 1) = consume(Parsed(s, k), s[k + 1])
        /\ Parsed(s, k + 1).result # "bad"
    BY <1>3, <2>1, <2>2
  <2>4. Parsed(s, k + 1).result # "good"
    BY <1>2, <2>1, <2>2, <2>3
  <2>5. Parsed(s, k + 1) \in ParserType
    BY <2>1, ParsedRun
  <2>6. Parsed(s, k + 1).result \in {"indeterminate", "good", "bad"}
    BY <2>5 DEF ParserType
  <2> QED BY <2>1, <2>3, <2>4, <2>6
<1> DEFINE N == Len(s) - 1
<1>5. N \in Nat /\ N - 1 = Len(s) - 2 /\ N \in 0 .. (Len(s) - 1) /\ N + 1 = Len(s) /\ N \in 0 .. Len(s)
      /\ 0 .. (N - 1) = 0 .. (Len(s) - 2) /\ 0 .. N = 0 .. (Len(s) - 1) /\ N >= 1
  BY <1>0
<1> HIDE DEF S, N
<1>6. \A k \in 0 .. N : k \in S
  <2>1. \A k \in 0 .. (N - 1) : k \in S => k + 1 \in S
    BY <1>4, <1>5
  <2> QED BY <1>1, <1>5, <2>1, UpTo
<1>7. \A k \in 0 .. (Len(s) - 1) : Parsed(s, k).result = "indeterminate"
  BY <1>5, <1>6 DEF S
<1>8. ASSUME NEW p \in ParserType, p.result = "indeterminate", Follows(s, N, p),
             consume(p, s[N + 1]).result # "bad"
      PROVE  p.state = "expecting_newline_3"
  <2>1. s[N + 1] = LF
    BY <1>0, <1>5
  <2>2. p.state \in {"expecting_newline_1", "expecting_newline_2", "expecting_newline_3"}
    BY <1>8, <2>1, ConsumeLF
  <2>3. N \in LineStarts(s) /\ s[N] = CR
    BY <1>0, <1>5 DEF N
  <2>4. p.state # "expecting_newline_1"
    <3> SUFFICES ASSUME p.state = "expecting_newline_1" PROVE FALSE
      OBVIOUS
    <3>1. FollowsLine(s, N, p)
      BY <1>8 DEF Follows, LineStates, VersionStates
    <3>2. PICK m, u, d : Marks(s, m, u, d, N)
      BY <1>5, <3>1, LineEnd
    <3>3. /\ m \in Nat /\ u \in Nat /\ d \in Nat /\ 1 < m /\ m < u /\ u + 6 < d /\ d < N - 1
          /\ \A i \in 1 .. (N - 1) : s[i] # CR /\ s[i] # LF
      BY <3>2, MarksText
    <3>4. N # 1 /\ N - 1 \in 1 .. (N - 1)
      BY <1>5, <3>3
    <3>5. s[N - 1] = LF
      BY <2>3, <3>4 DEF LineStarts
    <3> QED BY <3>3, <3>4, <3>5
  <2>5. p.state # "expecting_newline_2"
    <3> SUFFICES ASSUME p.state = "expecting_newline_2" PROVE FALSE
      OBVIOUS
    <3>1. AtReturn(s, N, p)
      BY <1>8 DEF Follows, HeadersStates, FollowsHeaders
    <3>2. PICK b \in 1 .. (N - 1) : Behind(s, N, b)
      BY <3>1 DEF AtReturn
    <3>3. N # 1 /\ N - 1 \in b .. N
      BY <1>5, <3>2
    <3>4. s[N - 1] = LF
      BY <2>3, <3>3 DEF LineStarts
    <3> QED BY <3>2, <3>3, <3>4 DEF Behind
  <2> QED BY <2>2, <2>4, <2>5
<1>9. Parsed(s, Len(s)).result = "good"
  <2>1. Parsed(s, N).result = "indeterminate"
    BY <1>5, <1>7
  <2>2. /\ Parsed(s, N) \in ParserType /\ Follows(s, N, Parsed(s, N))
        /\ Parsed(s, N + 1) = consume(Parsed(s, N), s[N + 1])
        /\ Parsed(s, N + 1).result # "bad"
    BY <1>3, <1>5, <2>1
  <2>3. Parsed(s, N).state = "expecting_newline_3"
    BY <1>8, <2>1, <2>2
  <2>4. consume(Parsed(s, N), s[N + 1]).result = "good"
    BY <1>5, <2>1, <2>2, <2>3, FollowStep
  <2> QED BY <1>5, <2>2, <2>4
<1> QED BY <1>0, <1>7, <1>9

-----------------------------------------------------------------------------
(* Where the parser decides.                                               *)

\* The parser behind a part of a prefix.
LEMMA ParsedPrefix ==
  ASSUME NEW s \in String, NEW m \in 0 .. Len(s), NEW k \in 0 .. m
  PROVE  Parsed(Prefix(s, m), k) = Parsed(s, k)
  BY PrefixOfPrefix DEF Parsed

\* Once decided, always decided.
LEMMA ParsedStays ==
  ASSUME NEW s \in String, NEW n \in 0 .. Len(s), Parsed(s, n).result # "indeterminate"
  PROVE  \A m \in n .. Len(s) : Parsed(s, m) = Parsed(s, n)
<1>0. Len(s) \in Nat /\ n \in Nat /\ n <= Len(s)
  BY DEF String
<1> DEFINE S == {k \in 0 .. (Len(s) - n) : Parsed(s, n + k) = Parsed(s, n)}
           N == Len(s) - n
<1>1. 0 \in S /\ N \in Nat
  BY <1>0
<1>2. ASSUME NEW k \in 0 .. (N - 1), k \in S PROVE k + 1 \in S
  <2> DEFINE m == n + k
  <2>1. m \in 0 .. (Len(s) - 1) /\ m + 1 = n + (k + 1) /\ k + 1 \in 0 .. (Len(s) - n)
    BY <1>0
  <2>2. Parsed(s, m) = Parsed(s, n)
    BY <1>2
  <2> HIDE DEF m
  <2>3. Parsed(s, m + 1) = Round(Parsed(s, m), s[m + 1])
    BY <2>1, ParsedRun
  <2>4. Parsed(s, m + 1) = Parsed(s, n)
    BY <2>2, <2>3 DEF Round
  <2> QED BY <2>1, <2>4
<1> HIDE DEF S, N
<1>3. \A k \in 0 .. N : k \in S
  BY <1>1, <1>2, UpTo
<1> SUFFICES ASSUME NEW m \in n .. Len(s) PROVE Parsed(s, m) = Parsed(s, n)
  OBVIOUS
<1> DEFINE k == m - n
<1>4. k \in 0 .. N /\ n + k = m
  BY <1>0 DEF N
<1> HIDE DEF k
<1> QED BY <1>3, <1>4 DEF S

\* The request that a prefix of a string is.
LEMMA PrefixIsRequest ==
  ASSUME NEW s \in String, NEW n \in 1 .. Len(s), IsRequest(Prefix(s, n))
  PROVE  /\ \A k \in 0 .. (n - 1) : Parsed(s, k).result = "indeterminate"
         /\ Parsed(s, n).result = "good" /\ Parsed(s, Len(s)) = Parsed(s, n)
         /\ Parsed(s, n).method = Method(Prefix(s, n)) /\ Parsed(s, n).uri = Uri(Prefix(s, n))
         /\ Parsed(s, n).headers = Headers(Prefix(s, n))
<1> DEFINE t == Prefix(s, n)
           m == n - 1
<1>0. Len(s) \in Nat /\ n \in Nat /\ n \in 0 .. Len(s) /\ n \in 0 .. n /\ m \in Nat /\ m + 1 = n
      /\ m \in 0 .. n /\ Len(s) \in n .. Len(s)
  BY DEF String
<1>1. t \in String /\ Len(t) = n
  BY <1>0, PrefixFacts
<1>2. \A k \in 0 .. n : Parsed(t, k) = Parsed(s, k)
  BY <1>0, ParsedPrefix
<1>3. /\ \A k \in 0 .. (Len(t) - 1) : Parsed(t, k).result = "indeterminate"
      /\ Parsed(t, Len(t)).result = "good"
  BY <1>1, RequestIsGood
<1>4. \A k \in 0 .. m : k \in 0 .. n
  BY <1>0
<1> HIDE DEF t
<1>5. \A k \in 0 .. (n - 1) : Parsed(s, k).result = "indeterminate"
  <2>1. \A k \in 0 .. m : Parsed(t, k).result = "indeterminate"
    BY <1>1, <1>3
  <2> QED BY <1>2, <1>4, <2>1
<1>6. Parsed(s, n).result = "good" /\ Parsed(t, n) = Parsed(s, n)
  BY <1>0, <1>1, <1>2, <1>3
<1>7. m + 1 = Len(t) /\ Parsed(t, m).result = "indeterminate"
      /\ Parsed(t, m + 1).result = "good" /\ Parsed(t, m + 1) = Parsed(s, n)
  BY <1>0, <1>1, <1>3, <1>6
<1> HIDE DEF m
<1>8. /\ Parsed(t, m + 1).method = Method(t) /\ Parsed(t, m + 1).uri = Uri(t)
      /\ Parsed(t, m + 1).headers = Headers(t)
  BY <1>0, <1>1, <1>7, GoodIsRequest
<1>9. Parsed(s, Len(s)) = Parsed(s, n)
  <2>1. Parsed(s, n).result # "indeterminate"
    BY <1>6
  <2> QED BY <1>0, <2>1, ParsedStays
<1> QED BY <1>5, <1>6, <1>7, <1>8, <1>9 DEF t

\* What is accepted begins with a request.
LEMMA GoodHasRequest ==
  ASSUME NEW s \in String, Parsed(s, Len(s)).result = "good"
  PROVE  \E n \in 1 .. Len(s) : IsRequest(Prefix(s, n))
<1> DEFINE S == {k \in 0 .. Len(s) : Parsed(s, k).result # "indeterminate"}
<1>0. Len(s) \in Nat
  BY DEF String
<1>1. S \in SUBSET Nat /\ Len(s) \in S
  BY <1>0
<1>2. PICK n \in S : \A k \in S : n <= k
  <2> HIDE DEF S
  <2> QED BY <1>1, LeastNat
<1>3. n \in 0 .. Len(s) /\ Parsed(s, n).result # "indeterminate"
  BY <1>2
<1>4. n # 0
  <2>1. Parsed(s, 0) = NewParser
    BY ParsedRun
  <2> QED BY <1>3, <2>1 DEF NewParser
<1> DEFINE m == n - 1
           t == Prefix(s, n)
<1>5. n \in Nat /\ n \in 1 .. Len(s) /\ m \in Nat /\ m + 1 = n /\ ~ (n <= m) /\ m \in 0 .. Len(s)
      /\ n \in 0 .. n /\ m \in 0 .. n /\ Len(s) \in n .. Len(s)
  BY <1>0, <1>3, <1>4
<1>6. Parsed(s, m).result = "indeterminate"
  <2>1. m \notin S
    <3> HIDE DEF S, m
    <3> QED BY <1>2, <1>5
  <2> QED BY <1>5, <2>1
<1>7. Parsed(s, Len(s)) = Parsed(s, n)
  BY <1>3, <1>5, ParsedStays
<1>8. t \in String /\ Len(t) = n
  BY <1>3, PrefixFacts
<1>9. Parsed(t, m) = Parsed(s, m) /\ Parsed(t, n) = Parsed(s, n)
  BY <1>3, <1>5, ParsedPrefix
<1> HIDE DEF t, m
<1>10. IsRequest(t)
  BY <1>5, <1>6, <1>7, <1>8, <1>9, GoodIsRequest
<1> QED BY <1>5, <1>10 DEF t

-----------------------------------------------------------------------------
(* What can go on.                                                         *)

\* The states in which the parser accepts Sample from i on.
OnWay(i, x) ==
  \/ i = 1 /\ x \in {"method_start", "method"}
  \/ i = 2 /\ x = "method"
  \/ i \in {3, 4} /\ x = "uri"
  \/ i = 5 /\ x = "http_version_h"
  \/ i = 6 /\ x = "http_version_t_1"
  \/ i = 7 /\ x = "http_version_t_2"
  \/ i = 8 /\ x = "http_version_p"
  \/ i = 9 /\ x = "http_version_slash"
  \/ i = 10 /\ x = "http_version_major_start"
  \/ i = 11 /\ x = "http_version_major"
  \/ i = 12 /\ x = "http_version_minor_start"
  \/ i = 13 /\ x = "http_version_minor"
  \/ i = 14 /\ x = "expecting_newline_1"
  \/ i \in {15, 21} /\ x = "header_line_start"
  \/ i = 16 /\ x = "header_name"
  \/ i = 17 /\ x = "space_before_header_value"
  \/ i \in {18, 19} /\ x \in {"header_lws", "header_value"}
  \/ i = 20 /\ x = "expecting_newline_2"
  \/ i = 22 /\ x = "expecting_newline_3"

\* The characters of the sample.
LEMMA SampleIs ==
  /\ Sample \in String /\ Len(Sample) = 22
  /\ Sample[1] = 71 /\ Sample[2] = SP /\ Sample[3] = Slash /\ Sample[4] = SP
  /\ Sample[5] = 72 /\ Sample[6] = 84 /\ Sample[7] = 84 /\ Sample[8] = 80 /\ Sample[9] = Slash
  /\ Sample[10] = 49 /\ Sample[11] = Dot /\ Sample[12] = 48 /\ Sample[13] = CR /\ Sample[14] = LF
  /\ Sample[15] = 65 /\ Sample[16] = Colon /\ Sample[17] = SP /\ Sample[18] = 98
  /\ Sample[19] = CR /\ Sample[20] = LF /\ Sample[21] = CR /\ Sample[22] = LF
  BY DEF Sample, String, SP, Slash, Dot, CR, LF, Colon

\* What kinds of characters they are.
LEMMA SampleChars ==
  /\ IsToken(71) /\ IsToken(65) /\ IsText(98) /\ IsText(Slash) /\ is_digit(49) /\ is_digit(48)
  /\ ~ IsToken(SP) /\ Slash # SP /\ ~ is_digit(Dot) /\ ~ is_digit(CR) /\ Colon # CR
  /\ 65 \notin {CR, SP, HT} /\ 98 \notin {CR, SP, HT}
  /\ SP \in Int /\ Slash \in Int /\ Dot \in Int /\ CR \in Int /\ LF \in Int /\ Colon \in Int
  BY DEF IsToken, IsText, is_char, is_ctl, is_tspecial, Tspecials, is_digit, SP, Slash, Dot, CR,
         LF, Colon, HT

\* From a state the sample leads through, one character leads to the next.
LEMMA SampleStep ==
  ASSUME NEW p \in ParserType, p.result = "indeterminate", NEW i \in 1 .. 22, OnWay(i, p.state)
  PROVE  LET q == consume(p, Sample[i])
         IN  IF i = 22 THEN q.result = "good"
             ELSE q.result = "indeterminate" /\ OnWay(i + 1, q.state)
<1> DEFINE c == Sample[i]
           q == consume(p, c)
<1>0. c \in Int
  <2>1. \A t \in String : \A j \in 1 .. Len(t) : t[j] \in Int
    BY DEF String
  <2> QED BY <2>1, SampleIs
<1>1. CASE i \in {1, 2}
  <2>1. c = IF i = 1 THEN 71 ELSE SP
    BY <1>1, SampleIs
  <2>2. p.state \in {"method_start", "method"} /\ (i = 2 => p.state = "method")
    BY <1>1 DEF OnWay
  <2> HIDE DEF c
  <2>3. IF i = 1 THEN q.state = "method" /\ q.result = p.result
        ELSE q.state = "uri" /\ q.result = p.result
    BY <1>0, <1>1, <2>1, <2>2, SampleChars, ConsumeMethod DEF Keeps
  <2> HIDE DEF q
  <2> QED BY <1>1, <2>3 DEF OnWay, c, q
<1>2. CASE i \in {3, 4}
  <2>1. c = IF i = 3 THEN Slash ELSE SP
    BY <1>2, SampleIs
  <2>2. p.state = "uri"
    BY <1>2 DEF OnWay
  <2> HIDE DEF c
  <2>3. IF i = 3 THEN q.state = "uri" /\ q.result = p.result
        ELSE q.state = "http_version_h" /\ q.result = p.result
    BY <1>0, <1>2, <2>1, <2>2, SampleChars, ConsumeUri DEF Keeps
  <2> HIDE DEF q
  <2> QED BY <1>2, <2>3 DEF OnWay, c, q
<1>3. CASE i \in {5, 6, 7, 8, 9, 14, 17, 20}
  <2>1. /\ i = 5 => c = 72 /\ p.state = "http_version_h"
        /\ i = 6 => c = 84 /\ p.state = "http_version_t_1"
        /\ i = 7 => c = 84 /\ p.state = "http_version_t_2"
        /\ i = 8 => c = 80 /\ p.state = "http_version_p"
        /\ i = 9 => c = Slash /\ p.state = "http_version_slash"
        /\ i = 14 => c = LF /\ p.state = "expecting_newline_1"
        /\ i = 17 => c = SP /\ p.state = "space_before_header_value"
        /\ i = 20 => c = LF /\ p.state = "expecting_newline_2"
    BY <1>3, SampleIs DEF OnWay
  <2> HIDE DEF c
  <2>2. \A x \in DOMAIN Fixed : p.state = x =>
          IF c = Fixed[x].char THEN q.state = Fixed[x].next /\ Keeps(p, q) ELSE q.result = "bad"
    BY <1>0, ConsumeFixed
  <2> HIDE DEF q
  <2>3. q.result = p.result
    BY <1>3, <2>1, <2>2, FixedIs DEF Keeps
  <2>4. /\ i = 5 => q.state = "http_version_t_1"
        /\ i = 6 => q.state = "http_version_t_2"
        /\ i = 7 => q.state = "http_version_p"
        /\ i = 8 => q.state = "http_version_slash"
        /\ i = 9 => q.state = "http_version_major_start"
        /\ i = 14 => q.state = "header_line_start"
        /\ i = 17 => q.state = "header_value"
        /\ i = 20 => q.state = "header_line_start"
    BY <2>1, <2>2, FixedIs
  <2> QED BY <1>3, <2>3, <2>4 DEF OnWay, c, q
<1>4. CASE i \in {10, 11, 12, 13}
  <2>1. /\ i = 10 => c = 49 /\ p.state = "http_version_major_start"
        /\ i = 11 => c = Dot /\ p.state = "http_version_major"
        /\ i = 12 => c = 48 /\ p.state = "http_version_minor_start"
        /\ i = 13 => c = CR /\ p.state = "http_version_minor"
    BY <1>4, SampleIs DEF OnWay
  <2> HIDE DEF c
  <2>2. /\ i = 10 => q.state = "http_version_major" /\ q.result = p.result
        /\ i = 11 => q.state = "http_version_minor_start" /\ q.result = p.result
        /\ i = 12 => q.state = "http_version_minor" /\ q.result = p.result
        /\ i = 13 => q.state = "expecting_newline_1" /\ q.result = p.result
    BY <1>0, <2>1, SampleChars, ConsumeVersion DEF Keeps
  <2> HIDE DEF q
  <2> QED BY <1>4, <2>2 DEF OnWay, c, q
<1>5. CASE i \in {15, 21}
  <2>1. c = (IF i = 15 THEN 65 ELSE CR) /\ p.state = "header_line_start"
    BY <1>5, SampleIs DEF OnWay
  <2> HIDE DEF c
  <2>2. q.state = (IF i = 15 THEN "header_name" ELSE "expecting_newline_3") /\ q.result = p.result
    BY <1>0, <1>5, <2>1, SampleChars, ConsumeLineStart DEF Keeps
  <2> HIDE DEF q
  <2> QED BY <1>5, <2>2 DEF OnWay, c, q
<1>6. CASE i = 16
  <2>1. c = Colon /\ p.state = "header_name"
    BY <1>6, SampleIs DEF OnWay
  <2> HIDE DEF c
  <2>2. q.state = "space_before_header_value" /\ q.result = p.result
    BY <1>0, <2>1, SampleChars, ConsumeName DEF Keeps
  <2> HIDE DEF q
  <2> QED BY <1>6, <2>2 DEF OnWay, c, q
<1>7. CASE i \in {18, 19}
  <2>1. c = (IF i = 18 THEN 98 ELSE CR) /\ p.state \in {"header_lws", "header_value"}
    BY <1>7, SampleIs DEF OnWay
  <2> HIDE DEF c
  <2>2. q.state = (IF i = 18 THEN "header_value" ELSE "expecting_newline_2") /\ q.result = p.result
    BY <1>0, <1>7, <2>1, SampleChars, ConsumeValue
  <2> HIDE DEF q
  <2> QED BY <1>7, <2>2 DEF OnWay, c, q
<1>8. CASE i = 22
  <2>1. c = LF /\ p.state = "expecting_newline_3"
    BY <1>8, SampleIs DEF OnWay
  <2> HIDE DEF c
  <2>2. q.result = "good"
    BY <1>0, <2>1, ConsumeLast
  <2> QED BY <1>8, <2>2 DEF c
<1> QED BY <1>1, <1>2, <1>3, <1>4, <1>5, <1>6, <1>7, <1>8

\* From every state there is a way.
LEMMA EveryStateOnWay ==
  ASSUME NEW x \in States
  PROVE  \E i \in 1 .. 22 : OnWay(i, x)
<1>1. \/ OnWay(1, x) \/ OnWay(3, x) \/ OnWay(5, x) \/ OnWay(6, x) \/ OnWay(7, x) \/ OnWay(8, x)
      \/ OnWay(9, x) \/ OnWay(10, x) \/ OnWay(11, x) \/ OnWay(12, x) \/ OnWay(13, x)
      \/ OnWay(14, x) \/ OnWay(15, x) \/ OnWay(16, x) \/ OnWay(17, x) \/ OnWay(18, x)
      \/ OnWay(20, x) \/ OnWay(22, x)
  BY FixedIs DEF States, HeaderStates, OnWay
<1> QED BY <1>1

-----------------------------------------------------------------------------
(* A request that goes on.                                                 *)

\* The length and the characters of a string behind another.
LEMMA ConcatFacts ==
  ASSUME NEW s \in String, NEW r \in String
  PROVE  /\ s \o r \in String /\ Len(s \o r) = Len(s) + Len(r)
         /\ Prefix(s \o r, Len(s)) = s
         /\ \A j \in 1 .. Len(r) : (s \o r)[Len(s) + j] = r[j]
<1>1. /\ s \o r \in String /\ Len(s \o r) = Len(s) + Len(r) /\ Len(s) \in Nat /\ Len(r) \in Nat
      /\ \A i \in 1 .. Len(s) : (s \o r)[i] = s[i]
      /\ \A j \in 1 .. Len(r) : (s \o r)[Len(s) + j] = r[j]
  BY DEF String
<1> DEFINE t == s \o r
<1>2. Len(s) \in 0 .. Len(t)
  BY <1>1
<1> HIDE DEF t
<1>3. /\ Prefix(t, Len(s)) \in String /\ Len(Prefix(t, Len(s))) = Len(s)
      /\ \A i \in 1 .. Len(s) : Prefix(t, Len(s))[i] = t[i]
  BY <1>1, <1>2, PrefixFacts DEF t
<1>4. \A i \in 1 .. Len(s) : t[i] = s[i]
  BY <1>1 DEF t
<1>5. Prefix(t, Len(s)) = s
  BY <1>3, <1>4, SameString
<1> QED BY <1>1, <1>5 DEF t

\* The rest of Sample, from i on.
LEMMA SampleRest ==
  ASSUME NEW i \in 1 .. 22
  PROVE  LET r == SubSeq(Sample, i, Len(Sample))
         IN  /\ r \in String /\ Len(r) = 23 - i
             /\ \A j \in 1 .. (23 - i) : r[j] = Sample[i + j - 1]
<1>1. ASSUME NEW t \in String, Len(t) = 22
      PROVE  /\ SubSeq(t, i, 22) \in String /\ Len(SubSeq(t, i, 22)) = 23 - i
             /\ \A j \in 1 .. (23 - i) : SubSeq(t, i, 22)[j] = t[i + j - 1]
  <2>1. SubSeq(t, i, 22) \in String /\ Len(SubSeq(t, i, 22)) = 22 - i + 1
    <3>1. \A u \in String : \A a \in 1 .. Len(u) :
            SubSeq(u, a, Len(u)) \in String /\ Len(SubSeq(u, a, Len(u))) = Len(u) - a + 1
      BY DEF String
    <3>2. i \in 1 .. Len(t)
      BY <1>1
    <3> QED BY <1>1, <3>1, <3>2
  <2>2. \A j \in 1 .. (22 - i + 1) : SubSeq(t, i, 22)[j] = t[i + j - 1]
    BY <1>1 DEF String
  <2>3. 22 - i + 1 = 23 - i
    OBVIOUS
  <2> QED BY <2>1, <2>2, <2>3
<1> QED BY <1>1, SampleIs

\* With the right end of Sample, whatever is not decided becomes a request.
LEMMA SampleAccepted ==
  ASSUME NEW s \in String, NEW i \in 1 .. 22, Parsed(s, Len(s)).result = "indeterminate",
         OnWay(i, Parsed(s, Len(s)).state)
  PROVE  IsRequest(s \o SubSeq(Sample, i, Len(Sample)))
<1> DEFINE r == SubSeq(Sample, i, Len(Sample))
           t == s \o r
           L == Len(s)
           N == 22 - i
<1>0. L \in Nat /\ N \in Nat /\ i \in Nat
  BY DEF String
<1>1. r \in String /\ Len(r) = N + 1 /\ \A j \in 1 .. (N + 1) : r[j] = Sample[i + j - 1]
  <2>1. r \in String /\ Len(r) = 23 - i /\ \A j \in 1 .. (23 - i) : r[j] = Sample[i + j - 1]
    BY SampleRest
  <2>2. 23 - i = N + 1
    OBVIOUS
  <2> HIDE DEF r, N
  <2> QED BY <2>1, <2>2
<1>2. /\ t \in String /\ Len(t) = L + N + 1 /\ Prefix(t, L) = s
      /\ \A j \in 0 .. N : t[L + j + 1] = Sample[i + j]
  <2> HIDE DEF r
  <2>1. /\ t \in String /\ Len(t) = L + Len(r) /\ Prefix(t, L) = s
        /\ \A j \in 1 .. Len(r) : t[L + j] = r[j]
    BY <1>1, ConcatFacts
  <2> HIDE DEF t, L, N
  <2>2. ASSUME NEW j \in 0 .. N PROVE t[L + j + 1] = Sample[i + j]
    <3> DEFINE k == j + 1
    <3>1. k \in 1 .. (N + 1) /\ L + k = L + j + 1 /\ i + k - 1 = i + j
      BY <1>0
    <3> HIDE DEF k
    <3>2. t[L + k] = r[k] /\ r[k] = Sample[i + k - 1]
      BY <1>1, <2>1, <3>1
    <3> QED BY <3>1, <3>2
  <2> QED BY <1>0, <1>1, <2>1, <2>2
<1> HIDE DEF r
<1> DEFINE S == {j \in 0 .. N : /\ Parsed(t, L + j).result = "indeterminate"
                                /\ OnWay(i + j, Parsed(t, L + j).state)}
<1>3. Parsed(t, L) = Parsed(s, L)
  BY <1>2, WholePrefix DEF Parsed
<1> HIDE DEF t
<1>4. 0 \in S
  <2>1. L + 0 = L /\ i + 0 = i /\ 0 \in 0 .. N
    BY <1>0
  <2>2. Parsed(t, L).result = "indeterminate" /\ OnWay(i, Parsed(t, L).state)
    BY <1>3
  <2> HIDE DEF L
  <2> QED BY <2>1, <2>2
<1>5. ASSUME NEW j \in 0 .. N
      PROVE  /\ L + j \in 0 .. (Len(t) - 1) /\ L + j + 1 = L + (j + 1) /\ L + j \in 0 .. Len(t)
             /\ i + j \in 1 .. 22 /\ i + (j + 1) = i + j + 1 /\ (i + j = 22 <=> j = N)
  <2>1. i + N = 22
    BY <1>0
  <2> HIDE DEF L, N
  <2>2. L + j + 1 = L + (j + 1) /\ i + (j + 1) = i + j + 1 /\ j \in Nat /\ j <= N
    BY <1>0
  <2>3. L + j \in Nat /\ L + j <= L + N /\ Len(t) = L + N + 1
    BY <1>0, <1>2, <2>2
  <2>4. L + j \in 0 .. (Len(t) - 1) /\ L + j \in 0 .. Len(t)
    BY <1>0, <2>3
  <2>5. i + j \in 1 .. 22 /\ (i + j = 22 <=> j = N)
    BY <1>0, <2>1, <2>2
  <2> QED BY <2>2, <2>4, <2>5
<1> HIDE DEF L, N
<1>6. ASSUME NEW j \in 0 .. N, j \in S
      PROVE  LET q == Parsed(t, L + (j + 1))
             IN  IF j = N THEN q.result = "good"
                 ELSE q.result = "indeterminate" /\ OnWay(i + (j + 1), q.state)
  <2> DEFINE n == L + j
             p == Parsed(t, n)
  <2>1. /\ n \in 0 .. (Len(t) - 1) /\ n + 1 = L + (j + 1) /\ n \in 0 .. Len(t) /\ i + j \in 1 .. 22
        /\ i + (j + 1) = i + j + 1 /\ (i + j = 22 <=> j = N)
    BY <1>5
  <2>2. p.result = "indeterminate" /\ OnWay(i + j, p.state)
    BY <1>6
  <2>3. t[n + 1] = Sample[i + j]
    BY <1>2
  <2> HIDE DEF n
  <2>4. p \in ParserType /\ Parsed(t, n + 1) = Round(p, t[n + 1])
    BY <1>2, <2>1, ParsedRun
  <2>5. Parsed(t, n + 1) = consume(p, Sample[i + j])
    BY <2>2, <2>3, <2>4 DEF Round
  <2> HIDE DEF p
  <2> DEFINE m == i + j
  <2>6. m \in 1 .. 22 /\ OnWay(m, p.state)
    BY <2>1, <2>2
  <2> HIDE DEF m
  <2>7. LET q == consume(p, Sample[m])
        IN  IF m = 22 THEN q.result = "good"
            ELSE q.result = "indeterminate" /\ OnWay(m + 1, q.state)
    BY <2>2, <2>4, <2>6, SampleStep
  <2> QED BY <2>1, <2>5, <2>7 DEF m
<1>7. \A j \in 0 .. N : j \in S
  <2>1. ASSUME NEW j \in 0 .. (N - 1), j \in S PROVE j + 1 \in S
    <3>1. j \in 0 .. N /\ j # N /\ j + 1 \in 0 .. N
      BY <1>0
    <3> QED BY <1>6, <2>1, <3>1
  <2> HIDE DEF S
  <2> QED BY <1>0, <1>4, <2>1, UpTo
<1> DEFINE n == L + N
<1>8. n \in Nat /\ n + 1 = Len(t) /\ N \in 0 .. N /\ n + 1 = L + (N + 1)
  BY <1>0, <1>2
<1>9. Parsed(t, n).result = "indeterminate"
  BY <1>7, <1>8
<1>10. Parsed(t, n + 1).result = "good"
  BY <1>6, <1>7, <1>8
<1> HIDE DEF n
<1>11. IsRequest(t)
  BY <1>2, <1>8, <1>9, <1>10, GoodIsRequest
<1> QED BY <1>11 DEF t, r

\* What a request begins with, the parser has not decided about.
LEMMA BeginningUndecided ==
  ASSUME NEW s \in String, NEW r \in String, Len(r) > 0, IsRequest(s \o r)
  PROVE  Parsed(s, Len(s)).result = "indeterminate"
<1> DEFINE t == s \o r
<1>1. /\ t \in String /\ Len(t) = Len(s) + Len(r) /\ Prefix(t, Len(s)) = s
      /\ Len(s) \in Nat /\ Len(r) \in Nat
  BY ConcatFacts DEF String
<1>2. Len(s) \in 0 .. (Len(t) - 1)
  BY <1>1
<1>3. Parsed(t, Len(s)) = Parsed(s, Len(s))
  BY <1>1, WholePrefix DEF Parsed
<1>4. IsRequest(t)
  OBVIOUS
<1> HIDE DEF t
<1> QED BY <1>1, <1>2, <1>3, <1>4, RequestIsGood

\* A string can become a request if and only if the parser does not know yet.
LEMMA CanGoOnIs ==
  ASSUME NEW s \in String
  PROVE  CanGoOn(s) <=> Parsed(s, Len(s)).result = "indeterminate"
<1>1. Len(s) \in Nat /\ Len(s) \in 0 .. Len(s) /\ DOMAIN Sample = 1 .. 22
  BY SampleIs DEF String
<1>2. ASSUME CanGoOn(s) PROVE Parsed(s, Len(s)).result = "indeterminate"
  <2>1. PICK i \in 1 .. 22 : IsRequest(s \o SubSeq(Sample, i, Len(Sample)))
    BY <1>1, <1>2 DEF CanGoOn
  <2> DEFINE r == SubSeq(Sample, i, Len(Sample))
  <2>2. r \in String /\ Len(r) = 23 - i
    BY SampleRest
  <2>3. IsRequest(s \o r)
    BY <2>1
  <2> HIDE DEF r
  <2>4. Len(r) > 0
    BY <2>2
  <2> QED BY <2>2, <2>3, <2>4, BeginningUndecided
<1>3. ASSUME Parsed(s, Len(s)).result = "indeterminate" PROVE CanGoOn(s)
  <2>1. Parsed(s, Len(s)) \in ParserType
    BY <1>1, ParsedRun
  <2>2. Parsed(s, Len(s)).state \in States
    BY <2>1 DEF ParserType
  <2>3. PICK i \in 1 .. 22 : OnWay(i, Parsed(s, Len(s)).state)
    BY <2>2, EveryStateOnWay
  <2> QED BY <1>1, <1>3, <2>3, SampleAccepted DEF CanGoOn
<1> QED BY <1>2, <1>3

\* The ends of one sample are enough: a string that anything can make a request is
\* made one by one of them, so that 0 as RequestLength means that nothing can.
THEOREM SampleSuffices ==
  ASSUME NEW s \in String
  PROVE  CanGoOn(s) <=> \E r \in String : r # <<>> /\ IsRequest(s \o r)
<1>1. ASSUME CanGoOn(s) PROVE \E r \in String : r # <<>> /\ IsRequest(s \o r)
  <2>1. PICK i \in DOMAIN Sample : IsRequest(s \o SubSeq(Sample, i, Len(Sample)))
    BY <1>1 DEF CanGoOn
  <2>2. i \in 1 .. 22
    BY SampleIs DEF String
  <2> DEFINE r == SubSeq(Sample, i, Len(Sample))
  <2>3. r \in String /\ Len(r) = 23 - i
    BY <2>2, SampleRest
  <2>4. IsRequest(s \o r)
    BY <2>1
  <2> HIDE DEF r
  <2>5. r # <<>>
    BY <2>2, <2>3
  <2> QED BY <2>3, <2>4, <2>5
<1>2. ASSUME NEW r \in String, r # <<>>, IsRequest(s \o r) PROVE CanGoOn(s)
  <2>1. Len(r) > 0
    BY <1>2 DEF String
  <2> QED BY <1>2, <2>1, BeginningUndecided, CanGoOnIs
<1> QED BY <1>1, <1>2

\* request_parser.cpp decides as soon as a request is complete or can no longer
\* become one and never otherwise, and fills in the fields of the request it has
\* accepted: for every string, consume and the grammar agree.
THEOREM ParserIsGrammar ==
  ASSUME NEW s \in String
  PROVE  LET p == parse(NewParser, s)
             l == RequestLength(s)
         IN  /\ l \in -1 .. Len(s)
             /\ p.result = CASE l = -1 -> "indeterminate" [] l = 0 -> "bad" [] l > 0 -> "good"
             /\ l > 0 => [method |-> p.method, uri |-> p.uri, headers |-> p.headers]
                           = Request(Prefix(s, l))
<1> DEFINE p == parse(NewParser, s)
           l == RequestLength(s)
           requests == {n \in 1 .. Len(s) : IsRequest(Prefix(s, n))}
<1>0. Len(s) \in Nat /\ Len(s) \in 0 .. Len(s)
  BY DEF String
<1>1. p = Parsed(s, Len(s))
  BY WholePrefix DEF Parsed
<1>2. l = IF requests # {} THEN FirstOf(requests) ELSE IF CanGoOn(s) THEN -1 ELSE 0
  BY DEF RequestLength
<1> HIDE DEF l
<1>3. CASE requests # {}
  <2>1. PICK n \in requests : FirstOf(requests) = n
    <3>1. requests \in SUBSET Nat
      OBVIOUS
    <3> HIDE DEF requests
    <3> QED BY <1>3, <3>1, FirstOfNat
  <2>2. n \in 1 .. Len(s) /\ IsRequest(Prefix(s, n)) /\ l = n
    BY <1>2, <1>3, <2>1
  <2>3. /\ Parsed(s, n).result = "good" /\ Parsed(s, Len(s)) = Parsed(s, n)
        /\ Parsed(s, n).method = Method(Prefix(s, n)) /\ Parsed(s, n).uri = Uri(Prefix(s, n))
        /\ Parsed(s, n).headers = Headers(Prefix(s, n))
    BY <2>2, PrefixIsRequest
  <2>4. l \in -1 .. Len(s) /\ l # -1 /\ l # 0 /\ l > 0
    BY <1>0, <2>2
  <2>5. Request(Prefix(s, l)) = [method |-> p.method, uri |-> p.uri, headers |-> p.headers]
    BY <1>1, <2>2, <2>3 DEF Request
  <2>6. p.result = "good"
    BY <1>1, <2>3
  <2> HIDE DEF p, requests
  <2> QED BY <2>4, <2>5, <2>6 DEF p, l
<1>4. CASE requests = {}
  <2>1. p.result # "good"
    BY <1>1, <1>4, GoodHasRequest
  <2>2. p \in ParserType
    BY <1>0, <1>1, ParsedRun
  <2>3. p.result \in {"indeterminate", "good", "bad"}
    BY <2>2 DEF ParserType
  <2>4. CanGoOn(s) <=> p.result = "indeterminate"
    BY <1>1, CanGoOnIs
  <2> HIDE DEF p, requests
  <2>5. l = IF p.result = "indeterminate" THEN -1 ELSE 0
    BY <1>2, <1>4, <2>4
  <2>6. l \in -1 .. Len(s) /\ ~ (l > 0)
    BY <1>0, <2>5
  <2> QED BY <2>1, <2>3, <2>5, <2>6 DEF p, l
<1> QED BY <1>3, <1>4

\* However a string is cut, parsing piece after piece is parsing the whole.
LEMMA ParsePieces ==
  ASSUME NEW s \in String, NEW a \in 0 .. Len(s), NEW z \in (a + 1) .. Len(s),
         Parsed(s, a).result = "indeterminate"
  PROVE  parse(Parsed(s, a), SubSeq(s, a + 1, z)) = Parsed(s, z)
<1> DEFINE u == SubSeq(s, a + 1, z)
           q == Parsed(s, a)
           N == z - a
<1>0. Len(s) \in Nat /\ a \in Nat /\ z \in Nat /\ N \in Nat /\ a < z /\ z <= Len(s)
      /\ a + 1 \in 1 .. Len(s) /\ a + N = z
  BY DEF String
<1>1. u \in String /\ Len(u) = N /\ \A k \in 1 .. N : u[k] = s[a + k]
  <2> DEFINE A == a + 1
  <2>1. A \in 1 .. Len(s) /\ z \in A .. Len(s) /\ z - A + 1 = N
    BY <1>0
  <2>2. \A k \in 1 .. N : A + k - 1 = a + k
    BY <1>0
  <2> HIDE DEF A, N
  <2>3. /\ SubSeq(s, A, z) \in String /\ Len(SubSeq(s, A, z)) = z - A + 1
        /\ \A k \in 1 .. (z - A + 1) : SubSeq(s, A, z)[k] = s[A + k - 1]
    BY <2>1, SubSeqIs DEF String
  <2>4. \A k \in 1 .. N : SubSeq(s, A, z)[k] = s[a + k]
    BY <2>1, <2>2, <2>3
  <2>5. SubSeq(s, A, z) = u
    BY DEF A
  <2> HIDE DEF u
  <2> QED BY <2>1, <2>3, <2>4, <2>5
<1>2. Started(q) = q
  <2>1. q \in ParserType
    BY ParsedRun
  <2>2. q.result = "indeterminate"
    OBVIOUS
  <2> HIDE DEF q
  <2> QED BY <2>1, <2>2 DEF Started, ParserType
<1> HIDE DEF u, q, N
<1> DEFINE S == {k \in 0 .. N : parse(q, Prefix(u, k)) = Parsed(s, a + k)}
<1>3. 0 \in S
  <2>1. parse(q, Prefix(u, 0)) = q /\ a + 0 = a
    BY <1>0, <1>1, <1>2, ParseRun
  <2> QED BY <1>0, <2>1 DEF q
<1>4. ASSUME NEW k \in 0 .. (N - 1), k \in S PROVE k + 1 \in S
  <2> DEFINE n == a + k
             m == k + 1
  <2>1. n \in 0 .. (Len(s) - 1) /\ n + 1 = a + m /\ m \in 1 .. N /\ m \in 0 .. N
    BY <1>0
  <2> HIDE DEF n, m
  <2>2. parse(q, Prefix(u, m)) = Round(parse(q, Prefix(u, k)), u[m])
    <3>1. k \in 0 .. (Len(u) - 1)
      BY <1>1
    <3> QED BY <1>1, <3>1, ParseRun DEF m
  <2>3. parse(q, Prefix(u, k)) = Parsed(s, n)
    BY <1>4 DEF n
  <2>4. u[m] = s[n + 1]
    BY <1>1, <2>1
  <2>5. Parsed(s, n + 1) = Round(Parsed(s, n), s[n + 1])
    BY <2>1, ParsedRun
  <2>6. parse(q, Prefix(u, m)) = Parsed(s, a + m)
    BY <2>1, <2>2, <2>3, <2>4, <2>5
  <2> QED BY <2>1, <2>6 DEF m
<1> HIDE DEF S
<1>5. N \in S
  <2>1. \A k \in 0 .. N : k \in S
    BY <1>0, <1>3, <1>4, UpTo
  <2> QED BY <1>0, <2>1
<1>6. parse(q, Prefix(u, N)) = Parsed(s, z)
  BY <1>0, <1>5 DEF S
<1>7. Prefix(u, N) = u
  BY <1>1, WholePrefix
<1> QED BY <1>6, <1>7 DEF u, q

-----------------------------------------------------------------------------
(* Paths.                                                                  *)

\* An escape has three characters, any other character stands alone.
LEMMA WidthIs == \A c : Width(c) \in {1, 3}
  BY DEF Width

\* Where the escapes and characters begin is well defined.
LEMMA StartsIs ==
  ASSUME NEW s \in String
  PROVE  /\ Starts(s) \in SUBSET (1 .. Len(s))
         /\ \A i \in 1 .. Len(s) :
              i \in Starts(s) <=> \A j \in Starts(s) : j < i => j + Width(s[j]) <= i
<1>0. Len(s) \in Nat /\ DOMAIN s = 1 .. Len(s)
  BY DEF String
<1> DEFINE Good(S, n) ==
      \A i \in 1 .. n : i \in S <=> \A j \in S : j < i => j + Width(s[j]) <= i
           K == {n \in Nat : \E S \in SUBSET (1 .. n) : Good(S, n)}
<1>1. 0 \in K
  <2>1. {} \in SUBSET (1 .. 0) /\ Good({}, 0)
    OBVIOUS
  <2> QED BY <2>1
<1>2. ASSUME NEW n \in 0 .. (Len(s) - 1), n \in K PROVE n + 1 \in K
  <2>1. n \in Nat /\ n + 1 \in Nat
    BY <1>0
  <2>2. PICK S \in SUBSET (1 .. n) : Good(S, n)
    BY <1>2
  <2> DEFINE N == n + 1
             fits == \A j \in S : j + Width(s[j]) <= N
             T == IF fits THEN S \union {N} ELSE S
  <2>3. T \in SUBSET (1 .. N)
    BY <2>1
  <2>4. Good(T, N)
    <3> SUFFICES ASSUME NEW i \in 1 .. N
                 PROVE  i \in T <=> \A j \in T : j < i => j + Width(s[j]) <= i
      OBVIOUS
    <3>1. \A j \in S : j \in Nat /\ j < N /\ j # N
      BY <2>1
    <3>2. CASE i = N
      <4>1. i \in T <=> fits
        BY <3>1, <3>2
      <4>2. (\A j \in T : j < i => j + Width(s[j]) <= i) <=> fits
        BY <2>1, <3>1, <3>2
      <4> QED BY <4>1, <4>2
    <3>3. CASE i # N
      <4>1. i \in 1 .. n /\ ~ (N < i)
        BY <2>1, <3>3
      <4>2. i \in T <=> i \in S
        BY <3>3
      <4>3. (\A j \in T : j < i => j + Width(s[j]) <= i)
              <=> (\A j \in S : j < i => j + Width(s[j]) <= i)
        <5> HIDE DEF N
        <5> QED BY <4>1
      <4>4. i \in S <=> \A j \in S : j < i => j + Width(s[j]) <= i
        BY <2>2, <4>1
      <4> QED BY <4>2, <4>3, <4>4
    <3> QED BY <3>2, <3>3
  <2> QED BY <2>1, <2>3, <2>4
<1> HIDE DEF K
<1>3. Len(s) \in K
  <2>1. \A n \in 0 .. Len(s) : n \in K
    BY <1>0, <1>1, <1>2, UpTo
  <2> QED BY <1>0, <2>1
<1>4. \E S \in SUBSET DOMAIN s :
        \A i \in DOMAIN s : i \in S <=> \A j \in S : j < i => j + Width(s[j]) <= i
  BY <1>0, <1>3 DEF K
<1>5. /\ Starts(s) \in SUBSET DOMAIN s
      /\ \A i \in DOMAIN s : i \in Starts(s) <=> \A j \in Starts(s) : j < i => j + Width(s[j]) <= i
  BY <1>4 DEF Starts
<1> QED BY <1>0, <1>5

\* Appending is associative.
LEMMA AppendBehind ==
  ASSUME NEW x \in Int, NEW w \in String, NEW c \in Int
  PROVE  Append(<<x>> \o w, c) = <<x>> \o Append(w, c) /\ <<x>> \o w \in String
<1>1. <<x>> \in String /\ Len(<<x>>) = 1 /\ <<x>>[1] = x /\ Len(w) \in Nat
  BY DEF String
<1> DEFINE u == <<x>>
<1> HIDE DEF u
<1>2. /\ u \o w \in String /\ Len(u \o w) = Len(w) + 1 /\ Append(w, c) \in String
      /\ Len(Append(w, c)) = Len(w) + 1
      /\ Append(u \o w, c) \in String /\ Len(Append(u \o w, c)) = Len(w) + 2
      /\ u \o Append(w, c) \in String /\ Len(u \o Append(w, c)) = Len(w) + 2
  <2>1. u \o w \in String /\ Len(u \o w) = Len(w) + 1
    BY <1>1 DEF String, u
  <2>2. Append(w, c) \in String /\ Len(Append(w, c)) = Len(w) + 1
    BY DEF String
  <2>3. Append(u \o w, c) \in String /\ Len(Append(u \o w, c)) = Len(w) + 2
    BY <1>1, <2>1 DEF String
  <2>4. u \o Append(w, c) \in String /\ Len(u \o Append(w, c)) = Len(w) + 2
    BY <1>1, <2>2 DEF String, u
  <2> QED BY <2>1, <2>2, <2>3, <2>4
<1>3. \A i \in 1 .. (Len(w) + 2) : Append(u \o w, c)[i] = (u \o Append(w, c))[i]
  <2> TAKE i \in 1 .. (Len(w) + 2)
  <2>1. CASE i = 1
    <3>1. (u \o w)[i] = u[1] /\ Append(u \o w, c)[i] = (u \o w)[i]
      BY <1>1, <1>2, <2>1 DEF String, u
    <3>2. (u \o Append(w, c))[i] = u[1]
      BY <1>1, <1>2, <2>1 DEF String, u
    <3> QED BY <3>1, <3>2
  <2>2. CASE i \in 2 .. (Len(w) + 1)
    <3>1. (u \o w)[i] = w[i - 1] /\ Append(u \o w, c)[i] = (u \o w)[i]
      BY <1>1, <1>2, <2>2 DEF String, u
    <3>2. (u \o Append(w, c))[i] = Append(w, c)[i - 1] /\ Append(w, c)[i - 1] = w[i - 1]
      BY <1>1, <1>2, <2>2 DEF String, u
    <3> QED BY <3>1, <3>2
  <2>3. CASE i = Len(w) + 2
    <3>1. Append(u \o w, c)[i] = c
      BY <1>1, <1>2, <2>3 DEF String
    <3>2. (u \o Append(w, c))[i] = Append(w, c)[i - 1] /\ Append(w, c)[i - 1] = c
      BY <1>1, <1>2, <2>3 DEF String, u
    <3> QED BY <3>1, <3>2
  <2>4. \A l \in Nat : \A j \in 1 .. (l + 2) : j = 1 \/ j \in 2 .. (l + 1) \/ j = l + 2
    OBVIOUS
  <2>5. i = 1 \/ i \in 2 .. (Len(w) + 1) \/ i = Len(w) + 2
    BY <1>1, <2>4
  <2> QED BY <2>1, <2>2, <2>3, <2>5
<1>4. Append(u \o w, c) = u \o Append(w, c)
  BY <1>2, <1>3, SameString
<1> QED BY <1>2, <1>4 DEF u

\* One character before the others.
LEMMA CharsBefore ==
  ASSUME NEW s \in String, NEW n \in 1 .. Len(s), NEW S, NEW T,
         \A i \in 1 .. n : i \notin T, \A i \in 1 .. Len(s) : i \in S <=> (i = n \/ i \in T)
  PROVE  Chars(s, S) = <<s[n]>> \o Chars(s, T)
<1> DEFINE N == Len(s) - n
           m == n - 1
           x == s[n]
           K == {k \in 0 .. N : Chars(Prefix(s, n + k), S) = <<x>> \o Chars(Prefix(s, n + k), T)}
<1>0. Len(s) \in Nat /\ n \in Nat /\ N \in Nat /\ m \in 0 .. (Len(s) - 1) /\ m + 1 = n
      /\ n \in 0 .. Len(s) /\ m \in 0 .. Len(s) /\ n + N = Len(s) /\ x \in Int
  BY DEF String
<1> HIDE DEF N, m
<1>1. 0 \in K
  <2>1. Prefix(s, m) \in String /\ Len(Prefix(s, m)) = m
    BY <1>0, PrefixFacts
  <2>2. \A i \in 1 .. m : i \notin S
    <3> TAKE i \in 1 .. m
    <3>1. i \in 1 .. n /\ i # n /\ i \in 1 .. Len(s)
      BY <1>0
    <3> QED BY <3>1
  <2>3. Chars(Prefix(s, m), S) = <<>>
    BY <2>1, <2>2, CharsOfNone
  <2>4. Chars(Prefix(s, n), S) = Append(<<>>, x)
    <3>1. m + 1 \in S
      BY <1>0
    <3>2. Chars(Prefix(s, m + 1), S) = Append(Chars(Prefix(s, m), S), s[m + 1])
      BY <1>0, <3>1, CharsRun
    <3> QED BY <1>0, <2>3, <3>2
  <2>5. Chars(Prefix(s, n), T) = <<>>
    <3>1. Prefix(s, n) \in String /\ Len(Prefix(s, n)) = n
      BY <1>0, PrefixFacts
    <3> QED BY <3>1, CharsOfNone
  <2>6. Append(<<>>, x) = <<x>> /\ <<x>> \o <<>> = <<x>>
    BY <1>0
  <2>7. n + 0 = n /\ 0 \in 0 .. N
    BY <1>0
  <2> HIDE DEF x
  <2> QED BY <2>4, <2>5, <2>6, <2>7
<1>2. ASSUME NEW k \in 0 .. (N - 1), k \in K PROVE k + 1 \in K
  <2> DEFINE z == n + k
             Z == z + 1
             w == Chars(Prefix(s, z), T)
  <2>1. /\ z \in 0 .. (Len(s) - 1) /\ z \in 0 .. Len(s) /\ Z = n + (k + 1) /\ Z \in 1 .. Len(s) /\ Z # n
        /\ k + 1 \in 0 .. N
    BY <1>0
  <2>2. Chars(Prefix(s, z), S) = <<x>> \o w
    BY <1>2
  <2>3. w \in String
    <3>1. Prefix(s, z) \in String
      BY <2>1, PrefixFacts
    <3> QED BY <3>1, CharsType
  <2>4. Z \in S <=> Z \in T
    BY <2>1
  <2>5. s[Z] \in Int
    BY <2>1 DEF String
  <2> HIDE DEF z
  <2>6. /\ Chars(Prefix(s, Z), S) = IF Z \in S THEN Append(Chars(Prefix(s, z), S), s[Z])
                                    ELSE Chars(Prefix(s, z), S)
        /\ Chars(Prefix(s, Z), T) = IF Z \in T THEN Append(w, s[Z]) ELSE w
    BY <2>1, CharsRun
  <2> DEFINE c == s[Z]
             chars(V) == Chars(Prefix(s, Z), V)
  <2>7. chars(S) = <<x>> \o chars(T)
    <3> HIDE DEF w, Z, x
    <3>1. Append(<<x>> \o w, c) = <<x>> \o Append(w, c)
      <4> HIDE DEF c
      <4> QED BY <1>0, <2>3, <2>5, AppendBehind DEF c
    <3>2. CASE Z \in T
      <4>1. chars(S) = Append(<<x>> \o w, c) /\ chars(T) = Append(w, c)
        BY <2>2, <2>4, <2>6, <3>2
      <4> QED BY <3>1, <4>1
    <3>3. CASE Z \notin T
      BY <2>2, <2>4, <2>6, <3>3
    <3> QED BY <3>2, <3>3
  <2> QED BY <2>1, <2>7
<1> HIDE DEF K
<1>3. N \in K
  <2>1. \A k \in 0 .. N : k \in K
    BY <1>0, <1>1, <1>2, UpTo
  <2> QED BY <1>0, <2>1
<1>4. Chars(Prefix(s, Len(s)), S) = <<x>> \o Chars(Prefix(s, Len(s)), T)
  BY <1>0, <1>3 DEF K
<1> QED BY <1>4, WholePrefix

\* What begins behind an escape or a character.
LEMMA StartsNext ==
  ASSUME NEW s \in String, NEW i \in Starts(s)
  PROVE  /\ i \in 1 .. Len(s) /\ i + Width(s[i]) \in Nat
         /\ i + Width(s[i]) <= Len(s) => i + Width(s[i]) \in Starts(s)
         /\ \A k \in Starts(s) : i < k => i + Width(s[i]) <= k
<1> DEFINE next == i + Width(s[i])
<1>0. /\ Starts(s) \in SUBSET (1 .. Len(s)) /\ Len(s) \in Nat
      /\ \A k \in 1 .. Len(s) :
           k \in Starts(s) <=> \A j \in Starts(s) : j < k => j + Width(s[j]) <= k
  BY StartsIs DEF String
<1>1. i \in 1 .. Len(s) /\ next \in Nat /\ i < next
  BY <1>0, WidthIs
<1>2. \A k \in Starts(s) : i < k => next <= k
  BY <1>0
<1>3. ASSUME next <= Len(s) PROVE next \in Starts(s)
  <2>1. next \in 1 .. Len(s)
    BY <1>1, <1>3
  <2> SUFFICES ASSUME NEW j \in Starts(s), j < next PROVE j + Width(s[j]) <= next
    BY <1>0, <2>1
  <2>2. j \in Nat /\ Width(s[j]) \in Nat /\ i \in Nat
    BY <1>0, <1>1, WidthIs
  <2>3. CASE j = i
    BY <2>3, <2>2
  <2>4. CASE j < i
    <3>1. j + Width(s[j]) <= i
      BY <1>0, <1>1, <2>4
    <3> HIDE DEF next
    <3> QED BY <1>1, <2>2, <3>1
  <2>5. CASE i < j
    <3>1. next <= j
      BY <1>2, <2>5
    <3> HIDE DEF next
    <3> QED BY <1>1, <2>2, <3>1
  <2> QED BY <2>2, <2>3, <2>4, <2>5
<1> QED BY <1>1, <1>2, <1>3

-----------------------------------------------------------------------------
(* url_decode.                                                             *)

\* Two characters have one value or none.
LEMMA HexIntIs ==
  ASSUME NEW a \in Int, NEW b \in Int
  PROVE  HexInt(a, b) = {} \/ \E v \in Int : HexInt(a, b) = {v}
<1>1. Hex(a) \in Int /\ Hex(b) \in Int
  BY DEF Hex
<1> QED BY <1>1 DEF HexInt

\* What url_decode reads at position i: nothing, or one character.
ReadAt(s, i) ==
  IF s[i] # Percent THEN {IF s[i] = Plus THEN Blank ELSE s[i]}
  ELSE IF i + 2 <= Len(s) THEN {ToChar(v) : v \in HexInt(s[i + 1], s[i + 2])}
  ELSE {}

DecodedAt(s, f, i) ==
  IF i > Len(s) THEN [ok |-> TRUE, out |-> <<>>]
  ELSE LET rest == f[IF s[i] = Percent THEN i + 3 ELSE i + 1]
       IN  IF ReadAt(s, i) = {} THEN Undecodable
           ELSE IF ~rest.ok THEN Undecodable
           ELSE [ok |-> TRUE, out |-> <<CHOOSE c \in ReadAt(s, i) : TRUE>> \o rest.out]

\* The recursion of url_decode over a string.
Decodes(f, s) == f = [i \in 1 .. Len(s) + 3 |-> DecodedAt(s, f, i)]

\* The recursion has a solution.
LEMMA DecodesExists ==
  ASSUME NEW s \in String
  PROVE  \E f : Decodes(f, s)
<1> DEFINE N == Len(s) + 3
           Good(f, k) == /\ f = [i \in 1 .. N |-> f[i]]
                         /\ \A i \in 1 .. N : i > N - k => f[i] = DecodedAt(s, f, i)
           K == {k \in Nat : \E f : Good(f, k)}
<1>0. N \in Nat /\ Len(s) \in Nat /\ N = Len(s) + 3
  BY DEF String
<1> HIDE DEF N
<1>1. 0 \in K
  <2> DEFINE f == [i \in 1 .. N |-> 0]
  <2>1. Good(f, 0)
    BY <1>0
  <2> QED BY <2>1
<1>2. ASSUME NEW k \in 0 .. (N - 1), k \in K PROVE k + 1 \in K
  <2>1. PICK f : Good(f, k)
    BY <1>2
  <2> DEFINE i0 == N - k
             g == [i \in 1 .. N |-> IF i = i0 THEN DecodedAt(s, f, i) ELSE f[i]]
  <2>2. i0 \in 1 .. N /\ k + 1 \in Nat /\ N - (k + 1) = i0 - 1
    BY <1>0
  <2>3. g = [i \in 1 .. N |-> g[i]] /\ \A i \in 1 .. N : i # i0 => g[i] = f[i]
    OBVIOUS
  <2>4. g[i0] = DecodedAt(s, f, i0)
    BY <2>2
  <2> HIDE DEF i0, g
  <2>5. ASSUME NEW i \in 1 .. N, i >= i0 PROVE DecodedAt(s, g, i) = DecodedAt(s, f, i)
    <3>1. CASE i > Len(s)
      BY <3>1 DEF DecodedAt
    <3>2. CASE i <= Len(s)
      <4> DEFINE next == IF s[i] = Percent THEN i + 3 ELSE i + 1
      <4>1. next \in 1 .. N /\ next # i0
        BY <1>0, <2>2, <2>5, <3>2
      <4> HIDE DEF next
      <4>2. g[next] = f[next]
        BY <2>3, <4>1
      <4> QED BY <4>2 DEF DecodedAt, next
    <3> QED BY <1>0, <3>1, <3>2
  <2>6. ASSUME NEW i \in 1 .. N, i > N - (k + 1) PROVE g[i] = DecodedAt(s, g, i)
    <3>1. i >= i0
      BY <1>0, <2>2, <2>6
    <3>2. DecodedAt(s, g, i) = DecodedAt(s, f, i)
      BY <2>5, <3>1
    <3>3. CASE i = i0
      BY <2>4, <3>2, <3>3
    <3>4. CASE i # i0
      <4>1. i > N - k /\ g[i] = f[i]
        BY <1>0, <2>2, <2>3, <3>1, <3>4 DEF i0
      <4> QED BY <2>1, <3>2, <4>1
    <3> QED BY <3>3, <3>4
  <2>7. Good(g, k + 1)
    BY <2>3, <2>6
  <2> QED BY <2>2, <2>7
<1> HIDE DEF K
<1>3. N \in K
  <2>1. \A k \in 0 .. N : k \in K
    BY <1>0, <1>1, <1>2, UpTo
  <2> QED BY <1>0, <2>1
<1>4. PICK f : Good(f, N)
  BY <1>3 DEF K
<1>5. \A i \in 1 .. N : f[i] = DecodedAt(s, f, i)
  BY <1>0, <1>4
<1>6. f = [i \in 1 .. N |-> DecodedAt(s, f, i)]
  BY <1>4, <1>5
<1> QED BY <1>6 DEF Decodes, N

\* What url_decode returns is the beginning of such a recursion.
LEMMA UrlDecodeRun ==
  ASSUME NEW s \in String
  PROVE  \E f : Decodes(f, s) /\ url_decode(s) = f[1]
<1> DEFINE from == CHOOSE f : Decodes(f, s)
<1>1. Decodes(from, s)
  BY DecodesExists
<1>2. url_decode(s) = from[1]
  BY DEF url_decode, Decodes, DecodedAt, ReadAt
<1> QED BY <1>1, <1>2

-----------------------------------------------------------------------------
(* What url_decode reads.                                                  *)

\* What operator>> makes of the escape or character at i.
Meant(s, i) ==
  CASE i \in Starts(s) /\ s[i] = Percent -> ToChar(CHOOSE v \in HexInt(s[i + 1], s[i + 2]) : TRUE)
    [] i \in Starts(s) /\ s[i] = Plus -> Blank
    [] OTHER -> s[i]

\* It makes something of it.
Readable(s, i) == s[i] = Percent => i + 2 <= Len(s) /\ HexInt(s[i + 1], s[i + 2]) # {}

AllReadable(s) == \A i \in Starts(s) : Readable(s, i)
ReadAs(s) == Chars([i \in 1 .. Len(s) |-> Meant(s, i)], Starts(s))

\* What url_decode reads at the beginning of an escape is what is meant.
LEMMA ReadAtIs ==
  ASSUME NEW s \in String, NEW i \in Starts(s)
  PROVE  /\ ReadAt(s, i) # {} <=> Readable(s, i)
         /\ Readable(s, i) => ReadAt(s, i) = {Meant(s, i)} /\ Meant(s, i) \in Int
<1>0. i \in 1 .. Len(s) /\ Len(s) \in Nat /\ s[i] \in Int
  BY StartsNext DEF String
<1>1. Plus # Percent /\ Blank \in Int
  BY DEF Plus, Percent, Blank
<1>2. CASE s[i] # Percent
  BY <1>0, <1>1, <1>2 DEF ReadAt, Readable, Meant
<1>3. CASE s[i] = Percent /\ ~ (i + 2 <= Len(s))
  BY <1>3 DEF ReadAt, Readable
<1>4. CASE s[i] = Percent /\ i + 2 <= Len(s)
  <2> DEFINE H == HexInt(s[i + 1], s[i + 2])
  <2>1. i + 1 \in 1 .. Len(s) /\ i + 2 \in 1 .. Len(s)
    BY <1>0, <1>4
  <2>2. s[i + 1] \in Int /\ s[i + 2] \in Int
    <3>1. \A j \in 1 .. Len(s) : s[j] \in Int
      BY DEF String
    <3> QED BY <2>1, <3>1
  <2>3. H = {} \/ \E v \in Int : H = {v}
    BY <2>2, HexIntIs
  <2>4. ReadAt(s, i) = {ToChar(v) : v \in H} /\ (Readable(s, i) <=> H # {})
        /\ Meant(s, i) = ToChar(CHOOSE v \in H : TRUE)
    <3>1. ReadAt(s, i) = {ToChar(v) : v \in H}
      BY <1>4 DEF ReadAt
    <3>2. Readable(s, i) <=> H # {}
      BY <1>4 DEF Readable
    <3>3. Meant(s, i) = ToChar(CHOOSE v \in H : TRUE)
      BY <1>1, <1>4 DEF Meant
    <3> QED BY <3>1, <3>2, <3>3
  <2> HIDE DEF H
  <2>5. \A v \in Int : ToChar(v) \in Int
    BY DEF ToChar
  <2>6. CASE H = {}
    BY <2>4, <2>6
  <2>7. CASE \E v \in Int : H = {v}
    <3>1. PICK v \in Int : H = {v}
      BY <2>7
    <3>2. (CHOOSE x \in H : TRUE) = v
      BY <3>1
    <3> QED BY <2>4, <2>5, <3>1, <3>2
  <2> QED BY <2>3, <2>6, <2>7
<1> QED BY <1>2, <1>3, <1>4

\* url_decode fails when operator>> does, and returns what that makes of the rest.
LEMMA UrlDecodeReads ==
  ASSUME NEW s \in String
  PROVE  url_decode(s) = IF AllReadable(s) THEN [ok |-> TRUE, out |-> ReadAs(s)] ELSE Undecodable
<1> DEFINE L == Len(s)
           t == [i \in 1 .. L |-> Meant(s, i)]
           From(i) == {k \in Starts(s) : i <= k}
<1>0. /\ L \in Nat /\ DOMAIN s = 1 .. L /\ Starts(s) \in SUBSET (1 .. L)
      /\ \A k \in 1 .. L : s[k] \in Int
  BY StartsIs DEF String
<1>1. PICK f : Decodes(f, s) /\ url_decode(s) = f[1]
  BY UrlDecodeRun
<1>2. \A i \in 1 .. (L + 3) : f[i] = DecodedAt(s, f, i)
  BY <1>0, <1>1 DEF Decodes
<1>3. \A i \in 1 .. (L + 3) : i > L => f[i] = [ok |-> TRUE, out |-> <<>>]
  BY <1>2 DEF DecodedAt
<1>4. AllReadable(s) <=> \A k \in Starts(s) : Readable(s, k)
  BY DEF AllReadable
<1>5. AllReadable(s) => t \in String /\ Len(t) = L /\ \A k \in 1 .. L : t[k] = Meant(s, k)
  <2> SUFFICES ASSUME AllReadable(s)
               PROVE  t \in String /\ Len(t) = L /\ \A k \in 1 .. L : t[k] = Meant(s, k)
    OBVIOUS
  <2>1. \A k \in 1 .. L : Meant(s, k) \in Int
    <3> TAKE k \in 1 .. L
    <3>1. CASE k \in Starts(s)
      BY <1>4, <3>1, ReadAtIs
    <3>2. CASE k \notin Starts(s)
      BY <1>0, <3>2 DEF Meant
    <3> QED BY <3>1, <3>2
  <2>2. t \in [1 .. L -> Int]
    BY <2>1
  <2>3. t \in Seq(Int) /\ Len(t) = L
    BY <1>0, <2>2
  <2> QED BY <2>3 DEF String
<1>6. ReadAs(s) = Chars(t, Starts(s))
  BY DEF ReadAs
<1> HIDE DEF t, L
<1> DEFINE Right(i) ==
      /\ f[i].ok <=> \A k \in From(i) : Readable(s, k)
      /\ f[i].ok => f[i] = [ok |-> TRUE, out |-> f[i].out]
      /\ ~ f[i].ok => f[i] = Undecodable
      /\ AllReadable(s) => f[i].out = Chars(t, From(i))
           K == {k \in 0 .. L : \A i \in Starts(s) : i > L - k => Right(i)}
<1>7. ASSUME NEW i \in 1 .. (L + 3), i > L PROVE Right(i)
  <2>1. f[i] = [ok |-> TRUE, out |-> <<>>] /\ From(i) = {}
    BY <1>0, <1>3, <1>7
  <2>2. AllReadable(s) => Chars(t, {}) = <<>>
    BY <1>5, CharsOfNone
  <2>3. f[i].ok = TRUE /\ f[i].out = <<>> /\ f[i] = [ok |-> TRUE, out |-> f[i].out]
    BY <2>1
  <2>4. \A k \in From(i) : Readable(s, k)
    BY <2>1
  <2>5. AllReadable(s) => f[i].out = Chars(t, From(i))
    BY <2>1, <2>2, <2>3
  <2> HIDE DEF From
  <2> QED BY <2>3, <2>4, <2>5
<1>8. ASSUME NEW i \in Starts(s), LET next == IF s[i] = Percent THEN i + 3 ELSE i + 1
                                  IN  next <= L => Right(next)
      PROVE  Right(i)
  <2> DEFINE next == IF s[i] = Percent THEN i + 3 ELSE i + 1
  <2>1. next = i + Width(s[i])
    BY DEF Width
  <2>2. i \in 1 .. L /\ next \in 1 .. (L + 3) /\ i < next
    BY <1>0
  <2>3. Right(next)
    <3> HIDE DEF next, Right
    <3>1. CASE next <= L
      BY <1>8, <3>1 DEF next
    <3>2. CASE next > L
      BY <1>7, <2>2, <3>2
    <3> QED BY <1>0, <2>2, <3>1, <3>2
  <2>4. From(i) = {i} \union From(next)
    <3>1. \A k \in Starts(s) : k \in Nat /\ (i < k => next <= k)
      BY <1>0, <2>1, StartsNext
    <3>2. \A k \in Starts(s) : i <= k <=> (k = i \/ next <= k)
      <4> HIDE DEF next
      <4> QED BY <2>2, <3>1
    <3> HIDE DEF next
    <3> QED BY <3>2
  <2>5. f[i] = IF ReadAt(s, i) = {} THEN Undecodable
               ELSE IF ~f[next].ok THEN Undecodable
               ELSE [ok |-> TRUE, out |-> <<CHOOSE c \in ReadAt(s, i) : TRUE>> \o f[next].out]
    <3>1. i \in 1 .. (L + 3) /\ ~ (i > Len(s))
      BY <1>0, <2>2 DEF L
    <3>2. f[i] = DecodedAt(s, f, i)
      BY <1>2, <3>1
    <3> QED BY <3>1, <3>2 DEF DecodedAt
  <2>6. /\ ReadAt(s, i) # {} <=> Readable(s, i)
        /\ Readable(s, i) => ReadAt(s, i) = {Meant(s, i)} /\ Meant(s, i) \in Int
    BY ReadAtIs
  <2>7. Undecodable.ok = FALSE
    BY DEF Undecodable
  <2>8. AllReadable(s) => Chars(t, From(i)) = <<Meant(s, i)>> \o Chars(t, From(next))
    <3> SUFFICES ASSUME AllReadable(s) PROVE Chars(t, From(i)) = <<Meant(s, i)>> \o Chars(t, From(next))
      OBVIOUS
    <3>1. t \in String /\ Len(t) = L /\ t[i] = Meant(s, i) /\ i \in 1 .. Len(t)
      BY <1>5, <2>2
    <3> HIDE DEF next
    <3>2. \A k \in 1 .. i : k \notin From(next)
      BY <1>0, <2>2
    <3>3. \A k \in 1 .. Len(t) : k \in From(i) <=> (k = i \/ k \in From(next))
      BY <2>4
    <3> HIDE DEF From
    <3> QED BY <3>1, <3>2, <3>3, CharsBefore
  <2> HIDE DEF next, From
  <2>9. (\A k \in From(i) : Readable(s, k)) <=> Readable(s, i) /\ \A k \in From(next) : Readable(s, k)
    BY <2>4
  <2>10. CASE ~ Readable(s, i)
    <3>1. f[i] = Undecodable /\ ~ AllReadable(s)
      BY <1>4, <2>5, <2>6, <2>10
    <3> QED BY <2>7, <2>9, <2>10, <3>1
  <2>11. CASE Readable(s, i) /\ ~ f[next].ok
    <3>1. f[i] = Undecodable
      BY <2>5, <2>6, <2>11
    <3>2. ~ \A k \in From(next) : Readable(s, k)
      BY <2>3, <2>11
    <3>3. ~ AllReadable(s)
      BY <1>4, <3>2 DEF From
    <3> QED BY <2>7, <2>9, <3>1, <3>2, <3>3
  <2>12. CASE Readable(s, i) /\ f[next].ok
    <3>1. (CHOOSE c \in ReadAt(s, i) : TRUE) = Meant(s, i)
      BY <2>6, <2>12
    <3>2. f[i] = [ok |-> TRUE, out |-> <<Meant(s, i)>> \o f[next].out]
      BY <2>5, <2>6, <2>12, <3>1
    <3>3. f[i].ok /\ f[i].out = <<Meant(s, i)>> \o f[next].out /\ f[i] = [ok |-> TRUE, out |-> f[i].out]
      BY <3>2
    <3>4. \A k \in From(next) : Readable(s, k)
      BY <2>3, <2>12
    <3>5. AllReadable(s) => f[next].out = Chars(t, From(next))
      BY <2>3
    <3> QED BY <2>8, <2>9, <2>12, <3>3, <3>4, <3>5
  <2> QED BY <2>10, <2>11, <2>12
<1>9. 0 \in K
  BY <1>0
<1>10. ASSUME NEW k \in 0 .. (L - 1), k \in K PROVE k + 1 \in K
  <2>1. k \in Nat /\ k + 1 \in 0 .. L /\ L - (k + 1) = L - k - 1
    BY <1>0
  <2> SUFFICES ASSUME NEW i \in Starts(s), i > L - (k + 1) PROVE Right(i)
    BY <2>1
  <2> DEFINE next == IF s[i] = Percent THEN i + 3 ELSE i + 1
  <2>2. ASSUME next <= L PROVE Right(next)
    <3>1. next = i + Width(s[i])
      BY DEF Width
    <3>2. next \in Starts(s)
      BY <2>2, <3>1, StartsNext DEF L
    <3>3. next > L - k
      BY <1>0, <2>1
    <3> HIDE DEF next, Right
    <3> QED BY <1>10, <3>2, <3>3
  <2> HIDE DEF Right
  <2> QED BY <1>8, <2>2
<1> HIDE DEF Right
<1>11. \A i \in Starts(s) : Right(i)
  <2> HIDE DEF K
  <2>1. L \in K
    <3>1. \A k \in 0 .. L : k \in K
      BY <1>0, <1>9, <1>10, UpTo
    <3> QED BY <1>0, <3>1
  <2>2. \A i \in Starts(s) : i > L - L
    BY <1>0
  <2> QED BY <2>1, <2>2 DEF K
<1>12. Right(1)
  <2>1. CASE L = 0
    BY <1>7, <2>1
  <2>2. CASE L # 0
    <3>1. 1 \in 1 .. L /\ \A j \in Starts(s) : ~ (j < 1)
      BY <1>0, <2>2
    <3>2. 1 \in Starts(s)
      BY <3>1, StartsIs DEF L
    <3> QED BY <1>11, <3>2
  <2> QED BY <2>1, <2>2
<1>13. From(1) = Starts(s)
  BY <1>0
<1> HIDE DEF From
<1> QED BY <1>1, <1>4, <1>6, <1>12, <1>13 DEF Right

\* What operator>> makes of two hexadecimal digits, and of what is no number.
LEMMA HexIntOfEscape ==
  ASSUME NEW s \in String, NEW i \in 1 .. Len(s), s[i] = Percent
  PROVE  /\ IsEscape(s, i) =>
              Readable(s, i) /\ HexInt(s[i + 1], s[i + 2]) = {16 * Hex(s[i + 1]) + Hex(s[i + 2])}
         /\ ~IsEscape(s, i) /\ ~IsHalfEscape(s, i) => ~Readable(s, i)
<1> DEFINE a == s[i + 1]
           b == s[i + 2]
<1>1. \A c : IsHex(c) /\ IsHex(b) => HexInt(c, b) = {16 * Hex(c) + Hex(b)}
  BY DEF HexInt
<1>2. ~ (IsHex(a) /\ IsHex(b)) /\ ~ (IsHex(a) /\ ~IsHex(b)) /\ ~ (a \in {Plus, Minus} /\ IsHex(b))
        => HexInt(a, b) = {}
  BY DEF HexInt
<1>3. Readable(s, i) <=> i + 2 <= Len(s) /\ HexInt(a, b) # {}
  BY DEF Readable
<1>4. IsEscape(s, i) <=> i + 2 <= Len(s) /\ IsHex(a) /\ IsHex(b)
  BY DEF IsEscape
<1>5. IsHalfEscape(s, i) <=> i + 2 <= Len(s) /\ (\/ IsHex(a) /\ ~IsHex(b)
                                                 \/ a \in {Plus, Minus} /\ IsHex(b))
  BY DEF IsHalfEscape
<1> HIDE DEF a, b
<1>6. IsEscape(s, i) => Readable(s, i) /\ HexInt(a, b) = {16 * Hex(a) + Hex(b)}
  BY <1>1, <1>3, <1>4
<1>7. ~IsEscape(s, i) /\ ~IsHalfEscape(s, i) => ~Readable(s, i)
  BY <1>2, <1>3, <1>4, <1>5
<1> QED BY <1>6, <1>7 DEF a, b

\* What the escape or character at i stands for, as Decoded says.
StandsFor(s, i) ==
  CASE i \in Starts(s) /\ s[i] = Percent -> Escaped(s, i)
    [] i \in Starts(s) /\ s[i] = Plus -> Blank
    [] OTHER -> s[i]

\* request_handler.cpp: url_decode returns what a path that is encoded as it should be
\* stands for, and fails on an escape that is no number at all.
THEOREM UrlDecodeIsDecoded ==
  ASSUME NEW s \in String
  PROVE  /\ Decodable(s) => url_decode(s) = [ok |-> TRUE, out |-> Decoded(s)]
         /\ Garbled(s) => url_decode(s) = Undecodable
<1>1. Starts(s) \in SUBSET (1 .. Len(s)) /\ DOMAIN s = 1 .. Len(s)
  BY StartsIs DEF String
<1>2. ASSUME Decodable(s)
      PROVE  url_decode(s) = [ok |-> TRUE, out |-> Decoded(s)]
  <2>1. AllReadable(s)
    <3>1. \A k \in Starts(s) : s[k] = Percent => Readable(s, k)
      BY <1>1, <1>2, HexIntOfEscape DEF Decodable
    <3> QED BY <3>1 DEF AllReadable, Readable
  <2>2. ASSUME NEW k \in 1 .. Len(s) PROVE Meant(s, k) = StandsFor(s, k)
    <3>1. CASE k \in Starts(s) /\ s[k] = Percent
      <4> DEFINE v == 16 * Hex(s[k + 1]) + Hex(s[k + 2])
                 H == HexInt(s[k + 1], s[k + 2])
      <4>1. IsEscape(s, k)
        BY <1>2, <3>1 DEF Decodable
      <4>2. H = {v}
        BY <3>1, <4>1, HexIntOfEscape
      <4>3. Meant(s, k) = ToChar(CHOOSE x \in H : TRUE)
        BY <3>1 DEF Meant, Plus, Percent
      <4> HIDE DEF v, H
      <4>4. Meant(s, k) = ToChar(v)
        BY <4>2, <4>3
      <4>5. StandsFor(s, k) = ToChar(v)
        BY <3>1 DEF StandsFor, Escaped, Plus, Percent, v
      <4> QED BY <4>4, <4>5
    <3>2. CASE ~ (k \in Starts(s) /\ s[k] = Percent)
      BY <3>2 DEF Meant, StandsFor
    <3> QED BY <3>1, <3>2
  <2>3. [k \in 1 .. Len(s) |-> Meant(s, k)] = [k \in 1 .. Len(s) |-> StandsFor(s, k)]
    BY <2>2, Zenon
  <2>4. Decoded(s) = Chars([k \in 1 .. Len(s) |-> StandsFor(s, k)], Starts(s))
    BY <1>1 DEF Decoded, StandsFor
  <2>5. ReadAs(s) = Decoded(s)
    BY <2>3, <2>4 DEF ReadAs
  <2> QED BY <2>1, <2>5, UrlDecodeReads
<1>3. ASSUME Garbled(s)
      PROVE  url_decode(s) = Undecodable
  <2>1. PICK k \in Starts(s) : s[k] = Percent /\ ~IsEscape(s, k) /\ ~IsHalfEscape(s, k)
    BY <1>3 DEF Garbled
  <2>2. ~Readable(s, k)
    BY <1>1, <2>1, HexIntOfEscape
  <2>3. ~AllReadable(s)
    BY <2>2 DEF AllReadable
  <2> QED BY <2>3, UrlDecodeReads
<1> QED BY <1>2, <1>3

\* What becomes of a string is known as soon as it is decided.
LEMMA LengthStays ==
  ASSUME NEW s \in String, NEW m \in 0 .. Len(s), RequestLength(Prefix(s, m)) # -1
  PROVE  RequestLength(s) = RequestLength(Prefix(s, m))
<1> DEFINE t == Prefix(s, m)
           l == RequestLength(t)
           k == RequestLength(s)
<1>0. Len(s) \in Nat /\ m \in Nat /\ m <= Len(s) /\ m \in 0 .. m /\ Len(s) \in m .. Len(s)
  BY DEF String
<1>1. t \in String /\ Len(t) = m
  BY PrefixFacts
<1>2. parse(NewParser, t) = Parsed(s, m) /\ parse(NewParser, s) = Parsed(s, Len(s))
  BY WholePrefix DEF Parsed
<1>3. /\ l \in -1 .. Len(t)
      /\ Parsed(s, m).result
           = CASE l = -1 -> "indeterminate" [] l = 0 -> "bad" [] l > 0 -> "good"
  BY <1>1, <1>2, ParserIsGrammar
<1>4. /\ k \in -1 .. Len(s)
      /\ Parsed(s, Len(s)).result
           = CASE k = -1 -> "indeterminate" [] k = 0 -> "bad" [] k > 0 -> "good"
  BY <1>2, ParserIsGrammar
<1>5. l # -1 /\ l \in 0 .. m
  BY <1>0, <1>1, <1>3
<1>6. Parsed(s, m).result = IF l = 0 THEN "bad" ELSE "good"
  BY <1>3, <1>5
<1>7. Parsed(s, Len(s)) = Parsed(s, m)
  BY <1>0, <1>6, ParsedStays
<1>8. IF l = 0 THEN k = 0 ELSE k > 0
  <2>1. k = -1 \/ k = 0 \/ k > 0
    BY <1>4
  <2> HIDE DEF k, l
  <2> QED BY <1>4, <1>6, <1>7, <2>1
<1>9. ASSUME NEW u \in String, RequestLength(u) > 0
      PROVE  /\ RequestLength(u) \in 1 .. Len(u)
             /\ IsRequest(Prefix(u, RequestLength(u)))
  <2> DEFINE requests == {n \in 1 .. Len(u) : IsRequest(Prefix(u, n))}
  <2>1. RequestLength(u) = IF requests # {} THEN FirstOf(requests)
                           ELSE IF CanGoOn(u) THEN -1 ELSE 0
    BY DEF RequestLength
  <2>2. requests # {}
    <3> HIDE DEF requests
    <3> QED BY <1>9, <2>1
  <2>3. requests \in SUBSET Nat
    OBVIOUS
  <2>4. FirstOf(requests) \in requests
    <3> HIDE DEF requests
    <3> QED BY <2>2, <2>3, FirstOfNat
  <2>5. RequestLength(u) \in requests
    <3> HIDE DEF requests
    <3> QED BY <2>1, <2>2, <2>4
  <2> QED BY <2>5
<1>10. CASE l # 0
  <2>1. l \in 1 .. Len(t) /\ IsRequest(Prefix(t, l))
    BY <1>1, <1>5, <1>9, <1>10
  <2>2. k \in 1 .. Len(s) /\ IsRequest(Prefix(s, k))
    BY <1>8, <1>9, <1>10
  <2>3. l \in 1 .. Len(s) /\ l \in 0 .. m
    BY <1>0, <1>5, <1>10
  <2> HIDE DEF k, l
  <2>4. IsRequest(Prefix(s, l))
    BY <2>1, <2>3, PrefixOfPrefix
  <2>5. \A i, j \in 1 .. Len(s) :
          IsRequest(Prefix(s, i)) /\ IsRequest(Prefix(s, j)) => ~ (i < j)
    <3> SUFFICES ASSUME NEW i \in 1 .. Len(s), NEW j \in 1 .. Len(s), i < j,
                        IsRequest(Prefix(s, i)), IsRequest(Prefix(s, j))
                 PROVE  FALSE
      OBVIOUS
    <3>1. i \in 0 .. (j - 1)
      BY <1>0
    <3>2. Parsed(s, i).result = "indeterminate"
      BY <3>1, PrefixIsRequest
    <3>3. Parsed(s, i).result = "good"
      BY PrefixIsRequest
    <3> QED BY <3>2, <3>3
  <2>6. ~ (k < l) /\ ~ (l < k)
    BY <2>2, <2>3, <2>4, <2>5
  <2>7. k \in Int /\ l \in Int
    BY <1>0, <2>2, <2>3
  <2>8. k = l
    BY <2>6, <2>7
  <2> QED BY <2>8 DEF k, l
<1> QED BY <1>8, <1>10

-----------------------------------------------------------------------------
(* The list of handlers.                                                   *)

\* A list as reg leaves it when no url is registered twice.
Ordered(list) ==
  \A i, j \in DOMAIN list : i < j => list[i] # list[j] /\ Len(list[i]) >= Len(list[j])

\* Registering a url that is not in an ordered list adds it and keeps the list ordered.
LEMMA RegisteredIs ==
  ASSUME NEW U \in SUBSET String, NEW list \in Seq(U), Ordered(list),
         NEW url \in U, \A i \in DOMAIN list : list[i] # url, NEW l \in registered(list, url)
  PROVE  /\ l \in Seq(U) /\ Ordered(l)
         /\ {l[i] : i \in DOMAIN l} = {list[i] : i \in DOMAIN list} \union {url}
<1> DEFINE n == Len(list)
           urls == {list[i] : i \in DOMAIN list} \union {url}
           At(f, u) == {i \in DOMAIN f : f[i] = u}
<1>0. n \in Nat /\ DOMAIN list = 1 .. n /\ urls \in SUBSET U /\ \A i \in 1 .. n : list[i] \in U
  OBVIOUS
<1>1. /\ l \in [1 .. n + 1 -> urls]
      /\ \A u \in urls : Cardinality(At(l, u)) = Cardinality(At(list, u)) + (IF u = url THEN 1 ELSE 0)
      /\ \A i, j \in DOMAIN l : i < j => Len(l[i]) >= Len(l[j])
  BY DEF registered
<1>2. DOMAIN l = 1 .. (n + 1) /\ n + 1 \in Nat
  BY <1>0, <1>1
<1>3. ASSUME NEW u \in urls
      PROVE  Cardinality(At(list, u)) = IF u = url THEN 0 ELSE 1
  <2>1. CASE u = url
    <3>1. At(list, u) = {}
      BY <2>1
    <3> QED BY <2>1, <3>1, FS_EmptySet
  <2>2. CASE u # url
    <3>1. PICK i \in 1 .. n : list[i] = u
      BY <1>0, <2>2
    <3>2. \A j \in 1 .. n : list[j] = u => j = i
      <4> SUFFICES ASSUME NEW j \in 1 .. n, list[j] = u, j # i PROVE FALSE
        OBVIOUS
      <4>1. i < j \/ j < i
        BY <1>0
      <4> QED BY <1>0, <3>1, <4>1 DEF Ordered
    <3>3. At(list, u) = {i}
      BY <1>0, <3>1, <3>2
    <3> HIDE DEF At
    <3> QED BY <2>2, <3>3, FS_Singleton
  <2> QED BY <2>1, <2>2
<1>4. ASSUME NEW u \in urls PROVE \E i : At(l, u) = {i}
  <2>1. Cardinality(At(l, u)) = 1
    <3>1. Cardinality(At(l, u)) = Cardinality(At(list, u)) + (IF u = url THEN 1 ELSE 0)
      BY <1>1
    <3> HIDE DEF At, urls
    <3> QED BY <1>3, <3>1
  <2>2. IsFiniteSet(At(l, u))
    <3>1. IsFiniteSet(1 .. (n + 1))
      BY <1>2, FS_Interval
    <3>2. At(l, u) \in SUBSET (1 .. (n + 1))
      BY <1>2
    <3> HIDE DEF At
    <3> QED BY <3>1, <3>2, FS_Subset
  <2> HIDE DEF At
  <2> QED BY <2>1, <2>2, FS_Singleton
<1>5. l \in Seq(U)
  <2>1. l \in [1 .. n + 1 -> U]
    BY <1>0, <1>1
  <2> QED BY <1>2, <2>1
<1>6. Ordered(l)
  <2> SUFFICES ASSUME NEW i \in DOMAIN l, NEW j \in DOMAIN l, i < j, l[i] = l[j]
               PROVE  FALSE
    BY <1>1 DEF Ordered
  <2>1. l[i] \in urls
    BY <1>1
  <2>2. PICK k : At(l, l[i]) = {k}
    BY <1>4, <2>1
  <2>3. i \in At(l, l[i]) /\ j \in At(l, l[i])
    OBVIOUS
  <2>4. i = k /\ j = k
    BY <2>2, <2>3
  <2> QED BY <1>2, <2>4
<1>7. {l[i] : i \in DOMAIN l} = urls
  <2>1. \A i \in DOMAIN l : l[i] \in urls
    BY <1>1
  <2>2. \A u \in urls : \E i \in DOMAIN l : l[i] = u
    <3> TAKE u \in urls
    <3>1. PICK i : At(l, u) = {i}
      BY <1>4
    <3>2. i \in At(l, u)
      BY <3>1
    <3> QED BY <3>2
  <2> HIDE DEF urls
  <2> QED BY <2>1, <2>2
<1> QED BY <1>5, <1>6, <1>7

\* The first that fits is the longest that fits.
LEMMA DispatchedIs ==
  ASSUME NEW U \in SUBSET String, NEW list \in Seq(U), Ordered(list),
         {list[i] : i \in DOMAIN list} = U, NEW path
  PROVE  LET fits == {u \in U : StartsWith(path, u)}
         IN  dispatched(list, path) =
               IF fits = {} THEN StockReply("not_found")
               ELSE HandlerReply(CHOOSE u \in fits : \A v \in fits : Len(v) <= Len(u))
<1> DEFINE fits == {u \in U : StartsWith(path, u)}
           F == {i \in DOMAIN list : StartsWith(path, list[i])}
<1>0. DOMAIN list = 1 .. Len(list) /\ Len(list) \in Nat /\ \A i \in DOMAIN list : list[i] \in U
  OBVIOUS
<1>1. dispatched(list, path) = IF F = {} THEN StockReply("not_found")
                               ELSE HandlerReply(list[CHOOSE i \in F : \A j \in F : i <= j])
  BY DEF dispatched
<1>2. fits = {list[i] : i \in F}
  BY <1>0
<1>3. CASE F = {}
  <2>1. fits = {}
    BY <1>2, <1>3
  <2> HIDE DEF fits, F
  <2> QED BY <1>1, <1>3, <2>1 DEF fits
<1>4. CASE F # {}
  <2> DEFINE i == CHOOSE k \in F : \A j \in F : k <= j
             u == list[i]
  <2>1. i \in F /\ \A j \in F : i <= j
    <3>1. F \in SUBSET Nat
      BY <1>0
    <3>2. \E k \in F : \A j \in F : k <= j
      <4> HIDE DEF F
      <4> QED BY <1>4, <3>1, LeastNat
    <3> HIDE DEF F
    <3> QED BY <3>2
  <2> HIDE DEF i
  <2>2. \A v \in fits : Len(v) <= Len(u)
    <3> TAKE v \in fits
    <3>1. PICK j \in F : list[j] = v
      BY <1>2
    <3>2. i \in DOMAIN list /\ j \in DOMAIN list /\ i <= j
      BY <2>1
    <3>3. Len(u) \in Nat
      BY <1>0, <3>2 DEF String
    <3>4. CASE i = j
      BY <3>1, <3>3, <3>4
    <3>5. CASE i < j
      <4>1. Len(list[i]) >= Len(list[j])
        BY <3>2, <3>5 DEF Ordered
      <4>2. Len(v) \in Nat
        BY <1>0, <3>1 DEF String
      <4> QED BY <3>1, <3>3, <4>1, <4>2
    <3> QED BY <1>0, <3>2, <3>4, <3>5
  <2>3. u \in fits
    BY <1>2, <2>1
  <2>4. \A v, w \in fits : Len(v) = Len(w) => v = w
    BY DEF StartsWith
  <2>5. \A v \in fits : Len(v) \in Nat
    BY DEF String
  <2>6. (CHOOSE v \in fits : \A w \in fits : Len(w) <= Len(v)) = u
    <3> DEFINE v0 == CHOOSE v \in fits : \A w \in fits : Len(w) <= Len(v)
    <3>1. v0 \in fits /\ \A w \in fits : Len(w) <= Len(v0)
      <4> HIDE DEF fits, u
      <4> QED BY <2>2, <2>3
    <3> HIDE DEF v0
    <3>2. Len(u) <= Len(v0) /\ Len(v0) <= Len(u)
      BY <2>2, <2>3, <3>1
    <3>3. Len(u) = Len(v0)
      <4> HIDE DEF fits, u
      <4> QED BY <2>3, <2>5, <3>1, <3>2
    <3> HIDE DEF fits, u
    <3>4. v0 = u
      BY <2>3, <2>4, <3>1, <3>3
    <3> QED BY <3>4 DEF v0
  <2>7. dispatched(list, path) = HandlerReply(u)
    BY <1>1, <1>4 DEF i
  <2> QED BY <2>3, <2>6, <2>7
<1> QED BY <1>3, <1>4

=============================================================================
