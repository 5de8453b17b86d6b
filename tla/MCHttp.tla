------------------------------- MODULE MCHttp -------------------------------
(***************************************************************************)
(* Instances of HttpServerClients for TLC.                                 *)
(*                                                                         *)
(* Either one client sends one of many streams, or two clients send short  *)
(* ones of which every combination is tried.                               *)
(***************************************************************************)
EXTENDS HttpServerClients

CONSTANTS c1, c2

RequestTo(uri) ==
  <<71, SP>> \o uri \o <<SP, 72, 84, 84, 80, Slash, 49, Dot, 48, CR, LF>>

\* "/" and "/h", registered in either order.
MCUrl == {<<Slash>>, <<Slash, 104>>}

\* Paths: /hip, the same with an h or an i escaped, /h+, /hx, h; escapes that are cut
\* off or no numbers: "/%", "/%6", "/h%z1"; escapes of which only a part is a number:
\* "/%0x", "/h%1z", "/h%-1"; and the escape of a character above 127.
Paths ==
  {<<Slash, 104, 105, 112>>, <<Slash, 37, 54, 56, 105>>, <<Slash, 104, 37, 54, 57>>,
   <<Slash, 104, 43>>, <<Slash, 104, 120>>, <<104>>, <<>>,
   <<Slash, 37>>, <<Slash, 37, 54>>, <<Slash, 104, 37, 122, 49>>, <<Slash, 37, 48, 120>>,
   <<Slash, 104, 37, 49, 122>>, <<Slash, 104, 37, 45, 49>>, <<Slash, 37, 69, 57>>}

\* GET of /h with a header A that is continued, and given twice.
Folded ==
  RequestTo(<<Slash, 104>>) \o
    <<65, Colon, SP, 98, CR, LF, SP, HT, 99, CR, LF, 66, Colon, SP, CR, LF, CR, LF>>
Twice ==
  RequestTo(<<Slash>>) \o
    <<65, Colon, SP, 98, CR, LF, HT, CR, LF, 65, Colon, SP, 100, CR, LF, CR, LF, 88>>

\* A request with one character changed, left out or added.
Edits(s) ==
  {[s EXCEPT ![i] = c] : i \in DOMAIN s, c \in {HT, LF, CR, SP, Slash, Colon, 49, 127, -1}}
    \union {SubSeq(s, 1, i - 1) \o SubSeq(s, i + 1, Len(s)) : i \in DOMAIN s}
    \union {SubSeq(s, 1, i) \o <<SP>> \o SubSeq(s, i + 1, Len(s)) : i \in DOMAIN s}

One(c, Strings) == {[d \in {c} |-> s] : s \in Strings}

\* A request, the beginning of one, and what is none.
Short == {RequestTo(<<Slash>>) \o <<CR, LF>>, <<71>>, <<SP, 71>>}

MCPaths == One(c1, {RequestTo(p) \o <<CR, LF>> : p \in Paths})

MCPairs == [{c1, c2} -> Short]

MCScenario ==
  MCPaths \union One(c1, {Twice} \union Edits(Folded)) \union MCPairs
=============================================================================
