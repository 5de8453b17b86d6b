--------------------------- MODULE RequestHandler ---------------------------
(***************************************************************************)
(* http::server::request_handler (src/3rd/asio_http): the list of handlers *)
(* by prefix of the path, and the decoding of the path.  A handler is      *)
(* named by the prefix it is registered for.                               *)
(***************************************************************************)
EXTENDS Integers, Sequences, FiniteSets

Percent == 37
Plus == 43
Minus == 45
Blank == 32

-----------------------------------------------------------------------------
(* url_decode.                                                             *)

\* The value of a hexadecimal digit, -1 of any other character.
Hex(c) ==
  CASE c \in 48 .. 57 -> c - 48
    [] c \in 65 .. 70 -> c - 55
    [] c \in 97 .. 102 -> c - 87
    [] OTHER -> -1

IsHex(c) == Hex(c) >= 0

\* What `is >> std::hex >> value' can read from two characters, neither of them
\* white space: {} when it fails.  It stops at the first character that does not
\* belong to a number, takes a sign, and fails on a lone 0x.
HexInt(a, b) ==
  IF IsHex(a) /\ IsHex(b) THEN {16 * Hex(a) + Hex(b)}
  ELSE IF IsHex(a) /\ ~(a = 48 /\ b \in {88, 120}) THEN {Hex(a)}
  ELSE IF a \in {Plus, Minus} /\ IsHex(b) THEN {IF a = Plus THEN Hex(b) ELSE -Hex(b)}
  ELSE {}

\* static_cast<char>(value)
ToChar(value) == IF value > 127 THEN value - 256 ELSE value

Undecodable == [ok |-> FALSE, out |-> <<>>]

\* Mutant: an escape at the end of the path is taken for cut off.
url_decode_EndCut(in) ==
  LET from[i \in 1 .. Len(in) + 3] ==
        IF i > Len(in) THEN [ok |-> TRUE, out |-> <<>>]
        ELSE LET rest == from[IF in[i] = Percent THEN i + 3 ELSE i + 1]
                 read == IF in[i] # Percent THEN {IF in[i] = Plus THEN Blank ELSE in[i]}
                         ELSE IF i + 2 < Len(in)
                         THEN {ToChar(v) : v \in HexInt(in[i + 1], in[i + 2])}
                         ELSE {}
             IN  IF read = {} THEN Undecodable
                 ELSE IF ~rest.ok THEN Undecodable
                 ELSE [ok |-> TRUE, out |-> <<CHOOSE c \in read : TRUE>> \o rest.out]
  IN  from[1]

\* The loop over `in': from[i] is what it makes of the characters from i on.
url_decode(in) ==
  LET from[i \in 1 .. Len(in) + 3] ==
        IF i > Len(in) THEN [ok |-> TRUE, out |-> <<>>]
        ELSE LET rest == from[IF in[i] = Percent THEN i + 3 ELSE i + 1]
                 read == IF in[i] # Percent THEN {IF in[i] = Plus THEN Blank ELSE in[i]}
                         ELSE IF i + 2 <= Len(in)
                         THEN {ToChar(v) : v \in HexInt(in[i + 1], in[i + 2])}
                         ELSE {}
             IN  IF read = {} THEN Undecodable
                 ELSE IF ~rest.ok THEN Undecodable
                 ELSE [ok |-> TRUE, out |-> <<CHOOSE c \in read : TRUE>> \o rest.out]
  IN  from[1]

-----------------------------------------------------------------------------
(* The list of handlers.                                                   *)

StartsWith(path, key) == Len(key) <= Len(path) /\ SubSeq(path, 1, Len(key)) = key

\* Mutant: the list is left in the order of registration.
registered_Unsorted(list, url) == {Append(list, url)}

\* Mutant: the url is moved from before it is stored.
registered_Moved(list, url) == {Append(list, <<>>)}

\* reg: the lists that hold one more url and are sorted by length, longest first.
\* Which of several of the same length comes first is std::sort's choice.
registered(list, url) ==
  LET urls == {list[i] : i \in DOMAIN list} \union {url}
  IN  {l \in [1 .. Len(list) + 1 -> urls] :
         /\ \A u \in urls :
              Cardinality({i \in DOMAIN l : l[i] = u})
                = Cardinality({i \in DOMAIN list : list[i] = u}) + (IF u = url THEN 1 ELSE 0)
         /\ \A i, j \in DOMAIN l : i < j => Len(l[i]) >= Len(l[j])}

\* The statuses of the replies, and the reply of a handler.
StockReply(status) == [status |-> status, by |-> <<>>]
HandlerReply(url) == [status |-> "ok", by |-> url]

\* handle_request behind the decoding: the first registered prefix handles it.
dispatched(list, path) ==
  LET fits == {i \in DOMAIN list : StartsWith(path, list[i])}
  IN  IF fits = {} THEN StockReply("not_found")
      ELSE HandlerReply(list[CHOOSE i \in fits : \A j \in fits : i <= j])
=============================================================================
