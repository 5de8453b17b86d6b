--------------------------- MODULE RequestParser ---------------------------
(***************************************************************************)
(* http::server::request_parser (src/3rd/asio_http): a state machine that  *)
(* is fed a request character by character, in as many pieces as the reads *)
(* of the connection deliver, and fills in the request as it goes.         *)
(*                                                                         *)
(* A character is its code as a signed char, -128 .. 127, a string is a    *)
(* sequence of characters, and a value is the record of request_parser and *)
(* the request it fills: a parser only ever works on one request.          *)
(* The numbers of the HTTP version, which nothing reads, are left out.     *)
(***************************************************************************)
EXTENDS Integers, Sequences

HT == 9
LF == 10
CR == 13
SP == 32
Dot == 46
Slash == 47
Colon == 58

is_char(c) == c \in 0 .. 127
is_ctl(c) == c \in 0 .. 31 \/ c = 127
is_digit(c) == c \in 48 .. 57

\* ( ) < > @ , ; : \ " / [ ] ? = { } and blanks.
Tspecials == {40, 41, 60, 62, 64, 44, 59, Colon, 92, 34, Slash, 91, 93, 63, 61, 123, 125, SP, HT}
is_tspecial(c) == c \in Tspecials

\* The characters of a method or a header's name.
IsToken(c) == is_char(c) /\ ~is_ctl(c) /\ ~is_tspecial(c)

NoHeaders == [n \in {} |-> <<>>]

\* request_parser() with an empty request.
NewParser ==
  [state |-> "method_start", result |-> "indeterminate",
   method |-> <<>>, uri |-> <<>>, headers |-> NoHeaders,
   header_name |-> <<>>, header_value |-> <<>>]

-----------------------------------------------------------------------------
(* consume.                                                                *)

Goto(p, state) == [p EXCEPT !.state = state]
Bad(p) == [p EXCEPT !.result = "bad"]

\* The states that accept one character only: that character and the next state.
Fixed ==
  [http_version_h |-> [char |-> 72, next |-> "http_version_t_1"],
   http_version_t_1 |-> [char |-> 84, next |-> "http_version_t_2"],
   http_version_t_2 |-> [char |-> 84, next |-> "http_version_p"],
   http_version_p |-> [char |-> 80, next |-> "http_version_slash"],
   http_version_slash |-> [char |-> Slash, next |-> "http_version_major_start"],
   expecting_newline_1 |-> [char |-> LF, next |-> "header_line_start"],
   space_before_header_value |-> [char |-> SP, next |-> "header_value"],
   expecting_newline_2 |-> [char |-> LF, next |-> "header_line_start"]]

consumeFixed(p, c) == IF c = Fixed[p.state].char THEN Goto(p, Fixed[p.state].next) ELSE Bad(p)

consumeRequestLine(p, c) ==
  CASE p.state \in {"method_start", "method"} /\ IsToken(c) ->
         [p EXCEPT !.state = "method", !.method = Append(@, c)]
    [] p.state = "method" /\ c = SP -> Goto(p, "uri")
    [] p.state = "uri" /\ c = SP -> Goto(p, "http_version_h")
    [] p.state = "uri" /\ c # SP /\ ~is_ctl(c) -> [p EXCEPT !.uri = Append(@, c)]
    [] p.state = "http_version_major_start" /\ is_digit(c) -> Goto(p, "http_version_major")
    [] p.state = "http_version_major" /\ is_digit(c) -> p
    [] p.state = "http_version_major" /\ c = Dot -> Goto(p, "http_version_minor_start")
    [] p.state = "http_version_minor_start" /\ is_digit(c) -> Goto(p, "http_version_minor")
    [] p.state = "http_version_minor" /\ is_digit(c) -> p
    [] p.state = "http_version_minor" /\ c = CR -> Goto(p, "expecting_newline_1")
    [] OTHER -> Bad(p)

\* req.headers[header_name_] = header_value_
Stored(p) ==
  [n \in DOMAIN p.headers \union {p.header_name} |->
     IF n = p.header_name THEN p.header_value ELSE p.headers[n]]

\* Mutant: the value of the header before is not cleared.
headerLineStart_NotCleared(p, c) ==
  CASE c = CR -> Goto(p, "expecting_newline_3")
    [] c \in {SP, HT} /\ p.headers # NoHeaders -> Goto(p, "header_lws")
    [] IsToken(c) -> [p EXCEPT !.state = "header_name", !.header_name = <<c>>]
    [] OTHER -> Bad(p)

\* A line that begins with a blank goes on with the value of the line before.
headerLineStart(p, c) ==
  CASE c = CR -> Goto(p, "expecting_newline_3")
    [] c \in {SP, HT} /\ p.headers # NoHeaders -> Goto(p, "header_lws")
    [] IsToken(c) ->
         [p EXCEPT !.state = "header_name", !.header_name = <<c>>, !.header_value = <<>>]
    [] OTHER -> Bad(p)

consumeHeader(p, c) ==
  CASE p.state = "header_line_start" -> headerLineStart(p, c)
    [] p.state = "header_name" /\ c = Colon -> Goto(p, "space_before_header_value")
    [] p.state = "header_name" /\ IsToken(c) -> [p EXCEPT !.header_name = Append(@, c)]
    [] p.state = "header_lws" /\ c = CR -> Goto(p, "expecting_newline_2")
    [] p.state = "header_lws" /\ c \in {SP, HT} -> p
    [] p.state = "header_value" /\ c = CR ->
         [p EXCEPT !.state = "expecting_newline_2", !.headers = Stored(p)]
    [] p.state \in {"header_lws", "header_value"} /\ ~is_ctl(c)
         /\ ~(p.state = "header_lws" /\ c = SP) ->
         [p EXCEPT !.state = "header_value", !.header_value = Append(@, c)]
    [] p.state = "expecting_newline_3" /\ c = LF -> [p EXCEPT !.result = "good"]
    [] OTHER -> Bad(p)

HeaderStates ==
  {"header_line_start", "header_lws", "header_name", "header_value", "expecting_newline_3"}

consume(p, c) ==
  IF p.state \in DOMAIN Fixed THEN consumeFixed(p, c)
  ELSE IF p.state \in HeaderStates THEN consumeHeader(p, c)
  ELSE consumeRequestLine(p, c)

-----------------------------------------------------------------------------

\* Mutant: every piece is parsed from the first state.
parse_Restarted(p, piece) ==
  LET after[i \in 0 .. Len(piece)] ==
        IF i = 0 THEN [p EXCEPT !.state = "method_start", !.result = "indeterminate"]
        ELSE LET q == after[i - 1]
             IN  IF q.result = "indeterminate" THEN consume(q, piece[i]) ELSE q
  IN  after[Len(piece)]

\* parse: what follows the character that decides is not looked at.
parse(p, piece) ==
  LET after[i \in 0 .. Len(piece)] ==
        IF i = 0 THEN [p EXCEPT !.result = "indeterminate"]
        ELSE LET q == after[i - 1]
             IN  IF q.result = "indeterminate" THEN consume(q, piece[i]) ELSE q
  IN  after[Len(piece)]
=============================================================================
