---------------------------- MODULE HttpService ----------------------------
(***************************************************************************)
(* What clients of the HTTP server rely on: a client gets one reply at     *)
(* most, and it is the one to what that client sends,                      *)
(*                                                                         *)
(*  - when that begins with a request, the reply of the handler with the   *)
(*    longest prefix of its decoded path, or "not_found" if there is none; *)
(*    "bad_request" if an escape in the path is no number;                 *)
(*  - "bad_request" when nothing can make it a request any more;           *)
(*  - none while it is the beginning of a request.                         *)
(***************************************************************************)
EXTENDS RequestGrammar

CONSTANTS
  Url,       (* The prefixes handlers are registered for.                  *)
  Scenario   (* What clients may send: functions from clients to strings.  *)

VARIABLES
  stream,    (* What each client sends.                                    *)
  got        (* The reply it got, NoReply before.                          *)

NoReply == [status |-> "none", by |-> <<>>]

\* The longest of the prefixes that fit.
Longest(path) ==
  LET fits == {u \in Url : StartsWith(path, u)}
  IN  IF fits = {} THEN StockReply("not_found")
      ELSE HandlerReply(CHOOSE u \in fits : \A v \in fits : Len(v) <= Len(u))

BadRequest == StockReply("bad_request")
Replies == {BadRequest, StockReply("not_found")} \union {HandlerReply(u) : u \in Url}

\* Escapes of which only a part is a number leave the reply open.
IsAnswer(r, s) ==
  LET length == RequestLength(s)
      path == Request(Prefix(s, length)).uri
  IN  /\ length # -1
      /\ length = 0 => r = BadRequest
      /\ length > 0 /\ Decodable(path) => r = Longest(Decoded(path))
      /\ length > 0 /\ Garbled(path) => r = BadRequest

Init == stream \in Scenario /\ got = [c \in DOMAIN stream |-> NoReply]

Reply(c) ==
  /\ got[c] = NoReply
  /\ \E r \in Replies : got' = [got EXCEPT ![c] = r] /\ IsAnswer(r, stream[c])
  /\ UNCHANGED stream

Next == \E c \in DOMAIN stream : Reply(c)

Spec == Init /\ [][Next]_<<stream, got>>
=============================================================================
