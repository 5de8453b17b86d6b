------------------------- MODULE HttpServerClients -------------------------
(***************************************************************************)
(* HttpServer as its clients see it: what the parser makes of any pieces   *)
(* of a stream is what the grammar says of the stream, and the server is   *)
(* an HttpService.                                                         *)
(***************************************************************************)
EXTENDS HttpServer, RequestGrammar

\* The streams of the scenarios and the beginnings of them, with their requests.
Streams == UNION {{s[c] : c \in DOMAIN s} : s \in Scenario}
Beginnings == UNION {{Prefix(s, n) : n \in 0 .. Len(s)} : s \in Streams}
LengthOf == [s \in Beginnings |-> RequestLength(s)]

ReadSoFar(x) == Prefix(stream[connection[x].peer], client[connection[x].peer].read)

\* In whatever pieces a stream is read, the parser decides as soon as a request is
\* complete or can no longer become one, and never otherwise; the handlers are
\* given the method, the path and the headers that were sent, the path decoded.
ParserFollowsGrammar ==
  \A x \in DOMAIN connection \ {new_connection_} :
    LET p == connection[x].parser
        s == ReadSoFar(x)
        request == Request(Prefix(s, LengthOf[s]))
    IN  /\ p.result = CASE LengthOf[s] = -1 -> "indeterminate"
                        [] LengthOf[s] = 0 -> "bad"
                        [] LengthOf[s] > 0 -> "good"
        /\ p.result = "good" =>
             /\ p.method = request.method /\ p.headers = request.headers
             /\ Decodable(request.uri) => p.uri = Decoded(request.uri)
             /\ Garbled(request.uri) => p.uri = request.uri

\* request_handler.hpp:62-63 of url_decode: "Perform URL-decoding on a string.
\* Returns false if the encoding was invalid."  Then the reply is "bad_request" to
\* every request whose path is not encoded as it should be.
InvalidPathsRejected ==
  \A c \in DOMAIN stream :
    LET s == stream[c]
    IN  LengthOf[s] > 0 /\ ~Decodable(Request(Prefix(s, LengthOf[s])).uri)
          => client[c].got \in {NoReply, StockReply("bad_request")}

Service == INSTANCE HttpService WITH got <- [c \in DOMAIN stream |-> client[c].got]

\* Each client gets the reply to what it sent, or none: requests of several clients
\* are not mixed up, and the longest prefix handles a request in whatever order
\* handlers were registered.
ImplementsHttpService == Service!Spec

\* A client that sends a request, or what cannot become one, gets its reply unless
\* it hangs up or the server is stopped: idle clients and failing accepts do not
\* keep others from being served.
EveryClientAnswered ==
  \A c \in Client :
    (/\ c \in DOMAIN stream
     /\ client[c].at \in {"backlog", "accepted"}
     /\ LengthOf[stream[c]] # -1)
      ~> (c \in DOMAIN stream =>
            \/ client[c].got # NoReply \/ client[c].at = "gone"
            \/ state \in {"stopped", "returned"})
=============================================================================
