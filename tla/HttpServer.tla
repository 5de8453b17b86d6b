----------------------------- MODULE HttpServer -----------------------------
(***************************************************************************)
(* The HTTP server of src/3rd/asio_http, on one thread, as main in         *)
(* src/src/server.cpp runs it: classes server and connection, with the     *)
(* parser and the handler.                                                 *)
(*                                                                         *)
(* Everything happens in completion handlers that run() calls one after    *)
(* the other, in any order the operations complete.  Each handler is an    *)
(* action.  An operation in flight is a pair: its kind and the connection  *)
(* object it works on, which it keeps alive (self, a shared_ptr); another  *)
(* reference is new_connection_.  An object without a reference is gone,   *)
(* and its socket closed.                                                  *)
(*                                                                         *)
(* The kernel and asio are modelled by what the handlers see of them: a    *)
(* read yields any piece of what the client sends, up to the buffer's size *)
(* and anything the client sends in the end, or an error once the client   *)
(* has hung up; a write reaches the client before its handler runs.        *)
(***************************************************************************)
EXTENDS RequestParser, RequestHandler

CONSTANTS
  Client,
  Connection,    (* Names of connection objects; as many exist at most.    *)
  Url,           (* The prefixes handlers are registered for.              *)
  Scenario,      (* What clients may send: functions from clients.         *)
  BufferSize,    (* The size of buffer_.                                   *)
  NoClient

ASSUME ServerAssumption ==
  /\ NoClient \notin Client
  /\ Connection # {}
  /\ BufferSize \in Nat \ {0}
  /\ Url \subseteq Seq(Int)
  /\ \A s \in Scenario :
       DOMAIN s \subseteq Client /\ \A c \in DOMAIN s : s[c] \in Seq(Int)

VARIABLES
  stream,        (* What each client sends.                                *)
  client,        (* client[c]: where it is, how much of its stream has     *)
                 (* been read, and the reply it got.                       *)
  state,         (* "setup" before run(), "running", "stopped" by the      *)
                 (* signal handler, "returned" from run().                 *)
  handler_list_,
  connection,    (* The connection objects in memory.                      *)
  new_connection_,
  operations     (* The operations in flight.                              *)

network == <<stream, client>>
server == <<state, handler_list_, connection, new_connection_, operations>>
vars == <<network, server>>

NoReply == [status |-> "none", by |-> <<>>]

Fresh == [peer |-> NoClient, parser |-> NewParser, reply_ |-> NoReply]

Op(kind, x) == [kind |-> kind, on |-> x]
Doing(kind, x) == Op(kind, x) \in operations

Init ==
  /\ stream \in Scenario
  /\ client = [c \in DOMAIN stream |-> [at |-> "away", read |-> 0, got |-> NoReply]]
  /\ state = "setup" /\ handler_list_ = <<>>
  /\ new_connection_ = CHOOSE x \in Connection : TRUE
  /\ connection = [x \in {new_connection_} |-> Fresh]
  /\ operations = {Op("accept", new_connection_)}

-----------------------------------------------------------------------------
(* The clients.                                                            *)

\* The acceptor listens from the constructor on, until the signal handler.
Connect(c) ==
  /\ client[c].at = "away"
  /\ state \in {"setup", "running"}
  /\ client' = [client EXCEPT ![c].at = "backlog"]
  /\ UNCHANGED <<stream, server>>

HangUp(c) ==
  /\ client[c].at \in {"backlog", "accepted"}
  /\ client' = [client EXCEPT ![c].at = "gone"]
  /\ UNCHANGED <<stream, server>>

-----------------------------------------------------------------------------
(* The life of the server.                                                 *)

\* add_handler, before run() and at most once for each prefix.
AddHandler(url) ==
  /\ state = "setup"
  /\ \A i \in DOMAIN handler_list_ : handler_list_[i] # url
  /\ handler_list_' \in registered(handler_list_, url)
  /\ UNCHANGED <<network, state, connection, new_connection_, operations>>

Run ==
  /\ state = "setup"
  /\ {handler_list_[i] : i \in DOMAIN handler_list_} = Url
  /\ state' = "running"
  /\ UNCHANGED <<network, handler_list_, connection, new_connection_, operations>>

\* The handler of the signals stops the service and closes the acceptor.
Signal ==
  /\ state = "running"
  /\ state' = "stopped"
  /\ UNCHANGED <<network, handler_list_, connection, new_connection_, operations>>

\* run() returns, and the server is destroyed with every operation in flight.
Return ==
  /\ state = "stopped"
  /\ state' = "returned"
  /\ connection' = [x \in {} |-> Fresh]
  /\ operations' = {}
  /\ client' = [c \in DOMAIN client |->
                  IF client[c].at \in {"backlog", "accepted"}
                  THEN [client[c] EXCEPT !.at = "closed"] ELSE client[c]]
  /\ UNCHANGED <<stream, handler_list_, new_connection_>>

-----------------------------------------------------------------------------
(* Completion handlers.                                                    *)

\* The objects that are referred to; the others are destroyed.
Kept(objects, newest, ops) ==
  [x \in {y \in DOMAIN objects : y = newest \/ \E o \in ops : o.on = y} |-> objects[x]]

\* do_accept makes a new object the newest and waits for a client for it.  The
\* object may have the name of one that is destroyed.
do_accept(objects, ops) ==
  LET free == {x \in Connection : \A o \in ops : o.on # x}
      new == CHOOSE x \in free : TRUE
  IN  /\ free # {}
      /\ new_connection_' = new
      /\ operations' = ops \union {Op("accept", new)}
      /\ connection' = Kept([x \in DOMAIN objects \union {new} |->
                               IF x = new THEN Fresh ELSE objects[x]], new, operations')

Accepted(x, c) ==
  /\ state = "running" /\ Doing("accept", x)
  /\ client[c].at = "backlog"
  /\ client' = [client EXCEPT ![c].at = "accepted"]
  /\ do_accept([connection EXCEPT ![x].peer = c],
               (operations \ {Op("accept", x)}) \union {Op("read", new_connection_)})
  /\ UNCHANGED <<stream, state, handler_list_>>

\* Mutant: after an error, the server does not wait for clients any more.
AcceptFailed_NoMore(x) ==
  /\ state = "running" /\ Doing("accept", x)
  /\ operations' = operations \ {Op("accept", x)}
  /\ UNCHANGED <<network, state, handler_list_, connection, new_connection_>>

AcceptFailed(x) ==
  /\ state = "running" /\ Doing("accept", x)
  /\ do_accept(connection, operations \ {Op("accept", x)})
  /\ UNCHANGED <<network, state, handler_list_>>

\* What handle_request makes of the request and the reply.
handle_request(o) ==
  LET path == url_decode(o.parser.uri)
  IN  IF path.ok
      THEN [o EXCEPT !.parser.uri = path.out, !.reply_ = dispatched(handler_list_, path.out)]
      ELSE [o EXCEPT !.reply_ = StockReply("bad_request")]

\* The object when a piece has been read.
Handled(o, piece) ==
  LET p == parse(o.parser, piece)
      read == [o EXCEPT !.parser = p]
  IN  CASE p.result = "good" -> handle_request(read)
        [] p.result = "bad" -> [read EXCEPT !.reply_ = StockReply("bad_request")]
        [] OTHER -> read

\* Mutant: the connection goes on reading while it writes its reply.
next_operations_ReadOn(o, x) ==
  IF o.parser.result = "indeterminate" THEN {Op("read", x)}
  ELSE {Op("write", x), Op("read", x)}

\* do_write when the reply is known, do_read when more is to come.
next_operations(o, x) ==
  IF o.parser.result = "indeterminate" THEN {Op("read", x)} ELSE {Op("write", x)}

Rest(c) == Len(stream[c]) - client[c].read

\* The handler of do_read; c is at the other end of the socket of x.
Read(x, c) ==
  /\ state = "running" /\ Doing("read", x) /\ connection[x].peer = c
  /\ \E n \in 1 .. BufferSize :
       /\ n <= Rest(c)
       /\ LET o == Handled(connection[x],
                           SubSeq(stream[c], client[c].read + 1, client[c].read + n))
          IN  /\ connection' = [connection EXCEPT ![x] = o]
              /\ operations' = (operations \ {Op("read", x)}) \union next_operations(o, x)
       /\ client' = [client EXCEPT ![c].read = @ + n]
  /\ UNCHANGED <<stream, state, handler_list_, new_connection_>>

\* The end of an operation that no other follows.
Completed(kind, x) ==
  /\ operations' = operations \ {Op(kind, x)}
  /\ connection' = Kept(connection, new_connection_, operations')
  /\ UNCHANGED <<stream, state, handler_list_, new_connection_>>

\* Mutant: a failed read is tried again.
ReadFailed_Again(x, c) ==
  /\ state = "running" /\ Doing("read", x) /\ connection[x].peer = c
  /\ client[c].at = "gone"
  /\ UNCHANGED vars

ReadFailed(x, c) ==
  /\ state = "running" /\ Doing("read", x) /\ connection[x].peer = c
  /\ client[c].at = "gone"
  /\ Completed("read", x)
  /\ UNCHANGED client

\* The reply is on its way before the handler of do_write runs.
Deliver(x, c) ==
  /\ Doing("write", x) /\ connection[x].peer = c
  /\ client[c].at = "accepted" /\ client[c].got = NoReply
  /\ client' = [client EXCEPT ![c].got = connection[x].reply_]
  /\ UNCHANGED <<stream, server>>

\* The handler of do_write, shutdown, and the end of the object.
Written(x, c) ==
  /\ state = "running" /\ Doing("write", x) /\ connection[x].peer = c
  /\ client[c].got # NoReply
  /\ Completed("write", x)
  /\ client' = [client EXCEPT ![c].at = IF @ = "accepted" THEN "closed" ELSE @]

WriteFailed(x, c) ==
  /\ state = "running" /\ Doing("write", x) /\ connection[x].peer = c
  /\ client[c].at = "gone"
  /\ Completed("write", x)
  /\ UNCHANGED client

\* After main nothing happens.
Ended == state = "returned" /\ UNCHANGED vars

-----------------------------------------------------------------------------

OnSocket(x, c) ==
  Read(x, c) \/ ReadFailed(x, c) \/ Deliver(x, c) \/ Written(x, c) \/ WriteFailed(x, c)

Next ==
  \/ \E c \in DOMAIN stream : Connect(c) \/ HangUp(c)
  \/ \E url \in Url : AddHandler(url)
  \/ Run \/ Signal \/ Return \/ Ended
  \/ \E x \in DOMAIN connection :
       \/ AcceptFailed(x)
       \/ \E c \in DOMAIN stream : Accepted(x, c) \/ OnSocket(x, c)

Spec == Init /\ [][Next]_vars

\* asio runs a handler whose operation has completed; clients send all of their
\* streams.  Clients need not come, hang up, nor the signal.
Fairness ==
  /\ WF_vars(Run) /\ WF_vars(Return) /\ WF_vars(\E url \in Url : AddHandler(url))
  /\ WF_vars(\E x \in DOMAIN connection, c \in DOMAIN stream : Accepted(x, c))
  /\ \A c \in Client :
       WF_vars(\E x \in DOMAIN connection : c \in DOMAIN stream /\ OnSocket(x, c))

FairSpec == Spec /\ Fairness

-----------------------------------------------------------------------------
(* Correctness.                                                            *)

Kinds == {"accept", "read", "write"}

\* The type invariant.
TypeOK ==
  /\ DOMAIN stream \subseteq Client /\ DOMAIN client = DOMAIN stream
  /\ \A c \in DOMAIN client :
       /\ client[c].at \in {"away", "backlog", "accepted", "closed", "gone"}
       /\ client[c].read \in 0 .. Len(stream[c])
  /\ state \in {"setup", "running", "stopped", "returned"}
  /\ \A i \in DOMAIN handler_list_ : handler_list_[i] \in Url
  /\ DOMAIN connection \subseteq Connection
  /\ \A x \in DOMAIN connection : connection[x].peer \in DOMAIN stream \union {NoClient}
  /\ new_connection_ \in Connection
  /\ operations \subseteq [kind : Kinds, on : Connection]

\* server.cpp:73-76: until the signal, an accept is outstanding, for the object
\* that start() will be called on, whatever accepts fail.
AlwaysAccepting ==
  state # "returned" => \A x \in Connection : Doing("accept", x) <=> x = new_connection_

\* An object in memory has one operation in flight, no more and no less, so that
\* none is forgotten and no handler meets another one's object half done: the
\* newest object waits for a client, every other one has a client of its own,
\* and writes to it if and only if it has its whole request.
ObjectsBusy ==
  /\ \A o \in operations : o.on \in DOMAIN connection
  /\ \A x \in DOMAIN connection :
       /\ \E kind \in Kinds : \A k \in Kinds : Doing(k, x) <=> k = kind
       /\ x = new_connection_ <=> connection[x].peer = NoClient
       /\ Doing("write", x) <=> connection[x].parser.result # "indeterminate"
  /\ \A x, y \in DOMAIN connection :
       connection[x].peer = connection[y].peer => x = y

\* reply.hpp:58-60: the reply is neither destroyed nor changed while its buffers
\* are being written.
ReplyKept ==
  [][\A x \in DOMAIN connection :
       Doing("write", x) /\ Doing("write", x)' =>
         x \in DOMAIN connection' /\ connection'[x].reply_ = connection[x].reply_]_vars

\* The object of a client that has hung up is destroyed: neither a read nor a
\* write that fails keeps it, and nor does an accept.
Released ==
  \A c \in Client :
    (c \in DOMAIN client /\ client[c].at = "gone")
      ~> (\A x \in DOMAIN connection : connection[x].peer # c)

-----------------------------------------------------------------------------

\* server.cpp:120-122: stopping cancels all outstanding operations, and run()
\* returns once they have finished.
StopFinishesOperations ==
  [][Return => \A o \in operations : o.kind = "accept"]_vars
=============================================================================
