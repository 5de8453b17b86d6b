-------------------------- MODULE HttpServerProofs --------------------------
(***************************************************************************)
(* Proofs about HttpServer, for any clients and whatever they send, any    *)
(* prefixes and any size of the buffer.  The first part is about the life  *)
(* of objects and operations, whatever requests are made of the            *)
(* characters; its inductive invariant is IInv.  The second part, from     *)
(* "What an object holds" on, is about the requests: with CInv, an object  *)
(* holds what reading in one piece all that its client was read so far     *)
(* would give, which RequestProofs relates to the grammar; from it follows *)
(* that the server implements HttpService.                                 *)
(***************************************************************************)
EXTENDS HttpServerClients, RequestProofs

-----------------------------------------------------------------------------
(* The inductive invariant.                                                *)

IsObject(o) == o = [peer |-> o.peer, parser |-> o.parser, reply_ |-> o.reply_]
IsClient(r) == r = [at |-> r.at, read |-> r.read, got |-> r.got]

\* Objects and clients are records with their fields.
Shapes ==
  /\ stream \in Scenario
  /\ \A x \in DOMAIN connection : IsObject(connection[x])
  /\ \A c \in DOMAIN client : IsClient(client[c])

\* A client that has an object has been accepted, so that it cannot be again.
PeersAccepted ==
  state # "returned" =>
    \A x \in DOMAIN connection :
      connection[x].peer # NoClient => client[connection[x].peer].at \in {"accepted", "gone"}

\* Nothing outlives the server, and the newest object lives as long.
Lifetimes ==
  IF state = "returned" THEN connection = [x \in {} |-> Fresh] /\ operations = {}
  ELSE new_connection_ \in DOMAIN connection

IInv == TypeOK /\ Shapes /\ AlwaysAccepting /\ ObjectsBusy /\ PeersAccepted /\ Lifetimes

-----------------------------------------------------------------------------
(* Operations.                                                             *)

\* An operation is its kind and its object.
LEMMA OperationIsPair ==
  ASSUME NEW o \in [kind : Kinds, on : Connection]
  PROVE  o.kind \in Kinds /\ o.on \in Connection /\ o = Op(o.kind, o.on)
  BY DEF Op

\* Different kinds or objects make different operations.
LEMMA PairsDiffer ==
  ASSUME NEW k, NEW l, NEW x, NEW y, Op(k, x) = Op(l, y)
  PROVE  k = l /\ x = y
<1>1. Op(k, x).kind = Op(l, y).kind /\ Op(k, x).on = Op(l, y).on
  OBVIOUS
<1> QED BY <1>1 DEF Op

\* An object does one thing at a time.
LEMMA OneAtATime ==
  ASSUME ObjectsBusy, NEW x \in DOMAIN connection, NEW k \in Kinds, NEW l \in Kinds,
         Doing(k, x), Doing(l, x)
  PROVE  k = l
  BY DEF ObjectsBusy

\* An object that does something is in memory; only the newest one accepts.
LEMMA DoerInMemory ==
  ASSUME IInv, NEW k \in Kinds, NEW x, Doing(k, x)
  PROVE  /\ x \in DOMAIN connection /\ x \in Connection
         /\ k = "accept" <=> x = new_connection_
         /\ state # "returned"
<1>1. Op(k, x) \in operations /\ Op(k, x).on = x
  BY DEF Doing, Op
<1>2. x \in DOMAIN connection
  BY <1>1 DEF IInv, ObjectsBusy
<1>3. state # "returned"
  BY <1>1 DEF IInv, Lifetimes
<1>4. x \in Connection
  BY <1>2 DEF IInv, TypeOK
<1>5. k = "accept" => x = new_connection_
  BY <1>3, <1>4 DEF IInv, AlwaysAccepting
<1>6. x = new_connection_ => k = "accept"
  <2> HAVE x = new_connection_
  <2>1. Doing("accept", x) /\ "accept" \in Kinds
    BY <1>3, <1>4 DEF IInv, AlwaysAccepting, Kinds
  <2> QED BY <2>1, <1>2, OneAtATime DEF IInv
<1> QED BY <1>2, <1>3, <1>4, <1>5, <1>6

\* Every object in memory does something.
LEMMA EachBusy ==
  ASSUME ObjectsBusy, NEW x \in DOMAIN connection
  PROVE  \E k \in Kinds : Doing(k, x)
  BY DEF ObjectsBusy

\* When the read or the write of an object is over, that object is gone and no other.
LEMMA CompletedRemoves ==
  ASSUME IInv, NEW k \in {"read", "write"}, NEW x, Doing(k, x), Completed(k, x)
  PROVE  /\ x \in DOMAIN connection /\ x # new_connection_
         /\ DOMAIN connection' = DOMAIN connection \ {x}
         /\ \A y \in DOMAIN connection' : connection'[y] = connection[y]
         /\ \A l, y : y # x => (Doing(l, y)' <=> Doing(l, y))
         /\ operations' = operations \ {Op(k, x)}
<1>1. x \in DOMAIN connection /\ x # new_connection_ /\ k \in Kinds
  BY DoerInMemory DEF Kinds
<1>2. operations' = operations \ {Op(k, x)}
      /\ connection' = Kept(connection, new_connection_, operations')
  BY DEF Completed
<1>3. \A l, y : y # x => (Doing(l, y)' <=> Doing(l, y))
  <2> SUFFICES ASSUME NEW l, NEW y, y # x PROVE Op(l, y) # Op(k, x)
    BY <1>2 DEF Doing
  <2> QED BY PairsDiffer
<1>4. DOMAIN connection' = {y \in DOMAIN connection :
                              y = new_connection_ \/ \E o \in operations' : o.on = y}
      /\ \A y \in DOMAIN connection' : connection'[y] = connection[y]
  BY <1>2 DEF Kept
<1>5. ASSUME NEW y \in DOMAIN connection, y # x PROVE y \in DOMAIN connection'
  <2>1. PICK l \in Kinds : Doing(l, y)
    BY EachBusy DEF IInv
  <2>2. Op(l, y) \in operations' /\ Op(l, y).on = y
    BY <2>1, <1>3, <1>5 DEF Doing, Op
  <2> QED BY <2>2, <1>4
<1>6. x \notin DOMAIN connection'
  <2> SUFFICES ASSUME NEW o \in operations', o.on = x PROVE FALSE
    BY <1>1, <1>4
  <2>1. o \in operations /\ o # Op(k, x)
    BY <1>2
  <2>2. o.kind \in Kinds /\ o = Op(o.kind, x)
    BY <2>1, OperationIsPair DEF IInv, TypeOK
  <2>3. Doing(o.kind, x)
    BY <2>1, <2>2 DEF Doing
  <2>4. o.kind = k
    BY <2>2, <2>3, <1>1, OneAtATime DEF IInv
  <2> QED BY <2>1, <2>2, <2>4
<1> QED BY <1>1, <1>2, <1>3, <1>4, <1>5, <1>6

\* What do_accept does when the operations on are `ops': there is a new newest
\* object, and of the others those that are busy remain.
LEMMA AcceptBegun ==
  ASSUME NEW objects, NEW ops, do_accept(objects, ops)
  PROVE  /\ new_connection_' \in Connection
         /\ \A o \in ops : o.on # new_connection_'
         /\ operations' = ops \union {Op("accept", new_connection_')}
         /\ new_connection_' \in DOMAIN connection'
         /\ connection'[new_connection_'] = Fresh
         /\ \A y : y # new_connection_' =>
              /\ y \in DOMAIN connection' <=> y \in DOMAIN objects /\ \E o \in ops : o.on = y
              /\ y \in DOMAIN connection' => connection'[y] = objects[y]
<1> DEFINE free == {x \in Connection : \A o \in ops : o.on # x}
           new == CHOOSE x \in free : TRUE
<1>1. /\ free # {} /\ new_connection_' = new
      /\ operations' = ops \union {Op("accept", new)}
      /\ connection' = Kept([x \in DOMAIN objects \union {new} |->
                               IF x = new THEN Fresh ELSE objects[x]], new, operations')
  BY DEF do_accept
<1>2. new \in free
  BY <1>1
<1>3. \A o \in operations' : o \in ops \/ o.on = new
  BY <1>1 DEF Op
<1> HIDE DEF new
<1>4. /\ DOMAIN connection' = {y \in DOMAIN objects \union {new} :
                                 y = new \/ \E o \in operations' : o.on = y}
      /\ \A y \in DOMAIN connection' : connection'[y] = IF y = new THEN Fresh ELSE objects[y]
  BY <1>1 DEF Kept
<1>5. ASSUME NEW y, y # new
      PROVE  y \in DOMAIN connection' <=> y \in DOMAIN objects /\ \E o \in ops : o.on = y
  BY <1>4, <1>3, <1>1, <1>5
<1> QED BY <1>1, <1>2, <1>4, <1>5

-----------------------------------------------------------------------------
(* The invariant holds at first and every action preserves it.             *)

\* At first the server waits for its first client.
LEMMA Begins == Init => IInv
<1> SUFFICES ASSUME Init PROVE IInv
  OBVIOUS
<1> USE ServerAssumption DEF Init
<1>1. new_connection_ \in Connection
  OBVIOUS
<1>2. DOMAIN connection = {new_connection_} /\ connection[new_connection_] = Fresh
  OBVIOUS
<1>3. operations = {Op("accept", new_connection_)}
  OBVIOUS
<1>4. TypeOK
  <2>1. \A c \in DOMAIN client : client[c].read \in 0 .. Len(stream[c])
    <3> SUFFICES ASSUME NEW c \in DOMAIN stream PROVE 0 \in 0 .. Len(stream[c])
      OBVIOUS
    <3>1. stream[c] \in Seq(Int)
      OBVIOUS
    <3> QED BY <3>1
  <2> QED BY <1>1, <1>2, <1>3, <2>1 DEF TypeOK, Fresh, Op, Kinds
<1>5. Shapes
  BY <1>2 DEF Shapes, IsObject, IsClient, Fresh
<1>6. \A k, x : Doing(k, x) <=> k = "accept" /\ x = new_connection_
  <2>1. ASSUME NEW k, NEW x, Op(k, x) = Op("accept", new_connection_)
        PROVE  k = "accept" /\ x = new_connection_
    BY <2>1, PairsDiffer
  <2> QED BY <1>3, <2>1 DEF Doing
<1>7. AlwaysAccepting
  BY <1>6 DEF AlwaysAccepting
<1>8. ObjectsBusy
  <2>1. \A o \in operations : o.on \in DOMAIN connection
    BY <1>2, <1>3 DEF Op
  <2>2. ASSUME NEW x \in DOMAIN connection
        PROVE  /\ \E kind \in Kinds : \A k \in Kinds : Doing(k, x) <=> k = kind
               /\ x = new_connection_ <=> connection[x].peer = NoClient
               /\ Doing("write", x) <=> connection[x].parser.result # "indeterminate"
    <3>1. x = new_connection_ /\ ~Doing("write", x)
      BY <1>2, <1>6
    <3>2. connection[x].peer = NoClient /\ connection[x].parser.result = "indeterminate"
      BY <1>2, <3>1 DEF Fresh, NewParser
    <3>3. "accept" \in Kinds /\ \A k \in Kinds : Doing(k, x) <=> k = "accept"
      BY <1>6, <3>1 DEF Kinds
    <3> QED BY <3>1, <3>2, <3>3
  <2> QED BY <1>2, <2>1, <2>2 DEF ObjectsBusy
<1>9. PeersAccepted /\ Lifetimes
  BY <1>2 DEF PeersAccepted, Lifetimes, Fresh
<1> QED BY <1>4, <1>5, <1>7, <1>8, <1>9 DEF IInv

\* What clients do leaves the server alone, and no client that has an object goes
\* back to where it would be accepted.
LEMMA NetworkPreserves ==
  ASSUME IInv, UNCHANGED <<stream, server>>, NEW c \in DOMAIN client,
         NEW r, client' = [client EXCEPT ![c] = r],
         IsClient(r), r.read = client[c].read,
         r.at \in {"away", "backlog", "accepted", "closed", "gone"},
         client[c].at \in {"accepted", "gone"} => r.at \in {"accepted", "gone"}
  PROVE  IInv'
<1> USE DEF server
<1>1. TypeOK'
  BY DEF IInv, TypeOK
<1>2. Shapes'
  BY DEF IInv, Shapes
<1>3. AlwaysAccepting' /\ ObjectsBusy'
  BY DEF IInv, AlwaysAccepting, ObjectsBusy, Doing
<1>4. PeersAccepted'
  BY DEF IInv, PeersAccepted, TypeOK
<1>5. Lifetimes'
  BY DEF IInv, Lifetimes
<1> QED BY <1>1, <1>2, <1>3, <1>4, <1>5 DEF IInv

\* Connecting, hanging up and receiving a reply are such steps.
LEMMA ClientsPreserve ==
  ASSUME IInv, NEW c \in DOMAIN stream, Connect(c) \/ HangUp(c) \/ \E x : Deliver(x, c)
  PROVE  IInv'
<1>1. c \in DOMAIN client /\ IsClient(client[c])
      /\ client[c].at \in {"away", "backlog", "accepted", "closed", "gone"}
  BY DEF IInv, TypeOK, Shapes
<1>2. CASE Connect(c)
  <2> DEFINE r == [client[c] EXCEPT !.at = "backlog"]
  <2>1. client' = [client EXCEPT ![c] = r] /\ UNCHANGED <<stream, server>>
    BY <1>2 DEF Connect
  <2>2. IsClient(r) /\ r.read = client[c].read /\ r.at = "backlog" /\ client[c].at = "away"
    BY <1>1, <1>2 DEF Connect, IsClient
  <2> HIDE DEF r
  <2> QED BY <1>1, <2>1, <2>2, NetworkPreserves
<1>3. CASE HangUp(c)
  <2> DEFINE r == [client[c] EXCEPT !.at = "gone"]
  <2>1. client' = [client EXCEPT ![c] = r] /\ UNCHANGED <<stream, server>>
    BY <1>3 DEF HangUp
  <2>2. IsClient(r) /\ r.read = client[c].read /\ r.at = "gone"
    BY <1>1 DEF IsClient
  <2> HIDE DEF r
  <2> QED BY <1>1, <2>1, <2>2, NetworkPreserves
<1>4. ASSUME NEW x, Deliver(x, c) PROVE IInv'
  <2> DEFINE r == [client[c] EXCEPT !.got = connection[x].reply_]
  <2>1. client' = [client EXCEPT ![c] = r] /\ UNCHANGED <<stream, server>>
    BY <1>4 DEF Deliver
  <2>2. IsClient(r) /\ r.read = client[c].read /\ r.at = client[c].at
    BY <1>1 DEF IsClient
  <2> HIDE DEF r
  <2> QED BY <1>1, <2>1, <2>2, NetworkPreserves
<1> QED BY <1>2, <1>3, <1>4

\* A list with one more url holds urls.
LEMMA RegisteredUrls ==
  ASSUME NEW list, NEW url \in Url, \A i \in DOMAIN list : list[i] \in Url,
         NEW l \in registered(list, url)
  PROVE  \A i \in DOMAIN l : l[i] \in Url
  BY DEF registered

\* Registering handlers, starting and the signal touch no object or operation.
LEMMA LifePreserves ==
  ASSUME IInv, Run \/ Signal \/ \E url \in Url : AddHandler(url)
  PROVE  IInv'
<1>1. UNCHANGED <<stream, client, connection, new_connection_, operations>>
  BY DEF Run, Signal, AddHandler, network
<1>2. /\ state' \in {"setup", "running", "stopped"} /\ state # "returned"
      /\ state' # "returned"
  BY DEF Run, Signal, AddHandler
<1>3. \A i \in DOMAIN handler_list_' : handler_list_'[i] \in Url
  <2>1. CASE Run \/ Signal
    BY <2>1 DEF Run, Signal, IInv, TypeOK
  <2>2. ASSUME NEW url \in Url, AddHandler(url) PROVE <1>3
    <3>1. handler_list_' \in registered(handler_list_, url)
      BY <2>2 DEF AddHandler
    <3>2. \A i \in DOMAIN handler_list_ : handler_list_[i] \in Url
      BY DEF IInv, TypeOK
    <3> QED BY <3>1, <3>2, RegisteredUrls
  <2> QED BY <2>1, <2>2
<1>4. TypeOK' /\ Shapes'
  BY <1>1, <1>2, <1>3 DEF IInv, TypeOK, Shapes
<1>5. AlwaysAccepting' /\ ObjectsBusy' /\ PeersAccepted' /\ Lifetimes'
  BY <1>1, <1>2 DEF IInv, AlwaysAccepting, ObjectsBusy, PeersAccepted, Lifetimes, Doing
<1> QED BY <1>4, <1>5 DEF IInv

\* The end of the server is the end of every object and operation.
LEMMA ReturnPreserves ==
  ASSUME IInv, Return
  PROVE  IInv'
<1>1. /\ state' = "returned" /\ connection' = [x \in {} |-> Fresh] /\ operations' = {}
      /\ UNCHANGED <<stream, handler_list_, new_connection_>>
      /\ client' = [c \in DOMAIN client |->
                      IF client[c].at \in {"backlog", "accepted"}
                      THEN [client[c] EXCEPT !.at = "closed"] ELSE client[c]]
  BY DEF Return
<1>2. \A c \in DOMAIN client :
        /\ IsClient(client'[c]) /\ client'[c].read = client[c].read
        /\ client'[c].at \in {"away", "closed", "gone"}
  BY <1>1 DEF IInv, TypeOK, Shapes, IsClient
<1>3. DOMAIN connection' = {} /\ DOMAIN client' = DOMAIN client
  BY <1>1
<1>4. TypeOK' /\ Shapes'
  BY <1>1, <1>2, <1>3 DEF IInv, TypeOK, Shapes
<1>5. AlwaysAccepting' /\ ObjectsBusy' /\ PeersAccepted' /\ Lifetimes'
  BY <1>1, <1>3 DEF AlwaysAccepting, ObjectsBusy, PeersAccepted, Lifetimes
<1> QED BY <1>4, <1>5 DEF IInv

\* Clients keep their types, and those that were accepted still are.
ClientsKept ==
  /\ DOMAIN client' = DOMAIN stream
  /\ \A c \in DOMAIN stream :
       /\ IsClient(client'[c])
       /\ client'[c].at \in {"away", "backlog", "accepted", "closed", "gone"}
       /\ client'[c].read \in 0 .. Len(stream[c])
       /\ client[c].at \in {"accepted", "gone"} => client'[c].at \in {"accepted", "gone"}

\* What object y must be when it does some of ops but accept.
Serving(o, y, ops) ==
  /\ \E kind \in {"read", "write"} : \A k \in Kinds : Op(k, y) \in ops <=> k = kind
  /\ IsObject(o) /\ o.peer \in DOMAIN stream /\ client'[o.peer].at \in {"accepted", "gone"}
  /\ Op("write", y) \in ops <=> o.parser.result # "indeterminate"

\* do_accept preserves the invariant if the objects it finds busy serve clients, each
\* its own.
LEMMA AcceptPreserves ==
  ASSUME IInv, state = "running", UNCHANGED <<stream, state, handler_list_>>, ClientsKept,
         NEW objects, NEW ops \in SUBSET [kind : Kinds, on : Connection],
         do_accept(objects, ops),
         DOMAIN objects = DOMAIN connection,
         \A o \in ops : o.on \in DOMAIN objects /\ Serving(objects[o.on], o.on, ops),
         \A o, p \in ops : objects[o.on].peer = objects[p.on].peer => o.on = p.on
  PROVE  IInv'
<1>1. PICK new :
        /\ new = new_connection_'
        /\ new \in Connection /\ \A o \in ops : o.on # new
        /\ operations' = ops \union {Op("accept", new)}
        /\ new \in DOMAIN connection' /\ connection'[new] = Fresh
        /\ \A y : y # new =>
             /\ y \in DOMAIN connection' <=> y \in DOMAIN objects /\ \E o \in ops : o.on = y
             /\ y \in DOMAIN connection' => connection'[y] = objects[y]
  BY AcceptBegun
<1>2. \A y \in DOMAIN connection' : y # new =>
        /\ y \in Connection /\ connection'[y] = objects[y]
        /\ Serving(connection'[y], y, ops)
        /\ \E o \in ops : o.on = y
  BY <1>1 DEF IInv, TypeOK
<1>3. \A k, y : y # new => (Doing(k, y)' <=> Op(k, y) \in ops)
  <2> SUFFICES ASSUME NEW k, NEW y, y # new PROVE Op(k, y) # Op("accept", new)
    BY <1>1 DEF Doing
  <2> QED BY PairsDiffer
<1>4. \A k : Doing(k, new)' <=> k = "accept"
  <2>1. Doing("accept", new)'
    BY <1>1 DEF Doing
  <2>2. ASSUME NEW k, Doing(k, new)', k # "accept" PROVE FALSE
    <3>1. Op(k, new) # Op("accept", new)
      BY <2>2, PairsDiffer
    <3>2. Op(k, new) \in ops /\ Op(k, new).on = new
      BY <2>2, <3>1, <1>1 DEF Doing, Op
    <3> QED BY <3>2, <1>1
  <2> QED BY <2>1, <2>2
<1>5. TypeOK'
  <2>1. operations' \subseteq [kind : Kinds, on : Connection]
    BY <1>1 DEF Op, Kinds
  <2>2. DOMAIN connection' \subseteq Connection
    BY <1>1, <1>2
  <2>3. \A y \in DOMAIN connection' : connection'[y].peer \in DOMAIN stream \union {NoClient}
    BY <1>1, <1>2 DEF Serving, Fresh
  <2> QED BY <1>1, <2>1, <2>2, <2>3 DEF IInv, TypeOK, ClientsKept
<1>6. Shapes'
  <2>1. \A y \in DOMAIN connection' : IsObject(connection'[y])
    BY <1>1, <1>2 DEF Serving, Fresh, IsObject
  <2> QED BY <2>1 DEF IInv, Shapes, ClientsKept
<1>7. AlwaysAccepting'
  <2> SUFFICES ASSUME NEW y \in Connection, y # new PROVE ~Doing("accept", y)'
    BY <1>1, <1>4 DEF AlwaysAccepting
  <2> SUFFICES ASSUME Op("accept", y) \in ops PROVE FALSE
    BY <1>3
  <2>1. Serving(objects[y], y, ops)
    BY DEF Op
  <2> QED BY <2>1 DEF Serving, Kinds
<1>8. NoClient \notin DOMAIN stream
  BY ServerAssumption DEF IInv, TypeOK
<1>9. ObjectsBusy'
  <2>1. \A o \in operations' : o.on \in DOMAIN connection'
    BY <1>1 DEF Op
  <2>2. ASSUME NEW x \in DOMAIN connection'
        PROVE  /\ \E kind \in Kinds : \A k \in Kinds : Doing(k, x)' <=> k = kind
               /\ x = new <=> connection'[x].peer = NoClient
               /\ Doing("write", x)' <=> connection'[x].parser.result # "indeterminate"
    <3>1. CASE x = new
      <4>1. connection'[x].peer = NoClient /\ connection'[x].parser.result = "indeterminate"
        BY <1>1, <3>1 DEF Fresh, NewParser
      <4>2. "accept" \in Kinds
        BY DEF Kinds
      <4> QED BY <1>4, <3>1, <4>1, <4>2
    <3>2. CASE x # new
      <4>1. PICK kind \in {"read", "write"} : \A k \in Kinds : Op(k, x) \in ops <=> k = kind
        BY <1>2, <3>2 DEF Serving
      <4>2. kind \in Kinds /\ \A k \in Kinds : Doing(k, x)' <=> k = kind
        BY <1>3, <3>2, <4>1 DEF Kinds
      <4>3. connection'[x].peer # NoClient
        BY <1>2, <1>8, <3>2 DEF Serving
      <4>4. Doing("write", x)' <=> connection'[x].parser.result # "indeterminate"
        BY <1>2, <1>3, <3>2 DEF Serving
      <4> QED BY <3>2, <4>2, <4>3, <4>4
    <3> QED BY <3>1, <3>2
  <2>3. ASSUME NEW x \in DOMAIN connection', NEW y \in DOMAIN connection',
               connection'[x].peer = connection'[y].peer
        PROVE  x = y
    <3>1. x = new <=> y = new
      BY <2>2, <2>3
    <3>2. CASE x # new /\ y # new
      BY <1>2, <2>3, <3>2
    <3> QED BY <3>1, <3>2
  <2> QED BY <1>1, <2>1, <2>2, <2>3 DEF ObjectsBusy
<1>10. PeersAccepted'
  BY <1>1, <1>2 DEF PeersAccepted, Serving, Fresh
<1>11. Lifetimes'
  BY <1>1 DEF Lifetimes
<1> QED BY <1>5, <1>6, <1>7, <1>9, <1>10, <1>11 DEF IInv

\* An object that does not wait for a client serves one.
LEMMA OthersServe ==
  ASSUME IInv, state = "running", ClientsKept, NEW ops, NEW y \in DOMAIN connection,
         y # new_connection_, \A k : Op(k, y) \in ops <=> Doing(k, y)
  PROVE  Serving(connection[y], y, ops)
<1>1. PICK kind \in Kinds : \A k \in Kinds : Doing(k, y) <=> k = kind
  BY DEF IInv, ObjectsBusy
<1>2. y \in Connection /\ connection[y].peer \in DOMAIN stream \union {NoClient}
  BY DEF IInv, TypeOK
<1>3. kind \in {"read", "write"}
  <2>1. ~Doing("accept", y)
    BY <1>2 DEF IInv, AlwaysAccepting
  <2> QED BY <1>1, <2>1 DEF Kinds
<1>4. connection[y].peer # NoClient
      /\ (Doing("write", y) <=> connection[y].parser.result # "indeterminate")
  BY DEF IInv, ObjectsBusy
<1>5. client[connection[y].peer].at \in {"accepted", "gone"}
  BY <1>4 DEF IInv, PeersAccepted
<1>6. client'[connection[y].peer].at \in {"accepted", "gone"}
  BY <1>2, <1>4, <1>5 DEF ClientsKept
<1>7. IsObject(connection[y])
  BY DEF IInv, Shapes
<1> QED BY <1>1, <1>2, <1>3, <1>4, <1>6, <1>7 DEF Serving

\* Clients that nothing happens to are kept.
LEMMA ClientsUnchanged ==
  ASSUME IInv, UNCHANGED <<stream, client>>
  PROVE  ClientsKept
  BY DEF IInv, TypeOK, Shapes, ClientsKept

\* The object of an operation other than the accept that ends is one of the others.
LEMMA AfterAccept ==
  ASSUME IInv, NEW x, Doing("accept", x), NEW o \in operations \ {Op("accept", x)}
  PROVE  o.on \in DOMAIN connection /\ o.on # new_connection_
<1>1. o \in [kind : Kinds, on : Connection]
  BY DEF IInv, TypeOK
<1>2. o.kind \in Kinds /\ Doing(o.kind, o.on) /\ o = Op(o.kind, o.on)
  BY <1>1, OperationIsPair DEF Doing
<1>3. x = new_connection_
  BY DoerInMemory DEF Kinds
<1>4. o.on \in DOMAIN connection /\ (o.kind = "accept" <=> o.on = new_connection_)
  BY <1>2, DoerInMemory
<1> QED BY <1>2, <1>3, <1>4

\* After an accept that failed, the others go on serving their clients.
LEMMA AcceptFailedPreserves ==
  ASSUME IInv, NEW x, AcceptFailed(x)
  PROVE  IInv'
<1> DEFINE ops == operations \ {Op("accept", x)}
<1>1. /\ state = "running" /\ Doing("accept", x) /\ do_accept(connection, ops)
      /\ UNCHANGED <<stream, client, state, handler_list_>>
  BY DEF AcceptFailed, network
<1>2. ClientsKept
  BY <1>1, ClientsUnchanged
<1>3. ops \in SUBSET [kind : Kinds, on : Connection]
  BY DEF IInv, TypeOK
<1>4. x = new_connection_
  BY <1>1, DoerInMemory DEF Kinds
<1>5. ASSUME NEW o \in ops
      PROVE  o.on \in DOMAIN connection /\ Serving(connection[o.on], o.on, ops)
  <2>1. o.on \in DOMAIN connection /\ o.on # new_connection_
    BY <1>1, AfterAccept
  <2>2. \A k : Op(k, o.on) # Op("accept", x)
    BY <1>4, <2>1 DEF Op
  <2>3. \A k : Op(k, o.on) \in ops <=> Doing(k, o.on)
    BY <2>2 DEF Doing
  <2> HIDE DEF ops
  <2> QED BY <1>1, <1>2, <2>1, <2>3, OthersServe
<1>6. \A o, p \in ops : connection[o.on].peer = connection[p.on].peer => o.on = p.on
  BY <1>5 DEF IInv, ObjectsBusy
<1> HIDE DEF ops
<1> QED BY <1>1, <1>2, <1>3, <1>5, <1>6, AcceptPreserves

\* A client that is accepted becomes the peer of the newest object, which reads, and
\* of no other.
LEMMA AcceptedPreserves ==
  ASSUME IInv, NEW x, NEW c \in DOMAIN stream, Accepted(x, c)
  PROVE  IInv'
<1> DEFINE rest == operations \ {Op("accept", x)}
           ops == rest \union {Op("read", new_connection_)}
           objects == [connection EXCEPT ![x].peer = c]
<1>1. /\ state = "running" /\ Doing("accept", x) /\ do_accept(objects, ops)
      /\ client[c].at = "backlog" /\ client' = [client EXCEPT ![c].at = "accepted"]
      /\ UNCHANGED <<stream, state, handler_list_>>
  BY DEF Accepted
<1>2. ClientsKept
  BY <1>1 DEF IInv, TypeOK, Shapes, ClientsKept, IsClient
<1>3. x = new_connection_ /\ x \in DOMAIN connection /\ x \in Connection
  BY <1>1, DoerInMemory DEF Kinds
<1>4. ops \in SUBSET [kind : Kinds, on : Connection]
  BY <1>3 DEF IInv, TypeOK, Op, Kinds
<1>5. /\ DOMAIN objects = DOMAIN connection
      /\ IsObject(objects[x]) /\ objects[x].peer = c
      /\ objects[x].parser = connection[x].parser
      /\ \A y \in DOMAIN connection : y # x => objects[y] = connection[y]
  BY <1>3 DEF IInv, Shapes, IsObject
<1>6. \A k : Op(k, x) \in ops => k = "read" \/ k \notin Kinds
  <2> SUFFICES ASSUME NEW k \in Kinds, Op(k, x) \in ops, k # "read" PROVE FALSE
    OBVIOUS
  <2>1. Op(k, x) # Op("read", new_connection_)
    BY PairsDiffer
  <2>2. Doing(k, x) /\ Op(k, x) # Op("accept", x)
    BY <2>1 DEF Doing
  <2>3. k = "accept"
    BY <1>1, <1>3, <2>2, OneAtATime DEF IInv, Kinds
  <2> QED BY <2>2, <2>3
<1>7. Serving(objects[x], x, ops)
  <2>1. ~Doing("write", x)
    BY <1>1, <1>3, OneAtATime DEF IInv, Kinds
  <2>2. objects[x].parser.result = "indeterminate"
    BY <1>3, <1>5, <2>1 DEF IInv, ObjectsBusy
  <2>3. client'[c].at = "accepted"
    BY <1>1 DEF IInv, TypeOK, Shapes, IsClient
  <2>4. Op("read", x) \in ops
    BY <1>3
  <2> HIDE DEF ops, objects
  <2> QED BY <1>5, <1>6, <2>2, <2>3, <2>4 DEF Serving, Kinds
<1>8. ASSUME NEW o \in ops
      PROVE  /\ o.on \in DOMAIN connection /\ Serving(objects[o.on], o.on, ops)
             /\ o.on # x => objects[o.on].peer # c
  <2>1. CASE o.on = x
    BY <1>3, <1>7, <2>1
  <2>2. CASE o.on # x
    <3>1. o \in rest
      BY <1>3, <2>2 DEF Op
    <3>2. o.on \in DOMAIN connection /\ o.on # new_connection_
      BY <1>1, <3>1, AfterAccept
    <3>3. \A k : Op(k, o.on) # Op("accept", x) /\ Op(k, o.on) # Op("read", new_connection_)
      BY <1>3, <2>2 DEF Op
    <3>4. \A k : Op(k, o.on) \in ops <=> Doing(k, o.on)
      BY <3>3 DEF Doing
    <3>5. objects[o.on] = connection[o.on]
      BY <1>5, <2>2, <3>2
    <3>6. connection[o.on].peer # NoClient
      BY <3>2 DEF IInv, ObjectsBusy
    <3>7. connection[o.on].peer # c
      BY <1>1, <3>2, <3>6 DEF IInv, PeersAccepted
    <3> HIDE DEF ops, objects
    <3> QED BY <1>1, <1>2, <3>2, <3>4, <3>5, <3>7, OthersServe
  <2> QED BY <2>1, <2>2
<1>9. \A o, p \in ops : objects[o.on].peer = objects[p.on].peer => o.on = p.on
  <2> SUFFICES ASSUME NEW o \in ops, NEW p \in ops, objects[o.on].peer = objects[p.on].peer
               PROVE  o.on = p.on
    OBVIOUS
  <2>1. o.on \in DOMAIN connection /\ p.on \in DOMAIN connection
    BY <1>8
  <2>2. o.on = x <=> p.on = x
    BY <1>5, <1>8
  <2>3. CASE o.on # x /\ p.on # x
    BY <1>5, <2>1, <2>3 DEF IInv, ObjectsBusy
  <2> QED BY <2>2, <2>3
<1> HIDE DEF ops, objects
<1> QED BY <1>1, <1>2, <1>4, <1>5, <1>8, <1>9, AcceptPreserves

\* An object whose reply is set, and whose path may be, stays one, and its peer's.
LEMMA EditsKeepShape ==
  ASSUME NEW o, IsObject(o), NEW u, NEW r
  PROVE  /\ IsObject([o EXCEPT !.reply_ = r]) /\ [o EXCEPT !.reply_ = r].peer = o.peer
         /\ IsObject([o EXCEPT !.parser.uri = u, !.reply_ = r])
         /\ [o EXCEPT !.parser.uri = u, !.reply_ = r].peer = o.peer
<1>1. o = [peer |-> o.peer, parser |-> o.parser, reply_ |-> o.reply_]
  BY DEF IsObject
<1>2. [o EXCEPT !.reply_ = r] = [peer |-> o.peer, parser |-> o.parser, reply_ |-> r]
  BY <1>1
<1>3. [o EXCEPT !.parser.uri = u, !.reply_ = r]
        = [peer |-> o.peer, parser |-> [o.parser EXCEPT !.uri = u], reply_ |-> r]
  <2> DEFINE w == [o EXCEPT !.parser.uri = u]
  <2>1. w = [peer |-> o.peer, parser |-> [o.parser EXCEPT !.uri = u], reply_ |-> o.reply_]
    BY <1>1
  <2>2. [o EXCEPT !.parser.uri = u, !.reply_ = r] = [w EXCEPT !.reply_ = r]
    OBVIOUS
  <2> HIDE DEF w
  <2> QED BY <2>1, <2>2
<1> QED BY <1>2, <1>3 DEF IsObject

\* So does one whose request is handled.
LEMMA HandleRequestShape ==
  ASSUME NEW o, IsObject(o)
  PROVE  IsObject(handle_request(o)) /\ handle_request(o).peer = o.peer
<1> DEFINE path == url_decode(o.parser.uri)
<1>1. CASE path.ok
  <2>1. PICK u, r : handle_request(o) = [o EXCEPT !.parser.uri = u, !.reply_ = r]
    BY <1>1 DEF handle_request
  <2>2. /\ IsObject([o EXCEPT !.parser.uri = u, !.reply_ = r])
        /\ [o EXCEPT !.parser.uri = u, !.reply_ = r].peer = o.peer
    BY EditsKeepShape
  <2> QED BY <2>1, <2>2
<1>2. CASE ~path.ok
  <2>1. PICK r : handle_request(o) = [o EXCEPT !.reply_ = r]
    BY <1>2 DEF handle_request
  <2>2. IsObject([o EXCEPT !.reply_ = r]) /\ [o EXCEPT !.reply_ = r].peer = o.peer
    BY EditsKeepShape
  <2> QED BY <2>1, <2>2
<1> QED BY <1>1, <1>2

\* Whatever the parser and the handlers make of a piece, the object stays one, and
\* its peer's.
LEMMA HandledShape ==
  ASSUME NEW o, IsObject(o), NEW piece
  PROVE  IsObject(Handled(o, piece)) /\ Handled(o, piece).peer = o.peer
<1> DEFINE p == parse(o.parser, piece)
           read == [o EXCEPT !.parser = p]
           bad == [read EXCEPT !.reply_ = StockReply("bad_request")]
<1>1. IsObject(read) /\ read.peer = o.peer
  <2> HIDE DEF p
  <2>1. read = [peer |-> o.peer, parser |-> p, reply_ |-> o.reply_]
    BY DEF IsObject
  <2> QED BY <2>1 DEF IsObject
<1>2. Handled(o, piece) = CASE p.result = "good" -> handle_request(read)
                            [] p.result = "bad" -> bad
                            [] OTHER -> read
  BY DEF Handled
<1> HIDE DEF p, read
<1>3. IsObject(bad) /\ bad.peer = o.peer
  BY <1>1, EditsKeepShape
<1>4. IsObject(handle_request(read)) /\ handle_request(read).peer = o.peer
  BY <1>1, HandleRequestShape
<1> HIDE DEF bad
<1> QED BY <1>1, <1>2, <1>3, <1>4

\* The object that has read goes on reading, or writes if it has its reply.
LEMMA ReadPreserves ==
  ASSUME IInv, NEW x, NEW c \in DOMAIN stream, Read(x, c)
  PROVE  IInv'
<1>1. PICK n \in 1 .. BufferSize :
        /\ n <= Rest(c)
        /\ LET o == Handled(connection[x],
                            SubSeq(stream[c], client[c].read + 1, client[c].read + n))
           IN  /\ connection' = [connection EXCEPT ![x] = o]
               /\ operations' = (operations \ {Op("read", x)}) \union next_operations(o, x)
        /\ client' = [client EXCEPT ![c].read = @ + n]
  BY DEF Read
<1>2. /\ state = "running" /\ Doing("read", x) /\ connection[x].peer = c
      /\ UNCHANGED <<stream, state, handler_list_, new_connection_>>
  BY DEF Read
<1>3. x \in DOMAIN connection /\ x \in Connection /\ x # new_connection_
  BY <1>2, DoerInMemory DEF Kinds
<1>4. PICK o : /\ IsObject(o) /\ o.peer = c
               /\ connection' = [connection EXCEPT ![x] = o]
               /\ operations' = (operations \ {Op("read", x)}) \union next_operations(o, x)
  <2>1. IsObject(connection[x])
    BY <1>3 DEF IInv, Shapes
  <2> QED BY <1>1, <1>2, <2>1, HandledShape
<1>5. PICK kind \in {"read", "write"} :
        /\ operations' = (operations \ {Op("read", x)}) \union {Op(kind, x)}
        /\ kind = "write" <=> o.parser.result # "indeterminate"
  BY <1>4 DEF next_operations
<1>6. /\ DOMAIN connection' = DOMAIN connection /\ connection'[x] = o
      /\ \A y \in DOMAIN connection : y # x => connection'[y] = connection[y]
      /\ \A y \in DOMAIN connection : connection'[y].peer = connection[y].peer
  BY <1>2, <1>3, <1>4
<1>7. \A k, y : y # x => (Doing(k, y)' <=> Doing(k, y))
  <2> SUFFICES ASSUME NEW k, NEW y, y # x
               PROVE  Op(k, y) # Op("read", x) /\ Op(k, y) # Op(kind, x)
    BY <1>5 DEF Doing
  <2> QED BY PairsDiffer
<1>8. \A k \in Kinds : Doing(k, x)' <=> k = kind
  <2> SUFFICES ASSUME NEW k \in Kinds, Doing(k, x)', k # kind PROVE FALSE
    BY <1>5 DEF Doing
  <2>1. Op(k, x) # Op(kind, x)
    BY PairsDiffer
  <2>2. Doing(k, x) /\ Op(k, x) # Op("read", x)
    BY <1>5, <2>1 DEF Doing
  <2>3. k = "read"
    BY <1>2, <1>3, <2>2, OneAtATime DEF IInv, Kinds
  <2> QED BY <2>2, <2>3
<1>9. ClientsKept
  <2>1. client[c].read + n \in 0 .. Len(stream[c])
    <3>1. stream[c] \in Seq(Int)
      BY ServerAssumption DEF IInv, Shapes
    <3>2. Len(stream[c]) \in Nat /\ client[c].read \in 0 .. Len(stream[c])
      BY <3>1 DEF IInv, TypeOK
    <3>3. n \in Nat /\ n <= Len(stream[c]) - client[c].read
      BY <1>1, ServerAssumption DEF Rest
    <3> QED BY <3>2, <3>3
  <2> QED BY <1>1, <1>2, <2>1 DEF IInv, TypeOK, Shapes, ClientsKept, IsClient
<1>10. TypeOK'
  <2>1. operations' \subseteq [kind : Kinds, on : Connection]
    BY <1>3, <1>5 DEF IInv, TypeOK, Op, Kinds
  <2> QED BY <1>2, <1>6, <1>9, <2>1 DEF IInv, TypeOK, ClientsKept
<1>11. Shapes'
  BY <1>2, <1>4, <1>6, <1>9 DEF IInv, Shapes, ClientsKept
<1>12. AlwaysAccepting'
  <2>1. ~Doing("accept", x)'
    BY <1>8 DEF Kinds
  <2> QED BY <1>2, <1>3, <1>7, <2>1 DEF IInv, AlwaysAccepting
<1>13. ObjectsBusy'
  <2>1. \A p \in operations' : p.on \in DOMAIN connection'
    BY <1>3, <1>5, <1>6 DEF IInv, ObjectsBusy, Op
  <2>2. ASSUME NEW y \in DOMAIN connection'
        PROVE  /\ \E l \in Kinds : \A k \in Kinds : Doing(k, y)' <=> k = l
               /\ y = new_connection_ <=> connection'[y].peer = NoClient
               /\ Doing("write", y)' <=> connection'[y].parser.result # "indeterminate"
    <3>1. y = new_connection_ <=> connection'[y].peer = NoClient
      BY <1>6 DEF IInv, ObjectsBusy
    <3>2. CASE y = x
      <4>1. kind \in Kinds /\ (Doing("write", y)' <=> kind = "write")
        BY <1>8, <3>2 DEF Kinds
      <4> QED BY <1>5, <1>6, <1>8, <3>1, <3>2, <4>1
    <3>3. CASE y # x
      <4>1. \E l \in Kinds : \A k \in Kinds : Doing(k, y) <=> k = l
        BY <1>6 DEF IInv, ObjectsBusy
      <4>2. Doing("write", y) <=> connection[y].parser.result # "indeterminate"
        BY <1>6 DEF IInv, ObjectsBusy
      <4> QED BY <1>6, <1>7, <3>1, <3>3, <4>1, <4>2
    <3> QED BY <3>2, <3>3
  <2>3. \A y, z \in DOMAIN connection' : connection'[y].peer = connection'[z].peer => y = z
    BY <1>6 DEF IInv, ObjectsBusy
  <2> QED BY <1>2, <2>1, <2>2, <2>3 DEF ObjectsBusy
<1>14. PeersAccepted'
  <2> SUFFICES ASSUME NEW y \in DOMAIN connection, connection[y].peer # NoClient
               PROVE  client'[connection[y].peer].at \in {"accepted", "gone"}
    BY <1>6 DEF PeersAccepted
  <2>1. client[connection[y].peer].at \in {"accepted", "gone"}
    BY <1>2 DEF IInv, PeersAccepted
  <2>2. connection[y].peer \in DOMAIN stream
    BY DEF IInv, TypeOK
  <2> QED BY <1>9, <2>1, <2>2 DEF ClientsKept
<1>15. Lifetimes'
  BY <1>2, <1>6 DEF IInv, Lifetimes
<1> QED BY <1>10, <1>11, <1>12, <1>13, <1>14, <1>15 DEF IInv

\* The object of the last operation of a client is destroyed.
LEMMA CompletedPreserves ==
  ASSUME IInv, state = "running", NEW k \in {"read", "write"}, NEW x, Doing(k, x),
         Completed(k, x), NEW c \in DOMAIN stream, connection[x].peer = c,
         DOMAIN client' = DOMAIN client,
         \A d \in DOMAIN client : d # c => client'[d] = client[d],
         IsClient(client'[c]), client'[c].read = client[c].read,
         client'[c].at \in {"away", "backlog", "accepted", "closed", "gone"}
  PROVE  IInv'
<1>1. /\ x \in DOMAIN connection /\ x # new_connection_
      /\ DOMAIN connection' = DOMAIN connection \ {x}
      /\ \A y \in DOMAIN connection' : connection'[y] = connection[y]
      /\ \A l, y : y # x => (Doing(l, y)' <=> Doing(l, y))
      /\ operations' = operations \ {Op(k, x)}
  BY CompletedRemoves
<1>2. UNCHANGED <<stream, state, handler_list_, new_connection_>>
  BY DEF Completed
<1>3. TypeOK' /\ Shapes'
  BY <1>1, <1>2 DEF IInv, TypeOK, Shapes
<1>4. \A o \in operations' : o.on \in DOMAIN connection'
  <2> SUFFICES ASSUME NEW o \in operations', o.on = x PROVE FALSE
    BY <1>1 DEF IInv, ObjectsBusy
  <2>1. o \in [kind : Kinds, on : Connection] /\ o \in operations
    BY <1>1 DEF IInv, TypeOK
  <2>2. o.kind \in Kinds /\ o = Op(o.kind, x)
    BY <2>1, OperationIsPair
  <2>3. o.kind = k
    BY <1>1, <2>1, <2>2, OneAtATime DEF IInv, Doing, Kinds
  <2> QED BY <1>1, <2>2, <2>3
<1>5. AlwaysAccepting'
  <2>1. ~Doing("accept", x)'
    <3>1. ~Doing("accept", x)
      BY <1>1, OneAtATime DEF IInv, Kinds
    <3> QED BY <1>1, <3>1 DEF Doing
  <2> QED BY <1>1, <1>2, <2>1 DEF IInv, AlwaysAccepting
<1>6. ObjectsBusy'
  BY <1>1, <1>2, <1>4 DEF IInv, ObjectsBusy
<1>7. PeersAccepted'
  <2> SUFFICES ASSUME NEW y \in DOMAIN connection', connection[y].peer # NoClient
               PROVE  client'[connection[y].peer].at \in {"accepted", "gone"}
    BY <1>1 DEF PeersAccepted
  <2>1. connection[y].peer # c
    BY <1>1 DEF IInv, ObjectsBusy
  <2>2. connection[y].peer \in DOMAIN client
    BY <1>1 DEF IInv, TypeOK
  <2> QED BY <1>1, <1>2, <2>1, <2>2 DEF IInv, PeersAccepted
<1>8. Lifetimes'
  BY <1>1, <1>2 DEF IInv, Lifetimes
<1> QED BY <1>3, <1>5, <1>6, <1>7, <1>8 DEF IInv

\* A read that fails, and a write that fails or not, are such last operations.
LEMMA EndsPreserve ==
  ASSUME IInv, NEW x, NEW c \in DOMAIN stream,
         ReadFailed(x, c) \/ Written(x, c) \/ WriteFailed(x, c)
  PROVE  IInv'
<1>1. /\ c \in DOMAIN client /\ IsClient(client[c])
      /\ client[c].at \in {"away", "backlog", "accepted", "closed", "gone"}
  BY DEF IInv, TypeOK, Shapes
<1>2. CASE ReadFailed(x, c)
  BY <1>1, <1>2, CompletedPreserves DEF ReadFailed
<1>3. CASE WriteFailed(x, c)
  BY <1>1, <1>3, CompletedPreserves DEF WriteFailed
<1>4. CASE Written(x, c)
  <2>1. client' = [client EXCEPT ![c].at = IF @ = "accepted" THEN "closed" ELSE @]
        /\ state = "running" /\ Doing("write", x) /\ connection[x].peer = c
        /\ Completed("write", x)
    BY <1>4 DEF Written
  <2>2. /\ IsClient(client'[c]) /\ client'[c].read = client[c].read
        /\ client'[c].at \in {"away", "backlog", "accepted", "closed", "gone"}
        /\ DOMAIN client' = DOMAIN client
        /\ \A d \in DOMAIN client : d # c => client'[d] = client[d]
    BY <1>1, <2>1 DEF IsClient
  <2> QED BY <2>1, <2>2, CompletedPreserves
<1> QED BY <1>2, <1>3, <1>4

\* Every step preserves the invariant.
LEMMA StepPreserves == IInv /\ [Next]_vars => IInv'
<1> SUFFICES ASSUME IInv, [Next]_vars PROVE IInv'
  OBVIOUS
<1>1. CASE UNCHANGED vars
  BY <1>1 DEF vars, network, server, IInv, TypeOK, Shapes, AlwaysAccepting, ObjectsBusy,
              PeersAccepted, Lifetimes, Doing
<1>2. CASE \E c \in DOMAIN stream : Connect(c) \/ HangUp(c)
  BY <1>2, ClientsPreserve
<1>3. CASE Run \/ Signal \/ \E url \in Url : AddHandler(url)
  BY <1>3, LifePreserves
<1>4. CASE Return
  BY <1>4, ReturnPreserves
<1>5. ASSUME NEW x, AcceptFailed(x) PROVE IInv'
  BY <1>5, AcceptFailedPreserves
<1>6. ASSUME NEW x, NEW c \in DOMAIN stream, Accepted(x, c) PROVE IInv'
  BY <1>6, AcceptedPreserves
<1>7. ASSUME NEW x, NEW c \in DOMAIN stream, OnSocket(x, c) PROVE IInv'
  BY <1>7, ReadPreserves, EndsPreserve, ClientsPreserve DEF OnSocket
<1> QED BY <1>1, <1>2, <1>3, <1>4, <1>5, <1>6, <1>7 DEF Next, Ended

-----------------------------------------------------------------------------
(* The theorems.                                                           *)

\* The invariant holds in every state the server reaches.
THEOREM Invariant == Spec => []IInv
<1>1. Init => IInv
  BY Begins
<1>2. IInv /\ [Next]_vars => IInv'
  BY StepPreserves
<1> QED BY <1>1, <1>2, PTL DEF Spec

\* Every variable keeps its type: do_accept, the handlers of reads and writes and the
\* signal make no object, operation or client of another kind.
THEOREM ServerTypeCorrect == Spec => []TypeOK
<1>1. IInv => TypeOK
  BY DEF IInv
<1> QED BY <1>1, Invariant, PTL

\* Until run() returns the acceptor waits, for the newest object and for no other.
THEOREM AlwaysAcceptingHolds == Spec => []AlwaysAccepting
<1>1. IInv => AlwaysAccepting
  BY DEF IInv
<1> QED BY <1>1, Invariant, PTL

\* Every object does one thing at a time, and serves a client of its own.
THEOREM ObjectsBusyHolds == Spec => []ObjectsBusy
<1>1. IInv => ObjectsBusy
  BY DEF IInv
<1> QED BY <1>1, Invariant, PTL

\* The object is still in memory after a step, with its reply.
KeptReply(x) == x \in DOMAIN connection' /\ connection'[x].reply_ = connection[x].reply_

\* do_accept keeps the objects of the operations it finds.
LEMMA AcceptKeepsReply ==
  ASSUME NEW objects, NEW ops, do_accept(objects, ops), NEW x \in DOMAIN connection,
         Op("write", x) \in ops, x \in DOMAIN objects,
         objects[x].reply_ = connection[x].reply_
  PROVE  KeptReply(x)
<1>1. x # new_connection_'
  BY AcceptBegun DEF Op
<1>2. \E o \in ops : o.on = x
  BY DEF Op
<1> QED BY <1>1, <1>2, AcceptBegun DEF KeptReply

\* A step of the server that leaves an object writing leaves it its reply.
LEMMA StepKeepsReply ==
  ASSUME IInv, [Next]_vars, NEW x \in DOMAIN connection, Doing("write", x), Doing("write", x)'
  PROVE  KeptReply(x)
<1>1. CASE UNCHANGED connection
  BY <1>1 DEF KeptReply
<1>2. ASSUME NEW y, Doing("accept", y) PROVE y # x /\ Op("write", x) # Op("accept", y)
  BY <1>2, OneAtATime DEF IInv, Kinds, Op
<1>3. ASSUME NEW y, AcceptFailed(y) PROVE KeptReply(x)
  <2>1. do_accept(connection, operations \ {Op("accept", y)}) /\ Doing("accept", y)
    BY <1>3 DEF AcceptFailed
  <2>2. Op("write", x) \in operations \ {Op("accept", y)}
    BY <1>2, <2>1 DEF Doing
  <2> QED BY <2>1, <2>2, AcceptKeepsReply
<1>4. ASSUME NEW y, NEW c, Accepted(y, c) PROVE KeptReply(x)
  <2> DEFINE objects == [connection EXCEPT ![y].peer = c]
             ops == (operations \ {Op("accept", y)}) \union {Op("read", new_connection_)}
  <2>1. do_accept(objects, ops) /\ Doing("accept", y)
    BY <1>4 DEF Accepted
  <2>2. Op("write", x) \in ops
    BY <1>2, <2>1 DEF Doing
  <2>3. x \in DOMAIN objects /\ objects[x].reply_ = connection[x].reply_
    BY <1>2, <2>1
  <2> HIDE DEF objects, ops
  <2> QED BY <2>1, <2>2, <2>3, AcceptKeepsReply
<1>5. ASSUME NEW y, NEW c, Read(y, c) PROVE KeptReply(x)
  <2>1. Doing("read", y)
    BY <1>5 DEF Read
  <2>2. y # x
    BY <2>1, OneAtATime DEF IInv, Kinds
  <2> QED BY <1>5, <2>2 DEF Read, KeptReply
<1>6. ASSUME NEW k \in {"read", "write"}, NEW y, Doing(k, y), Completed(k, y)
      PROVE  KeptReply(x)
  <2>1. x # y
    <3> SUFFICES ASSUME x = y PROVE FALSE
      OBVIOUS
    <3>1. k = "write"
      BY <1>6, OneAtATime DEF IInv, Kinds
    <3> QED BY <1>6, <3>1 DEF Completed, Doing
  <2>2. DOMAIN connection' = DOMAIN connection \ {y}
        /\ \A z \in DOMAIN connection' : connection'[z] = connection[z]
    BY <1>6, CompletedRemoves
  <2> QED BY <2>1, <2>2 DEF KeptReply
<1>7. CASE Return
  BY <1>7 DEF Return, Doing
<1>8. CASE UNCHANGED vars
  BY <1>1, <1>8 DEF vars, server
<1>9. ASSUME NEW c, Connect(c) \/ HangUp(c) \/ \E y : Deliver(y, c) PROVE KeptReply(x)
  BY <1>1, <1>9 DEF Connect, HangUp, Deliver, server
<1>10. CASE Run \/ Signal \/ \E url \in Url : AddHandler(url)
  BY <1>1, <1>10 DEF Run, Signal, AddHandler
<1>11. ASSUME NEW y, NEW c, OnSocket(y, c) PROVE KeptReply(x)
  BY <1>5, <1>6, <1>9, <1>11 DEF OnSocket, ReadFailed, Written, WriteFailed
<1> QED BY <1>3, <1>4, <1>7, <1>8, <1>9, <1>10, <1>11 DEF Next, Ended

\* The reply of an object is the same, and in memory, as long as it is being written.
THEOREM ReplyKeptHolds == Spec => ReplyKept
<1>1. IInv /\ [Next]_vars =>
        [\A x \in DOMAIN connection : Doing("write", x) /\ Doing("write", x)' =>
           x \in DOMAIN connection' /\ connection'[x].reply_ = connection[x].reply_]_vars
  BY StepKeepsReply DEF KeptReply
<1> QED BY <1>1, Invariant, PTL DEF Spec, ReplyKept

-----------------------------------------------------------------------------
(* What an object holds.                                                   *)

\* The object of client c when p has parsed what it sent, before it is handled.
Parser(c, p) == [peer |-> c, parser |-> p, reply_ |-> NoReply]

\* The object of client c that has read s, in one piece.
Reader(c, s) == Handled([Fresh EXCEPT !.peer = c], s)

\* Handling a request that was parsed: its path and its reply.
LEMMA HandleRequestIs ==
  ASSUME NEW c, NEW p \in ParserType
  PROVE  LET o == handle_request(Parser(c, p))
         IN  /\ o.parser.result = p.result /\ o.parser.method = p.method
             /\ o.parser.headers = p.headers
             /\ (\E v : o.reply_ = dispatched(handler_list_, v)) \/ o.reply_ = StockReply("bad_request")
             /\ Decodable(p.uri) => /\ o.parser.uri = Decoded(p.uri)
                                    /\ o.reply_ = dispatched(handler_list_, Decoded(p.uri))
             /\ Garbled(p.uri) => /\ o.parser.uri = p.uri
                                  /\ o.reply_ = StockReply("bad_request")
<1> DEFINE o == Parser(c, p)
           path == url_decode(o.parser.uri)
           reply == dispatched(handler_list_, path.out)
<1>1. o.parser = p /\ p.uri \in String
  BY DEF Parser, ParserType
<1>2. /\ Decodable(p.uri) => path = [ok |-> TRUE, out |-> Decoded(p.uri)]
      /\ Garbled(p.uri) => path = Undecodable
  BY <1>1, UrlDecodeIsDecoded
<1>3. handle_request(o) = IF path.ok THEN [o EXCEPT !.parser.uri = path.out, !.reply_ = reply]
                          ELSE [o EXCEPT !.reply_ = StockReply("bad_request")]
  BY DEF handle_request
<1>4. p = [state |-> p.state, result |-> p.result, method |-> p.method, uri |-> p.uri,
           headers |-> p.headers, header_name |-> p.header_name, header_value |-> p.header_value]
  BY DEF ParserType
<1>5. /\ Decodable(p.uri) => path.ok = TRUE /\ path.out = Decoded(p.uri)
      /\ Garbled(p.uri) => path.ok = FALSE
  <2> HIDE DEF path
  <2> QED BY <1>2 DEF Undecodable
<1> HIDE DEF path, reply
<1>6. CASE path.ok
  <2> DEFINE w == [o EXCEPT !.parser.uri = path.out]
             q == [p EXCEPT !.uri = path.out]
  <2>1. w = [peer |-> c, parser |-> q, reply_ |-> NoReply]
    BY DEF Parser
  <2>2. handle_request(o) = [w EXCEPT !.reply_ = reply]
    BY <1>3, <1>6
  <2>3. q.result = p.result /\ q.method = p.method /\ q.headers = p.headers /\ q.uri = path.out
    BY <1>4
  <2> HIDE DEF w, q, o
  <2>4. handle_request(o).parser = q /\ handle_request(o).reply_ = reply
    BY <2>1, <2>2
  <2>5. reply = dispatched(handler_list_, path.out)
    BY DEF reply
  <2> QED BY <1>5, <1>6, <2>3, <2>4, <2>5 DEF o
<1>7. CASE ~ path.ok
  <2>1. handle_request(o) = [o EXCEPT !.reply_ = StockReply("bad_request")]
    BY <1>3, <1>7
  <2>2. handle_request(o).parser = p /\ handle_request(o).reply_ = StockReply("bad_request")
    BY <2>1 DEF Parser
  <2> HIDE DEF o
  <2> QED BY <1>5, <1>7, <2>2 DEF o
<1> QED BY <1>6, <1>7

\* An object that has parsed all it read is handled according to the result.
LEMMA ReaderIs ==
  ASSUME NEW c, NEW s \in String
  PROVE  LET p == Parsed(s, Len(s))
         IN  /\ p \in ParserType
             /\ Reader(c, s) = CASE p.result = "good" -> handle_request(Parser(c, p))
                                 [] p.result = "bad" ->
                                      [Parser(c, p) EXCEPT !.reply_ = StockReply("bad_request")]
                                 [] OTHER -> Parser(c, p)
<1> DEFINE p == Parsed(s, Len(s))
           o == [Fresh EXCEPT !.peer = c]
           read == [o EXCEPT !.parser = parse(o.parser, s)]
<1>1. p \in ParserType
  <2>1. Len(s) \in 0 .. Len(s)
    BY DEF String
  <2> QED BY <2>1, ParsedRun
<1>2. o = [peer |-> c, parser |-> NewParser, reply_ |-> NoReply]
  BY DEF Fresh
<1>3. parse(o.parser, s) = p
  BY <1>2, WholePrefix DEF Parsed
<1>4. read = Parser(c, p)
  <2> HIDE DEF p, o
  <2> QED BY <1>2, <1>3 DEF Parser
<1>5. Reader(c, s) = CASE p.result = "good" -> handle_request(read)
                       [] p.result = "bad" -> [read EXCEPT !.reply_ = StockReply("bad_request")]
                       [] OTHER -> read
  <2> HIDE DEF p
  <2> QED BY <1>3 DEF Reader, Handled
<1> HIDE DEF p, read
<1> QED BY <1>1, <1>4, <1>5 DEF p

\* As long as the parser goes on, nothing is handled.
LEMMA ReaderWaits ==
  ASSUME NEW c, NEW s \in String, Parsed(s, Len(s)).result = "indeterminate"
  PROVE  Reader(c, s) = Parser(c, Parsed(s, Len(s)))
<1> DEFINE p == Parsed(s, Len(s))
<1>1. Reader(c, s) = CASE p.result = "good" -> handle_request(Parser(c, p))
                       [] p.result = "bad" ->
                            [Parser(c, p) EXCEPT !.reply_ = StockReply("bad_request")]
                       [] OTHER -> Parser(c, p)
  BY ReaderIs
<1>2. p.result = "indeterminate"
  OBVIOUS
<1> HIDE DEF p
<1> QED BY <1>1, <1>2 DEF p

\* The result of the parser is kept when the request is handled.
LEMMA ReaderResult ==
  ASSUME NEW c, NEW s \in String
  PROVE  Reader(c, s).parser.result = Parsed(s, Len(s)).result
<1> DEFINE p == Parsed(s, Len(s))
<1>1. /\ p \in ParserType
      /\ Reader(c, s) = CASE p.result = "good" -> handle_request(Parser(c, p))
                          [] p.result = "bad" ->
                               [Parser(c, p) EXCEPT !.reply_ = StockReply("bad_request")]
                          [] OTHER -> Parser(c, p)
  BY ReaderIs
<1> HIDE DEF p
<1>2. CASE p.result = "good"
  <2>1. Reader(c, s) = handle_request(Parser(c, p))
    BY <1>1, <1>2
  <2>2. handle_request(Parser(c, p)).parser.result = p.result
    BY <1>1, HandleRequestIs
  <2> QED BY <2>1, <2>2 DEF p
<1>3. CASE p.result # "good"
  <2>1. Reader(c, s).parser = p
    BY <1>1, <1>3 DEF Parser
  <2> QED BY <2>1 DEF p
<1> QED BY <1>2, <1>3

\* Before anything is read.
LEMMA ReaderBegins ==
  ASSUME NEW c, NEW s \in String
  PROVE  Reader(c, Prefix(s, 0)) = [Fresh EXCEPT !.peer = c]
<1> DEFINE t == Prefix(s, 0)
<1>1. 0 \in 0 .. Len(s) /\ 0 \in 0 .. 0
  BY DEF String
<1>2. t \in String /\ Len(t) = 0 /\ Prefix(t, 0) = t
  BY <1>1, PrefixFacts, PrefixOfPrefix
<1>3. Parsed(t, Len(t)) = NewParser
  BY <1>2, ParsedRun
<1>4. Parsed(t, Len(t)).result = "indeterminate"
  BY <1>3 DEF NewParser
<1> HIDE DEF t
<1>5. Reader(c, t) = Parser(c, NewParser)
  BY <1>2, <1>3, <1>4, ReaderWaits
<1> QED BY <1>5 DEF t, Parser, Fresh

\* Reading a piece and then the next is reading both.
LEMMA ReaderGoesOn ==
  ASSUME NEW c, NEW s \in String, NEW a \in 0 .. Len(s), NEW z \in (a + 1) .. Len(s),
         Parsed(s, a).result = "indeterminate"
  PROVE  Handled(Reader(c, Prefix(s, a)), SubSeq(s, a + 1, z)) = Reader(c, Prefix(s, z))
<1> DEFINE piece == SubSeq(s, a + 1, z)
           q == Parsed(s, z)
           t == Prefix(s, a)
           v == Prefix(s, z)
<1>0. Len(s) \in Nat /\ a \in Nat /\ z \in Nat /\ a \in 0 .. a /\ z \in 0 .. z /\ z \in 0 .. Len(s)
  BY DEF String
<1>1. t \in String /\ Len(t) = a /\ v \in String /\ Len(v) = z
  BY <1>0, PrefixFacts
<1>2. Parsed(t, a) = Parsed(s, a) /\ Parsed(v, z) = q
  BY <1>0, ParsedPrefix
<1>3. parse(Parsed(s, a), piece) = q
  BY ParsePieces
<1> HIDE DEF t, v
<1>4. Reader(c, t) = Parser(c, Parsed(s, a))
  BY <1>1, <1>2, ReaderWaits
<1> DEFINE o == Parser(c, Parsed(s, a))
           read == [o EXCEPT !.parser = q]
<1>5. o.parser = Parsed(s, a) /\ read = Parser(c, q)
  BY DEF Parser
<1>6. Handled(o, piece) = CASE q.result = "good" -> handle_request(read)
                            [] q.result = "bad" -> [read EXCEPT !.reply_ = StockReply("bad_request")]
                            [] OTHER -> read
  <2> HIDE DEF q, piece, o
  <2> QED BY <1>3, <1>5 DEF Handled
<1>7. Reader(c, v) = CASE q.result = "good" -> handle_request(Parser(c, q))
                       [] q.result = "bad" ->
                            [Parser(c, q) EXCEPT !.reply_ = StockReply("bad_request")]
                       [] OTHER -> Parser(c, q)
  BY <1>1, <1>2, ReaderIs
<1> HIDE DEF o, q, read, piece
<1> QED BY <1>4, <1>5, <1>6, <1>7 DEF t, v, o, piece

-----------------------------------------------------------------------------
(* The grammar that HttpService is written in is the one of this module.   *)

\* They agree on characters.
LEMMA ServiceCharacters ==
  /\ Service!SP = SP /\ Service!HT = HT /\ Service!CR = CR /\ Service!LF = LF
  /\ Service!Slash = Slash /\ Service!Dot = Dot /\ Service!Colon = Colon
  /\ \A c : (Service!IsToken(c) <=> IsToken(c)) /\ (Service!IsText(c) <=> IsText(c))
  /\ \A c : Service!is_digit(c) <=> is_digit(c)
<1>1. /\ Service!SP = SP /\ Service!HT = HT /\ Service!CR = CR /\ Service!LF = LF
      /\ Service!Slash = Slash /\ Service!Dot = Dot /\ Service!Colon = Colon
  BY DEF Service!SP, SP, Service!HT, HT, Service!CR, CR, Service!LF, LF, Service!Slash, Slash,
     Service!Dot, Dot, Service!Colon, Colon
<1>2. Service!Tspecials = Tspecials
  BY <1>1, Zenon DEF Service!Tspecials, Tspecials, Service!SP, SP, Service!HT, HT,
     Service!Slash, Slash, Service!Colon, Colon
<1>3. \A c : /\ Service!is_char(c) <=> is_char(c)
             /\ Service!is_ctl(c) <=> is_ctl(c)
             /\ Service!is_digit(c) <=> is_digit(c)
  BY DEF Service!is_char, is_char, Service!is_ctl, is_ctl, Service!is_digit, is_digit
<1>4. \A c : Service!is_tspecial(c) <=> is_tspecial(c)
  BY <1>2 DEF Service!is_tspecial, is_tspecial
<1>5. \A c : (Service!IsToken(c) <=> IsToken(c)) /\ (Service!IsText(c) <=> IsText(c))
  BY <1>3, <1>4 DEF Service!IsToken, IsToken, Service!IsText, IsText
<1> QED BY <1>1, <1>3, <1>5

\* They agree on where lines begin and end.
LEMMA ServiceLines ==
  /\ \A S : Service!FirstOf(S) = FirstOf(S) /\ Service!LastOf(S) = LastOf(S)
  /\ \A s : Service!LineStarts(s) = LineStarts(s) /\ Service!Blanks(s) = Blanks(s)
  /\ \A s, i : Service!EndOf(s, i) = EndOf(s, i) /\ Service!Line(s, i) = Line(s, i)
<1>1. \A S : Service!FirstOf(S) = FirstOf(S) /\ Service!LastOf(S) = LastOf(S)
  BY Zenon DEF Service!FirstOf, FirstOf, Service!LastOf, LastOf
<1>2. \A s : Service!LineStarts(s) = LineStarts(s)
  BY Zenon DEF Service!LineStarts, LineStarts, Service!LF, LF
<1>3. \A s, i : Service!EndOf(s, i) = EndOf(s, i)
  BY Zenon DEF Service!EndOf, EndOf, Service!FirstOf, FirstOf, Service!CR, CR
<1>4. \A s, i : Service!Line(s, i) = Line(s, i)
  BY <1>3, Zenon DEF Service!Line, Line
<1>5. \A s : Service!Blanks(s) = Blanks(s)
  BY Zenon DEF Service!Blanks, Blanks, Service!Line, Line, Service!EndOf, EndOf,
     Service!FirstOf, FirstOf, Service!CR, CR, Service!SP, SP
<1> QED BY <1>1, <1>2, <1>3, <1>4, <1>5

\* They agree on which strings are requests.
LEMMA ServiceIsRequest == \A s : Service!IsRequest(s) <=> IsRequest(s)
<1>1. \A s : Service!IsLines(s) <=> IsLines(s)
  BY ServiceLines, ServiceCharacters DEF Service!IsLines, IsLines
<1>2. \A s, a, b : Service!IsVersion(s, a, b) <=> IsVersion(s, a, b)
  BY ServiceCharacters DEF Service!IsVersion, IsVersion
<1>3. \A s : Service!IsRequestLine(s) <=> IsRequestLine(s)
  BY <1>2, ServiceLines, ServiceCharacters DEF Service!IsRequestLine, IsRequestLine
<1>4. \A s, i : /\ Service!IsHeader(s, i) <=> IsHeader(s, i)
                /\ Service!IsContinuation(s, i) <=> IsContinuation(s, i)
  <2>1. \A s, i : Service!IsHeader(s, i) <=> IsHeader(s, i)
    BY ServiceLines, ServiceCharacters DEF Service!IsHeader, IsHeader
  <2>2. \A s, i : Service!IsContinuation(s, i) <=> IsContinuation(s, i)
    BY ServiceLines, ServiceCharacters DEF Service!IsContinuation, IsContinuation
  <2> QED BY <2>1, <2>2
<1>5. \A s : /\ Service!HeaderLines(s) = HeaderLines(s)
             /\ Service!SecondLine(s) = SecondLine(s)
  BY ServiceLines DEF Service!HeaderLines, HeaderLines, Service!SecondLine, SecondLine
<1> QED BY <1>1, <1>3, <1>4, <1>5 DEF Service!IsRequest, IsRequest

\* They agree on the length of requests.
LEMMA ServiceLength == \A s : Service!RequestLength(s) = RequestLength(s)
<1>1. Service!Sample = Sample
  BY ServiceCharacters DEF Service!Sample, Sample
<1>2. \A s : Service!CanGoOn(s) <=> CanGoOn(s)
  BY <1>1, ServiceIsRequest DEF Service!CanGoOn, CanGoOn
<1> QED BY <1>2, ServiceIsRequest, ServiceLines
        DEF Service!RequestLength, RequestLength, Service!Prefix, Prefix

\* They agree on the path of requests.
LEMMA ServiceUri == \A s : Service!Request(s).uri = Uri(s)
<1>1. \A s : Service!Uri(s) = Uri(s)
  BY ServiceLines DEF Service!Uri, Uri
<1> QED BY <1>1 DEF Service!Request

\* They agree on where escapes begin, and on which are numbers.
LEMMA ServiceEscapes ==
  /\ \A s : Service!Starts(s) = Starts(s)
  /\ \A s, i : /\ Service!IsEscape(s, i) <=> IsEscape(s, i)
               /\ Service!IsHalfEscape(s, i) <=> IsHalfEscape(s, i)
               /\ Service!Escaped(s, i) = Escaped(s, i)
<1>1. \A s : Service!Starts(s) = Starts(s)
  BY Zenon DEF Service!Starts, Starts, Service!Width, Width, Service!Percent, Percent
<1>2. \A c : Service!Hex(c) = Hex(c)
  BY DEF Service!Hex, Hex
<1>3. \A c : Service!IsHex(c) <=> IsHex(c)
  BY <1>2 DEF Service!IsHex, IsHex
<1>4. Service!Plus = Plus /\ Service!Minus = Minus
  BY DEF Service!Plus, Plus, Service!Minus, Minus
<1>5. \A s, i : Service!IsEscape(s, i) <=> IsEscape(s, i)
  BY <1>3 DEF Service!IsEscape, IsEscape
<1>6. \A s, i : Service!IsHalfEscape(s, i) <=> IsHalfEscape(s, i)
  BY <1>3, <1>4 DEF Service!IsHalfEscape, IsHalfEscape
<1>7. \A v : Service!ToChar(v) = ToChar(v)
  BY DEF Service!ToChar, ToChar
<1>8. \A s, i : Service!Escaped(s, i) = Escaped(s, i)
  BY <1>2, <1>7 DEF Service!Escaped, Escaped
<1> QED BY <1>1, <1>5, <1>6, <1>8

\* They agree on which paths can be decoded, and on what they are.
LEMMA ServiceDecoded ==
  \A s : /\ Service!Decodable(s) <=> Decodable(s)
         /\ Service!Garbled(s) <=> Garbled(s)
         /\ Service!Decoded(s) = Decoded(s)
<1>1. Service!Percent = Percent /\ Service!Plus = Plus /\ Service!Blank = Blank
  BY DEF Service!Percent, Percent, Service!Plus, Plus, Service!Blank, Blank
<1>2. \A s : Service!Decodable(s) <=> Decodable(s)
  BY <1>1, ServiceEscapes DEF Service!Decodable, Decodable
<1>3. \A s : Service!Garbled(s) <=> Garbled(s)
  BY <1>1, ServiceEscapes DEF Service!Garbled, Garbled
<1>4. \A s : Service!Decoded(s) = Decoded(s)
  BY DEF Service!Decoded, Decoded, Service!Chars, Chars, Service!Starts, Starts,
     Service!Width, Width, Service!Escaped, Escaped, Service!Hex, Hex,
     Service!Plus, Plus, Service!Percent, Percent, Service!Blank, Blank,
     Service!ToChar, ToChar
<1> QED BY <1>2, <1>3, <1>4

\* The reply of the handler whose prefix is the longest that fits.
LongestFit(path) ==
  LET fits == {u \in Url : StartsWith(path, u)}
  IN  IF fits = {} THEN StockReply("not_found")
      ELSE HandlerReply(CHOOSE u \in fits : \A v \in fits : Len(v) <= Len(u))

\* What HttpService promises, in the grammar of this module.
Promised(r, l, path) ==
  /\ l # -1
  /\ l = 0 => r = StockReply("bad_request")
  /\ l > 0 /\ Decodable(path) => r = LongestFit(Decoded(path))
  /\ l > 0 /\ Garbled(path) => r = StockReply("bad_request")

LEMMA AnswerIs ==
  ASSUME NEW r, NEW s
  PROVE  LET length == RequestLength(s)
         IN  Service!IsAnswer(r, s) <=> Promised(r, length, Uri(Prefix(s, length)))
<1>1. \A path : Service!Longest(path) = LongestFit(path)
  BY Zenon DEF Service!Longest, LongestFit, Service!StartsWith, StartsWith,
     Service!StockReply, StockReply, Service!HandlerReply, HandlerReply
<1>2. Service!BadRequest = StockReply("bad_request")
  BY DEF Service!BadRequest, Service!StockReply, StockReply
<1>3. \A n : Service!Prefix(s, n) = Prefix(s, n)
  BY DEF Service!Prefix, Prefix
<1> DEFINE length == RequestLength(s)
           path == Uri(Prefix(s, length))
<1>4. Service!RequestLength(s) = length
      /\ Service!Request(Service!Prefix(s, length)).uri = path
  BY <1>3, ServiceLength, ServiceUri
<1> HIDE DEF length, path
<1>5. Service!IsAnswer(r, s) <=>
        /\ length # -1
        /\ length = 0 => r = Service!BadRequest
        /\ length > 0 /\ Service!Decodable(path) => r = Service!Longest(Service!Decoded(path))
        /\ length > 0 /\ Service!Garbled(path) => r = Service!BadRequest
  BY <1>4 DEF Service!IsAnswer
<1>6. /\ Service!Decodable(path) <=> Decodable(path)
      /\ Service!Garbled(path) <=> Garbled(path)
      /\ Service!Decoded(path) = Decoded(path)
  BY ServiceDecoded
<1>7. Service!IsAnswer(r, s) <=> Promised(r, length, path)
  BY <1>1, <1>2, <1>5, <1>6 DEF Promised
<1> QED BY <1>7 DEF length, path

\* The replies there are, and that the one of HttpService before is the one here.
LEMMA ServiceReplies ==
  /\ Service!NoReply = NoReply
  /\ Service!Replies = {StockReply("bad_request"), StockReply("not_found")}
                         \union {HandlerReply(u) : u \in Url}
  /\ NoReply \notin Service!Replies
<1>1. Service!NoReply = NoReply
  BY DEF Service!NoReply, NoReply
<1>2. \A u : Service!StockReply(u) = StockReply(u) /\ Service!HandlerReply(u) = HandlerReply(u)
  BY DEF Service!StockReply, StockReply, Service!HandlerReply, HandlerReply
<1>3. Service!Replies = {StockReply("bad_request"), StockReply("not_found")}
                          \union {HandlerReply(u) : u \in Url}
  BY <1>2 DEF Service!Replies, Service!BadRequest
<1>4. /\ NoReply # StockReply("bad_request") /\ NoReply # StockReply("not_found")
      /\ \A u : NoReply # HandlerReply(u)
  BY DEF NoReply, StockReply, HandlerReply
<1> QED BY <1>1, <1>3, <1>4

-----------------------------------------------------------------------------
(* What an object holds is what the grammar says of what it has read.      *)

\* The parser of an object that has read s.
LEMMA ParsedIs ==
  ASSUME NEW s \in String
  PROVE  LET p == Parsed(s, Len(s))
             l == RequestLength(s)
         IN  /\ p \in ParserType /\ l \in -1 .. Len(s)
             /\ p.result = CASE l = -1 -> "indeterminate" [] l = 0 -> "bad" [] l > 0 -> "good"
             /\ l > 0 => /\ p.method = Method(Prefix(s, l)) /\ p.uri = Uri(Prefix(s, l))
                         /\ p.headers = Headers(Prefix(s, l))
<1> DEFINE p == Parsed(s, Len(s))
           l == RequestLength(s)
<1>1. Len(s) \in 0 .. Len(s)
  BY DEF String
<1>2. p \in ParserType
  BY <1>1, ParsedRun
<1>3. parse(NewParser, s) = p
  BY WholePrefix DEF Parsed
<1>4. /\ l \in -1 .. Len(s)
      /\ p.result = CASE l = -1 -> "indeterminate" [] l = 0 -> "bad" [] l > 0 -> "good"
      /\ l > 0 => [method |-> p.method, uri |-> p.uri, headers |-> p.headers]
                    = Request(Prefix(s, l))
  BY <1>3, ParserIsGrammar
<1> HIDE DEF p, l
<1>5. ASSUME l > 0
      PROVE  /\ p.method = Method(Prefix(s, l)) /\ p.uri = Uri(Prefix(s, l))
             /\ p.headers = Headers(Prefix(s, l))
  <2>1. [method |-> p.method, uri |-> p.uri, headers |-> p.headers]
          = [method |-> Method(Prefix(s, l)), uri |-> Uri(Prefix(s, l)),
             headers |-> Headers(Prefix(s, l))]
    BY <1>4, <1>5 DEF Request
  <2> QED BY <2>1
<1> QED BY <1>2, <1>4, <1>5 DEF p, l

\* What the handlers are given is what was sent.
LEMMA ReaderFollows ==
  ASSUME NEW c, NEW s \in String, s \in Beginnings
  PROVE  LET p == Reader(c, s).parser
             request == Request(Prefix(s, LengthOf[s]))
         IN  /\ p.result = CASE LengthOf[s] = -1 -> "indeterminate"
                             [] LengthOf[s] = 0 -> "bad"
                             [] LengthOf[s] > 0 -> "good"
             /\ p.result = "good" =>
                  /\ p.method = request.method /\ p.headers = request.headers
                  /\ Decodable(request.uri) => p.uri = Decoded(request.uri)
                  /\ Garbled(request.uri) => p.uri = request.uri
<1> DEFINE q == Parsed(s, Len(s))
           p == Reader(c, s).parser
           l == RequestLength(s)
           r == Prefix(s, l)
           request == Request(Prefix(s, LengthOf[s]))
<1>1. LengthOf[s] = l
  BY DEF LengthOf
<1>2. /\ q \in ParserType /\ l \in -1 .. Len(s)
      /\ q.result = CASE l = -1 -> "indeterminate" [] l = 0 -> "bad" [] l > 0 -> "good"
      /\ l > 0 => q.method = Method(r) /\ q.uri = Uri(r) /\ q.headers = Headers(r)
  BY ParsedIs
<1>3. p.result = q.result
  BY ReaderResult
<1>4. ASSUME q.result = "good"
      PROVE  /\ p.method = request.method /\ p.headers = request.headers
             /\ Decodable(request.uri) => p.uri = Decoded(request.uri)
             /\ Garbled(request.uri) => p.uri = request.uri
  <2>1. Reader(c, s) = handle_request(Parser(c, q))
    <3>1. Reader(c, s) = CASE q.result = "good" -> handle_request(Parser(c, q))
                           [] q.result = "bad" ->
                                [Parser(c, q) EXCEPT !.reply_ = StockReply("bad_request")]
                           [] OTHER -> Parser(c, q)
      BY ReaderIs
    <3> HIDE DEF q
    <3> QED BY <1>4, <3>1
  <2>2. l > 0
    <3> HIDE DEF q, l, p
    <3>1. l = -1 \/ l = 0 \/ l > 0
      BY <1>2 DEF String
    <3> QED BY <1>2, <1>4, <3>1
  <2>3. request = Request(r)
    BY <1>1
  <2> HIDE DEF q, l, r, request
  <2>4. /\ p.method = q.method /\ p.headers = q.headers
        /\ Decodable(q.uri) => p.uri = Decoded(q.uri)
        /\ Garbled(q.uri) => p.uri = q.uri
    BY <1>2, <2>1, HandleRequestIs
  <2>5. request.method = Method(r) /\ request.uri = Uri(r) /\ request.headers = Headers(r)
    BY <2>3 DEF Request
  <2>6. q.method = Method(r) /\ q.uri = Uri(r) /\ q.headers = Headers(r)
    BY <1>2, <2>2
  <2>7. request.uri = q.uri
    BY <2>5, <2>6
  <2> HIDE DEF p
  <2>8. p.method = request.method /\ p.headers = request.headers
    BY <2>4, <2>5, <2>6
  <2> QED BY <2>4, <2>7, <2>8
<1> HIDE DEF q, l, p, r, request
<1> QED BY <1>1, <1>2, <1>3, <1>4 DEF p, request

\* The handlers are registered.
Registered ==
  /\ handler_list_ \in Seq(Url) /\ Ordered(handler_list_)
  /\ {handler_list_[i] : i \in DOMAIN handler_list_} = Url

\* Whatever the path, the reply of a request is one of those there are.
LEMMA DispatchedReplies ==
  ASSUME Registered, NEW v
  PROVE  /\ dispatched(handler_list_, v) = LongestFit(v)
         /\ dispatched(handler_list_, v) \in Service!Replies
<1>1. \A path : dispatched(handler_list_, path) = LongestFit(path)
  <2>1. Url \in SUBSET String
    BY ServerAssumption DEF String
  <2> QED BY <2>1, DispatchedIs DEF Registered, LongestFit
<1>2. dispatched(handler_list_, v) \in Service!Replies
  <2> DEFINE fits == {i \in DOMAIN handler_list_ : StartsWith(v, handler_list_[i])}
             first == CHOOSE i \in fits : \A j \in fits : i <= j
  <2>1. dispatched(handler_list_, v) = IF fits = {} THEN StockReply("not_found")
                                       ELSE HandlerReply(handler_list_[first])
    BY DEF dispatched
  <2>2. fits # {} => first \in fits
    <3> SUFFICES ASSUME fits # {} PROVE \E i \in fits : \A j \in fits : i <= j
      BY Zenon
    <3>1. handler_list_ \in Seq(Url)
      BY DEF Registered
    <3>2. fits \in SUBSET Nat
      BY <3>1
    <3> HIDE DEF fits
    <3> QED BY <3>2, LeastNat
  <2>3. \A i \in fits : handler_list_[i] \in Url
    BY DEF Registered
  <2> HIDE DEF fits, first
  <2> QED BY <2>1, <2>2, <2>3, ServiceReplies
<1> QED BY <1>1, <1>2

\* The reply is one that is promised.
LEMMA ReaderAnswers ==
  ASSUME NEW c, NEW s \in String, Registered, Reader(c, s).parser.result # "indeterminate"
  PROVE  Reader(c, s).reply_ \in Service!Replies /\ Service!IsAnswer(Reader(c, s).reply_, s)
<1> DEFINE q == Parsed(s, Len(s))
           l == RequestLength(s)
           path == Uri(Prefix(s, l))
           reply == Reader(c, s).reply_
<1>1. /\ q \in ParserType /\ l \in -1 .. Len(s)
      /\ q.result = CASE l = -1 -> "indeterminate" [] l = 0 -> "bad" [] l > 0 -> "good"
      /\ l > 0 => q.uri = path
  BY ParsedIs
<1>2. q.result # "indeterminate"
  BY ReaderResult
<1>3. l = 0 \/ l > 0
  <2> HIDE DEF q, l
  <2>1. l = -1 \/ l = 0 \/ l > 0
    BY <1>1 DEF String
  <2> QED BY <1>1, <1>2, <2>1
<1>4. Reader(c, s) = CASE q.result = "good" -> handle_request(Parser(c, q))
                       [] q.result = "bad" ->
                            [Parser(c, q) EXCEPT !.reply_ = StockReply("bad_request")]
                       [] OTHER -> Parser(c, q)
  BY ReaderIs
<1>5. Service!IsAnswer(reply, s) <=> Promised(reply, l, path)
  BY AnswerIs
<1>6. reply \in Service!Replies /\ Promised(reply, l, path)
  <2>1. CASE l = 0
    <3> HIDE DEF q, l, path
    <3>1. q.result = "bad"
      BY <1>1, <2>1
    <3>2. Reader(c, s) = [Parser(c, q) EXCEPT !.reply_ = StockReply("bad_request")]
      BY <1>4, <3>1
    <3>3. reply = StockReply("bad_request")
      BY <3>2 DEF Parser
    <3> HIDE DEF reply
    <3>4. reply \in Service!Replies
      BY <3>3, ServiceReplies
    <3> QED BY <2>1, <3>3, <3>4 DEF Promised
  <2>2. CASE l > 0
    <3> HIDE DEF q, l, path
    <3>1. q.result = "good" /\ q.uri = path
      BY <1>1, <2>2
    <3>2. Reader(c, s) = handle_request(Parser(c, q))
      BY <1>4, <3>1
    <3>3. /\ (\E v : reply = dispatched(handler_list_, v)) \/ reply = StockReply("bad_request")
          /\ Decodable(path) => reply = dispatched(handler_list_, Decoded(path))
          /\ Garbled(path) => reply = StockReply("bad_request")
      BY <1>1, <3>1, <3>2, HandleRequestIs
    <3> HIDE DEF reply
    <3>4. reply \in Service!Replies
      BY <3>3, DispatchedReplies, ServiceReplies
    <3>5. Decodable(path) => reply = LongestFit(Decoded(path))
      BY <3>3, DispatchedReplies
    <3> QED BY <2>2, <3>3, <3>4, <3>5 DEF Promised
  <2> QED BY <1>3, <2>1, <2>2
<1> QED BY <1>5, <1>6

-----------------------------------------------------------------------------
(* The invariant about contents.                                           *)

\* The newest object has met no client, and who is not accepted is not read.
Unmet ==
  /\ new_connection_ \in DOMAIN connection => connection[new_connection_] = Fresh
  /\ \A c \in DOMAIN client : client[c].at \in {"away", "backlog"} => client[c].read = 0

\* An object holds what comes of reading in one piece all that was read of its client.
Holds(x) ==
  \A c \in DOMAIN stream, s \in Beginnings :
    c = connection[x].peer /\ s = ReadSoFar(x) => connection[x] = Reader(c, s)

Contents == \A x \in DOMAIN connection : x # new_connection_ => Holds(x)

\* No client is accepted before all handlers are registered, each of them once.
Handlers ==
  /\ handler_list_ \in Seq(Url) /\ Ordered(handler_list_)
  /\ IF state = "setup" THEN DOMAIN connection = {new_connection_} ELSE Registered

CInv == Unmet /\ Contents /\ Handlers

\* What the clients send are strings, and so are the beginnings.
LEMMA StreamsAreStrings ==
  ASSUME IInv, NEW c \in DOMAIN stream
  PROVE  /\ stream[c] \in String /\ client[c].read \in 0 .. Len(stream[c])
         /\ Len(stream[c]) \in Nat
         /\ \A n \in 0 .. Len(stream[c]) :
              Prefix(stream[c], n) \in String /\ Prefix(stream[c], n) \in Beginnings
<1>1. stream \in Scenario /\ DOMAIN client = DOMAIN stream
  BY DEF IInv, Shapes, TypeOK
<1>2. stream[c] \in String /\ Len(stream[c]) \in Nat
  BY <1>1, ServerAssumption DEF String
<1>3. client[c].read \in 0 .. Len(stream[c])
  BY <1>1 DEF IInv, TypeOK
<1>4. stream[c] \in Streams
  BY <1>1 DEF Streams
<1>5. \A n \in 0 .. Len(stream[c]) : Prefix(stream[c], n) \in Beginnings
  BY <1>4 DEF Beginnings
<1>6. \A n \in 0 .. Len(stream[c]) : Prefix(stream[c], n) \in String
  BY <1>2, PrefixFacts
<1> QED BY <1>2, <1>3, <1>5, <1>6

\* As long as the handlers are the same, so is what objects come to.
LEMMA ReaderSame ==
  ASSUME handler_list_' = handler_list_, NEW c, NEW s
  PROVE  Reader(c, s)' = Reader(c, s)
  BY DEF Reader, Handled, handle_request

\* An object that is left alone, with its client, still holds what it held.
LEMMA HoldsKept ==
  ASSUME Contents, UNCHANGED <<stream, handler_list_>>,
         NEW x \in DOMAIN connection, x # new_connection_, connection'[x] = connection[x],
         client'[connection[x].peer].read = client[connection[x].peer].read
  PROVE  Holds(x)'
<1> SUFFICES ASSUME NEW c \in DOMAIN stream, NEW s \in Beginnings,
                    c = connection'[x].peer, s = ReadSoFar(x)'
             PROVE  connection'[x] = Reader(c, s)'
  BY DEF Holds
<1>1. c = connection[x].peer /\ s = ReadSoFar(x)
  BY DEF ReadSoFar
<1>2. connection[x] = Reader(c, s)
  BY <1>1 DEF Contents, Holds
<1> QED BY <1>2, ReaderSame

\* Steps that leave the objects alone which they keep, with their clients, keep the contents.
LEMMA ContentsKept ==
  ASSUME Contents, UNCHANGED <<stream, handler_list_>>,
         \A x \in DOMAIN connection' : x # new_connection_' =>
           /\ x \in DOMAIN connection /\ x # new_connection_ /\ connection'[x] = connection[x]
           /\ client'[connection[x].peer].read = client[connection[x].peer].read
  PROVE  Contents'
<1> SUFFICES ASSUME NEW x \in DOMAIN connection', x # new_connection_' PROVE Holds(x)'
  BY DEF Contents
<1> QED BY HoldsKept

\* At first there is nothing but a new object.
LEMMA ContentsBegin == Init => CInv
<1> SUFFICES ASSUME Init PROVE CInv
  OBVIOUS
<1>1. /\ DOMAIN connection = {new_connection_} /\ connection[new_connection_] = Fresh
      /\ \A c \in DOMAIN client : client[c].read = 0
      /\ state = "setup" /\ handler_list_ = <<>>
  BY DEF Init
<1>2. handler_list_ \in Seq(Url) /\ DOMAIN handler_list_ = {}
  BY <1>1
<1>3. Unmet /\ Contents
  BY <1>1 DEF Unmet, Contents
<1>4. Handlers
  BY <1>1, <1>2 DEF Handlers, Ordered
<1> QED BY <1>3, <1>4 DEF CInv

\* Steps that touch no object and let nothing be read.
LEMMA QuietKeepsContents ==
  ASSUME IInv, CInv, UNCHANGED <<stream, connection, new_connection_, handler_list_>>,
         DOMAIN client' = DOMAIN client,
         \A c \in DOMAIN client :
           /\ client'[c].read = client[c].read
           /\ client'[c].at \in {"away", "backlog"} => client[c].at \in {"away", "backlog"},
         state' # state => Registered /\ state' # "setup"
  PROVE  CInv'
<1>1. Unmet'
  BY DEF CInv, Unmet
<1>2. Contents'
  <2>1. \A x \in DOMAIN connection : x # new_connection_ => connection[x].peer \in DOMAIN client
    BY DEF IInv, ObjectsBusy, TypeOK
  <2> QED BY <2>1, ContentsKept DEF CInv
<1>3. Handlers'
  BY DEF CInv, Handlers, Registered
<1> QED BY <1>1, <1>2, <1>3 DEF CInv

\* What the network does to clients keeps the contents.
LEMMA NetworkKeepsContents ==
  ASSUME IInv, CInv, NEW c \in DOMAIN stream, Connect(c) \/ HangUp(c) \/ \E x : Deliver(x, c)
  PROVE  CInv'
<1>1. DOMAIN client = DOMAIN stream /\ \A d \in DOMAIN client : IsClient(client[d])
  BY DEF IInv, TypeOK, Shapes
<1>2. /\ UNCHANGED <<stream, connection, new_connection_, handler_list_, state>>
      /\ DOMAIN client' = DOMAIN client
      /\ \A d \in DOMAIN client :
           /\ client'[d].read = client[d].read
           /\ client'[d].at \in {"away", "backlog"} => client[d].at \in {"away", "backlog"}
  <2>1. CASE Connect(c)
    BY <1>1, <2>1 DEF Connect, server, IsClient
  <2>2. CASE HangUp(c)
    BY <1>1, <2>2 DEF HangUp, server, IsClient
  <2>3. ASSUME NEW x, Deliver(x, c) PROVE <1>2
    BY <1>1, <2>3 DEF Deliver, server, IsClient
  <2> QED BY <2>1, <2>2, <2>3
<1> QED BY <1>2, QuietKeepsContents

\* Starting and stopping the server keeps the contents.
LEMMA LifeKeepsContents ==
  ASSUME IInv, CInv, Run \/ Signal
  PROVE  CInv'
<1>1. /\ UNCHANGED <<stream, client, connection, new_connection_, handler_list_>>
      /\ Registered /\ state' # "setup"
  <2>1. CASE Run
    BY <2>1 DEF Run, network, CInv, Handlers, Registered
  <2>2. CASE Signal
    BY <2>2 DEF Signal, network, CInv, Handlers
  <2> QED BY <2>1, <2>2
<1> QED BY <1>1, QuietKeepsContents

\* Registering a handler keeps the order.
LEMMA AddHandlerKeepsContents ==
  ASSUME IInv, CInv, NEW url \in Url, AddHandler(url)
  PROVE  CInv'
<1>1. /\ UNCHANGED <<stream, client, state, connection, new_connection_>>
      /\ state = "setup" /\ \A i \in DOMAIN handler_list_ : handler_list_[i] # url
      /\ handler_list_' \in registered(handler_list_, url)
  BY DEF AddHandler, network
<1>2. handler_list_ \in Seq(Url) /\ Ordered(handler_list_) /\ DOMAIN connection = {new_connection_}
  BY <1>1 DEF CInv, Handlers
<1>3. Url \in SUBSET String
  BY ServerAssumption DEF String
<1>4. handler_list_' \in Seq(Url) /\ Ordered(handler_list_')
  BY <1>1, <1>2, <1>3, RegisteredIs
<1>5. Handlers'
  BY <1>1, <1>2, <1>4 DEF Handlers, Ordered
<1>6. Unmet' /\ Contents'
  BY <1>1, <1>2 DEF CInv, Unmet, Contents
<1> QED BY <1>5, <1>6 DEF CInv

\* In the end there is no object.
LEMMA ReturnKeepsContents ==
  ASSUME IInv, CInv, Return
  PROVE  CInv'
<1>1. /\ DOMAIN connection' = {} /\ state = "stopped" /\ state' = "returned"
      /\ DOMAIN client' = DOMAIN client /\ handler_list_' = handler_list_
      /\ \A c \in DOMAIN client :
           client'[c] = IF client[c].at \in {"backlog", "accepted"}
                        THEN [client[c] EXCEPT !.at = "closed"] ELSE client[c]
  BY DEF Return
<1>2. ASSUME NEW c \in DOMAIN client, client'[c].at \in {"away", "backlog"}
      PROVE  client'[c].read = 0
  <2>1. IsClient(client[c])
    BY DEF IInv, Shapes
  <2>2. client[c].at \notin {"backlog", "accepted"} /\ client'[c] = client[c]
    BY <1>1, <1>2, <2>1 DEF IsClient
  <2> QED BY <1>2, <2>2 DEF CInv, Unmet
<1>3. Unmet' /\ Contents'
  BY <1>1, <1>2 DEF Unmet, Contents
<1>4. Handlers'
  BY <1>1 DEF CInv, Handlers, Registered
<1> QED BY <1>3, <1>4 DEF CInv

\* The end of an object leaves the others alone.
LEMMA CompletedKeepsContents ==
  ASSUME IInv, CInv, state = "running", NEW k \in {"read", "write"}, NEW x, Doing(k, x),
         Completed(k, x), DOMAIN client' = DOMAIN client,
         \A c \in DOMAIN client :
           /\ client'[c].read = client[c].read
           /\ client'[c].at \in {"away", "backlog"} => client[c].at \in {"away", "backlog"}
  PROVE  CInv'
<1>1. /\ DOMAIN connection' = DOMAIN connection \ {x} /\ x # new_connection_
      /\ \A y \in DOMAIN connection' : connection'[y] = connection[y]
  BY CompletedRemoves
<1>2. UNCHANGED <<stream, state, handler_list_, new_connection_>>
  BY DEF Completed
<1>3. Unmet'
  BY <1>1, <1>2 DEF CInv, Unmet
<1>4. Contents'
  <2>1. \A y \in DOMAIN connection : y # new_connection_ => connection[y].peer \in DOMAIN client
    BY DEF IInv, ObjectsBusy, TypeOK
  <2>2. Contents
    BY DEF CInv
  <2> QED BY <1>1, <1>2, <2>1, <2>2, ContentsKept
<1>5. Handlers'
  BY <1>2 DEF CInv, Handlers, Registered
<1> QED BY <1>3, <1>4, <1>5 DEF CInv

\* A read that fails and a write, done or failed, keep the contents.
LEMMA EndsKeepContents ==
  ASSUME IInv, CInv, NEW x, NEW c \in DOMAIN stream,
         ReadFailed(x, c) \/ Written(x, c) \/ WriteFailed(x, c)
  PROVE  CInv'
<1>1. DOMAIN client = DOMAIN stream /\ \A d \in DOMAIN client : IsClient(client[d])
  BY DEF IInv, TypeOK, Shapes
<1>2. CASE ReadFailed(x, c)
  BY <1>2, CompletedKeepsContents DEF ReadFailed
<1>3. CASE WriteFailed(x, c)
  BY <1>3, CompletedKeepsContents DEF WriteFailed
<1>4. CASE Written(x, c)
  <2>1. /\ client' = [client EXCEPT ![c].at = IF @ = "accepted" THEN "closed" ELSE @]
        /\ state = "running" /\ Doing("write", x) /\ Completed("write", x)
    BY <1>4 DEF Written
  <2>2. /\ DOMAIN client' = DOMAIN client
        /\ \A d \in DOMAIN client :
             /\ client'[d].read = client[d].read
             /\ client'[d].at \in {"away", "backlog"} => client[d].at \in {"away", "backlog"}
    BY <1>1, <2>1 DEF IsClient
  <2> QED BY <2>1, <2>2, CompletedKeepsContents
<1> QED BY <1>2, <1>3, <1>4

-----------------------------------------------------------------------------
(* The steps that make objects, and the one that reads.                    *)

\* The newest object after do_accept is new, and a client that is not accepted has
\* not been read.
LEMMA AcceptLeavesUnmet ==
  ASSUME NEW objects, NEW ops, do_accept(objects, ops), DOMAIN client' = DOMAIN client,
         \A c \in DOMAIN client :
           client'[c].at \in {"away", "backlog"} => client'[c].read = 0
  PROVE  Unmet'
<1>1. connection'[new_connection_'] = Fresh
  BY AcceptBegun
<1> QED BY <1>1 DEF Unmet

\* The objects that are kept when an accept fails are left alone.
LEMMA AcceptFailedKeepsContents ==
  ASSUME IInv, CInv, NEW x, AcceptFailed(x)
  PROVE  CInv'
<1> DEFINE ops == operations \ {Op("accept", x)}
<1>1. /\ state = "running" /\ Doing("accept", x) /\ do_accept(connection, ops)
      /\ UNCHANGED <<stream, client, state, handler_list_>>
  BY DEF AcceptFailed, network
<1>2. \A o \in ops : o.on \in DOMAIN connection /\ o.on # new_connection_
  BY <1>1, AfterAccept
<1> HIDE DEF ops
<1>3. Unmet'
  BY <1>1, AcceptLeavesUnmet DEF CInv, Unmet
<1>4. Contents'
  <2>1. \A y \in DOMAIN connection' : y # new_connection_' =>
          /\ y \in DOMAIN connection /\ connection'[y] = connection[y]
          /\ \E o \in ops : o.on = y
    BY <1>1, AcceptBegun
  <2>2. Contents
    BY DEF CInv
  <2> QED BY <1>1, <1>2, <2>1, <2>2, ContentsKept
<1>5. Handlers'
  BY <1>1 DEF CInv, Handlers, Registered
<1> QED BY <1>3, <1>4, <1>5 DEF CInv

\* The object that has been accepted has read nothing.
LEMMA AcceptedKeepsContents ==
  ASSUME IInv, CInv, NEW x, NEW c \in DOMAIN stream, Accepted(x, c)
  PROVE  CInv'
<1> DEFINE rest == operations \ {Op("accept", x)}
           ops == rest \union {Op("read", new_connection_)}
           objects == [connection EXCEPT ![x].peer = c]
<1>1. /\ state = "running" /\ Doing("accept", x) /\ do_accept(objects, ops)
      /\ client[c].at = "backlog" /\ client' = [client EXCEPT ![c].at = "accepted"]
      /\ UNCHANGED <<stream, state, handler_list_>>
  BY DEF Accepted
<1>2. x = new_connection_ /\ x \in DOMAIN connection
  BY <1>1, DoerInMemory DEF Kinds
<1>3. /\ DOMAIN client = DOMAIN stream /\ \A d \in DOMAIN client : IsClient(client[d])
      /\ DOMAIN client' = DOMAIN client
      /\ \A d \in DOMAIN client : client'[d].read = client[d].read
      /\ \A d \in DOMAIN client : d # c => client'[d] = client[d]
      /\ client'[c].at = "accepted"
  BY <1>1 DEF IInv, TypeOK, Shapes, IsClient
<1>4. Unmet'
  <2>1. \A d \in DOMAIN client : client'[d].at \in {"away", "backlog"} => client'[d].read = 0
    BY <1>3 DEF CInv, Unmet
  <2> HIDE DEF objects, ops
  <2> QED BY <1>1, <1>3, <2>1, AcceptLeavesUnmet
<1>5. \A o \in rest : o.on \in DOMAIN connection /\ o.on # x
  BY <1>1, <1>2, AfterAccept
<1>6. /\ objects[x] = [Fresh EXCEPT !.peer = c]
      /\ \A y \in DOMAIN connection : y # x => objects[y] = connection[y]
  BY <1>2 DEF CInv, Unmet
<1>7. \A y : y # new_connection_' =>
        /\ y \in DOMAIN connection' => y \in DOMAIN objects /\ \E o \in ops : o.on = y
        /\ y \in DOMAIN connection' => connection'[y] = objects[y]
  <2> HIDE DEF objects, ops
  <2> QED BY <1>1, AcceptBegun
<1>8. DOMAIN objects = DOMAIN connection
  OBVIOUS
<1> HIDE DEF objects
<1>9. ASSUME NEW y \in DOMAIN connection', y # new_connection_' PROVE Holds(y)'
  <2>1. y \in DOMAIN connection /\ connection'[y] = objects[y] /\ \E o \in ops : o.on = y
    BY <1>7, <1>8, <1>9
  <2>2. CASE y = x
    <3>1. connection'[x] = [Fresh EXCEPT !.peer = c]
      BY <1>6, <2>1, <2>2
    <3>2. connection'[x].peer = c
      BY <3>1 DEF Fresh
    <3>3. client'[c].read = 0 /\ stream' = stream
      BY <1>1, <1>3 DEF CInv, Unmet
    <3>4. ReadSoFar(x)' = Prefix(stream[c], 0)
      BY <3>2, <3>3 DEF ReadSoFar
    <3>5. Reader(c, Prefix(stream[c], 0)) = connection'[x]
      BY <3>1, ReaderBegins, StreamsAreStrings
    <3>6. \A s : Reader(c, s)' = Reader(c, s)
      BY <1>1, ReaderSame
    <3> QED BY <2>2, <3>2, <3>4, <3>5, <3>6 DEF Holds
  <2>3. CASE y # x
    <3>1. connection'[y] = connection[y] /\ y # new_connection_
      BY <1>2, <1>6, <2>1, <2>3
    <3>2. connection[y].peer \in DOMAIN client
      BY <2>1, <3>1 DEF IInv, ObjectsBusy, TypeOK
    <3>3. Contents
      BY DEF CInv
    <3> QED BY <1>1, <1>3, <2>1, <3>1, <3>2, <3>3, HoldsKept
  <2> QED BY <2>2, <2>3
<1>10. Contents'
  BY <1>9 DEF Contents
<1>11. Handlers'
  BY <1>1 DEF CInv, Handlers, Registered
<1> QED BY <1>4, <1>10, <1>11 DEF CInv

\* The object that reads goes on where it was.
LEMMA ReadKeepsContents ==
  ASSUME IInv, CInv, NEW x, NEW c \in DOMAIN stream, Read(x, c)
  PROVE  CInv'
<1> DEFINE a == client[c].read
           S == stream[c]
<1>1. PICK n \in 1 .. BufferSize :
        /\ n <= Rest(c)
        /\ connection' = [connection EXCEPT ![x] = Handled(connection[x], SubSeq(S, a + 1, a + n))]
        /\ client' = [client EXCEPT ![c].read = @ + n]
  BY DEF Read
<1>2. /\ state = "running" /\ Doing("read", x) /\ connection[x].peer = c
      /\ UNCHANGED <<stream, state, handler_list_, new_connection_>>
  BY DEF Read
<1>3. x \in DOMAIN connection /\ x # new_connection_
  BY <1>2, DoerInMemory DEF Kinds
<1>4. /\ DOMAIN client = DOMAIN stream /\ DOMAIN client' = DOMAIN client
      /\ \A d \in DOMAIN client : d # c => client'[d] = client[d]
      /\ client'[c].read = a + n
      /\ client[c].at \notin {"away", "backlog"} /\ client'[c].at = client[c].at
  <2>1. DOMAIN client = DOMAIN stream /\ IsClient(client[c]) /\ c # NoClient
    BY ServerAssumption DEF IInv, TypeOK, Shapes
  <2>2. client[c].at \in {"accepted", "gone"}
    BY <1>2, <1>3, <2>1 DEF IInv, PeersAccepted
  <2> QED BY <1>1, <2>1, <2>2 DEF IsClient
<1>5. Unmet'
  BY <1>1, <1>2, <1>3, <1>4 DEF CInv, Unmet
<1>6. /\ S \in String /\ a \in 0 .. Len(S) /\ Len(S) \in Nat
      /\ \A m \in 0 .. Len(S) : Prefix(S, m) \in String /\ Prefix(S, m) \in Beginnings
  BY StreamsAreStrings
<1> DEFINE z == a + n
<1>7. z \in (a + 1) .. Len(S)
  <2>1. n \in Nat /\ n >= 1 /\ n <= Len(S) - a
    BY <1>1, ServerAssumption DEF Rest
  <2> HIDE DEF S, a
  <2> QED BY <1>6, <2>1
<1>8. ReadSoFar(x) = Prefix(S, a)
  BY <1>2 DEF ReadSoFar
<1>9. connection[x] = Reader(c, Prefix(S, a))
  BY <1>2, <1>3, <1>6, <1>8 DEF CInv, Contents, Holds
<1>10. Parsed(S, a).result = "indeterminate"
  <2>1. ~ Doing("write", x)
    BY <1>2, <1>3, OneAtATime DEF IInv, Kinds
  <2>2. connection[x].parser.result = "indeterminate"
    BY <1>3, <2>1 DEF IInv, ObjectsBusy
  <2>3. Len(Prefix(S, a)) = a /\ a \in 0 .. a
    BY <1>6, PrefixFacts
  <2>4. Parsed(Prefix(S, a), a) = Parsed(S, a)
    BY <1>6, <2>3, ParsedPrefix
  <2> DEFINE t == Prefix(S, a)
  <2>5. t \in String /\ Len(t) = a
    BY <1>6, <2>3
  <2> HIDE DEF t
  <2>6. Reader(c, t).parser.result = Parsed(t, Len(t)).result
    BY <2>5, ReaderResult
  <2> QED BY <1>9, <2>2, <2>4, <2>5, <2>6 DEF t
<1>11. Handled(connection[x], SubSeq(S, a + 1, z)) = Reader(c, Prefix(S, z))
  <2> HIDE DEF S, a, z
  <2> QED BY <1>6, <1>7, <1>9, <1>10, ReaderGoesOn
<1>12. /\ DOMAIN connection' = DOMAIN connection
       /\ connection'[x] = Reader(c, Prefix(S, z))
       /\ \A y \in DOMAIN connection : y # x => connection'[y] = connection[y]
  BY <1>1, <1>3, <1>11
<1>13. connection'[x].peer = c
  <2>1. IsObject(connection[x])
    BY <1>3 DEF IInv, Shapes
  <2> QED BY <1>2, <1>11, <1>12, <2>1, HandledShape
<1>14. ReadSoFar(x)' = Prefix(S, z)
  BY <1>2, <1>4, <1>13 DEF ReadSoFar
<1>15. Holds(x)'
  <2>1. \A s : Reader(c, s)' = Reader(c, s)
    BY <1>2, ReaderSame
  <2> HIDE DEF S, z
  <2> QED BY <1>12, <1>13, <1>14, <2>1 DEF Holds
<1>16. Contents'
  <2> SUFFICES ASSUME NEW y \in DOMAIN connection, y # new_connection_, y # x PROVE Holds(y)'
    BY <1>2, <1>12, <1>15 DEF Contents
  <2>1. connection[y].peer \in DOMAIN client /\ connection[y].peer # c
    BY <1>2, <1>3 DEF IInv, ObjectsBusy, TypeOK
  <2>2. Contents
    BY DEF CInv
  <2> QED BY <1>2, <1>4, <1>12, <2>1, <2>2, HoldsKept
<1>17. Handlers'
  BY <1>2 DEF CInv, Handlers, Registered
<1> QED BY <1>5, <1>16, <1>17 DEF CInv

\* Every step keeps the contents.
LEMMA StepKeepsContents == IInv /\ CInv /\ [Next]_vars => CInv'
<1> SUFFICES ASSUME IInv, CInv, [Next]_vars PROVE CInv'
  OBVIOUS
<1>1. CASE UNCHANGED vars
  <2>1. UNCHANGED <<stream, client, state, connection, new_connection_, handler_list_>>
    BY <1>1 DEF vars, network, server
  <2> QED BY <2>1, QuietKeepsContents
<1>2. CASE \E c \in DOMAIN stream : Connect(c) \/ HangUp(c)
  BY <1>2, NetworkKeepsContents
<1>3. CASE Run \/ Signal \/ \E url \in Url : AddHandler(url)
  BY <1>3, LifeKeepsContents, AddHandlerKeepsContents
<1>4. CASE Return
  BY <1>4, ReturnKeepsContents
<1>5. ASSUME NEW x, AcceptFailed(x) PROVE CInv'
  BY <1>5, AcceptFailedKeepsContents
<1>6. ASSUME NEW x, NEW c \in DOMAIN stream, Accepted(x, c) PROVE CInv'
  BY <1>6, AcceptedKeepsContents
<1>7. ASSUME NEW x, NEW c \in DOMAIN stream, OnSocket(x, c) PROVE CInv'
  BY <1>7, ReadKeepsContents, EndsKeepContents, NetworkKeepsContents DEF OnSocket
<1> QED BY <1>1, <1>2, <1>3, <1>4, <1>5, <1>6, <1>7 DEF Next, Ended

\* The contents are right in every state the server reaches.
THEOREM ContentsInvariant == Spec => [](IInv /\ CInv)
<1>1. Init => IInv /\ CInv
  BY Begins, ContentsBegin
<1>2. IInv /\ CInv /\ [Next]_vars => IInv' /\ CInv'
  BY StepPreserves, StepKeepsContents
<1> QED BY <1>1, <1>2, PTL DEF Spec

-----------------------------------------------------------------------------
(* The parser follows the grammar, and HttpServer implements HttpService.  *)

\* In whatever pieces what a client sends is read, the parser stops where the grammar
\* says that the request is complete or impossible, and the handlers are given the
\* request that was sent.
THEOREM ParserFollowsGrammarHolds == Spec => []ParserFollowsGrammar
<1>1. ASSUME IInv, CInv PROVE ParserFollowsGrammar
  <2> SUFFICES ASSUME NEW x \in DOMAIN connection, x # new_connection_
               PROVE  LET p == connection[x].parser
                          s == ReadSoFar(x)
                          request == Request(Prefix(s, LengthOf[s]))
                      IN  /\ p.result = CASE LengthOf[s] = -1 -> "indeterminate"
                                          [] LengthOf[s] = 0 -> "bad"
                                          [] LengthOf[s] > 0 -> "good"
                          /\ p.result = "good" =>
                               /\ p.method = request.method /\ p.headers = request.headers
                               /\ Decodable(request.uri) => p.uri = Decoded(request.uri)
                               /\ Garbled(request.uri) => p.uri = request.uri
    BY DEF ParserFollowsGrammar
  <2> DEFINE c == connection[x].peer
             s == ReadSoFar(x)
  <2>1. c \in DOMAIN stream
    BY <1>1 DEF IInv, ObjectsBusy, TypeOK
  <2>2. s \in String /\ s \in Beginnings
    BY <1>1, <2>1, StreamsAreStrings DEF ReadSoFar
  <2>3. connection[x] = Reader(c, s)
    BY <1>1, <2>1, <2>2 DEF CInv, Contents, Holds
  <2> HIDE DEF c, s
  <2>4. LET p == Reader(c, s).parser
            request == Request(Prefix(s, LengthOf[s]))
        IN  /\ p.result = CASE LengthOf[s] = -1 -> "indeterminate"
                            [] LengthOf[s] = 0 -> "bad"
                            [] LengthOf[s] > 0 -> "good"
            /\ p.result = "good" =>
                 /\ p.method = request.method /\ p.headers = request.headers
                 /\ Decodable(request.uri) => p.uri = Decoded(request.uri)
                 /\ Garbled(request.uri) => p.uri = request.uri
    BY <2>2, ReaderFollows
  <2> QED BY <2>3, <2>4 DEF s
<1> QED BY <1>1, ContentsInvariant, PTL

-----------------------------------------------------------------------------
(* The server is an HttpService.                                           *)

\* The replies that the clients have got, which HttpService is about.
Got == [c \in DOMAIN stream |-> client[c].got]

\* Whatever but Deliver happens, clients keep the reply they have got.
LEMMA OthersKeepReplies ==
  ASSUME IInv, [Next]_vars, ~ \E x : \E c \in DOMAIN stream : Deliver(x, c)
  PROVE  UNCHANGED <<stream, Got>>
<1>1. DOMAIN client = DOMAIN stream /\ \A d \in DOMAIN client : IsClient(client[d])
  BY DEF IInv, TypeOK, Shapes
<1>2. stream' = stream
  BY DEF Next, vars, network, server, Connect, HangUp, AddHandler, Run, Signal, Return, Ended,
         AcceptFailed, Accepted, OnSocket, Read, ReadFailed, Written, WriteFailed, Completed
<1>3. \A d \in DOMAIN client : client'[d].got = client[d].got
  <2>1. CASE UNCHANGED client
    BY <2>1
  <2>2. CASE Return
    BY <1>1, <2>2 DEF Return, IsClient
  <2>3. ASSUME NEW c \in DOMAIN stream, Connect(c) \/ HangUp(c) PROVE <1>3
    BY <1>1, <2>3 DEF Connect, HangUp, IsClient
  <2>4. ASSUME NEW x, NEW c \in DOMAIN stream, Accepted(x, c) PROVE <1>3
    BY <1>1, <2>4 DEF Accepted, IsClient
  <2>5. ASSUME NEW x, NEW c \in DOMAIN stream, Read(x, c) PROVE <1>3
    BY <1>1, <2>5 DEF Read, IsClient
  <2>6. ASSUME NEW x, NEW c \in DOMAIN stream, Written(x, c) PROVE <1>3
    BY <1>1, <2>6 DEF Written, IsClient
  <2>7. CASE UNCHANGED vars
    BY <2>1, <2>7 DEF vars, network
  <2>8. ASSUME NEW x, AcceptFailed(x) PROVE <1>3
    BY <2>1, <2>8 DEF AcceptFailed, network
  <2>9. CASE Run \/ Signal \/ \E url \in Url : AddHandler(url)
    BY <2>1, <2>9 DEF Run, Signal, AddHandler, network
  <2>10. ASSUME NEW x, NEW c, ReadFailed(x, c) \/ WriteFailed(x, c) PROVE <1>3
    BY <2>1, <2>10 DEF ReadFailed, WriteFailed
  <2> QED BY <2>2, <2>3, <2>4, <2>5, <2>6, <2>7, <2>8, <2>9, <2>10 DEF Next, Ended, OnSocket
<1> QED BY <1>1, <1>2, <1>3 DEF Got

\* Deliver gives the client the reply that HttpService promises, once.
LEMMA DeliverReplies ==
  ASSUME IInv, CInv, NEW x, NEW c \in DOMAIN stream, Deliver(x, c)
  PROVE  Service!Reply(c)
<1>1. /\ Doing("write", x) /\ connection[x].peer = c /\ client[c].got = NoReply
      /\ client' = [client EXCEPT ![c].got = connection[x].reply_]
      /\ stream' = stream
  BY DEF Deliver
<1>2. x \in DOMAIN connection /\ x # new_connection_
  BY <1>1, DoerInMemory DEF Kinds
<1>3. Registered
  BY <1>2 DEF CInv, Handlers
<1> DEFINE S == stream[c]
           a == client[c].read
           s == Prefix(S, a)
<1>4. S \in String /\ a \in 0 .. Len(S) /\ s \in String /\ s \in Beginnings
  BY StreamsAreStrings
<1>5. connection[x] = Reader(c, s)
  <2>1. s = ReadSoFar(x)
    BY <1>1 DEF ReadSoFar
  <2> HIDE DEF s
  <2> QED BY <1>1, <1>2, <1>4, <2>1 DEF CInv, Contents, Holds
<1>6. Reader(c, s).parser.result # "indeterminate"
  <2>1. connection[x].parser.result # "indeterminate"
    BY <1>1, <1>2 DEF IInv, ObjectsBusy
  <2> HIDE DEF s
  <2> QED BY <1>5, <2>1
<1> DEFINE reply == connection[x].reply_
<1>7. reply \in Service!Replies /\ Service!IsAnswer(reply, s)
  <2> HIDE DEF s
  <2> QED BY <1>3, <1>4, <1>5, <1>6, ReaderAnswers
<1>8. Service!IsAnswer(reply, S)
  <2>1. RequestLength(s) # -1
    <3>1. Reader(c, s).parser.result = Parsed(s, Len(s)).result
      BY <1>4, ReaderResult
    <3>2. Parsed(s, Len(s)).result
            = CASE RequestLength(s) = -1 -> "indeterminate" [] RequestLength(s) = 0 -> "bad"
                [] RequestLength(s) > 0 -> "good"
      BY <1>4, ParsedIs
    <3> HIDE DEF s
    <3> QED BY <1>6, <3>1, <3>2
  <2>2. RequestLength(S) = RequestLength(s)
    BY <1>4, <2>1, LengthStays
  <2> DEFINE l == RequestLength(s)
  <2>3. l \in -1 .. Len(s) /\ Len(s) = a
    <3>1. Len(s) = a
      BY <1>4, PrefixFacts
    <3> HIDE DEF s
    <3> QED BY <1>4, <3>1, ParsedIs
  <2>4. l > 0 => Prefix(s, l) = Prefix(S, l)
    <3> SUFFICES ASSUME l > 0 PROVE Prefix(s, l) = Prefix(S, l)
      OBVIOUS
    <3> HIDE DEF l
    <3>1. l \in 0 .. a
      BY <1>4, <2>3 DEF String
    <3> HIDE DEF S, a
    <3> QED BY <1>4, <3>1, PrefixOfPrefix
  <2>5. Service!IsAnswer(reply, s) <=> Promised(reply, l, Uri(Prefix(s, l)))
    BY AnswerIs
  <2>6. Service!IsAnswer(reply, S) <=> Promised(reply, l, Uri(Prefix(S, l)))
    BY <2>2, AnswerIs
  <2> HIDE DEF s, S, l, reply
  <2>7. l = 0 \/ l > 0
    BY <2>1, <2>3, <1>4 DEF l, String
  <2>8. CASE l = 0
    BY <1>7, <2>5, <2>6, <2>8 DEF Promised
  <2>9. CASE l > 0
    BY <1>7, <2>4, <2>5, <2>6, <2>9
  <2> QED BY <2>7, <2>8, <2>9
<1>9. DOMAIN client = DOMAIN stream /\ \A d \in DOMAIN client : IsClient(client[d])
  BY DEF IInv, TypeOK, Shapes
<1>10. Got' = [Got EXCEPT ![c] = reply] /\ Got[c] = NoReply
  <2>1. \A d \in DOMAIN stream : client'[d].got = IF d = c THEN reply ELSE client[d].got
    BY <1>1, <1>9 DEF IsClient
  <2> HIDE DEF S, s, reply
  <2> QED BY <1>1, <2>1 DEF Got
<1> HIDE DEF reply
<1> QED BY <1>1, <1>7, <1>8, <1>10, ServiceReplies DEF Service!Reply, Got

\* What a client gets is the reply to what it sent, once, of the handler with the
\* longest prefix: whatever other clients send, in whatever order things complete and
\* handlers were registered, and however the stream was cut.
THEOREM ImplementsHttpServiceHolds == Spec => ImplementsHttpService
<1>1. Init => Service!Init
  BY DEF Init, Service!Init, Service!NoReply, NoReply
<1>2. IInv /\ CInv /\ [Next]_vars => [Service!Next]_<<stream, Got>>
  <2> SUFFICES ASSUME IInv, CInv, [Next]_vars PROVE [Service!Next]_<<stream, Got>>
    OBVIOUS
  <2>1. ASSUME NEW x, NEW c \in DOMAIN stream, Deliver(x, c) PROVE Service!Next
    BY <2>1, DeliverReplies DEF Service!Next
  <2>2. CASE ~ \E x : \E c \in DOMAIN stream : Deliver(x, c)
    BY <2>2, OthersKeepReplies
  <2> QED BY <2>1, <2>2
<1> QED BY <1>1, <1>2, ContentsInvariant, PTL DEF Spec, ImplementsHttpService, Service!Spec, Got

=============================================================================
