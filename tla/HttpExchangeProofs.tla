-------------------------- MODULE HttpExchangeProofs --------------------------
(***************************************************************************)
(* The buffer, the sockets and the answers of HttpExchange, for any        *)
(* servers and any sizes.                                                  *)
(***************************************************************************)
EXTENDS HttpExchange, TLAPS

ClientType ==
  [redirects : Nat, addresses : Int, taken : Int, received : Int, size : Nat, headerSize : Int,
   length : Int, got : Int, timeouts : Nat, stored : Int]

Types ==
  /\ robots \in BOOLEAN
  /\ server \in Servers
  /\ client \in ClientType
  /\ sockets \in [open : Int, held : Int]

Early == {"resolve", "connect", "setFd", "send"}
Ended == {"killed", "dropped", "stored"}

\* Every open descriptor is held by a Socket, but for the one that has just been connected.
SocketInv ==
  /\ at \in Ended => sockets.open = 0
  /\ at = "setFd" => sockets.open = sockets.held + 1
  /\ at \notin Ended \union {"setFd"} => sockets.open = sockets.held

\* Bytes are counted apart, in got, only inside recv of a SecureSocket.
BufferInv ==
  /\ client.size > 0
  /\ client.received <= client.size
  /\ client.received + client.got <= client.size
  /\ client.got = 0 \/ (at = "waitAll" /\ server.secure)
  /\ at \in Early \union {"receive"} => client.size = BufferSize
  /\ at \in Early => client.received = 0

\* Until a timeout, all that was taken from the connection is in the buffer.
CountInv ==
  /\ client.taken <= server.sends
  /\ client.timeouts = 0 => client.taken = client.received + client.got /\ client.got >= 0
  /\ client.received >= 0
  /\ at \in Early => client.taken = 0
  /\ \/ client.timeouts = 0
     \/ at \in {"answered"} \union Ended
     \/ at = "waitAll" /\ server.secure

\* What is known of the header at each place.
HeaderInv ==
  /\ at \in Early => client.length = None /\ client.headerSize = 0
  /\ at = "receive" /\ client.length = None =>
       client.headerSize = 0 /\ (client.received = 0 \/ client.received < server.header)
  /\ at = "receive" /\ client.length # None =>
       /\ client.length = server.length /\ client.headerSize = server.header
       /\ client.received >= server.header + server.length
  /\ at = "waitAll" =>
       /\ server.length # None /\ client.headerSize = server.header
       /\ client.size = server.header + server.length
  /\ at = "toTheEnd" => client.headerSize = server.header

\* A server that sends what it announces, with a header that the first buffer holds.
Whole ==
  /\ server.sends = server.header + server.body
  /\ server.header <= BufferSize
  /\ server.length \in {None, server.body}

AnswerInv ==
  /\ Whole /\ client.timeouts = 0 /\ at = "answered" =>
       /\ client.received = server.header + server.body
       /\ client.headerSize = server.header
  /\ Whole /\ client.timeouts = 0 /\ at = "stored" => client.stored = server.body

ExchangeInv == Types /\ SocketInv /\ BufferInv /\ CountInv /\ HeaderInv /\ AnswerInv

USE DEF Goto, Return, Unchanged, None, Chunked, Early, Ended

LEMMA ServerFacts ==
  ASSUME Types
  PROVE  /\ server.secure \in BOOLEAN /\ server.header \in Nat /\ server.body \in Nat
         /\ server.sends \in Nat /\ server.length \in Nat \union {-1, -10}
         /\ server.gzip \in BOOLEAN /\ BufferSize \in Nat \ {0}
  BY ServersAssumption, ExchangeAssumption DEF Types, ServerType

\* What recv returns.
LEMMA RecvFacts ==
  ASSUME Types, NEW len \in Int, len >= 0, NEW rv \in Recv(len)
  PROVE  /\ rv \in Int /\ rv >= -1 /\ rv <= len
         /\ rv > 0 => rv <= server.sends - client.taken
         /\ rv = 0 /\ len > 0 => client.taken = server.sends
  BY ServerFacts DEF Recv, AtMost, Left, Types, ClientType

LEMMA RecvAllFacts ==
  ASSUME Types, CountInv, NEW len \in Int, len >= 0, NEW rv \in RecvAll(len)
  PROVE  /\ rv \in Int /\ rv >= -1 /\ rv <= len
         /\ rv >= 0 => rv <= server.sends - client.taken
  BY ServerFacts DEF RecvAll, Left, Types, ClientType, CountInv

\* What it changes of the client.
LEMMA ReceivedFacts ==
  ASSUME client \in ClientType, NEW rv \in Int, NEW c, c = Received(rv)
  PROVE  /\ c \in ClientType
         /\ c.received = client.received + rv /\ c.taken = client.taken + rv
         /\ c.size = client.size /\ c.headerSize = client.headerSize /\ c.length = client.length
         /\ c.got = client.got /\ c.timeouts = client.timeouts
<1> DEFINE received == client.received + rv
           taken    == client.taken + rv
<1>1. received \in Int /\ taken \in Int
  BY DEF ClientType
<1>2. c = [client EXCEPT !.received = received, !.taken = taken]
  BY DEF Received
<1> HIDE DEF received, taken
<1>3. c \in ClientType
  BY <1>1, <1>2 DEF ClientType
<1>4. /\ c.received = received /\ c.taken = taken
      /\ c.size = client.size /\ c.headerSize = client.headerSize /\ c.length = client.length
      /\ c.got = client.got /\ c.timeouts = client.timeouts
  BY <1>2 DEF ClientType
<1>. QED
  BY <1>3, <1>4 DEF received, taken

LEMMA NewClientFacts ==
  ASSUME NEW n \in Nat
  PROVE  NewClient(n) \in ClientType
  BY ExchangeAssumption DEF ClientType, NewClient

LEMMA InitExchangeInv == InitExchange => ExchangeInv
<1> SUFFICES ASSUME InitExchange PROVE ExchangeInv
  OBVIOUS
<1>1. Types
  BY NewClientFacts DEF InitExchange, Types
<1>2. BufferInv /\ CountInv /\ HeaderInv
  BY <1>1, ServerFacts DEF InitExchange, NewClient, BufferInv, CountInv, HeaderInv
<1>. QED
  BY <1>1, <1>2 DEF InitExchange, ExchangeInv, SocketInv, AnswerInv

\* To give up, anywhere but in the middle of a recv or of a connection, is safe.
LEMMA ReturnStep ==
  ASSUME ExchangeInv, NEW outcome \in {"killed", "dropped"}, Return(outcome), Unchanged,
         at \in {"resolve", "connect", "send", "receive", "toTheEnd", "answered"}
  PROVE  ExchangeInv'
<1>1. at' = outcome /\ client' = client /\ server' = server /\ robots' = robots
  OBVIOUS
<1>2. Types' /\ SocketInv'
  BY DEF ExchangeInv, Types, SocketInv
<1>3. BufferInv' /\ CountInv' /\ HeaderInv' /\ AnswerInv'
  BY <1>1, ServerFacts
  DEF ExchangeInv, Types, ClientType, BufferInv, CountInv, HeaderInv, AnswerInv
<1>. QED
  BY <1>2, <1>3 DEF ExchangeInv

LEMMA EarlySteps ==
  ASSUME ExchangeInv, Resolve \/ TryAddress \/ NoAddressLeft \/ SetFd \/ Send
  PROVE  ExchangeInv'
<1>1. CASE \E outcome \in {"killed", "dropped"} : Return(outcome) /\ at # "setFd"
  BY <1>1, ReturnStep DEF Resolve, TryAddress, NoAddressLeft, SetFd, Send
<1>2. CASE SetFd /\ at' = "killed"
  <2>1. Types' /\ SocketInv'
    BY <1>2 DEF ExchangeInv, Types, SocketInv, SetFd
  <2>2. BufferInv' /\ CountInv' /\ HeaderInv' /\ AnswerInv'
    BY <1>2, ServerFacts
    DEF ExchangeInv, Types, ClientType, BufferInv, CountInv, HeaderInv, AnswerInv, SetFd
  <2>. QED
    BY <2>1, <2>2 DEF ExchangeInv
<1>3. CASE /\ at \in Early /\ at' \in Early \union {"receive"}
           /\ \/ client' = client
              \/ \E n \in Int : client' = [client EXCEPT !.addresses = n]
           /\ server' = server /\ robots' = robots
           /\ sockets' \in [open : Int, held : Int] /\ SocketInv'
  <2>1. /\ client' \in ClientType
        /\ client'.received = client.received /\ client'.taken = client.taken
        /\ client'.size = client.size /\ client'.headerSize = client.headerSize
        /\ client'.length = client.length /\ client'.got = client.got
        /\ client'.timeouts = client.timeouts
    BY <1>3 DEF ExchangeInv, Types, ClientType
  <2>2. Types'
    BY <1>3, <2>1 DEF ExchangeInv, Types
  <2>3. BufferInv' /\ CountInv' /\ HeaderInv' /\ AnswerInv'
    BY <1>3, <2>1, ServerFacts
    DEF ExchangeInv, Types, ClientType, BufferInv, CountInv, HeaderInv, AnswerInv
  <2>. QED
    BY <1>3, <2>2, <2>3 DEF ExchangeInv
<1>4. CASE Resolve
  BY <1>1, <1>3, <1>4 DEF ExchangeInv, Types, SocketInv, Resolve
<1>5. CASE TryAddress
  BY <1>1, <1>3, <1>5 DEF ExchangeInv, Types, ClientType, SocketInv, TryAddress
<1>6. CASE NoAddressLeft
  BY <1>1, <1>6 DEF NoAddressLeft
<1>7. CASE SetFd
  BY <1>2, <1>3, <1>7 DEF ExchangeInv, Types, SocketInv, SetFd
<1>8. CASE Send
  BY <1>1, <1>3, <1>8 DEF ExchangeInv, Types, SocketInv, Send
<1>. QED
  BY <1>4, <1>5, <1>6, <1>7, <1>8

LEMMA ReceiveStep ==
  ASSUME ExchangeInv, Receive
  PROVE  ExchangeInv'
<1> DEFINE len == BufferSize - client.received
<1>0. /\ Types /\ at = "receive" /\ client.size = BufferSize /\ client.got = 0
      /\ client.timeouts = 0 /\ sockets.open = sockets.held
      /\ server' = server /\ robots' = robots
  BY DEF ExchangeInv, Receive, BufferInv, CountInv, SocketInv
<1>1. len \in Int /\ len >= 0
  BY <1>0, ServerFacts DEF ExchangeInv, Types, ClientType, BufferInv
<1>2. PICK rv \in Recv(len) :
        LET more == [Received(rv) EXCEPT !.headerSize = server.header]
        IN  CASE rv = -1 -> Return("killed")
              [] rv = 0 -> Goto("answered") /\ UNCHANGED sockets
              [] rv > 0 /\ client.length # None -> Goto("answered") /\ UNCHANGED sockets
              [] rv > 0 /\ client.length = None /\ more.received < server.header ->
                   client' = Received(rv) /\ UNCHANGED <<at, sockets>>
              [] OTHER ->
                   IF BadType THEN Return("killed")
                   ELSE IF server.length = Chunked THEN Return("dropped")
                   ELSE /\ IF server.length = None
                           THEN at' = "toTheEnd" /\ client' = more
                           ELSE IF TotalSize(more) > more.received
                           THEN /\ at' = "waitAll"
                                /\ client' = [more EXCEPT !.length = server.length,
                                                          !.size = TotalSize(more)]
                           ELSE client' = [more EXCEPT !.length = server.length] /\ UNCHANGED at
                        /\ UNCHANGED sockets
  BY DEF Receive
<1>3. /\ rv \in Int /\ rv >= -1 /\ rv <= len
      /\ rv > 0 => rv <= server.sends - client.taken
      /\ rv = 0 /\ len > 0 => client.taken = server.sends
  BY <1>0, <1>1, RecvFacts
<1> DEFINE got  == Received(rv)
           more == [got EXCEPT !.headerSize = server.header]
<1>4. /\ got \in ClientType
      /\ got.received = client.received + rv /\ got.taken = client.taken + rv
      /\ got.size = client.size /\ got.headerSize = client.headerSize
      /\ got.length = client.length /\ got.got = 0 /\ got.timeouts = 0
  BY <1>0, <1>3, ReceivedFacts DEF Types
<1> HIDE DEF got
<1>5. /\ more \in ClientType
      /\ more.received = client.received + rv /\ more.taken = client.taken + rv
      /\ more.size = client.size /\ more.headerSize = server.header
      /\ more.length = client.length /\ more.got = 0 /\ more.timeouts = 0
  BY <1>0, <1>4, ServerFacts DEF ClientType
<1> HIDE DEF more
<1>6. CASE rv = -1
  BY <1>0, <1>2, <1>6, ReturnStep DEF Receive
<1>7. CASE rv >= 0 /\ (rv = 0 \/ client.length # None)
  <2>1. at' = "answered" /\ client' = client /\ sockets' = sockets
    BY <1>2, <1>3, <1>7
  <2>2. Types' /\ SocketInv' /\ BufferInv' /\ CountInv' /\ HeaderInv'
    BY <2>1, <1>0, ServerFacts
    DEF ExchangeInv, Types, ClientType, SocketInv, BufferInv, CountInv, HeaderInv
  <2>3. AnswerInv'
    BY <2>1, <1>0, <1>1, <1>3, <1>7, ServerFacts
    DEF ExchangeInv, Types, ClientType, BufferInv, CountInv, HeaderInv, AnswerInv, Whole
  <2>. QED
    BY <2>2, <2>3 DEF ExchangeInv
<1>8. CASE rv > 0 /\ client.length = None /\ more.received < server.header
  <2>1. client' = got /\ at' = at /\ sockets' = sockets
    BY <1>2, <1>8 DEF got, more
  <2>2. Types' /\ SocketInv'
    BY <2>1, <1>0, <1>4 DEF ExchangeInv, Types, SocketInv
  <2>3. BufferInv' /\ CountInv' /\ HeaderInv' /\ AnswerInv'
    BY <2>1, <1>0, <1>3, <1>4, <1>5, <1>8, ServerFacts
    DEF ExchangeInv, Types, ClientType, BufferInv, CountInv, HeaderInv, AnswerInv
  <2>. QED
    BY <2>2, <2>3 DEF ExchangeInv
<1>9. CASE rv > 0 /\ client.length = None /\ ~(more.received < server.header)
  <2>0. IF BadType THEN Return("killed")
        ELSE IF server.length = Chunked THEN Return("dropped")
        ELSE /\ IF server.length = None
                THEN at' = "toTheEnd" /\ client' = more
                ELSE IF TotalSize(more) > more.received
                THEN /\ at' = "waitAll"
                     /\ client' = [more EXCEPT !.length = server.length,
                                               !.size = TotalSize(more)]
                ELSE client' = [more EXCEPT !.length = server.length] /\ UNCHANGED at
             /\ UNCHANGED sockets
    BY <1>2, <1>9 DEF got, more
  <2>1. CASE BadType \/ server.length = Chunked
    BY <1>0, <2>0, <2>1, ReturnStep DEF Receive
  <2>2. CASE ~BadType /\ server.length = None
    <3>1. at' = "toTheEnd" /\ client' = more /\ sockets' = sockets
      BY <2>0, <2>2
    <3>2. Types' /\ SocketInv'
      BY <3>1, <1>0, <1>5 DEF ExchangeInv, Types, SocketInv
    <3>3. BufferInv' /\ CountInv' /\ HeaderInv' /\ AnswerInv'
      BY <3>1, <1>0, <1>3, <1>5, <1>9, ServerFacts
      DEF ExchangeInv, Types, ClientType, BufferInv, CountInv, HeaderInv, AnswerInv
    <3>. QED
      BY <3>2, <3>3 DEF ExchangeInv
  <2>3. CASE ~BadType /\ server.length \in Nat /\ TotalSize(more) > more.received
    <3> DEFINE size == TotalSize(more)
    <3>1. size = server.header + server.length /\ size \in Nat /\ server.length \in Int
      BY <1>0, <2>3, ServerFacts DEF TotalSize
    <3> HIDE DEF size
    <3>2. /\ at' = "waitAll" /\ sockets' = sockets
          /\ client' = [more EXCEPT !.length = server.length, !.size = size]
      BY <2>0, <2>3 DEF size
    <3>3. client' \in ClientType
      BY <3>1, <3>2, <1>5, <2>3 DEF ClientType
    <3>4. /\ client'.length = server.length /\ client'.size = size
          /\ client'.received = more.received /\ client'.taken = more.taken
          /\ client'.headerSize = more.headerSize /\ client'.got = more.got
          /\ client'.timeouts = more.timeouts
      BY <3>2, <1>5 DEF ClientType
    <3>5. Types' /\ SocketInv'
      BY <3>2, <3>3, <1>0 DEF ExchangeInv, Types, SocketInv
    <3>6. size > more.received
      BY <2>3 DEF size
    <3>7. BufferInv'
      BY <3>1, <3>2, <3>3, <3>6, <3>4, <1>0, <1>3, <1>5, <1>9, <2>3, ServerFacts
      DEF ExchangeInv, Types, ClientType, BufferInv
    <3>8. CountInv'
      BY <3>1, <3>2, <3>3, <3>6, <3>4, <1>0, <1>3, <1>5, <1>9, <2>3, ServerFacts
      DEF ExchangeInv, Types, ClientType, CountInv
    <3>9. HeaderInv' /\ AnswerInv'
      BY <3>1, <3>2, <3>3, <3>6, <3>4, <1>0, <1>3, <1>5, <1>9, <2>3, ServerFacts
      DEF ExchangeInv, Types, ClientType, HeaderInv, AnswerInv
    <3>. QED
      BY <3>5, <3>7, <3>8, <3>9 DEF ExchangeInv
  <2>4. CASE ~BadType /\ server.length \in Nat /\ ~(TotalSize(more) > more.received)
    <3>1. client' = [more EXCEPT !.length = server.length] /\ at' = at /\ sockets' = sockets
      BY <2>0, <2>4
    <3>2. /\ client' \in ClientType /\ client'.length = server.length
          /\ client'.received = more.received /\ client'.taken = more.taken
          /\ client'.headerSize = more.headerSize /\ client'.got = more.got
          /\ client'.timeouts = more.timeouts /\ client'.size = more.size
      BY <3>1, <1>5, <2>4 DEF ClientType
    <3>3. Types' /\ SocketInv'
      BY <3>1, <3>2, <1>0 DEF ExchangeInv, Types, SocketInv
    <3>4. client'.received >= server.header + server.length
      BY <3>2, <1>0, <1>5, <2>4, ServerFacts DEF TotalSize, ClientType
    <3>5. BufferInv'
      BY <3>1, <3>2, <3>4, <1>0, <1>3, <1>5, <1>9, <2>4, ServerFacts
      DEF ExchangeInv, Types, ClientType, BufferInv
    <3>6. CountInv'
      BY <3>1, <3>2, <3>4, <1>0, <1>3, <1>5, <1>9, <2>4, ServerFacts
      DEF ExchangeInv, Types, ClientType, CountInv
    <3>7. HeaderInv' /\ AnswerInv'
      BY <3>1, <3>2, <3>4, <1>0, <1>3, <1>5, <1>9, <2>4, ServerFacts
      DEF ExchangeInv, Types, ClientType, HeaderInv, AnswerInv
    <3>. QED
      BY <3>3, <3>5, <3>6, <3>7 DEF ExchangeInv
  <2>. QED
    BY <1>0, <2>1, <2>2, <2>3, <2>4, ServerFacts
<1>. QED
  BY <1>3, <1>6, <1>7, <1>8, <1>9

LEMMA WaitAllStep ==
  ASSUME ExchangeInv, WaitAll
  PROVE  ExchangeInv'
<1> DEFINE len == client.size - client.received
<1>0. /\ Types /\ at = "waitAll" /\ client.got = 0 /\ client.timeouts = 0
      /\ at' = "answered" /\ sockets' = sockets
      /\ server' = server /\ robots' = robots /\ ~server.secure
  BY DEF ExchangeInv, WaitAll, BufferInv, CountInv
<1>1. len \in Int /\ len >= 0
  BY <1>0 DEF ExchangeInv, Types, ClientType, BufferInv
<1>2. PICK rv \in RecvAll(len) :
        LET more == IF rv = -1 THEN client ELSE Received(rv)
        IN  client' = [more EXCEPT !.timeouts = IF more.received < more.size THEN 1 ELSE 0]
  BY DEF WaitAll
<1>3. rv \in Int /\ rv >= -1 /\ rv <= len /\ (rv >= 0 => rv <= server.sends - client.taken)
  BY <1>0, <1>1, RecvAllFacts DEF ExchangeInv
<1> DEFINE more == IF rv = -1 THEN client ELSE Received(rv)
           late == IF more.received < more.size THEN 1 ELSE 0
<1>4. /\ more \in ClientType /\ more.got = 0 /\ more.size = client.size
      /\ more.headerSize = client.headerSize /\ more.length = client.length
      /\ more.received >= 0 /\ more.received <= more.size
      /\ more.taken <= server.sends /\ more.taken = more.received
  <2>1. CASE rv = -1
    BY <2>1, <1>0 DEF ExchangeInv, Types, BufferInv, CountInv, ClientType
  <2>2. CASE rv # -1
    <3>1. more = Received(rv)
      BY <2>2
    <3>2. /\ more \in ClientType
          /\ more.received = client.received + rv /\ more.taken = client.taken + rv
          /\ more.size = client.size /\ more.headerSize = client.headerSize
          /\ more.length = client.length /\ more.got = client.got
      BY <3>1, <1>0, <1>3, ReceivedFacts DEF Types
    <3> HIDE DEF more
    <3>. QED
      BY <2>2, <3>2, <1>0, <1>3, ServerFacts
      DEF ExchangeInv, Types, ClientType, BufferInv, CountInv
  <2>. QED
    BY <2>1, <2>2
<1>5. client' = [more EXCEPT !.timeouts = late]
  BY <1>2
<1> HIDE DEF more
<1>6. late \in Nat /\ (late = 0 => more.received = more.size)
  BY <1>4 DEF ClientType
<1> HIDE DEF late
<1>7. /\ client' \in ClientType /\ client'.timeouts = late
      /\ client'.received = more.received /\ client'.taken = more.taken
      /\ client'.headerSize = more.headerSize /\ client'.got = more.got
      /\ client'.size = more.size
  BY <1>4, <1>5, <1>6 DEF ClientType
<1>8. Types' /\ SocketInv'
  BY <1>0, <1>7 DEF ExchangeInv, Types, SocketInv
<1>9. BufferInv' /\ CountInv' /\ HeaderInv' /\ AnswerInv'
  BY <1>0, <1>4, <1>6, <1>7, ServerFacts
  DEF ExchangeInv, Types, ClientType, BufferInv, CountInv, HeaderInv, AnswerInv, Whole
<1>. QED
  BY <1>8, <1>9 DEF ExchangeInv

LEMMA ReadAllStep ==
  ASSUME ExchangeInv, ReadAll
  PROVE  ExchangeInv'
<1> DEFINE len == client.size - client.received - client.got
<1>0. /\ Types /\ at = "waitAll" /\ sockets' = sockets /\ server.secure
      /\ server' = server /\ robots' = robots
  BY DEF ExchangeInv, ReadAll
<1>1. len \in Int /\ len >= 0
  BY <1>0 DEF ExchangeInv, Types, ClientType, BufferInv
<1>2. PICK rv \in Recv(len) :
        CASE rv > 0 -> client' = [client EXCEPT !.got = @ + rv, !.taken = @ + rv] /\ UNCHANGED at
          [] rv = -1 -> /\ UNCHANGED at
                        /\ client.timeouts < MaxTimeouts
                        /\ client' = [client EXCEPT !.got = @ - 1, !.timeouts = @ + 1]
          [] rv = 0 -> /\ at' = "answered"
                       /\ client' = [client EXCEPT
                                       !.received = @ + IF client.got < 0 THEN 0 ELSE client.got,
                                       !.got = 0]
  BY DEF ReadAll
<1>3. /\ rv \in Int /\ rv >= -1 /\ rv <= len
      /\ rv > 0 => rv <= server.sends - client.taken
      /\ rv = 0 /\ len > 0 => client.taken = server.sends
  BY <1>0, <1>1, RecvFacts
<1>4. CASE rv > 0
  <2> DEFINE got   == client.got + rv
             taken == client.taken + rv
  <2>1. got \in Int /\ taken \in Int
    BY <1>0, <1>3 DEF Types, ClientType
  <2>2. client' = [client EXCEPT !.got = got, !.taken = taken] /\ at' = at
    <3>1. ~(rv = -1) /\ ~(rv = 0)
      BY <1>3, <1>4
    <3>. QED
      BY <1>2, <1>4, <3>1, Zenon
  <2> HIDE DEF got, taken
  <2>3. /\ client' \in ClientType /\ client'.got = got /\ client'.taken = taken
        /\ client'.received = client.received /\ client'.size = client.size
        /\ client'.headerSize = client.headerSize /\ client'.timeouts = client.timeouts
        /\ client'.length = client.length
    BY <2>1, <2>2, <1>0 DEF Types, ClientType
  <2>4. Types' /\ SocketInv'
    BY <2>2, <2>3, <1>0 DEF ExchangeInv, Types, SocketInv
  <2>5. BufferInv' /\ CountInv' /\ HeaderInv' /\ AnswerInv'
    BY <2>2, <2>3, <1>0, <1>3, <1>4, ServerFacts
    DEF ExchangeInv, Types, ClientType, BufferInv, CountInv, HeaderInv, AnswerInv, got, taken
  <2>. QED
    BY <2>4, <2>5 DEF ExchangeInv
<1>5. CASE rv = -1
  <2> DEFINE got      == client.got - 1
             timeouts == client.timeouts + 1
  <2>1. got \in Int /\ timeouts \in Nat /\ timeouts > 0
    BY <1>0 DEF Types, ClientType
  <2>2. client' = [client EXCEPT !.got = got, !.timeouts = timeouts] /\ at' = at
    BY <1>2, <1>5
  <2> HIDE DEF got, timeouts
  <2>3. /\ client' \in ClientType /\ client'.got = got /\ client'.timeouts = timeouts
        /\ client'.received = client.received /\ client'.size = client.size
        /\ client'.headerSize = client.headerSize /\ client'.taken = client.taken
        /\ client'.length = client.length
    BY <2>1, <2>2, <1>0 DEF Types, ClientType
  <2>4. Types' /\ SocketInv'
    BY <2>2, <2>3, <1>0 DEF ExchangeInv, Types, SocketInv
  <2>5. BufferInv' /\ CountInv' /\ HeaderInv' /\ AnswerInv'
    BY <2>1, <2>2, <2>3, <1>0, ServerFacts
    DEF ExchangeInv, Types, ClientType, BufferInv, CountInv, HeaderInv, AnswerInv, got
  <2>. QED
    BY <2>4, <2>5 DEF ExchangeInv
<1>6. CASE rv = 0
  <2> DEFINE received == client.received + IF client.got < 0 THEN 0 ELSE client.got
  <2>1. received \in Int /\ 0 \in Int
    BY <1>0 DEF Types, ClientType
  <2>2. client' = [client EXCEPT !.received = received, !.got = 0] /\ at' = "answered"
    BY <1>2, <1>6
  <2> HIDE DEF received
  <2>3. client' \in ClientType
    BY <2>1, <2>2, <1>0 DEF Types, ClientType
  <2>4. /\ client'.received = received /\ client'.got = 0
        /\ client'.timeouts = client.timeouts /\ client'.size = client.size
        /\ client'.headerSize = client.headerSize /\ client'.taken = client.taken
    BY <2>2, <1>0 DEF Types, ClientType
  <2>5. Types' /\ SocketInv'
    BY <2>2, <2>3, <1>0 DEF ExchangeInv, Types, SocketInv
  <2>6. /\ received >= 0 /\ received <= client.size
        /\ client.got >= 0 => received = client.received + client.got
    BY <1>0, <2>1 DEF ExchangeInv, Types, ClientType, BufferInv, CountInv, received
  <2>7. BufferInv'
    BY <2>1, <2>2, <2>6, <2>4, <1>0 DEF ExchangeInv, Types, ClientType, BufferInv
  <2>8. CountInv' /\ HeaderInv'
    BY <2>2, <2>3, <2>6, <2>4, <1>0, ServerFacts
    DEF ExchangeInv, Types, ClientType, CountInv, HeaderInv
  <2>9. AnswerInv'
    BY <2>2, <2>3, <2>6, <2>4, <1>0, <1>3, <1>6, ServerFacts
    DEF ExchangeInv, Types, ClientType, BufferInv, CountInv, HeaderInv, AnswerInv, Whole
  <2>. QED
    BY <2>5, <2>7, <2>9, <2>8 DEF ExchangeInv
<1>. QED
  BY <1>3, <1>4, <1>5, <1>6

LEMMA ToTheEndStep ==
  ASSUME ExchangeInv, ToTheEnd
  PROVE  ExchangeInv'
<1> DEFINE size == IF client.received = client.size THEN 2 * client.size ELSE client.size
<1>0. /\ Types /\ at = "toTheEnd" /\ client.got = 0 /\ client.timeouts = 0
      /\ server' = server /\ robots' = robots
  BY DEF ExchangeInv, ToTheEnd, BufferInv, CountInv
<1>1. size \in Nat /\ size > 0 /\ size - client.received > 0 /\ size - client.received \in Int
  BY <1>0 DEF ExchangeInv, Types, ClientType, BufferInv
<1>2. PICK rv \in Recv(size - client.received) :
        IF rv = -1 THEN Return("killed")
        ELSE /\ UNCHANGED sockets
             /\ client' = [Received(rv) EXCEPT !.size = size]
             /\ at' = IF rv = 0 THEN "answered" ELSE at
  BY DEF ToTheEnd
<1> HIDE DEF size
<1>3. /\ rv \in Int /\ rv >= -1 /\ rv <= size - client.received
      /\ rv > 0 => rv <= server.sends - client.taken
      /\ rv = 0 => client.taken = server.sends
  BY <1>0, <1>1, RecvFacts
<1> DEFINE got == Received(rv)
<1>4. /\ got \in ClientType
      /\ got.received = client.received + rv /\ got.taken = client.taken + rv
      /\ got.headerSize = client.headerSize /\ got.got = 0 /\ got.timeouts = 0
  BY <1>0, <1>3, ReceivedFacts DEF Types
<1>5. CASE rv = -1
  BY <1>0, <1>2, <1>5, ReturnStep DEF ToTheEnd
<1>6. CASE rv # -1
  <2>1. /\ client' = [got EXCEPT !.size = size] /\ sockets' = sockets
        /\ at' = IF rv = 0 THEN "answered" ELSE "toTheEnd"
    BY <1>0, <1>2, <1>6
  <2> HIDE DEF got
  <2>2. /\ client' \in ClientType /\ client'.size = size
        /\ client'.received = got.received /\ client'.taken = got.taken
        /\ client'.headerSize = got.headerSize /\ client'.got = got.got
        /\ client'.timeouts = got.timeouts
    BY <2>1, <1>1, <1>4 DEF ClientType
  <2>3. Types' /\ SocketInv'
    BY <2>1, <2>2, <1>0 DEF ExchangeInv, Types, SocketInv
  <2>4. BufferInv' /\ CountInv' /\ HeaderInv'
    BY <2>1, <2>2, <1>0, <1>1, <1>3, <1>4, <1>6, ServerFacts
    DEF ExchangeInv, Types, ClientType, BufferInv, CountInv, HeaderInv
  <2>5. AnswerInv'
    BY <2>1, <2>2, <1>0, <1>3, <1>4, <1>6, ServerFacts
    DEF ExchangeInv, Types, ClientType, CountInv, HeaderInv, AnswerInv, Whole
  <2>. QED
    BY <2>3, <2>4, <2>5 DEF ExchangeInv
<1>. QED
  BY <1>5, <1>6

LEMMA LastSteps ==
  ASSUME ExchangeInv, Redirect \/ Keep
  PROVE  ExchangeInv'
<1>1. CASE Redirect
  <2>1. Types'
    BY <1>1, NewClientFacts DEF ExchangeInv, Types, ClientType, Redirect
  <2>2. server'.sends \in Nat
    BY <1>1, ServersAssumption DEF Redirect, ServerType
  <2>3. SocketInv'
    BY <1>1 DEF ExchangeInv, Redirect, SocketInv
  <2>4. BufferInv' /\ CountInv' /\ HeaderInv' /\ AnswerInv'
    BY <1>1, <2>2, ExchangeAssumption
    DEF ExchangeInv, Redirect, NewClient, BufferInv, CountInv, HeaderInv, AnswerInv
  <2>. QED
    BY <2>1, <2>3, <2>4 DEF ExchangeInv
<1>2. CASE Keep /\ at' = "dropped"
  BY <1>2, ReturnStep DEF Keep
<1>3. CASE Keep /\ at' # "dropped"
  <2> DEFINE stored == client.received - client.headerSize
  <2>1. stored \in Int
    BY DEF ExchangeInv, Types, ClientType
  <2>2. /\ at = "answered" /\ at' = "stored" /\ client' = [client EXCEPT !.stored = stored]
        /\ sockets' = [open |-> sockets.open - sockets.held, held |-> 0]
        /\ server' = server /\ robots' = robots
    BY <1>3 DEF Keep
  <2> HIDE DEF stored
  <2>3. /\ client' \in ClientType /\ client'.stored = stored
        /\ client'.received = client.received /\ client'.size = client.size
        /\ client'.got = client.got /\ client'.taken = client.taken
        /\ client'.timeouts = client.timeouts
    BY <2>1, <2>2 DEF ExchangeInv, Types, ClientType
  <2>4. Types' /\ SocketInv'
    BY <2>2, <2>3 DEF ExchangeInv, Types, SocketInv
  <2>5. BufferInv' /\ CountInv' /\ HeaderInv'
    BY <2>2, <2>3, ServerFacts
    DEF ExchangeInv, Types, ClientType, BufferInv, CountInv, HeaderInv
  <2>6. AnswerInv'
    BY <2>2, <2>3, ServerFacts DEF ExchangeInv, Types, ClientType, AnswerInv, Whole, stored
  <2>. QED
    BY <2>4, <2>5, <2>6 DEF ExchangeInv
<1>. QED
  BY <1>1, <1>2, <1>3

LEMMA ExchangeStep == ExchangeInv /\ [NextExchange]_exchangeVars => ExchangeInv'
<1> SUFFICES ASSUME ExchangeInv, [NextExchange]_exchangeVars PROVE ExchangeInv'
  OBVIOUS
<1>1. CASE NextExchange
  BY <1>1, EarlySteps, ReceiveStep, WaitAllStep, ReadAllStep, ToTheEndStep, LastSteps
  DEF NextExchange
<1>2. CASE UNCHANGED exchangeVars
  BY <1>2 DEF exchangeVars, ExchangeInv, Types, SocketInv, BufferInv, CountInv, HeaderInv,
     AnswerInv, Whole
<1>. QED
  BY <1>1, <1>2

LEMMA ExchangeInvariant == ExchangeSpec => []ExchangeInv
  BY InitExchangeInv, ExchangeStep, PTL DEF ExchangeSpec

\* However the buffer grows, and although a timeout counts as minus one byte, no recv of
\* SubmitURLSync writes behind its end (http.cpp:308, 347, 370, 706).
THEOREM BufferIsNeverOverrun == ExchangeSpec => []ReceivedFitsTheBuffer
<1>1. ExchangeInv => ReceivedFitsTheBuffer
  BY DEF ExchangeInv, BufferInv, ReceivedFitsTheBuffer
<1>. QED
  BY <1>1, ExchangeInvariant, PTL

\* Whatever fails, and however many addresses and redirects there were, no descriptor is
\* open when the first call has returned (http.cpp:100, 393; http.h:111).
THEOREM NoSocketIsLeft == ExchangeSpec => []SocketsAreClosed
<1>1. ExchangeInv => SocketsAreClosed
  BY DEF ExchangeInv, SocketInv, SocketsAreClosed
<1>. QED
  BY <1>1, ExchangeInvariant, PTL

\* A whole answer is stored whole, in whatever pieces it comes, for any size of the first
\* buffer that holds its header (http.cpp:302, 358).
THEOREM AnswersAreStoredWhole == ExchangeSpec => []WholeAnswersAreStored
<1>1. ExchangeInv => WholeAnswersAreStored
  BY DEF ExchangeInv, AnswerInv, Whole, WholeAnswersAreStored
<1>. QED
  BY <1>1, ExchangeInvariant, PTL
=============================================================================
