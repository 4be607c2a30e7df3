---------------------------- MODULE HttpExchange ----------------------------
(***************************************************************************)
(* One call of HTTPClient::SubmitURLSync (src/src/http.cpp), with the      *)
(* calls it makes of itself for redirects: sockets, the receive loop and   *)
(* its buffer.  What is done with the answer is in Crawler.  Bytes are     *)
(* counted, not looked at; a timeout is one of SO_RCVTIMEO.                *)
(***************************************************************************)
EXTENDS Integers, Sequences, FiniteSets

CONSTANTS
  BufferSize,    \* BUFFER_SIZE: bytes of a new buffer
  RedirectMax,   \* REDIRECT_MAX: 20 in the code
  Servers,       \* what a server may do, see ServerType
  MaxAddresses,  \* a bound: addresses of a host
  MaxTimeouts    \* a bound: how often a SecureSocket that waits for all times out

ASSUME ExchangeAssumption ==
  BufferSize \in Nat \ {0} /\ {RedirectMax, MaxAddresses, MaxTimeouts} \subseteq Nat

None    == -1   \* no Content-Length
Chunked == -10

\* length is the one the header announces, Chunked when "chunked" is found; sends is how much
\* of header and body really comes, and closes says whether the connection is closed then.
ServerType ==
  [secure : BOOLEAN, lead : {2, 3, 4}, text : BOOLEAN, gzip : BOOLEAN, header : Nat, body : Nat,
   length : Nat \union {None, Chunked}, sends : Nat, closes : BOOLEAN]

ASSUME ServersAssumption == Servers \subseteq ServerType

VARIABLES
  robots,  \* whether robots.txt is asked for
  server,
  at,      \* where the innermost call is
  client,  \* and its local variables
  sockets  \* file descriptors that are open, and those of them that a Socket will close

NewClient(redirects) ==
  [redirects |-> redirects, addresses |-> 0, taken |-> 0, received |-> 0,
   size |-> BufferSize, headerSize |-> 0, length |-> None, got |-> 0, timeouts |-> 0,
   stored |-> 0]

Goto(place) == at' = place /\ UNCHANGED client

\* The calls return, and the destructors of their Sockets run.
Return(outcome) == /\ Goto(outcome)
                   /\ sockets' = [open |-> sockets.open - sockets.held, held |-> 0]

Unchanged == UNCHANGED <<robots, server>>
----------------------------------------------------------------------------
(* getConnToHost, setFd and send *)

\* Too many redirects; a url without a host, or of another scheme; or five attempts, and one
\* more if they did not fail for good.
Resolve ==
  /\ at = "resolve"
  /\ IF client.redirects > RedirectMax THEN Return("killed")
     ELSE \/ Return("killed") \/ Return("dropped")
          \/ \E n \in 1..MaxAddresses :
               at' = "connect" /\ client' = [client EXCEPT !.addresses = n] /\ UNCHANGED sockets
  /\ Unchanged

\* Mutant: the socket that could not be connected stays open.
LeavesItOpen ==
  /\ at = "connect" /\ client.addresses > 0
  /\ \/ /\ client' = [client EXCEPT !.addresses = @ - 1] /\ UNCHANGED at
        /\ sockets' \in {sockets, [sockets EXCEPT !.open = @ + 1]}
     \/ Return("killed")
     \/ /\ Goto("setFd")
        /\ sockets' = [sockets EXCEPT !.open = @ + 1]
  /\ Unchanged

\* An address: no socket, or one that is closed again, and the next address; or the options
\* cannot be set, the socket is closed and that is all; or it is connected.
TryAddress ==
  /\ at = "connect" /\ client.addresses > 0
  /\ \/ client' = [client EXCEPT !.addresses = @ - 1] /\ UNCHANGED <<at, sockets>>
     \/ Return("killed")
     \/ /\ Goto("setFd")
        /\ sockets' = [sockets EXCEPT !.open = @ + 1]
  /\ Unchanged

NoAddressLeft ==
  at = "connect" /\ client.addresses = 0 /\ Return("killed") /\ Unchanged

\* The Socket takes the descriptor first, so it is closed if the handshake fails.
SetFd ==
  /\ at = "setFd"
  /\ \/ Goto("send") /\ sockets' = [sockets EXCEPT !.held = @ + 1]
     \/ server.secure /\ Goto("killed") /\ sockets' = [open |-> sockets.open - sockets.held - 1,
                                                       held |-> 0]
  /\ Unchanged

\* SecureSocket::send fails at a timeout only, and returns 0 for whatever else goes wrong.
Send ==
  /\ at = "send"
  /\ \/ Goto("receive") /\ UNCHANGED sockets
     \/ Return("killed")
  /\ Unchanged
----------------------------------------------------------------------------
(* The receive loop *)

Left == server.sends - client.taken

AtMost(len) == IF Left < len THEN Left ELSE len

\* What recv returns when it is asked for len bytes: some that have come, 0 at the end of the
\* connection or for an empty buffer, -1 for a timeout.  SSL_read, asked for nothing, may wait
\* for the next record all the same.
Recv(len) ==
  IF len = 0 THEN {0} \union (IF server.secure THEN {-1} ELSE {})
  ELSE 1..AtMost(len) \union (IF Left = 0 /\ server.closes THEN {0} ELSE {-1})

\* With MSG_WAITALL: all, or what has come at the end of the connection or at a timeout.
RecvAll(len) ==
  IF Left >= len THEN {-1} \union 1..len
  ELSE IF server.closes THEN {Left} ELSE IF Left = 0 THEN {-1} ELSE {Left, -1}

Received(rv) == [client EXCEPT !.received = @ + rv, !.taken = @ + rv]

\* The header has come: what kind of answer it is.  A redirect is not looked at, for its
\* first digit is compared to the number 3.
BadType == ~robots /\ server.lead = 2 /\ ~server.text

\* Mutant: the length that is announced is taken for that of the whole answer.
LengthOfAll(c) == server.length

TotalSize(c) == server.header + server.length

\* recv of the loop, and what is done with it.
Receive ==
  /\ at = "receive"
  /\ \E rv \in Recv(BufferSize - client.received) :
       LET more == [Received(rv) EXCEPT !.headerSize = server.header]
       IN  CASE rv = -1 -> Return("killed")
             [] rv = 0 -> Goto("answered") /\ UNCHANGED sockets
             [] rv > 0 /\ client.length # None ->
                  Goto("answered") /\ UNCHANGED sockets
             [] rv > 0 /\ client.length = None /\ more.received < server.header ->
                  client' = Received(rv) /\ UNCHANGED <<at, sockets>>
             [] OTHER ->
                  IF BadType THEN Return("killed")
                  ELSE IF server.length = Chunked THEN Return("dropped")
                  ELSE /\ IF server.length = None
                          THEN at' = "toTheEnd" /\ client' = more
                          ELSE IF TotalSize(more) > more.received
                          THEN /\ at' = "waitAll"
                               /\ client' = [more EXCEPT !.length = server.length,
                                                         !.size = TotalSize(more)]
                          ELSE client' = [more EXCEPT !.length = server.length] /\ UNCHANGED at
                       /\ UNCHANGED sockets
  /\ Unchanged

\* The rest of a body of known length.  What a timeout leaves is taken for the answer.
WaitAll ==
  /\ at = "waitAll" /\ ~server.secure
  /\ \E rv \in RecvAll(client.size - client.received) :
       LET more == IF rv = -1 THEN client ELSE Received(rv)
       IN  client' = [more EXCEPT !.timeouts = IF more.received < more.size THEN 1 ELSE 0]
  /\ at' = "answered"
  /\ UNCHANGED sockets /\ Unchanged

\* The same with a SecureSocket, whose recv reads until SSL_read returns 0.  The -1 of a
\* timeout is added to what it has got: its size_t is never negative.
ReadAll ==
  /\ at = "waitAll" /\ server.secure
  /\ \E rv \in Recv(client.size - client.received - client.got) :
       CASE rv > 0 -> client' = [client EXCEPT !.got = @ + rv, !.taken = @ + rv] /\ UNCHANGED at
         [] rv = -1 -> /\ UNCHANGED at
                       /\ client.timeouts < MaxTimeouts
                       /\ client' = [client EXCEPT !.got = @ - 1, !.timeouts = @ + 1]
         [] rv = 0 -> /\ at' = "answered"
                      /\ client' = [client EXCEPT
                                      !.received = @ + IF client.got < 0 THEN 0 ELSE client.got,
                                      !.got = 0]
  /\ UNCHANGED sockets /\ Unchanged

\* Mutant: a full buffer is doubled after the next recv.
DoublesLate ==
  /\ at = "toTheEnd"
  /\ \E rv \in Recv(client.size) :
       IF rv = -1 THEN Return("killed")
       ELSE /\ UNCHANGED sockets
            /\ client' = Received(rv)
            /\ at' = IF rv = 0 THEN "answered" ELSE at
  /\ Unchanged

\* A body of unknown length, up to the end of the connection.
ToTheEnd ==
  /\ at = "toTheEnd"
  /\ LET size == IF client.received = client.size THEN 2 * client.size ELSE client.size
     IN  \E rv \in Recv(size - client.received) :
           IF rv = -1 THEN Return("killed")
           ELSE /\ UNCHANGED sockets
                /\ client' = [Received(rv) EXCEPT !.size = size]
                /\ at' = IF rv = 0 THEN "answered" ELSE at
  /\ Unchanged
----------------------------------------------------------------------------
\* A redirect is followed in a call of its own: the Socket of this one stays open.
Redirect ==
  /\ at = "answered" /\ server.lead = 3 /\ client.received > 0
  /\ server' \in Servers
  /\ at' = "resolve" /\ client' = NewClient(client.redirects + 1)
  /\ UNCHANGED <<robots, sockets>>

Keep ==
  /\ at = "answered" /\ ~(server.lead = 3 /\ client.received > 0)
  /\ IF server.gzip /\ ~robots /\ client.headerSize > 0 THEN Return("dropped")
     ELSE /\ at' = "stored"
          /\ client' = [client EXCEPT !.stored = client.received - client.headerSize]
          /\ sockets' = [open |-> sockets.open - sockets.held, held |-> 0]
  /\ Unchanged

InitExchange ==
  /\ robots \in BOOLEAN
  /\ server \in Servers
  /\ at = "resolve"
  /\ client = NewClient(0)
  /\ sockets = [open |-> 0, held |-> 0]

NextExchange ==
  Resolve \/ TryAddress \/ NoAddressLeft \/ SetFd \/ Send \/ Receive \/ WaitAll \/ ReadAll
    \/ ToTheEnd \/ Redirect \/ Keep

exchangeVars == <<robots, server, at, client, sockets>>

ExchangeSpec == InitExchange /\ [][NextExchange]_exchangeVars
----------------------------------------------------------------------------
\* Nothing is received behind the end of the buffer, whichever of the three recv calls it
\* was, however often the buffer has grown and a SecureSocket timed out (http.cpp:308, 347,
\* 370, 706).
ReceivedFitsTheBuffer == client.received + client.got <= client.size

\* Every socket is closed when the first call returns, those of all redirects and of all
\* addresses that could not be connected included (http.cpp:100, 393; http.h:111).
SocketsAreClosed ==
  at \in {"killed", "dropped", "stored"} => sockets.open = 0

\* An answer that came in full, with a header that fits the first buffer and a length that
\* is not less than what it is, is stored as the body without the header, to the last
\* byte, in whatever pieces it came (http.cpp:302, 358); unless a timeout cut it.
WholeAnswersAreStored ==
  LET whole == server.header + server.body
  IN  /\ at = "stored" /\ client.timeouts = 0
      /\ server.sends = whole /\ server.header <= BufferSize
      /\ server.length \in {None, server.body}
      => client.stored = server.body
=============================================================================
