------------------------------ MODULE TlsProxy ------------------------------
(***************************************************************************)
(* TLSInterceptProxy (src/src/aiproxyguard/tls_proxy.py) and the cache of  *)
(* its certificates (tls.py).  A connection is a coroutine that reads what *)
(* its client sends, in order, and runs the pipeline for one request after *)
(* the other; a step goes from one await to the next.  generate_           *)
(* certificate has no await, so all connections share the cache as one.    *)
(*                                                                         *)
(* What a client sends is a sequence of units: the line, the headers and   *)
(* the body of each request, a CONNECT or a plain HTTP request first.      *)
(*                                                                         *)
(* An operator named Faulty... is a slip a change of the code could make;  *)
(* nothing here uses it (README.md).                                       *)
(***************************************************************************)
EXTENDS Integers, Sequences, SequencesExt, Selection

CONSTANTS
  Connections,  \* slots for connections; a closed one takes the next client
  Names,        \* host names as clients spell them
  Allowed,      \* those that are, in lower case, the host of an upstream
  CacheSize,    \* cert_cache_size
  MaxRequests,  \* bound: requests a client starts on one connection
  None          \* no host

\* bare: no body; post: with a body; large: announces more than max_request_size;
\* malformed: its length is no number, or its line has fewer than three words;
\* chunked: a body whose length is not announced.
Forms == {"bare", "post", "large", "malformed", "chunked"}

WithBody == {"post", "large", "chunked"}

\* With TLS, the bodies that are not read.
Spills == {"large", "chunked"}

ASSUME TlsAssumption ==
  /\ Allowed \subseteq Names
  /\ CacheSize \in Nat
  /\ MaxRequests \in Nat
  /\ None \notin Names

VARIABLES
  conn,     \* each connection: the await it is at, and the request it reads
  client,   \* each client: what it is sending, whether it reads and has left
  inbox,    \* units sent and not read
  answers,  \* responses written, in order
  cache,    \* the keys of the OrderedDict, least recently used first
  recent,   \* history: every name a certificate was asked for, latest last
  spilled   \* history: the client sent a body that is not read

connVars == <<conn, inbox, answers>>
cacheVars == <<cache, recent>>
vars == <<connVars, client, cacheVars, spilled>>

\* host: the name of a CONNECT, until there is a certificate; line, headers, body:
\* the numbers of the requests these were read from.
Fresh == [pc |-> "hello", host |-> None, tls |-> FALSE, line |-> 0, headers |-> 0, body |-> 0]
Closed == [Fresh EXCEPT !.pc = "closed"]
Newcomer == [next |-> "hello", form |-> "bare", sent |-> 0, reads |-> TRUE, gone |-> FALSE]

\* The awaits of writer.drain().
Writing == {"established", "drain"}

Init ==
  /\ conn = [c \in Connections |-> Closed]
  /\ client = [c \in Connections |-> Newcomer]
  /\ inbox = [c \in Connections |-> <<>>]
  /\ answers = [c \in Connections |-> <<>>]
  /\ cache = <<>>
  /\ recent = <<>>
  /\ spilled = [c \in Connections |-> FALSE]

----------------------------------------------------------------------------
(* Clients.                                                                *)

Unit(kind, number, form, name) ==
  [kind |-> kind, number |-> number, form |-> form, name |-> name]

Sends(c, unit) == inbox' = [inbox EXCEPT ![c] = Append(@, unit)]

ByClient(c) == conn[c].pc # "closed" /\ ~client[c].gone /\ UNCHANGED <<conn, answers, cacheVars>>

Opens(c) ==
  /\ conn[c].pc = "closed"
  /\ conn' = [conn EXCEPT ![c] = Fresh]
  /\ client' = [client EXCEPT ![c] = Newcomer]
  /\ inbox' = [inbox EXCEPT ![c] = <<>>]
  /\ answers' = [answers EXCEPT ![c] = <<>>]
  /\ spilled' = [spilled EXCEPT ![c] = FALSE]
  /\ UNCHANGED cacheVars

\* A plain request is the only one of its connection.
SendsConnect(c, n) ==
  /\ ByClient(c) /\ client[c].next = "hello"
  /\ Sends(c, Unit("connect", 0, "bare", n))
  /\ client' = [client EXCEPT ![c].next = "line"]
  /\ UNCHANGED spilled

SendsPlain(c, n, form) ==
  /\ ByClient(c) /\ client[c].next = "hello"
  /\ Sends(c, Unit("plain", 1, form, n))
  /\ client' = [client EXCEPT ![c].next = IF form \in WithBody THEN "body" ELSE "nothing",
                              ![c].form = form, ![c].sent = 1]
  /\ UNCHANGED spilled

\* A client that announced a large body may instead wait for the answer, and
\* go on without sending it.
SendsLine(c, form) ==
  /\ ByClient(c) /\ conn[c].tls /\ client[c].sent < MaxRequests
  /\ \/ client[c].next = "line"
     \/ client[c].next = "body" /\ client[c].form = "large" /\ Len(answers[c]) = client[c].sent
  /\ LET number == client[c].sent + 1
     IN /\ Sends(c, Unit("line", number, form, None))
        /\ client' = [client EXCEPT ![c].next = "headers", ![c].form = form, ![c].sent = number]
  /\ UNCHANGED spilled

SendsHeaders(c) ==
  /\ ByClient(c) /\ client[c].next = "headers"
  /\ Sends(c, Unit("headers", client[c].sent, client[c].form, None))
  /\ client' = [client EXCEPT ![c].next = IF client[c].form \in WithBody THEN "body" ELSE "line"]
  /\ UNCHANGED spilled

SendsBody(c) ==
  /\ ByClient(c) /\ client[c].next = "body"
  /\ Sends(c, Unit("body", client[c].sent, client[c].form, None))
  /\ client' = [client EXCEPT ![c].next = IF conn[c].tls THEN "line" ELSE "nothing"]
  /\ spilled' = [spilled EXCEPT ![c] = @ \/ (conn[c].tls /\ client[c].form \in Spills)]

Leaves(c) ==
  /\ ByClient(c)
  /\ client' = [client EXCEPT ![c].gone = TRUE]
  /\ UNCHANGED <<inbox, spilled>>

\* A client stops reading, or reads again; it matters only while a write waits.
Stalls(c) ==
  /\ ByClient(c) /\ conn[c].pc \in Writing
  /\ client' = [client EXCEPT ![c].reads = ~@]
  /\ UNCHANGED <<inbox, spilled>>

Client(c) ==
  \/ Opens(c)
  \/ \E n \in Names : SendsConnect(c, n) \/ \E form \in Forms : SendsPlain(c, n, form)
  \/ \E form \in Forms : SendsLine(c, form)
  \/ SendsHeaders(c) \/ SendsBody(c) \/ Stalls(c) \/ Leaves(c)

----------------------------------------------------------------------------
(* CertificateCache and generate_certificate.                              *)

FaultyLookedUp(n) == cache

\* get(): the entry becomes the most recently used one.
LookedUp(n) == Append(Select(cache, Names \ {n}), n)

FaultyStored(n) == Append(IF Len(cache) > CacheSize THEN Tail(cache) ELSE cache, n)

\* put(), of a name that is not there: the least recently used entry goes.
Stored(n) == Append(IF Len(cache) >= CacheSize THEN Tail(cache) ELSE cache, n)

\* A certificate for n, from the cache whatever its validity.  In a cache of size
\* zero popitem finds nothing and raises.
Certifies(n) ==
  /\ IF Contains(cache, n) THEN cache' = LookedUp(n) ELSE CacheSize > 0 /\ cache' = Stored(n)
  /\ recent' = Append(Select(recent, Names \ {n}), n)

----------------------------------------------------------------------------
(* _handle_connection, _handle_connect and _handle_http.                   *)

Meets(c, kinds) == inbox[c] # <<>> /\ Head(inbox[c]).kind \in kinds

AtEnd(c) == inbox[c] = <<>> /\ client[c].gone

\* On to the next await, with the unit at hand read.
Takes(c, r) ==
  /\ conn' = [conn EXCEPT ![c] = r]
  /\ inbox' = [inbox EXCEPT ![c] = Tail(@)]
  /\ UNCHANGED client

Goes(c, r) ==
  /\ conn' = [conn EXCEPT ![c] = r]
  /\ UNCHANGED <<inbox, client>>

Closes(c) ==
  /\ conn' = [conn EXCEPT ![c] = Closed]
  /\ inbox' = [inbox EXCEPT ![c] = <<>>]
  /\ client' = [client EXCEPT ![c] = Newcomer]

Writes(c, status, r) ==
  answers' = [answers EXCEPT ![c] = Append(@, [status |-> status, line |-> r.line,
                                               headers |-> r.headers, body |-> r.body])]

Silent == UNCHANGED <<answers, spilled>>

FaultyAfterHeaders(form) == "process"

\* A body of announced length is read whatever the method, any other is not.
AfterHeaders(form) == IF form \in {"post", "large"} THEN "body" ELSE "process"

\* An allowed CONNECT is told of success before there is a certificate, any other
\* of its refusal; neither answer is one of those counted.
Connect(c) ==
  /\ conn[c].pc = "hello" /\ Meets(c, {"connect"})
  /\ LET n == Head(inbox[c]).name
     IN Takes(c, IF n \in Allowed THEN [conn[c] EXCEPT !.pc = "established", !.host = n]
                                  ELSE [conn[c] EXCEPT !.pc = "drain"])
  /\ Silent /\ UNCHANGED cacheVars

\* A plain request is read whatever its size; a length that is no number raises.
Plain(c) ==
  /\ conn[c].pc = "hello" /\ Meets(c, {"plain"})
  /\ LET u == Head(inbox[c])
         r == [conn[c] EXCEPT !.line = 1, !.headers = 1]
     IN \/ /\ u.form = "malformed"
           /\ Takes(c, [r EXCEPT !.pc = "drain"]) /\ Writes(c, 400, r)
        \/ /\ u.name \notin Allowed
           /\ Takes(c, [r EXCEPT !.pc = "drain"]) /\ Writes(c, 403, r)
        \/ /\ u.name \in Allowed
           /\ IF u.form = "malformed" THEN Closes(c)
              ELSE Takes(c, [r EXCEPT !.pc = AfterHeaders(u.form)])
           /\ UNCHANGED answers
  /\ UNCHANGED <<cacheVars, spilled>>

\* The end of drain(), once the client has made room: an allowed CONNECT goes on to
\* its certificate and, with it loaded, to the handshake; with TLS the next request
\* is read; any other connection is closed when all of it is written.
Drains(c) ==
  /\ conn[c].pc \in Writing
  /\ \/ /\ conn[c].pc = "established" /\ Certifies(conn[c].host)
        /\ Goes(c, [conn[c] EXCEPT !.pc = "handshake", !.host = None]) \/ Closes(c)
     \/ /\ conn[c].pc = "drain" /\ conn[c].tls
        /\ Goes(c, [conn[c] EXCEPT !.pc = "line"])
        /\ UNCHANGED cacheVars
     \/ /\ \/ conn[c].pc = "established" /\ ~Contains(cache, conn[c].host)
           \/ ~conn[c].tls /\ conn[c].pc = "drain"
           \/ client[c].gone
        /\ Closes(c)
        /\ UNCHANGED cacheVars
  /\ Silent

\* start_tls
Handshakes(c) ==
  /\ conn[c].pc = "handshake" /\ ~client[c].gone
  /\ Goes(c, [conn[c] EXCEPT !.pc = "line", !.tls = TRUE])
  /\ Silent /\ UNCHANGED cacheVars

\* The client has gone, or does not trust the certificate.
HandshakeFails(c) ==
  /\ conn[c].pc = "handshake"
  /\ Closes(c)
  /\ Silent /\ UNCHANGED cacheVars

----------------------------------------------------------------------------
(* _handle_tls_connection and _forward_request.                            *)

\* An unread body in the place of a request line closes the connection, or passes
\* for a line, or for a line and headers.
ReadsLine(c) ==
  /\ conn[c].pc = "line" /\ Meets(c, {"line", "body"})
  /\ LET u == Head(inbox[c])
         r == [conn[c] EXCEPT !.pc = "headers", !.line = u.number, !.headers = 0, !.body = 0]
     IN \/ Takes(c, r)
        \/ (u.form = "malformed" \/ u.kind = "body") /\ Closes(c)
        \/ u.kind = "body" /\ Takes(c, [r EXCEPT !.pc = "process", !.headers = u.number])
  /\ Silent /\ UNCHANGED cacheVars

\* _send_json_response, and on to the next request: the body stays where it is.
TooLarge(c, r) ==
  /\ Takes(c, [r EXCEPT !.pc = "drain"])
  /\ Writes(c, 413, r)

\* To the next blank line, whatever comes before it; a length that is no number
\* raises.
ReadsHeaders(c) ==
  /\ conn[c].pc = "headers" /\ Meets(c, {"line", "headers"})
  /\ LET u == Head(inbox[c])
         r == [conn[c] EXCEPT !.headers = u.number]
     IN \/ /\ u.kind = "headers" /\ u.form = "large"
           /\ TooLarge(c, r)
        \/ /\ u.kind = "line" /\ Takes(c, conn[c])
           /\ UNCHANGED answers
        \/ /\ u.kind = "headers" /\ u.form = "malformed" /\ Closes(c)
           /\ UNCHANGED answers
        \/ /\ u.kind = "headers" /\ u.form \in {"bare", "post", "chunked"}
           /\ Takes(c, [r EXCEPT !.pc = AfterHeaders(u.form)])
           /\ UNCHANGED answers
  /\ UNCHANGED <<cacheVars, spilled>>

ReadsBody(c) ==
  /\ conn[c].pc = "body" /\ Meets(c, {"body"})
  /\ Takes(c, [conn[c] EXCEPT !.pc = "process", !.body = Head(inbox[c]).number])
  /\ Silent /\ UNCHANGED cacheVars

\* The end of the stream ends the headers too, with or without a length before it;
\* elsewhere it closes the connection.
ReadsEnd(c) ==
  /\ conn[c].pc \in {"hello", "line", "headers", "body"} /\ AtEnd(c)
  /\ \/ Closes(c)
     \/ conn[c].pc = "headers" /\ Goes(c, [conn[c] EXCEPT !.pc = "process"])
  /\ Silent /\ UNCHANGED cacheVars

\* The pipeline's result is written.
Responds(c) ==
  /\ conn[c].pc = "process"
  /\ Writes(c, 200, conn[c])
  /\ Goes(c, [conn[c] EXCEPT !.pc = "drain"])
  /\ UNCHANGED <<cacheVars, spilled>>

\* The pipeline raises, or the client has gone.
Raises(c) ==
  /\ conn[c].pc = "process"
  /\ Closes(c)
  /\ Silent /\ UNCHANGED cacheVars

FaultyTimesOut(c) ==
  /\ conn[c].pc = "handshake"
  /\ Closes(c)
  /\ Silent /\ UNCHANGED cacheVars

\* Only the handshake and the read of a request line are under wait_for.
TimesOut(c) ==
  /\ conn[c].pc = "handshake" \/ (conn[c].pc = "line" /\ inbox[c] = <<>>)
  /\ Closes(c)
  /\ Silent /\ UNCHANGED cacheVars

Serve(c) ==
  \/ Connect(c) \/ Plain(c) \/ Handshakes(c) \/ HandshakeFails(c)
  \/ ReadsLine(c) \/ ReadsHeaders(c) \/ ReadsBody(c) \/ ReadsEnd(c) \/ Responds(c) \/ Raises(c)

----------------------------------------------------------------------------
Next == \E c \in Connections : Client(c) \/ Serve(c) \/ Drains(c) \/ TimesOut(c)

\* A write waits, without a timer, for a client that does not read.
Unread(c) ==
  conn[c].pc \in Writing /\ ~client[c].reads /\ ~client[c].gone

\* Reads end when there is something to read, writes when the client reads or has
\* left, timers run, and the pipeline ends.  Nothing is assumed of the clients.
Fairness ==
  \A c \in Connections :
    /\ WF_vars(Serve(c)) /\ WF_vars(TimesOut(c))
    /\ WF_vars(~Unread(c) /\ Drains(c))

Spec == Init /\ [][Next]_vars /\ Fairness

----------------------------------------------------------------------------
(* Properties.                                                             *)

Numbers == 0 .. MaxRequests + 1

ConnType ==
  [pc : {"closed", "hello", "handshake", "line", "headers", "body", "process", "drain"},
   host : {None}, tls : BOOLEAN, line : Numbers, headers : Numbers, body : Numbers]
  \cup [pc : {"established"}, host : Allowed, tls : BOOLEAN,
        line : Numbers, headers : Numbers, body : Numbers]

ClientType == [next : {"hello", "line", "headers", "body", "nothing"}, form : Forms,
               sent : Numbers, reads : BOOLEAN, gone : BOOLEAN]

UnitType == [kind : {"connect", "plain", "line", "headers", "body"}, number : Numbers,
             form : Forms, name : Names \cup {None}]

AnswerType == [status : {200, 400, 403, 413}, line : Numbers, headers : Numbers, body : Numbers]

\* The type of every variable, and the limits of what grows.
TypeOK ==
  /\ conn \in [Connections -> ConnType]
  /\ client \in [Connections -> ClientType]
  /\ inbox \in [Connections -> Seq(UnitType)]
  /\ answers \in [Connections -> Seq(AnswerType)]
  /\ cache \in Seq(Allowed) /\ Len(cache) <= CacheSize
  /\ recent \in Seq(Allowed)
  /\ spilled \in [Connections -> BOOLEAN]

\* On a connection that keeps to the framing, pipelined requests and requests too
\* large included, the i-th response answers the i-th request: its line, its headers
\* and its body, none skipped and none answered with a part of another; one cut off
\* in its headers is the last.
AnsweredInOrder ==
  \A c \in Connections : ~spilled[c] => \A i \in DOMAIN answers[c] :
    LET a == answers[c][i]
    IN /\ a.line = i
       /\ a.headers = i \/ (a.headers = 0 /\ i = Len(answers[c]))
       /\ a.body \in {0, i}

\* The certificates cached are those of the names used last, as many as fit,
\* and no name is cached twice.
RecentHostsCached ==
  LET n == Len(recent)
      kept == IF n > CacheSize THEN CacheSize ELSE n
  IN cache = SubSeq(recent, n - kept + 1, n)

\* The connection waits, without a timer, for the rest of what its client sends.
Unfinished(c) ==
  /\ conn[c].pc \in {"hello", "headers", "body"}
  /\ inbox[c] = <<>> /\ ~client[c].gone

\* A connection ends, unless its client stops in the middle of a request or before
\* its first one, or does not read what drain() waits to write: an idle one is
\* closed, and none hangs after its client has left.
QuietConnectionsEnd ==
  \A c \in Connections : []<>(conn[c].pc = "closed" \/ Unfinished(c) \/ Unread(c))
=============================================================================
