-------------------------------- MODULE Http --------------------------------
(***************************************************************************)
(* One HTTP connection from the client's bytes to the client's bytes:      *)
(* js_http.c, the buffers of js_buf.c, the router and what a script sees   *)
(* of a request (js_web.c).  Module Worker has the event loop around it.   *)
(*                                                                         *)
(* Text is a sequence of tokens: the request line, a header line, the end  *)
(* of a line, a byte of a body; each counts as one byte.  TCP may cut it   *)
(* anywhere.  A route's handler echoes what it sees of the request, all or *)
(* part of it, or throws.                                                  *)
(***************************************************************************)
EXTENDS Integers, FiniteSetsExt, Route

CONSTANTS
    Request,     \* requests clients send
    Mocks,       \* the script's calls of mock.get and so on, and for each what its handler
                 \* does: throw, or show the parameters, the body and what is in shows
    FirstCap,    \* what js_buf_append allocates first: 1024 in the code
    MaxRequests  \* bound: requests a client sends on the connection

\* The methods that have a name in jsmock.
Methods == {"GET", "POST", "PUT", "PATCH", "DELETE"}

ASSUME HttpAssumption ==
    /\ Mocks \in Seq([method  : Methods \union {"ALL"},
                      pattern : Seq([word : STRING, colon : BOOLEAN]),
                      throws  : BOOLEAN,
                      shows   : SUBSET {"method", "accept"}])
    /\ FirstCap \in Nat \ {0}
    /\ MaxRequests \in Nat

VARIABLES
    asked,       \* history: the requests the client sent
    net,         \* what of them the server has not read
    hung,        \* the client hung up
    state,       \* conn->state
    rbuf,        \* conn->rbuf
    wbuf,        \* conn->wbuf
    woff,        \* conn->woff
    keep,        \* conn->keep_alive
    deferred,    \* exec->resp of a suspended connection
    taken,       \* history: requests taken off rbuf
    out          \* what the client received

vars == <<asked, net, hung, state, rbuf, wbuf, woff, keep, deferred, taken, out>>

-----------------------------------------------------------------------------
(* Tokens.                                                                 *)

Crlf == [kind |-> "crlf"]
Byte(b) == [kind |-> "byte", of |-> b]
Start(r) == [kind |-> "start", method |-> r.method, path |-> r.path, spaces |-> r.spaces]
Header(name, word, n) == [kind |-> "header", name |-> name, word |-> word, n |-> n]
Junk == [kind |-> "junk"]                               \* a header line without a colon
Status(code) == [kind |-> "status", code |-> code]

LengthIs(n) == Header("content-length", "", n)
Accept(word) == Header("accept", word, 0)
Connection(word) == Header("connection", word, 0)

\* A line and its end, for each of the lines.
Ended(lines) == FlattenSeq([i \in DOMAIN lines |-> <<lines[i], Crlf>>])

\* What a client sends for a request.
Wire(r) == Ended(<<Start(r)>> \o r.headers) \o <<Crlf>> \o r.body

\* Where the blank line behind the head begins (memmem for "\r\n\r\n"), or 0.
HeadEnd(data) ==
    LET ends == {i \in 1 .. Len(data) - 1 : data[i] = Crlf /\ data[i + 1] = Crlf}
    IN IF ends = {} THEN 0 ELSE Min(ends)

\* The lines of the first `end` bytes, an empty one left out.
Lines(data, end) ==
    LET lines[i \in 0 .. end] == IF i = 0 THEN <<>>
                                 ELSE IF data[i] = Crlf THEN lines[i - 1]
                                 ELSE Append(lines[i - 1], data[i])
    IN lines[end]

-----------------------------------------------------------------------------
(* js_buf.c                                                                *)

NoBuf == [data |-> <<>>, cap |-> 0]

\* The capacity js_buf_append makes for `need` bytes: doubled until they fit.
DoubledOnce(cap, need) == IF cap = 0 THEN FirstCap ELSE 2 * cap          \* slip: once
Doubled(cap, need) ==
    LET double[c \in Nat] == IF c < need THEN double[2 * c] ELSE c
    IN double[IF cap = 0 THEN FirstCap ELSE 2 * cap]

BufAppend(b, s) ==
    LET need == Len(b.data) + Len(s)
    IN [data |-> b.data \o s, cap |-> IF need > b.cap THEN Doubled(b.cap, need) ELSE b.cap]

BufConsume(b, n) == [b EXCEPT !.data = IF n >= Len(@) THEN <<>> ELSE SubSeq(@, n + 1, Len(@))]

-----------------------------------------------------------------------------
(* js_http_parse_request                                                   *)

\* js_http_method_from_str
MethodFromStr(m) == IF m \in Methods THEN m ELSE "ALL"

\* Spaces in a line of a head: two in a request line as it should be, one behind
\* a header's colon.
Spaces(line) == IF line.kind = "start" THEN line.spaces ELSE IF line.kind = "header" THEN 1 ELSE 0

\* The line of the second space, which ends the path: the search for it does not
\* stop at the end of the request line.  0 if there is none.
PathEnd(lines) ==
    LET spaced == {i \in DOMAIN lines : Spaces(lines[i]) > 0}
        ends   == {i \in spaced : Spaces(lines[i]) > 1 \/ \E j \in spaced : j < i}
    IN IF ends = {} THEN 0 ELSE Min(ends)

\* The path of a request whose first line has no second space: one segment, which
\* runs on into the header lines.
Nonsense == <<Text("nonsense")>>

\* The headers, by the places of their lines: those behind the path's end, but for
\* one without a colon.
HeaderLines(lines, first) ==
    [i \in {j \in first + 1 .. Len(lines) : lines[j].kind = "header"} |-> lines[i]]

Named(headers, name) == {i \in DOMAIN headers : headers[i].name = name}

\* The length of the body: what the last Content-Length says, if it is positive.
BodyLength(headers) ==
    LET lengths == Named(headers, "content-length")
    IN IF lengths = {} THEN 0 ELSE Max({0, headers[Max(lengths)].n})

\* How much of the buffer a request takes.
TotalHead(head, body) == head                           \* slip: the body stays in the buffer
Total(head, body)     == head + body

\* -1: malformed, 0: incomplete, 1: a request.  The line after the path's end is
\* looked for before the end of the last header, so a request without headers is
\* malformed.
Parse(data) ==
    LET end     == HeadEnd(data)
        lines   == Lines(data, end)
        first   == PathEnd(lines)
        headers == HeaderLines(lines, first)
        needed  == end + 1 + BodyLength(headers)
    IN IF end = 0 THEN [rc |-> 0]
       ELSE IF first \in {0, Len(lines)} THEN [rc |-> -1]
       ELSE IF Len(data) < needed THEN [rc |-> 0]
       ELSE [rc      |-> 1,
             method  |-> IF Spaces(lines[1]) > 0 THEN MethodFromStr(lines[1].method) ELSE "ALL",
             path    |-> IF first = 1 THEN lines[1].path ELSE Nonsense,
             headers |-> headers,
             body    |-> SubSeq(data, end + 2, needed),
             size    |-> Total(end + 1, BodyLength(headers))]

\* What a client sends is a request: its lines are lines and, unless the code finds
\* it malformed, its body is as long as its last Content-Length says.
ASSUME RequestAssumption ==
    \A r \in Request :
        LET lines == <<Start(r)>> \o r.headers
            first == PathEnd(lines)
        IN /\ r.headers \in Seq(Range(r.headers) \ {Crlf})
           /\ r.body \in Seq(Range(r.body))
           /\ first \notin {0, Len(lines)} => BodyLength(HeaderLines(lines, first)) = Len(r.body)

\* js_http_process: the first Connection header decides.
KeepAlive(headers) ==
    LET conns == Named(headers, "connection")
    IN conns # {} => headers[Min(conns)].word # "close"

-----------------------------------------------------------------------------
(* js_qjs_handle_request and js_web.c                                      *)

\* What js_route_add made of the script's calls.
Routes ==
    LET routes[i \in 0 .. Len(Mocks)] ==
            IF i = 0 THEN <<>> ELSE RouteAdd(routes[i - 1], Mocks[i].method, Mocks[i].pattern)
    IN routes[Len(Mocks)]

\* js_http_method_str: what the script sees of a method it has no name for.
MethodStr(m) == IF m = "ALL" THEN "GET" ELSE m

\* js_request_get_params: of parameters with one name the last one stays.
ParamsObject(params) ==
    [name \in {params[i][1] : i \in DOMAIN params} |->
        params[Max({i \in DOMAIN params : params[i][1] = name})][2]]

\* js_headers_get: the value of the first header of the name, if there is one.  Of the
\* text it returns, the set of the values in it is kept.
HeadersGet(headers, name) ==
    LET named == Named(headers, name)
    IN IF named = {} THEN {} ELSE {headers[Min(named)].word}

\* What a handler makes of the request: js_web_new_request, the getters, and the
\* Response it returns.
Echo(route, method, params, accept, body) ==
    LET shows == Mocks[route].shows
    IN [status  |-> 201,
        headers |-> <<Header("route", "", route)>>,
        body    |-> <<[kind   |-> "echo",
                       params |-> params,
                       method |-> IF "method" \in shows THEN method ELSE "",
                       accept |-> IF "accept" \in shows THEN accept ELSE {}]>> \o body]

Plain(code, text) == [status |-> code, headers |-> <<>>, body |-> <<Byte(text)>>]
NotFound == Plain(404, "Not Found")
InternalServerError == Plain(500, "Internal Server Error")

\* The response to a request, at once or later.
HandleRequest(req) ==
    LET i == RouteMatch(Routes, req.method, req.path)
    IN IF i = 0 THEN NotFound
       ELSE IF Mocks[i].throws THEN InternalServerError
       ELSE Echo(i, MethodStr(req.method), ParamsObject(Params(Routes[i], req.path)),
                 HeadersGet(req.headers, "accept"), req.body)

\* js_http_serialize_response
SaysAlive(alive) == Connection("keep-alive")            \* slip: whatever the client asked
SaysConnection(alive) == Connection(IF alive THEN "keep-alive" ELSE "close")
Serialize(resp, alive) ==
    Ended(<<Status(resp.status)>> \o resp.headers
          \o <<LengthIs(Len(resp.body)), SaysConnection(alive)>>)
    \o <<Crlf>> \o resp.body

-----------------------------------------------------------------------------
(* The connection.                                                         *)

Init ==
    /\ asked = <<>>
    /\ net = <<>>
    /\ hung = FALSE
    /\ state = "reading"
    /\ rbuf = NoBuf
    /\ wbuf = NoBuf
    /\ woff = 0
    /\ keep = FALSE
    /\ deferred = NotFound
    /\ taken = 0
    /\ out = <<>>

\* The client sends a request; it need not wait for the replies to others.
Ask(r) ==
    /\ ~hung
    /\ Len(asked) < MaxRequests
    /\ asked' = Append(asked, r)
    /\ net' = net \o Wire(r)
    /\ UNCHANGED <<hung, state, rbuf, wbuf, woff, keep, deferred, taken, out>>

HangUp ==
    /\ ~hung
    /\ hung' = TRUE
    /\ UNCHANGED <<asked, net, state, rbuf, wbuf, woff, keep, deferred, taken, out>>

\* js_conn_close and js_conn_free
Close ==
    /\ state' = "closed"
    /\ rbuf' = NoBuf
    /\ wbuf' = NoBuf
    /\ woff' = 0
    /\ UNCHANGED <<keep, deferred, taken>>

\* The response goes into the buffer it is written from.
Respond(b, resp, alive) ==
    /\ wbuf' = BufAppend(b, Serialize(resp, alive))
    /\ state' = "writing"

\* js_http_process, with `in` in rbuf and `b` in wbuf.
Process(in, b) ==
    LET req == Parse(in.data)
    IN \/ /\ req.rc = -1
          /\ Close
       \/ /\ req.rc = 0
          /\ state' = "reading"
          /\ rbuf' = in
          /\ wbuf' = b
          /\ UNCHANGED <<keep, deferred, taken>>
       \/ /\ req.rc = 1
          /\ rbuf' = BufConsume(in, req.size)
          /\ keep' = KeepAlive(req.headers)
          /\ taken' = taken + 1
          /\ \/ /\ Respond(b, HandleRequest(req), keep')
                /\ UNCHANGED deferred
             \/ /\ state' = "pending"
                /\ deferred' = HandleRequest(req)
                /\ wbuf' = b

\* js_http_on_read: what one read takes from the socket, or the client is gone.
OnRead ==
    /\ state = "reading"
    /\ \/ \E n \in 1 .. Len(net) :
            /\ net' = SubSeq(net, n + 1, Len(net))
            /\ Process(BufAppend(rbuf, SubSeq(net, 1, n)), wbuf)
            /\ UNCHANGED woff
       \/ /\ hung
          /\ Close
          /\ UNCHANGED net
    /\ UNCHANGED <<asked, hung, out>>

\* js_pending_finish: the script of a suspended connection has settled.
PendingFinish ==
    /\ state = "pending"
    /\ Respond(wbuf, deferred, keep)
    /\ deferred' = NotFound
    /\ UNCHANGED <<asked, net, hung, rbuf, woff, keep, taken, out>>

\* What is behind the part of wbuf that was written.
Cleared(b) == [b EXCEPT !.data = <<>>]

\* js_http_on_write: a part of the response, or the rest of it and then the next
\* pipelined request or the end.
OnWrite ==
    /\ state = "writing"
    /\ \/ \E n \in 1 .. Len(wbuf.data) - woff :
            /\ out' = out \o SubSeq(wbuf.data, woff + 1, woff + n)
            /\ \/ /\ woff + n < Len(wbuf.data)
                  /\ woff' = woff + n
                  /\ UNCHANGED <<state, rbuf, wbuf, keep, deferred, taken>>
               \/ /\ woff + n = Len(wbuf.data)
                  /\ ~keep
                  /\ Close
               \/ /\ woff + n = Len(wbuf.data)
                  /\ keep
                  /\ woff' = 0
                  /\ Process(rbuf, Cleared(wbuf))
       \/ /\ hung
          /\ Close
          /\ UNCHANGED out
    /\ UNCHANGED <<asked, net, hung>>

Next == HangUp \/ OnRead \/ PendingFinish \/ OnWrite \/ \E r \in Request : Ask(r)

Spec == Init /\ [][Next]_vars

-----------------------------------------------------------------------------
(* Properties.                                                             *)

\* Every variable has its type; no more requests are parsed than were sent.
TypeOK ==
    /\ asked \in Seq(Request)
    /\ hung \in BOOLEAN
    /\ state \in {"reading", "writing", "pending", "closed"}
    /\ rbuf.cap \in Nat /\ wbuf.cap \in Nat
    /\ woff \in 0 .. Len(wbuf.data)
    /\ keep \in BOOLEAN
    /\ deferred.status \in {201, 404, 500}
    /\ taken \in 0 .. Len(asked)

\* What the server has not parsed is the requests it has not taken, from the first
\* byte of the next one: however TCP cut the input, no body is read as a head and
\* no head as a body (js_http.c:127-215).
InputAligned ==
    state # "closed" =>
        rbuf.data \o net = FlattenSeq([i \in 1 .. Len(asked) - taken |-> Wire(asked[taken + i])])

\* js_buf_append copies only into memory it has allocated, however much it is given
\* at once and whatever js_buf_consume left in the buffer (js_buf.c:9-33).
BuffersFit == \A b \in {rbuf, wbuf} : Len(b.data) <= b.cap

\* The responses a client finds in what it received, one behind the other, each by its
\* Content-Length, and no more than `most`.  Every second token of a head is a line; what
\* is in front of Content-Length and of Connection is the handler's own.
Blanks(o, i) == {j \in i .. Len(o) - 1 : o[j] = Crlf /\ o[j + 1] = Crlf}
LineAt(o, i, name) ==
    Min({j \in i .. Min(Blanks(o, i)) : o[j].kind = "header" /\ o[j].name = name})
LastOf(o, i) == Min(Blanks(o, i)) + 1 + o[LineAt(o, i, "content-length")].n
Whole(o, i) == Blanks(o, i) # {} /\ LastOf(o, i) <= Len(o)
ReplyAt(o, i) ==
    LET size == LineAt(o, i, "content-length")
        conn == LineAt(o, i, "connection")
    IN [status  |-> IF o[i].kind = "status" THEN o[i].code ELSE 0,
        headers |-> [k \in 1 .. (Min({size, conn}) - i) \div 2 - 1 |-> o[i + 2 * k]],
        alive   |-> o[conn].word # "close",
        body    |-> SubSeq(o, Min(Blanks(o, i)) + 2, LastOf(o, i))]
RepliesIn(o, most) ==
    LET after == [i \in 1 .. Len(o) + 1 |-> IF Whole(o, i) THEN LastOf(o, i) + 1 ELSE i]
        starts[k \in 0 .. most] == IF k = 0 THEN 1 ELSE after[starts[k - 1]]
    IN [k \in {j \in 1 .. most : Whole(o, starts[j - 1])} |-> ReplyAt(o, starts[k - 1])]

\* One more than the client asked for would be a response to nothing.
Replies == RepliesIn(out, Len(asked) + 1)

\* The reply to a request, from the script and the request as they were written:
\* of the calls whose pattern the path fits the first one counts, of the parameters
\* with one name the last one.  A handler has a standard Request (docs/api.md:41): its
\* method is the one the client sent, and headers.get has the values of all headers of
\* the name.
Trimmed(parts) == IF parts # <<>> /\ Last(parts) = Empty THEN Front(parts) ELSE parts
Suits(call, r) ==
    LET pattern == Trimmed(call.pattern)
        path    == Trimmed(r.path)
    IN /\ call.method \in {r.method, "ALL"}
       /\ Len(pattern) = Len(path)
       /\ \A i \in DOMAIN path : pattern[i].colon \/ pattern[i] = path[i]
AsksClose(r) == \E i \in DOMAIN r.headers : r.headers[i] = Connection("close")
Unfit(r) == r.spaces # 2 \/ r.headers = <<>>
HeadersOf(r, name) ==
    {j \in DOMAIN r.headers : r.headers[j].kind = "header" /\ r.headers[j].name = name}
Accepts(r) == {r.headers[j].word : j \in HeadersOf(r, "accept")}
Reply(r) ==
    LET suiting == {i \in DOMAIN Mocks : Suits(Mocks[i], r)}
        i       == Min(suiting)
        pattern == Mocks[i].pattern
        params  == {j \in DOMAIN Trimmed(pattern) : pattern[j].colon}
        value   == [name \in {pattern[j].word : j \in params} |->
                       r.path[Max({j \in params : pattern[j].word = name})].word]
        reply   == CASE suiting = {} -> NotFound
                     [] suiting # {} /\ Mocks[i].throws -> InternalServerError
                     [] OTHER -> Echo(i, r.method, value, Accepts(r), r.body)
    IN [status  |-> reply.status,
        headers |-> reply.headers,
        alive   |-> ~AsksClose(r),
        body    |-> reply.body]

\* Requests of which the code and Reply agree.  In a path no text begins with a colon
\* (js_route_parse takes it off).  At most one header says Connection (of several
\* js_http_process reads the first).  A handler that shows the method has one that jsmock
\* has a name for (it shows any other as GET, js_web.c:479), and one that shows a header
\* has it once (of several it shows the first, js_web.c:136-141): there the code is not
\* the standard Request of docs/api.md:41.
SaysHow(h) == h.kind = "header" /\ h.name = "connection"
Shows(r, what) == \E i \in DOMAIN Mocks : Suits(Mocks[i], r) /\ what \in Mocks[i].shows
PlainRequests ==
    \A r \in Request : ~Unfit(r) =>
        /\ r.path \in Seq([word : STRING, colon : {FALSE}])
        /\ \A i \in DOMAIN r.headers : SaysHow(r.headers[i]) =>
              /\ r.headers[i] = Connection(r.headers[i].word)
              /\ \A j \in DOMAIN r.headers : SaysHow(r.headers[j]) => j = i
        /\ Shows(r, "method") => r.method \in Methods
        /\ Shows(r, "accept") => \A i, j \in HeadersOf(r, "accept") : i = j

\* The connection is an Exchange: whatever way the input and the output are cut,
\* and whether scripts answer at once or later, the client finds the reply to its
\* n-th request as the n-th response, with a Connection header that tells what the
\* server then does.
Talk == INSTANCE Exchange WITH
    Closes <- AsksClose,
    replies <- Replies,
    open <- state # "closed"
Exchanges == Talk!Spec
=============================================================================
