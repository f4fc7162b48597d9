----------------------------- MODULE Conversions -----------------------------
(***************************************************************************)
(* The conversions at both ends of one exchange, between the Rust server   *)
(* and the Python application:                                             *)
(*                                                                         *)
(*   - the request becomes the scope the application is called with;       *)
(*   - a dictionary given to send() becomes a message, or raises;          *)
(*   - the message that starts the response becomes the head of what       *)
(*     handle() returns.                                                   *)
(*                                                                         *)
(* When these steps are taken, and which of them handle() waits for, is in *)
(* HttpResponse and WebSocketExchange.                                     *)
(*                                                                         *)
(* A text is known by its alphabet, which is what the conversions depend   *)
(* on; two plain ones tell an order from another.                          *)
(***************************************************************************)
EXTENDS Integers, Sequences, FiniteSets

CONSTANTS
    Plain,          \* Texts of visible ASCII characters
    MaxHeaders,     \* Headers of a request, items of any kind in a
                    \* dictionary's (bound)
    MaxPairs        \* Items of a dictionary that are all proper headers (bound)

\* Other texts: UTF-8 beyond ASCII; bytes that are not UTF-8 and what stands
\* for them once they were decoded; control characters; none at all.
OtherTexts == {"utf8", "latin1", "replaced", "control", ""}

ASSUME ConversionsAssumption ==
    /\ MaxHeaders \in Nat
    /\ MaxPairs \in Nat
    /\ Plain \cap OtherTexts = {}

VARIABLES
    request,        \* The request, with the kind of the exchange
    scope,          \* The scope of the application; NoScope before
    dictionary,     \* The last dictionary given to send()
    message,        \* What became of it: a message, or why it raised
    answer          \* What handle() does

vars == <<request, scope, dictionary, message, answer>>

Texts == Plain \cup OtherTexts

Header(name, value) == [name |-> name, value |-> value]

\* Sequences of at most `max` elements.
UpTo(max, S) == UNION {[1..n -> S] : n \in 0..max}

-----------------------------------------------------------------------------
(* The request and its scope. *)

\* What Node.js may have sent, in the order of the request's header map, which
\* has its names in lower case; a value may be any bytes but controls.
RequestHeaders ==
    {Header(name, value) : name \in {"accept", "sec-websocket-protocol"},
                           value \in Plain \cup {"utf8", "latin1"}}

KnownMethods == {"GET", "POST", "PUT", "DELETE", "PATCH", "HEAD", "OPTIONS",
                 "TRACE", "CONNECT"}

Request(kind, version, method, scheme, headers) ==
    [kind |-> kind, version |-> version, method |-> method, scheme |-> scheme,
     headers |-> headers]

\* One thing varies at a time: version, method, scheme, headers.
Requests ==
    UNION {
        {Request(k, v, "GET", "none", <<>>) :
            v \in {"0.9", "1.0", "1.1", "2", "3"}}
        \cup {Request(k, "1.1", m, "none", <<>>) :
                 m \in KnownMethods \cup {"PURGE"}}
        \cup {Request(k, "1.1", "GET", s, <<>>) :
                 s \in {"http", "https", "ws", "wss"}}
        \cup {Request(k, "1.1", "GET", "none", h) :
                 h \in UpTo(MaxHeaders, RequestHeaders)}
        : k \in {"http", "websocket"}}

\* HTTP/3 is given out as HTTP/2, a version before 1.0 as 1.1.
HttpVersion(version) ==
    CASE version = "1.0" -> "1.0"
      [] version \in {"2", "3"} -> "2.0"
      [] OTHER -> "1.1"

\* HeaderValue::to_str: visible ASCII only.
ToStr(value) == IF value \in Plain THEN value ELSE ""

\* Faulty variant: a value that is no string takes its header with it.
HeadersThatAreText(headers) ==
    SelectSeq(headers, LAMBDA header : header.value \in Plain)

ScopeHeaders(headers) ==
    [i \in 1..Len(headers) |->
        Header(headers[i].name, ToStr(headers[i].value))]

HttpScheme(scheme) == IF scheme = "none" THEN "http" ELSE scheme

WebSocketScheme(scheme) == IF scheme \in {"https", "wss"} THEN "wss" ELSE "ws"

\* The first Sec-WebSocket-Protocol header, split at its commas (a plain value
\* stands for one protocol); a second one is not looked at.
Subprotocols(headers) ==
    LET offers == SelectSeq(headers,
                            LAMBDA h : h.name = "sec-websocket-protocol") IN
    IF offers = <<>> \/ offers[1].value \notin Plain THEN <<>>
    ELSE <<offers[1].value>>

NoScope == [type |-> "none"]
NoMessage == [type |-> "none"]

Error == [outcome |-> "error"]
Response(status, headers) ==
    [outcome |-> "response", status |-> status, headers |-> headers]

HttpConnectionScope(req) ==
    [type |-> "http",
     http_version |-> HttpVersion(req.version),
     method |-> req.method,
     scheme |-> HttpScheme(req.scheme),
     headers |-> ScopeHeaders(req.headers)]

WebSocketConnectionScope(req) ==
    [type |-> "websocket",
     http_version |-> HttpVersion(req.version),
     scheme |-> WebSocketScheme(req.scheme),
     headers |-> ScopeHeaders(req.headers),
     subprotocols |-> Subprotocols(req.headers)]

Init ==
    /\ request \in Requests
    /\ scope = NoScope
    /\ dictionary = NoMessage
    /\ message = NoMessage
    /\ answer = [outcome |-> "none"]

\* handle() converts the request first: an HTTP method the table does not have
\* is an error, and the application is not called.
CallApplication ==
    /\ scope = NoScope
    /\ answer.outcome = "none"
    /\ IF request.kind = "http" /\ request.method \notin KnownMethods
          THEN /\ answer' = Error
               /\ scope' = scope
          ELSE /\ scope' = IF request.kind = "http"
                              THEN HttpConnectionScope(request)
                              ELSE WebSocketConnectionScope(request)
               /\ answer' = answer
    /\ UNCHANGED <<request, dictionary, message>>

-----------------------------------------------------------------------------
(* Dictionaries of the application and their messages. *)

\* A header in a dictionary: a container of two, or of three, Python values.
Item(container, length, type, name, value) ==
    [container |-> container, length |-> length, type |-> type,
     name |-> name, value |-> value]

Items ==
    {Item(c, 2, t, "accept", v) :
        c \in {"list", "tuple"}, t \in {"bytes", "str"}, v \in Plain}
    \cup {Item("list", 2, "bytes", "accept", v) :
             v \in {"utf8", "latin1", "control"}}
    \cup {Item("list", 2, "bytes", "bad name", ""),
          Item("list", 3, "str", "accept", ""),
          Item("list", 2, "int", "accept", "")}

\* Proper headers, and two names that are one to HTTP.
Pairs ==
    {Item("list", 2, "bytes", n, v) : n \in {"accept", "Accept", "date"}, v \in Plain}

\* A dictionary, with the fields that decide what becomes of it. `headers` is
\* the container of the items; a status of -1 is a missing one; `fields` is
\* the rest that is given.
Dictionary(type, status, headers, items, fields) ==
    [type |-> type, status |-> status, headers |-> headers, items |-> items,
     fields |-> fields]

Plainly(type, fields) == Dictionary(type, -1, "missing", <<>>, fields)

Dictionaries ==
    {Dictionary("http.response.start", st, "list", <<>>, {}) :
        st \in {-1, 99, 100, 999, 1000, 65536}}
    \cup {Dictionary(t, 200, c, items, {}) :
             t \in {"http.response.start", "websocket.accept"},
             c \in {"list", "tuple"}, items \in UpTo(MaxHeaders, Items)}
    \cup {Dictionary("http.response.start", 200, "list", items, {}) :
             items \in UpTo(MaxPairs, Pairs)}
    \cup {Dictionary(t, 200, "missing", <<>>, {}) :
             t \in {"http.response.start", "websocket.accept"}}
    \cup {Plainly(t, f) :
             t \in {"http.response.body", "websocket.send", "websocket.close"},
             f \in {{}, {"bytes"}, {"text"}}}
    \cup {Plainly(t, {}) : t \in {"missing", "http.response.trailers"}}

Raised == [type |-> "raised"]

\* String::from_utf8_lossy, for bytes; a str is taken as it is.
FromUtf8Lossy(text) == IF text = "latin1" THEN "replaced" ELSE text

\* What response.start takes for a header: a list of two.
IsPair(item) == item.container = "list" /\ item.length = 2

Decoded(item) == Header(item.name, FromUtf8Lossy(item.value))

\* What response.start makes of the items of a list, one after the other: what
\* is no pair is dropped.
StartHeaders(items) ==
    LET found[n \in 0..Len(items)] ==
            IF n = 0 THEN <<>>
            ELSE IF IsPair(items[n]) THEN Append(found[n-1], Decoded(items[n]))
            ELSE found[n-1]
    IN  found[Len(items)]

\* A header that is neither bytes nor str raises.
StartItemRaises(item) == IsPair(item) /\ item.type = "int"

\* Headers that are not a list are taken for none; missing ones raise.
StartMessage(d) ==
    IF \/ d.status \notin 0..65535
       \/ d.headers = "missing"
       \/ /\ d.headers = "list"
          /\ \E i \in 1..Len(d.items) : StartItemRaises(d.items[i])
    THEN Raised
    ELSE [type |-> "start", status |-> d.status,
          headers |-> IF d.headers = "list" THEN StartHeaders(d.items)
                      ELSE <<>>]

\* A body is optional, and bytes; str raises.
BodyMessage(d) == IF "text" \in d.fields THEN Raised ELSE [type |-> "body"]

HttpSendMessage(d) ==
    CASE d.type = "http.response.start" -> StartMessage(d)
      [] d.type = "http.response.body" -> BodyMessage(d)
      [] OTHER -> Raised

\* websocket.accept takes any sequence of items, but only tuples of two str.
AcceptItemRaises(item) ==
    item.container # "tuple" \/ item.length # 2 \/ item.type # "str"

AcceptMessage(d) ==
    IF \E i \in 1..Len(d.items) : AcceptItemRaises(d.items[i]) THEN Raised
    ELSE [type |-> "accept",
          headers |-> [i \in 1..Len(d.items) |->
                          Header(d.items[i].name, d.items[i].value)]]

WebSocketSendMessage(d) ==
    CASE d.type = "websocket.accept" -> AcceptMessage(d)
      [] d.type = "websocket.send" ->
            IF d.fields = {} THEN Raised ELSE [type |-> "send"]
      [] d.type = "websocket.close" -> [type |-> "close"]
      [] OTHER -> Raised

\* The application's first send(). What raises is not queued.
Send(d) ==
    /\ scope # NoScope
    /\ message = NoMessage
    /\ dictionary' = d
    /\ message' = IF request.kind = "http" THEN HttpSendMessage(d)
                  ELSE WebSocketSendMessage(d)
    /\ UNCHANGED <<request, scope, answer>>

-----------------------------------------------------------------------------
(* The head of the response. *)

\* response::Builder: a status of three digits, names and values HTTP allows.
Builds(status, headers) ==
    /\ status \in 100..999
    /\ \A i \in 1..Len(headers) :
          headers[i].name # "bad name" /\ headers[i].value # "control"

\* A header name, which the builder's HeaderMap has in lower case.
HeaderName(name) == IF name = "Accept" THEN "accept" ELSE name

\* A HeaderMap: the values of each name, in order; it keeps no order of names.
FieldNames == {"accept", "date"}

NoHeaders == [field \in FieldNames |-> <<>>]

\* Faulty variant: a header takes the place of those of its name.
Inserted(map, header) ==
    [map EXCEPT ![HeaderName(header.name)] = <<header.value>>]

\* Builder::header adds the value to those of its name.
Appended(map, header) ==
    [map EXCEPT ![HeaderName(header.name)] = Append(@, header.value)]

HeaderMap(headers) ==
    LET built[n \in 0..Len(headers)] ==
            IF n = 0 THEN NoHeaders ELSE Appended(built[n-1], headers[n])
    IN  built[Len(headers)]

AnswerHttp ==
    /\ answer.outcome = "none"
    /\ message.type = "start"
    /\ answer' = IF Builds(message.status, message.headers)
                    THEN Response(message.status, HeaderMap(message.headers))
                    ELSE Error
    /\ UNCHANGED <<request, scope, dictionary, message>>

\* The subprotocol and the headers of an accept are not looked at.
AnswerWebSocket ==
    /\ answer.outcome = "none"
    /\ request.kind = "websocket"
    /\ message.type \in {"accept", "send", "close"}
    /\ answer' = IF message.type = "accept" THEN Response(101, NoHeaders) ELSE Error
    /\ UNCHANGED <<request, scope, dictionary, message>>

-----------------------------------------------------------------------------

Next ==
    \/ CallApplication
    \/ \E d \in Dictionaries : Send(d)
    \/ AnswerHttp
    \/ AnswerWebSocket

Spec == Init /\ [][Next]_vars

-----------------------------------------------------------------------------
(* Correctness. *)

\* The application sees every header of the request, duplicates too, in their
\* order, with its value; where that is not visible ASCII, with an empty one.
ScopeKeepsHeaders ==
    scope # NoScope =>
        /\ Len(scope.headers) = Len(request.headers)
        /\ \A i \in 1..Len(request.headers) :
              LET given == request.headers[i]
                  seen == scope.headers[i]
              IN  /\ seen.name = given.name
                  /\ given.value \in Plain => seen.value = given.value
                  /\ given.value \notin Plain => seen.value = ""

\* The items up to n whose name is `field`, however it is written.
ItemsOf(items, field, n) == {i \in 1..n : HeaderName(items[i].name) = field}

\* The text of the client is that of the application, unless bytes that are
\* not UTF-8 had to be replaced.
SameText(given, got) == got = IF given = "latin1" THEN "replaced" ELSE given

\* Each name has as many values as there are items of that name, and the k-th
\* item of a name is the k-th of its values.
HasItems(map, items, n) ==
    \A field \in FieldNames :
        /\ Len(map[field]) = Cardinality(ItemsOf(items, field, n))
        /\ \A i \in ItemsOf(items, field, n) :
              SameText(items[i].value,
                       map[field][Cardinality(ItemsOf(items, field, i))])

\* The head that handle() returns is the one the application gave: the status
\* is its own and one HTTP has, and headers given as a list of lists of two
\* texts are all there, once, those of one name in their order.
HeadIsAsGiven ==
    answer.outcome = "response" /\ request.kind = "http" =>
        /\ answer.status = dictionary.status
        /\ answer.status \in 100..999
        /\ /\ dictionary.headers = "list"
           /\ \A i \in 1..Len(dictionary.items) : IsPair(dictionary.items[i])
           => HasItems(answer.headers, dictionary.items, Len(dictionary.items))

=============================================================================
