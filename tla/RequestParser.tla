--------------------------- MODULE RequestParser ---------------------------
(***************************************************************************)
(* The request parser of a client connection: parse_request_line and       *)
(* parse_uri (http/http_request.c, http/http.c), what request_process_uri  *)
(* does with the result, and the loop of http_parse_headers over           *)
(* parse_header (http/header.c).                                           *)
(*                                                                         *)
(* A byte is an item: a character that some switch of the parsers tells    *)
(* apart, or a word that takes the place of its letters.  A position is an *)
(* index of the receive buffer, and NULL is 0.  One step is one iteration  *)
(* of a parser's loop: the parsers keep nothing outside the request, so    *)
(* bytes that come together and bytes that come alone make the same steps. *)
(***************************************************************************)
EXTENDS Integers, SequencesExt

CONSTANTS Limit,     \* items the receive buffer holds
          MaxExtra,  \* bound: items of a URI beyond one in each of its parts
          Locations  \* the paths that are passed on to a backend

ASSUME BoundsAssumption == {Limit, MaxExtra} \subseteq Nat \ {0}

VARIABLES sent, \* what the client has sent since the last request
          buf,  \* recv_buffer, which the parsers and the handlers write to
          r,    \* the request
          out   \* how the callback has left it

vars == <<sent, buf, r, out>>

CR == "CR"
LF == "LF"
NUL == "NUL"

Letter == {"a", "H", "T", "P"}
Digit == {"1"}
InScheme == Letter \cup Digit \cup {"."}
(* Mutant: no dot in a host.                                               *)
InHost_NoDots == Letter \cup Digit
InHost == Letter \cup Digit \cup {"."}
InPath == Letter \cup Digit \cup {":"}
InQuery == InPath \cup {".", "/", "?"}

(* Words of headers.  parse_header writes names in lower case.             *)
Words == {"connection", "Cookie", "cookie", "keep-alive", "close"}
Lower(x) == IF x = "Cookie" THEN "cookie" ELSE x

NoSpan == [c |-> 0, len |-> 0]
Text(s, span) == SubSeq(s, span.c, span.c + span.len - 1)

(* The states of parse_uri in which a field is being read.                 *)
Field == [URI_SCHEME |-> "scheme", URI_HOST |-> "host", URI_PORT |-> "port",
          URI_ABS_PATH |-> "abs_path", URI_EXTENSION |-> "extension",
          URI_QUERY |-> "query"]

ZeroUri == [state |-> "URI_BEGIN", scheme |-> NoSpan, host |-> NoSpan,
            port |-> NoSpan, abs_path |-> NoSpan, extension |-> NoSpan,
            query |-> NoSpan]

ZeroReq == [state |-> "RQ_BEGIN", uri |-> ZeroUri, major |-> 0, minor |-> 0,
            line |-> NoSpan, resource |-> FALSE, keep_alive |-> FALSE,
            header_name |-> NoSpan, header_value |-> NoSpan,
            headers |-> [connection |-> NoSpan, cookie |-> NoSpan]]

-----------------------------------------------------------------------------
(* parse_uri, for the item x at position p.  It returns the URIs it may    *)
(* leave behind: none when it returns ERROR.                               *)

(* The states up to the path.                                              *)
AuthorityStep(s, x) ==
  CASE s = "URI_BEGIN" /\ x = "/" -> {"URI_SLASH_BEFORE_ABS_PATH"}
    [] s = "URI_BEGIN" /\ x \in Letter -> {"URI_SCHEME"}
    [] s = "URI_SCHEME" /\ x \in InScheme -> {s}
    [] s = "URI_SCHEME" /\ x = ":" -> {"URI_SCHEME_COLON"}
    [] s = "URI_SCHEME_COLON" /\ x = "/" -> {"URI_SLASH_AFTER_SCHECME"}
    [] s = "URI_SLASH_AFTER_SCHECME" /\ x = "/" ->
         {"URI_SLASH_SLASH_AFTER_SCHECME"}
    [] s = "URI_SLASH_SLASH_AFTER_SCHECME" /\ x \in Letter \cup Digit ->
         {"URI_HOST"}
    [] s = "URI_HOST" /\ x \in InHost -> {s}
    [] s = "URI_HOST" /\ x = ":" -> {"URI_PORT"}
    [] s = "URI_PORT" /\ x \in Digit -> {s}
    [] s \in {"URI_HOST", "URI_PORT"} /\ x = "/" ->
         {"URI_SLASH_BEFORE_ABS_PATH"}
    [] OTHER -> {}

(* The path and what follows it.  In URI_ABS_PATH an item that no case     *)
(* names is passed over.                                                   *)
PathStep(s, x) ==
  CASE s = "URI_SLASH_BEFORE_ABS_PATH" /\ x \in InPath -> {"URI_ABS_PATH"}
    [] s = "URI_ABS_PATH" /\ x \notin {".", "?"} -> {s}
    [] s = "URI_ABS_PATH" /\ x = "." -> {"URI_BEFORE_EXTENSION"}
    [] s \in {"URI_ABS_PATH", "URI_EXTENSION"} /\ x = "?" -> {"URI_BEFORE_QUERY"}
    [] s \in {"URI_BEFORE_EXTENSION", "URI_EXTENSION"} /\ x \in Letter ->
         {"URI_EXTENSION"}
    [] s \in {"URI_BEFORE_QUERY", "URI_QUERY"} /\ x \in InQuery -> {"URI_QUERY"}
    [] OTHER -> {}

(* The field being read ends before p.  A port was opened at its colon.    *)
Closed(u, p) ==
  LET f == Field[u.state]
      c == IF f = "port" THEN u[f].c + 1 ELSE u[f].c
  IN  [u EXCEPT ![f] = [c |-> c, len |-> p - c]]

(* Moving to state t at p on x closes one field and opens the next, but a  *)
(* path that meets its query keeps the length 0.                           *)
Moved(u, t, x, p) ==
  LET leaves == u.state \in DOMAIN Field /\ t # u.state
                /\ ~(u.state = "URI_ABS_PATH" /\ x = "?")
      v == IF leaves THEN Closed(u, p) ELSE u
      w == IF t \in DOMAIN Field /\ t # u.state
           THEN [v EXCEPT ![Field[t]].c = p] ELSE v
  IN  [w EXCEPT !.state = t]

ParseUri(u, x, p) ==
  {Moved(u, t, x, p) : t \in AuthorityStep(u.state, x) \cup PathStep(u.state, x)}

-----------------------------------------------------------------------------
(* parse_request_line, for the item x at position p: the requests it may   *)
(* leave behind, none when it returns INVALID_REQUEST or ERROR.            *)

(* parse_request_method.                                                   *)
ParseRequestMethod(word) ==
  IF word = <<"GET">> THEN "M_GET" ELSE "M_INVALID_METHOD"

MethodStep(q, x, p) ==
  CASE q.state = "RQ_BEGIN" /\ x \in {"GET", "H", "T", "P"} ->
         {[q EXCEPT !.state = "RQ_METHOD", !.line.c = p]}
    [] q.state = "RQ_METHOD" /\ x # " " -> {q}
    [] q.state = "RQ_METHOD" /\ x = " "
         /\ ParseRequestMethod(SubSeq(sent, q.line.c, p - 1)) = "M_GET" ->
         {[q EXCEPT !.state = "RQ_BEFORE_URI"]}
    [] OTHER -> {}

(* A space ends the URI in whatever state it is: ABORT_ON(0, ...) is void. *)
UriPart(q, x, p) ==
  CASE q.state \in {"RQ_BEFORE_URI", "RQ_URI"} /\ x \notin {" ", CR, LF} ->
         {[q EXCEPT !.state = "RQ_URI", !.uri = u] : u \in ParseUri(q.uri, x, p)}
    [] q.state = "RQ_BEFORE_URI" /\ x = " " -> {q}
    [] q.state = "RQ_URI" /\ x = " " ->
         {[q EXCEPT !.state = "RQ_BEFORE_VERSION",
                    !.uri = IF @.state \in DOMAIN Field \ {"URI_SCHEME"}
                            THEN Closed(@, p) ELSE @]}
    [] OTHER -> {}

(* The letters of "HTTP/", each with the state it leads to.                *)
Expected == [RQ_BEFORE_VERSION |-> <<"H", "RQ_VERSION_H">>,
             RQ_VERSION_H |-> <<"T", "RQ_VERSION_HT">>,
             RQ_VERSION_HT |-> <<"T", "RQ_VERSION_HTT">>,
             RQ_VERSION_HTT |-> <<"P", "RQ_VERSION_HTTP">>,
             RQ_VERSION_HTTP |-> <<"/", "RQ_VERSION_SLASH">>]

(* RETURN_ERR_ON(r->version.minor > 100, INVALID_REQUEST).                 *)
MaxVersion == 100

(* One digit of major, one item that is no digit, any digits of minor.     *)
VersionPart(q, x, p) ==
  CASE q.state = "RQ_BEFORE_VERSION" /\ x = " " -> {q}
    [] q.state \in DOMAIN Expected /\ x = Expected[q.state][1] ->
         {[q EXCEPT !.state = Expected[q.state][2]]}
    [] q.state = "RQ_VERSION_SLASH" /\ x \in Digit ->
         {[q EXCEPT !.state = "RQ_VERSION_DOT", !.major = @ * 10 + 1]}
    [] q.state = "RQ_VERSION_DOT" /\ x \notin Digit ->
         {[q EXCEPT !.state = "RQ_VERSION_MINOR"]}
    [] q.state = "RQ_VERSION_MINOR" /\ x \in Digit
         /\ q.minor * 10 + 1 <= MaxVersion ->
         {[q EXCEPT !.minor = @ * 10 + 1]}
    [] q.state \in {"RQ_VERSION_MINOR", "RQ_AFTER_VERSION"} /\ x = " " ->
         {[q EXCEPT !.state = "RQ_AFTER_VERSION"]}
    [] q.state \in {"RQ_VERSION_MINOR", "RQ_AFTER_VERSION"} /\ x = CR ->
         {[q EXCEPT !.state = "RQ_ALMOST_DONE"]}
    [] q.state = "RQ_ALMOST_DONE" /\ x = LF ->
         {[q EXCEPT !.state = "RQ_DONE", !.line.len = p - q.line.c]}
    [] OTHER -> {}

(* The states in which parse_request_line is called.                       *)
LineStates == DOMAIN Expected \cup
  {"RQ_BEGIN", "RQ_METHOD", "RQ_BEFORE_URI", "RQ_URI", "RQ_VERSION_SLASH",
   "RQ_VERSION_DOT", "RQ_VERSION_MINOR", "RQ_AFTER_VERSION", "RQ_ALMOST_DONE"}

ParseRequestLine(q, x, p) ==
  MethodStep(q, x, p) \cup UriPart(q, x, p) \cup VersionPart(q, x, p)

-----------------------------------------------------------------------------
(* parse_header, for the item x at position p.  The state "done" is a      *)
(* return of OK; no request is left behind by a return of ERROR.           *)

HeaderStates == {"HD_BEGIN", "HD_NAME", "HD_COLON", "HD_BEFORE_VALUE",
                 "HD_VALUE", "HD_ALMOST_DONE", "ERROR"}

(* Mutant: the name of the last header line is kept.                       *)
Fresh_KeepsName(q) ==
  IF q.state = "HD_BEGIN" THEN [q EXCEPT !.header_value = NoSpan] ELSE q

(* HD_BEGIN starts with stringInit of both strings.                        *)
Fresh(q) ==
  IF q.state = "HD_BEGIN"
  THEN [q EXCEPT !.header_name = NoSpan, !.header_value = NoSpan] ELSE q

NameStep(q, x, p) ==
  CASE q.state = "HD_BEGIN" /\ x \in Words ->
         {[q EXCEPT !.state = "HD_NAME", !.header_name.c = p]}
    [] q.state = "HD_BEGIN" /\ x = " " -> {q}
    [] q.state = "HD_BEGIN" /\ x = LF -> {[q EXCEPT !.state = "done"]}
    [] q.state = "HD_NAME" /\ x \in Words -> {q}
    [] q.state = "HD_NAME" /\ x = ":" ->
         {[q EXCEPT !.state = "HD_COLON",
                    !.header_name.len = p - q.header_name.c]}
    [] q.state = "HD_NAME" /\ x = " " -> {[q EXCEPT !.state = "ERROR"]}
    [] q.state \in {"HD_BEGIN", "HD_NAME"} /\ x = CR ->
         {[q EXCEPT !.state = "HD_ALMOST_DONE"]}
    [] OTHER -> {}

(* After the colon any item but a space starts the value, a line end too.  *)
ValueStep(q, x, p) ==
  CASE q.state \in {"HD_COLON", "HD_BEFORE_VALUE"} /\ x = " " ->
         {[q EXCEPT !.state = "HD_BEFORE_VALUE"]}
    [] q.state \in {"HD_COLON", "HD_BEFORE_VALUE"} /\ x # " " ->
         {[q EXCEPT !.state = "HD_VALUE", !.header_value.c = p]}
    [] q.state = "HD_VALUE" /\ x \notin {CR, LF} -> {q}
    [] q.state = "HD_VALUE" /\ x \in {CR, LF} ->
         {[q EXCEPT !.header_value.len = p - q.header_value.c,
                    !.state = IF x = CR THEN "HD_ALMOST_DONE" ELSE "done"]}
    [] q.state = "HD_ALMOST_DONE" /\ x = LF -> {[q EXCEPT !.state = "done"]}
    [] OTHER -> {}

ParseHeader(q, x, p) ==
  NameStep(Fresh(q), x, p) \cup ValueStep(Fresh(q), x, p)

(* The bytes of a name are written back in lower case.                     *)
Written(q, x) == IF q.state \in {"HD_BEGIN", "HD_NAME"} THEN Lower(x) ELSE x

-----------------------------------------------------------------------------
(* The callbacks.  While out is "AGAIN" the client may send one more item. *)

Pos == Len(buf) + 1

(* Init: http_init_request has made a request of zeroes.                   *)
Init ==
  /\ sent = <<>>
  /\ buf = <<>>
  /\ r = ZeroReq
  /\ out = "AGAIN"

(* Bounds on what the client sends.  A line whose URI is not the plain one *)
(* ends in the usual way, and headers come only after a plain line.        *)
Plain == <<"GET", " ", "/", "a", " ">>
Tail11 == <<"H", "T", "T", "P", "/", "1", ".", "1", CR, LF>>
UriItems == {"a", "1", ".", "/", ":", "?", "#", " ", CR}
VersionItems == {"H", "T", "P", "/", "1", ".", " ", CR, LF}
NameItems == {"connection", "Cookie", ":", " ", CR, LF}
ValueItems == {"keep-alive", "close", ":", " ", CR, LF}

Items == {"GET"} \cup UriItems \cup VersionItems \cup NameItems \cup ValueItems

Spaces == Len(sent) - SelectLastInSeq(sent, LAMBDA x : x # " ")

(* The first position of s at or after i that holds an item of S, or the   *)
(* position behind s.                                                      *)
First(s, i, S) == Min({j \in i..Len(s) : s[j] \in S} \cup {Len(s) + 1})

(* Where the URI starts, in a line with a method of one word.               *)
UriStart == First(sent, 2, Items \ {" "})

(* Items of the URI so far beyond the first one of each part, and spaces   *)
(* before it beyond the first one.                                         *)
Extra ==
  LET u == r.uri
      len(f) == IF r.state = "RQ_URI" /\ u.state \in DOMAIN Field
                     /\ Field[u.state] = f
                THEN Len(sent) + 1 - u[f].c ELSE u[f].len
  IN  UriStart - 3
        + MapThenSumSet(LAMBDA f : IF len(f) > 1 THEN len(f) - 1 ELSE 0,
                        Range(Field))

PastUri ==
  LineStates \ {"RQ_BEGIN", "RQ_METHOD", "RQ_BEFORE_URI", "RQ_URI"}

Offered ==
  CASE r.state \in {"RQ_BEGIN", "RQ_METHOD"} ->
         {"GET", "a", " "}
    [] r.state \in {"RQ_BEFORE_URI", "RQ_URI"} ->
         UriItems
    [] r.state \in PastUri ->
         IF IsPrefix(Plain, sent) THEN VersionItems
         ELSE {Tail11[Len(sent) - SelectLastInSeq(sent, LAMBDA x : x = " ") + 1]}
    [] r.state \in HeaderStates ->
         IF SubSeq(sent, 1, r.line.c + r.line.len)
              \in {Plain \o Tail11, Plain \o RemoveAt(Tail11, 8)}
         THEN IF r.state \in {"HD_BEGIN", "HD_NAME"} THEN NameItems ELSE ValueItems
         ELSE {}

Bounded(x) ==
  /\ x = " " /\ Spaces > 0 =>
       /\ Spaces <= MaxExtra
       /\ \/ r.state = "RQ_BEFORE_URI"
          \/ r.state \in LineStates /\ IsPrefix(Plain, sent)
  /\ r.state = "RQ_METHOD" /\ x # " " => Len(sent) <= MaxExtra
  /\ r.state = "RQ_URI" /\ x \notin {" ", CR} => Extra <= MaxExtra
  /\ r.state = "HD_NAME" /\ x \in Words =>
       Len(sent) - r.header_name.c < MaxExtra
  /\ r.state = "HD_VALUE" /\ x \notin {CR, LF} =>
       Len(sent) - r.header_value.c < MaxExtra

Sends(x) ==
  /\ out = "AGAIN"
  /\ Len(buf) < Limit
  /\ sent' = Append(sent, x)

(* ngx_http_process_request_line with a line that goes on.  A line that    *)
(* does not end within recv_buffer stops the process.                      *)
LineMore(x) ==
  /\ r.state \in LineStates
  /\ Sends(x)
  /\ buf' = Append(buf, x)
  /\ \E q \in ParseRequestLine(r, x, Pos) : q.state # "RQ_DONE" /\ r' = q
  /\ out' = IF Pos = Limit THEN "abort" ELSE "AGAIN"

(* A line that is refused: construct_err(req, req->connection, 400).       *)
LineBad(x) ==
  /\ r.state \in LineStates
  /\ Sends(x)
  /\ buf' = Append(buf, x)
  /\ ParseRequestLine(r, x, Pos) = {}
  /\ out' = "400"
  /\ UNCHANGED r

(* Mutant: the dot before the extension is not counted.                    *)
PathEnd_NoDot(u) == u.abs_path.c + u.abs_path.len + u.extension.len

(* process_abs_path: where the name of the file is cut off.                *)
PathEnd(u) ==
  u.abs_path.c + u.abs_path.len
    + (IF u.extension.c # 0 THEN u.extension.len + 1 ELSE 0)

(* The file name that openat is given, "./" when there is no path.         *)
RealPath(b, u) ==
  IF u.abs_path.c = 0 THEN <<".", "/">>
  ELSE SubSeq(b, u.abs_path.c,
              u.abs_path.c
                + SelectInSeq(SubSeq(b, u.abs_path.c, Len(b)),
                              LAMBDA x : x = NUL) - 2)

(* HTTP/1.1 keeps the connection.                                          *)
Headers(q) == [q EXCEPT !.state = "HD_BEGIN", !.keep_alive = q.minor = 1]

(* The end of the line, and request_process_uri: a location of the         *)
(* configuration is passed on.                                             *)
LineForward(x) ==
  /\ r.state = "RQ_ALMOST_DONE"
  /\ Sends(x)
  /\ Text(buf, r.uri.abs_path) \in Locations
  /\ \E q \in ParseRequestLine(r, x, Pos) : r' = Headers(q)
  /\ buf' = Append(buf, x)
  /\ UNCHANGED out

(* Anything else is a file, which is there or not; no file has the name    *)
(* of no bytes.                                                            *)
LineFile(x) ==
  /\ r.state = "RQ_ALMOST_DONE"
  /\ Sends(x)
  /\ Text(buf, r.uri.abs_path) \notin Locations
  /\ buf' = IF r.uri.abs_path.c = 0 THEN Append(buf, x)
            ELSE [Append(buf, x) EXCEPT ![PathEnd(r.uri)] = NUL]
  /\ \E q \in ParseRequestLine(r, x, Pos) :
       \/ /\ RealPath(buf', r.uri) # <<>>
          /\ r' = Headers([q EXCEPT !.resource = TRUE])
          /\ out' = "AGAIN"
       \/ /\ r' = [q EXCEPT !.state = "HD_BEGIN"]
          /\ out' = "404"

(* http_parse_headers with a header line that goes on.                     *)
HeaderMore(x) ==
  /\ r.state \in HeaderStates
  /\ Sends(x)
  /\ \E q \in ParseHeader(r, x, Pos) : q.state # "done" /\ r' = q
  /\ buf' = Append(buf, Written(r, x))
  /\ UNCHANGED out

(* Mutant: the string is ended one byte too late.                          *)
NameEnd_Next(name) == name.c + name.len + 1

(* The byte behind a name: *(req->header_name.c + req->header_name.len).   *)
NameEnd(name) == name.c + name.len

(* header_handle_connection and header_handle_generic: what a header line  *)
(* with this name and this value does to the request.                      *)
Handled(q, b) ==
  LET name == Text(b, q.header_name)
      first == b[q.header_value.c]
      v == [q EXCEPT !.state = "HD_BEGIN"]
      w == [v EXCEPT !.headers.connection = q.header_value]
  IN  CASE name = <<"cookie">> ->
             [req |-> [v EXCEPT !.headers.cookie = q.header_value],
              rc |-> "AGAIN"]
        [] name = <<"connection">> /\ first = "keep-alive" ->
             [req |-> [w EXCEPT !.keep_alive = TRUE], rc |-> "AGAIN"]
        [] name = <<"connection">> /\ first = "close" ->
             [req |-> [w EXCEPT !.keep_alive = FALSE], rc |-> "AGAIN"]
        [] name = <<"connection">> /\ first \notin {"keep-alive", "close"} ->
             [req |-> [w EXCEPT !.keep_alive = FALSE], rc |-> "400"]
        [] OTHER -> [req |-> v, rc |-> "AGAIN"]

(* The end of a header line.  Its name is made a string of its own by a    *)
(* NUL in recv_buffer, over the colon or, when the line has no colon, over *)
(* the first byte of the name.                                             *)
HeaderLine(x) ==
  /\ r.state \in HeaderStates
  /\ Sends(x)
  /\ \E q \in ParseHeader(r, x, Pos) :
       /\ q.state = "done"
       /\ q.header_name.c # 0
       /\ LET b == Append(buf, x)
          IN  /\ r' = Handled(q, b).req
              /\ out' = Handled(q, b).rc
              /\ buf' = [b EXCEPT ![NameEnd(q.header_name)] = NUL]

(* The empty line: request_handle_body takes over.                         *)
HeaderEnd(x) ==
  /\ r.state \in HeaderStates
  /\ Sends(x)
  /\ \E q \in ParseHeader(r, x, Pos) :
       /\ q.state = "done"
       /\ q.header_name.c = 0
       /\ r' = [q EXCEPT !.state = "HD_BEGIN"]
  /\ buf' = Append(buf, x)
  /\ out' = "handled"

(* A header line that is refused closes the connection.  The name is ended *)
(* for the log first: without a name that is a write through NULL.         *)
HeaderBad(x) ==
  /\ r.state \in HeaderStates
  /\ Sends(x)
  /\ ParseHeader(r, x, Pos) = {}
  /\ buf' = Append(buf, x)
  /\ out' = IF Fresh(r).header_name.c = 0 THEN "crash" ELSE "closed"
  /\ UNCHANGED r

(* With recv_buffer full buffer_recv reads nothing and the headers wait    *)
(* for post_accept_timeout.                                                *)
HeadersTimeout ==
  /\ out = "AGAIN"
  /\ r.state \in HeaderStates
  /\ Len(buf) = Limit
  /\ out' = "404"
  /\ r' = [r EXCEPT !.keep_alive = FALSE]
  /\ UNCHANGED <<sent, buf>>

(* Mutant: the parsed URI survives http_clear_request.                     *)
Clear_KeepsUri ==
  /\ out = "handled"
  /\ r.keep_alive
  /\ sent' = <<>>
  /\ buf' = <<>>
  /\ r' = [ZeroReq EXCEPT !.uri = [r.uri EXCEPT !.state = "URI_BEGIN"]]
  /\ out' = "AGAIN"

(* http_clear_request: the connection is kept for the next request.        *)
Clear ==
  /\ out = "handled"
  /\ r.keep_alive
  /\ sent' = <<>>
  /\ buf' = <<>>
  /\ r' = ZeroReq
  /\ out' = "AGAIN"

Next ==
  \/ \E x \in {y \in Offered : Bounded(y)} :
       \/ LineMore(x)
       \/ LineBad(x)
       \/ LineForward(x)
       \/ LineFile(x)
       \/ HeaderMore(x)
       \/ HeaderLine(x)
       \/ HeaderEnd(x)
       \/ HeaderBad(x)
  \/ HeadersTimeout
  \/ Clear

Spec == Init /\ [][Next]_vars

-----------------------------------------------------------------------------
(* Properties.                                                             *)

SpanType == [c : 0..Limit, len : 0..Limit]

(* The state the parsers keep in a request, and a buffer as long as what   *)
(* has been sent.                                                          *)
TypeOK ==
  /\ Len(buf) = Len(sent) /\ Len(buf) <= Limit
  /\ r.state \in LineStates \cup HeaderStates
  /\ r.uri.state \in DOMAIN Field \cup
       {"URI_BEGIN", "URI_SCHEME_COLON", "URI_SLASH_AFTER_SCHECME",
        "URI_SLASH_SLASH_AFTER_SCHECME", "URI_SLASH_BEFORE_ABS_PATH",
        "URI_BEFORE_EXTENSION", "URI_BEFORE_QUERY"}
  /\ \A f \in Range(Field) : r.uri[f] \in SpanType
  /\ {r.line, r.header_name, r.header_value} \subseteq SpanType
  /\ Range(r.headers) \subseteq SpanType
  /\ r.major \in 0..1 /\ r.minor \in 0..100
  /\ out \in {"AGAIN", "400", "404", "abort", "handled", "closed", "crash"}

Within(s, i, j, S) == \A k \in i..j : s[k] \in S

(* Where the parts of a URI are, read off the separators:                  *)
(*   [scheme "://" host [":" port]] ["/" abs_path ["." ext] ["?" query]]   *)
(* Each is a pair of its first position and the position behind it.        *)
Parts(u) ==
  LET absolute == u[1] # "/"
      colon == First(u, 1, {":"})
      hostEnd == First(u, colon + 3, {":", "/"})
      slash == IF absolute THEN First(u, colon + 3, {"/"}) ELSE 1
      pathEnd == First(u, slash + 1, {".", "?"})
      mark == First(u, slash + 1, {"?"})
  IN  [scheme |-> IF absolute THEN <<1, colon>> ELSE <<0, 0>>,
       host |-> IF absolute THEN <<colon + 3, hostEnd>> ELSE <<0, 0>>,
       port |-> IF absolute /\ hostEnd < slash THEN <<hostEnd + 1, slash>>
                ELSE <<0, 0>>,
       abs_path |-> IF slash < Len(u) THEN <<slash + 1, pathEnd>> ELSE <<0, 0>>,
       extension |-> IF pathEnd < mark THEN <<pathEnd + 1, mark>> ELSE <<0, 0>>,
       query |-> IF mark <= Len(u) THEN <<mark + 1, Len(u) + 1>> ELSE <<0, 0>>]

(* The items a part may hold and must start with.  Only a port, or the     *)
(* whole path with what follows it, may be empty.                          *)
Conforming(u) ==
  LET P == Parts(u)
      holds(f, S, T) == LET i == P[f][1]
                            j == P[f][2] - 1
                        IN  i # 0 => i <= j /\ u[i] \in S /\ Within(u, i, j, T)
  IN  /\ u # <<>>
      /\ u[1] # "/" => /\ P.scheme[2] + 2 <= Len(u)
                       /\ SubSeq(u, P.scheme[2], P.scheme[2] + 2) = <<":", "/", "/">>
      /\ holds("scheme", {"a"}, {"a", "1", "."})
      /\ holds("host", {"a", "1"}, {"a", "1", "."})
      /\ P.port[1] # 0 => Within(u, P.port[1], P.port[2] - 1, {"1"})
      /\ holds("abs_path", {"a", "1", ":"}, {"a", "1", ":", "/"})
      /\ holds("extension", {"a"}, {"a"})
      /\ LET Q == {"a", "1", ":", ".", "/", "?"} IN holds("query", Q, Q)

UriText == SubSeq(sent, UriStart, First(sent, UriStart, {" "}) - 1)

(* The parts of a URI as parse_uri should report them, but for one: a path *)
(* that its query follows at once is reported with the length 0.           *)
Reported(u) ==
  [f \in Range(Field) |->
     LET i == Parts(u)[f][1]
         j == Parts(u)[f][2]
     IN  IF i = 0 THEN NoSpan
         ELSE IF f = "abs_path" /\ j <= Len(u) /\ u[j] = "?"
              THEN [c |-> UriStart + i - 1, len |-> 0]
         ELSE [c |-> UriStart + i - 1, len |-> j - i]]

(* Once the request line is past a URI that follows the grammar above      *)
(* parse_uri, every part of it is where the separators put it, on a fresh  *)
(* and on a kept connection, in however many pieces the line came.         *)
LineExact ==
  /\ r.state \in PastUri
  /\ Conforming(UriText)
  => \A f \in Range(Field) : r.uri[f] = Reported(UriText)[f]

(* The request keeps its shape, and the parts of a conforming URI are      *)
(* those its separators mark (parse_request_line, parse_uri,               *)
(* http_clear_request).                                                    *)
LineSound == TypeOK /\ LineExact

(* Ways to go on that make a URI of every beginning of one.                *)
Completions == {<<>>, <<":", "/", "/", "a">>, <<"/", "/", "a">>, <<"/", "a">>,
                <<"a">>, <<"1">>}

(* parse_uri refuses an item only when no URI goes on that way.            *)
RefusedRightly ==
  out = "400" /\ r.state \in {"RQ_BEFORE_URI", "RQ_URI"} /\ Last(sent) # CR
  => LET u == SubSeq(sent, UriStart, Len(sent))
     IN  \A t \in Completions : ~Conforming(u \o t)

(* The file that request_process_uri opens is the path with its extension, *)
(* or "./" when there is none: the NUL of process_abs_path cuts it off in  *)
(* the right place.                                                        *)
PathServed ==
  r.resource /\ r.state = "HD_BEGIN" /\ Conforming(UriText)
  => LET P == Parts(UriText)
         end == IF P.extension[1] # 0 THEN P.extension[2] ELSE P.abs_path[2]
     IN  RealPath(buf, r.uri) =
           IF P.abs_path[1] = 0 THEN <<".", "/">>
           ELSE SubSeq(UriText, P.abs_path[1], end - 1)

LineEnd == r.line.c + r.line.len

(* The positions that end a header line, with that of the request line:    *)
(* the LFs, except one that follows the colon with only spaces between.    *)
HeaderEnds ==
  LET ends(E, i) ==
        LET colon == First(sent, Max(E) + 1, {":"})
            bare == colon < i /\ Within(sent, colon + 1, i - 1, {" "})
        IN  IF sent[i] = LF /\ ~bare THEN E \cup {i} ELSE E
  IN  FoldLeft(ends, {LineEnd}, [k \in 1..(Len(sent) - LineEnd) |-> LineEnd + k])

(* The line that ends at e: where it starts, and whether it is empty.      *)
LineStart(e) == Max({i \in HeaderEnds : i < e}) + 1
Blank(e) == Within(sent, LineStart(e), e, {" ", CR, LF})

(* The headers end at the first empty line and nowhere else.               *)
EndAtBlank ==
  r.state \in HeaderStates /\ Last(sent) = LF =>
    \A e \in HeaderEnds \ {LineEnd} :
      Blank(e) <=> (out = "handled" /\ e = Len(sent))

(* The lines with this name, without a second word in it.                  *)
Named(name) ==
  {e \in HeaderEnds \ {LineEnd} :
     LET i == First(sent, LineStart(e), Items \ {" "})
     IN  Lower(sent[i]) = name /\ sent[i + 1] = ":"}

(* The value on the line that ends at e.  A value of no items is reported  *)
(* as the CR.                                                              *)
ValueOf(e) ==
  LET i == First(sent, First(sent, LineStart(e), {":"}) + 1, Items \ {" "})
      j == IF sent[e - 1] = CR /\ e - 1 > i THEN e - 1 ELSE e
  IN  [c |-> i, len |-> j - i]

(* At the end of the headers the request holds the value of the last line  *)
(* of each known name, and is kept or not as the last Connection line      *)
(* says, or else as the version does.                                      *)
HeadersExact ==
  out = "handled" =>
    /\ r.headers.cookie = IF Named("cookie") = {} THEN NoSpan
                          ELSE ValueOf(Max(Named("cookie")))
    /\ r.keep_alive = IF Named("connection") = {} THEN r.minor = 1
                      ELSE sent[ValueOf(Max(Named("connection"))).c] = "keep-alive"

(* The headers end where the client ended them and say what the client     *)
(* said, in however many pieces and on a kept connection (parse_header,    *)
(* http_parse_headers, the handlers of header.c).                          *)
HeadersRight == EndAtBlank /\ HeadersExact

(* When a header line has ended, what http_proxy_pass will send to the     *)
(* backend is what the client sent, but for names in lower case and one    *)
(* NUL in each header line: over its first colon, or over its first word   *)
(* when it has none.                                                       *)
ForwardedBytes ==
  /\ r.state \in HeaderStates /\ Last(sent) = LF
  /\ Text(sent, r.uri.abs_path) \in Locations
  => \A i \in 1..Len(sent) : buf[i] # sent[i] =>
      LET s == LineStart(i)
          e == First(sent, i, {LF})
      IN  /\ i > LineEnd
          /\ Within(sent, s, i - 1, Words \cup {" "})
          /\ \/ buf[i] = Lower(sent[i])
             \/ buf[i] = NUL /\ sent[i] = ":"
             \/ buf[i] = NUL /\ First(sent, i, {":"}) > e

(* The write behind a name that http_parse_headers makes for a refused     *)
(* header line goes through NULL exactly when the line has no name.        *)
CrashNameless ==
  out \in {"closed", "crash"} =>
    LET i == First(sent, LineStart(Len(sent)), Items \ {" "})
    IN  out = "crash" <=> sent[i] \notin Words

(* What is refused is refused rightly, and the way out of a refused header *)
(* line is fatal in the one case of a line without a name (parse_uri,      *)
(* http_parse_headers).                                                    *)
Refusals == RefusedRightly /\ CrashNameless
=============================================================================
