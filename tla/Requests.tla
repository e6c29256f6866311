------------------------------- MODULE Requests -------------------------------
(***************************************************************************)
(* What a caller asks of a RequestBuilder, and the request that is sent.   *)
(*                                                                         *)
(* The crate has three builders with one interface: the asynchronous one,  *)
(* the blocking one around it, and the one of the browser (wasm).  The     *)
(* same calls are made on two of them in lockstep, so that the properties  *)
(* can compare what they send.                                             *)
(*                                                                         *)
(* A payload is a name with a size; a header has a sequence of values.     *)
(***************************************************************************)
EXTENDS Naturals, Sequences, SequencesExt

CONSTANTS None,
          MaxCalls, \* bound: calls made on a builder before it is sent
          Pairings, \* pairs of builders, subsets of Builders
          Defaults  \* default headers that a client may be given

Builders == {"async", "blocking", "wasm"}
Names == {"authorization", "content-type", "content-length", "misc"}

(* What a URL may have before its host: a user and a password, either of   *)
(* which may be bytes that are not UTF-8.                                  *)
Creds == {"user:pass", "user:bytes", "bytes:pass"}
Urls == [creds : Creds \cup {None}, query : {<<>>}]

(* The names of the calls, of the bodies, and of the values of headers,    *)
(* each after where it comes from.                                         *)
Calls == {"request", "from_parts", "from_http", "header", "headers",
          "basic_auth", "bearer_auth", "body", "timeout", "version", "query",
          "form", "json", "multipart", "fetch", "try_clone"}
Payloads == {"nothing", "empty form", "text", "json", "pairs", "stream",
             "parts"}
Texts == {"own", "x", "y", "basic", "bearer", "user:pass", "user:", "http",
          "urlencoded", "json", "multipart", "default", "d1", "d2"}

(* Builders are compared with the asynchronous one; a Content-Length is    *)
(* left to them.                                                           *)
ASSUME RequestsAssumption ==
    /\ \A p \in Pairings : p \subseteq Builders /\ "async" \in p
    /\ Defaults \subseteq
           [Names -> Seq([v : Texts, sensitive : BOOLEAN])]
    /\ \A d \in Defaults : d["content-length"] = <<>>
    /\ MaxCalls \in Nat
    /\ None \notin Nat /\ None \notin Creds /\ None \notin Urls
    /\ None \notin [data : Payloads, len : Nat \cup {None},
                    reusable : BOOLEAN]

VARIABLES builders, \* the builders that are compared
          asked,    \* the URL they were begun with, or None if it is none
          defaults, \* what their clients' default_headers was given
          req,      \* the request, or the error, of each
          past,     \* the calls made so far
          bad,      \* which of them was the first with a bad argument, or 0
          sent      \* what each sent, or None

vars == <<builders, asked, defaults, req, past, bad, sent>>

(* --- Data -------------------------------------------------------------- *)

Size(data) == CASE data \in {"nothing", "empty form"} -> 0
                [] data = "text" -> 1
                [] data = "json" -> 2
                [] data = "pairs" -> 3
                [] data = "stream" -> 4
                [] OTHER -> 5

Value(v, sensitive) == [v |-> v, sensitive |-> sensitive]
NoHeaders == [n \in Names |-> <<>>]

(* len: what the body says of its size, or None.                           *)
Bytes(data) == [data |-> data, len |-> Size(data), reusable |-> TRUE]
Streaming(data, len) == [data |-> data, len |-> len, reusable |-> FALSE]

Error(at) == [failed |-> TRUE, at |-> at]

RequestNew(url) ==
    [failed |-> FALSE, url |-> url, headers |-> NoHeaders, body |-> None,
     timeout |-> None, version |-> "1.1",
     fetch |-> [cors |-> TRUE, credentials |-> None, cache |-> None]]

(* --- The operations ---------------------------------------------------- *)

HeaderAppend(r, n, v) == [r EXCEPT !.headers[n] = Append(@, v)]
HeaderInsert(r, n, v) == [r EXCEPT !.headers[n] = <<v>>]
HeaderOrInsert(r, n, v) ==
    IF r.headers[n] = <<>> THEN HeaderInsert(r, n, v) ELSE r

ReplaceHeaders(r, headers) ==
    [r EXCEPT !.headers = [n \in Names |-> IF headers[n] = <<>> THEN @[n]
                                           ELSE headers[n]]]

HeaderSensitive(f, r, n, v) == HeaderAppend(r, n, Value(v, f # "wasm"))

(* util::basic_auth marks its value itself, for every builder.             *)
BasicAuth(f, r, v) == HeaderAppend(r, "authorization", Value(v, TRUE))
BearerAuth(f, r, v) == HeaderSensitive(f, r, "authorization", v)

(* A user that is not UTF-8 stays in the URL; such a password is dropped.  *)
ExtractAuthority(url) ==
    CASE url.creds = "user:pass" -> "user:pass"
      [] url.creds = "user:bytes" -> "user:"
      [] OTHER -> None

BuilderNew(f, r) ==
    LET auth == ExtractAuthority(r.url)
    IN IF f = "wasm" \/ auth = None THEN r
       ELSE BasicAuth(f, [r EXCEPT !.url.creds = None], auth)

(* Defect: only the asynchronous request takes the headers over.           *)
FromHttpBare(f, url, headers, version) ==
    [RequestNew(url) EXCEPT
       !.headers = IF f = "async" THEN headers ELSE @, !.body = Bytes("text"),
       !.version = IF f = "async" THEN version ELSE @]

(* TryFrom<http::Request>: only the asynchronous request has a version.    *)
FromHttp(f, url, headers, version) ==
    [RequestNew(url) EXCEPT
       !.headers = headers, !.body = Bytes("text"),
       !.version = IF f = "async" THEN version ELSE @]

WithBody(r, body) == [r EXCEPT !.body = body]
WithTimeout(r, t) == [r EXCEPT !.timeout = t]
WithVersion(r, v) == [r EXCEPT !.version = v]
WithFetch(r, option, v) == [r EXCEPT !.fetch[option] = v]

(* An empty query is removed again.                                        *)
Query(r, pairs) == [r EXCEPT !.url.query = @ \o pairs]

(* The browser's builder overrides a Content-Type, the others keep it.      *)
FormBody(f, r) ==
    LET type == Value("urlencoded", FALSE)
        labelled == IF f = "wasm" THEN HeaderInsert(r, "content-type", type)
                    ELSE HeaderOrInsert(r, "content-type", type)
    IN WithBody(labelled, Bytes("pairs"))

JsonBody(r) ==
    WithBody(HeaderOrInsert(r, "content-type", Value("json", FALSE)),
             Bytes("json"))

(* Defect: the closing boundary is not counted.                            *)
FormLengthUnclosed(form) ==
    IF ~form.known THEN None
    ELSE IF form.data = "empty form" THEN 0 ELSE Size(form.data) - 1

(* form: [data, known]; known: every part says how long it is.             *)
FormLength(form) == IF form.known THEN Size(form.data) ELSE None
FormStream(form) ==
    IF form.data = "empty form" THEN Bytes(form.data)
    ELSE Streaming(form.data, None)
FormReader(form) == Streaming(form.data, FormLength(form))

(* The asynchronous builder declares the length at once, the blocking one  *)
(* when the request is sent; in a browser fetch writes both headers.       *)
Multipart(f, r, form) ==
    LET typed == HeaderAppend(r, "content-type", Value("multipart", FALSE))
        length == FormLength(form)
    IN CASE f = "async" ->
              WithBody(IF length = None THEN typed
                       ELSE HeaderAppend(typed, "content-length",
                                         Value(length, FALSE)),
                       FormStream(form))
         [] f = "blocking" -> WithBody(typed, FormReader(form))
         [] f = "wasm" -> WithBody(r, Streaming(form.data, None))

(* Defect: the version is not copied.                                      *)
RequestCloneForgets(f, r) ==
    [RequestNew(r.url) EXCEPT
       !.headers = r.headers, !.body = r.body, !.timeout = r.timeout,
       !.fetch = IF f = "wasm" THEN r.fetch ELSE @]

RequestClone(f, r) ==
    [RequestNew(r.url) EXCEPT
       !.headers = r.headers, !.body = r.body, !.timeout = r.timeout,
       !.version = IF f = "wasm" THEN @ ELSE r.version,
       !.fetch = IF f = "wasm" THEN r.fetch ELSE @]

(* None if there is an error, or a body that can only be sent once.        *)
TryClone(f, r) ==
    IF r.failed THEN None
    ELSE IF r.body = None THEN RequestClone(f, r)
    ELSE IF r.body.reusable THEN RequestClone(f, r) ELSE None

(* --- Sending ----------------------------------------------------------- *)

(* The blocking request becomes an asynchronous one.                       *)
IntoAsync(f, r) ==
    IF f # "blocking" \/ r.body = None THEN r
    ELSE IF r.body.len = None THEN r
    ELSE HeaderInsert(r, "content-length", Value(r.body.len, FALSE))

(* The default headers as every client keeps them: default_headers inserts *)
(* value by value, so that the last value of a name is left.               *)
DefaultHeaders ==
    [n \in Names |-> IF defaults[n] = <<>> THEN <<>>
                     ELSE <<Last(defaults[n])>>]

(* A default header goes where the request has none of its name.           *)
MergeHeaders(headers) ==
    [n \in Names |-> IF headers[n] = <<>> THEN DefaultHeaders[n]
                     ELSE headers[n]]

(* fetch refuses a URL with credentials, and sends no empty body.          *)
Fetch(r) ==
    IF r.url.creds # None THEN Error(Len(past) + 1)
    ELSE IF r.body = None THEN r
    ELSE IF Size(r.body.data) = 0 THEN WithBody(r, None) ELSE r

(* What goes out; an absent body is sent as an empty one.                  *)
Wire(f, r) ==
    IF r.failed THEN r
    ELSE LET out == IntoAsync(f, r)
             merged == [out EXCEPT !.headers = MergeHeaders(out.headers)]
         IN IF f = "wasm" THEN Fetch(merged)
            ELSE IF out.body = None THEN WithBody(merged, Bytes("nothing"))
                 ELSE merged

(* --- The calls --------------------------------------------------------- *)

(* Client::request; a text that is no URL is the builder's error.          *)
Begin(first, text) ==
    /\ past = <<first>> /\ asked = text
    /\ bad = IF text = None THEN 1 ELSE 0

NewRequest ==
    \E text \in Urls \cup {None} :
        /\ Begin("request", text)
        /\ req = [f \in builders |-> IF text = None THEN Error(1)
                                     ELSE BuilderNew(f, RequestNew(text))]

NewFromParts ==
    \E url \in Urls :
        /\ Begin("from_parts", url)
        /\ req = [f \in builders |-> RequestNew(url)]

NewFromHttp ==
    \E url \in Urls, version \in {"1.1", "2"} :
        LET headers == [NoHeaders EXCEPT !["misc"] = <<Value("http", FALSE)>>]
        IN /\ Begin("from_http", url)
           /\ req = [f \in builders |-> FromHttp(f, url, headers, version)]

(* Defect: a later error replaces the first.                               *)
OutcomeOfTheLast(r, ok, new) ==
    IF ~ok THEN Error(Len(past) + 1) ELSE IF r.failed THEN r ELSE new

Outcome(r, ok, new) ==
    IF r.failed THEN r ELSE IF ok THEN new ELSE Error(Len(past) + 1)

(* A call changes every builder that has no error yet; one with a bad      *)
(* argument (ok is FALSE) leaves the error instead; new: the requests that *)
(* the call makes of theirs.                                               *)
Apply(name, ok, new) ==
    /\ sent = None /\ Len(past) <= MaxCalls
    /\ past' = Append(past, name)
    /\ bad' = IF bad = 0 /\ ~ok THEN Len(past') ELSE bad
    /\ req' = [f \in builders |-> Outcome(req[f], ok, new[f])]
    /\ UNCHANGED <<builders, asked, defaults, sent>>

CallHeader(n, ok) ==
    Apply("header", ok, [f \in builders |->
              HeaderAppend(req[f], n, Value("own", FALSE))])

CallHeaders ==
    LET given == [NoHeaders EXCEPT !["misc"] = <<Value("x", FALSE),
                                                 Value("y", FALSE)>>]
    IN Apply("headers", TRUE, [f \in builders |->
                 ReplaceHeaders(req[f], given)])

CallBasicAuth ==
    Apply("basic_auth", TRUE, [f \in builders |->
              BasicAuth(f, req[f], "basic")])

CallBearerAuth(ok) ==
    Apply("bearer_auth", ok, [f \in builders |->
              BearerAuth(f, req[f], "bearer")])

CallBody ==
    Apply("body", TRUE, [f \in builders |-> WithBody(req[f], Bytes("text"))])

(* A body from a stream or a reader, which may know its length.            *)
CallStream(len) ==
    /\ "wasm" \notin builders
    /\ Apply("body", TRUE, [f \in builders |->
                 WithBody(req[f], Streaming("stream", len))])

CallTimeout ==
    Apply("timeout", TRUE, [f \in builders |-> WithTimeout(req[f], 1)])

CallVersion ==
    /\ "wasm" \notin builders
    /\ Apply("version", TRUE, [f \in builders |-> WithVersion(req[f], "2")])

CallQuery(pairs, ok) ==
    Apply("query", ok, [f \in builders |-> Query(req[f], pairs)])

CallForm(ok) == Apply("form", ok, [f \in builders |-> FormBody(f, req[f])])
CallJson(ok) == Apply("json", ok, [f \in builders |-> JsonBody(req[f])])

CallMultipart(form) ==
    Apply("multipart", TRUE, [f \in builders |-> Multipart(f, req[f], form)])

(* The fetch options, of the browser's builder only.                       *)
CallFetch(option, v) ==
    /\ "wasm" \in builders
    /\ Apply("fetch", TRUE, [f \in builders |->
                 IF f = "wasm" THEN WithFetch(req[f], option, v) ELSE req[f]])

(* The caller goes on with the clones.                                     *)
CallTryClone ==
    /\ \A f \in builders : TryClone(f, req[f]) # None
    /\ Apply("try_clone", TRUE, [f \in builders |-> TryClone(f, req[f])])

Send ==
    /\ sent = None
    /\ sent' = [f \in builders |-> Wire(f, req[f])]
    /\ UNCHANGED <<builders, asked, defaults, req, past, bad>>

Done == sent # None /\ UNCHANGED vars

Init ==
    /\ builders \in Pairings /\ defaults \in Defaults
    /\ NewRequest \/ NewFromParts \/ NewFromHttp
    /\ sent = None

Next ==
    \/ \E n \in {"misc", "content-type"}, ok \in BOOLEAN : CallHeader(n, ok)
    \/ CallHeaders \/ CallBasicAuth
    \/ \E ok \in BOOLEAN : CallBearerAuth(ok) \/ CallForm(ok) \/ CallJson(ok)
    \/ CallBody \/ CallTimeout \/ CallVersion \/ CallTryClone
    \/ \E len \in {None, Size("stream")} : CallStream(len)
    \/ \E pairs \in {<<>>, <<"a">>}, ok \in BOOLEAN : CallQuery(pairs, ok)
    \/ \E form \in [data : {"parts", "empty form"}, known : BOOLEAN] :
         (form.data = "empty form" => form.known) /\ CallMultipart(form)
    \/ CallFetch("cors", FALSE)
    \/ CallFetch("credentials", "include") \/ CallFetch("cache", "reload")
    \/ Send
    \/ Done

Spec == Init /\ [][Next]_vars

-----------------------------------------------------------------------------
(* Properties                                                              *)

BodyCalls == {"body", "form", "json", "multipart"}

(* A multipart form was given up for another body.                         *)
Overridden ==
    \E i, j \in DOMAIN past :
        i < j /\ past[i] = "multipart" /\ past[j] \in BodyCalls

WellSent == {f \in builders : sent # None /\ ~sent[f].failed}
Values(f, n) == sent[f].headers[n]

(* Every variable has its type.                                            *)
TypeOK ==
    /\ builders \in Pairings /\ defaults \in Defaults
    /\ asked \in Urls \cup {None}
    /\ past \in Seq(Calls) /\ Len(past) \in 1..(MaxCalls + 1)
    /\ bad \in 0..Len(past)
    /\ DOMAIN req = builders
    /\ sent # None => DOMAIN sent = builders

(* An error of any call, however many follow it, is what send returns, and *)
(* it is the first one; without one every builder sends.  header_sensitive,*)
(* query, form and json each keep the error in request, which the later    *)
(* calls must leave alone.  fetch itself refuses some URLs.                *)
FirstErrorWins ==
    sent # None =>
        \A f \in builders :
            IF bad # 0 THEN sent[f] = Error(bad)
            ELSE sent[f].failed => f = "wasm" /\ asked.creds # None

(* A Content-Length that the builders write is the size of the body that   *)
(* is sent, though it is written when the form is given (asynchronous) or  *)
(* when the request is sent (blocking), and the body may be replaced in    *)
(* between.  The asynchronous builder keeps the length of a multipart form *)
(* that another body replaced.  RequestBuilder::multipart, into_async.     *)
LengthIsOfTheBody ==
    \A f \in WellSent : ~(f = "async" /\ Overridden) =>
        \A k \in DOMAIN Values(f, "content-length") :
            Values(f, "content-length")[k].v = Size(sent[f].body.data)

(* A clone sends what its original sends, however either came about.       *)
(* Request::try_clone copies field by field.                               *)
CloneIsEqual ==
    \A f \in builders :
        LET c == TryClone(f, req[f])
        IN c # None => Wire(f, c) = Wire(f, req[f])

(* The length that hyper will declare: the header's, or the body's own.    *)
Declared(f) ==
    IF Values(f, "content-length") # <<>>
    THEN {v.v : v \in Range(Values(f, "content-length"))}
    ELSE {sent[f].body.len}

Plain(values) == [k \in DOMAIN values |-> values[k].v]

(* The builders send the same request for the same calls: the blocking one *)
(* to the letter, but for a form that was replaced (see LengthIsOfTheBody) *)
(* and the version of an http::Request; the browser's too unless there are *)
(* credentials in the URL, or a form, whose Content-Type it treats         *)
(* differently.  Client::default_headers, merge_headers, into_async.       *)
BuildersAgree ==
    WellSent = builders =>
        \A f \in builders \ {"async"} :
            /\ sent[f].url = sent["async"].url
            /\ sent[f].timeout = sent["async"].timeout
            /\ \A n \in Names \ {"content-length"} :
                 \/ Plain(Values(f, n)) = Plain(Values("async", n))
                 \/ f = "wasm" /\ n = "content-type"
                    /\ \E k \in DOMAIN past : past[k] \in {"form", "multipart"}
            /\ IF f = "blocking"
               THEN /\ sent[f].body.data = sent["async"].body.data
                    /\ Overridden \/ Declared(f) = Declared("async")
                    /\ past[1] # "from_http" =>
                         sent[f].version = sent["async"].version
               ELSE IF sent[f].body = None
                    THEN Size(sent["async"].body.data) = 0
                    ELSE sent[f].body.data = sent["async"].body.data

-----------------------------------------------------------------------------
(* The inductive invariant behind the safety properties.                   *)

(* What the calls p on a builder were about.                               *)
Formed(p) == \E i \in DOMAIN p : p[i] = "multipart"
Replaced(p) ==
    \E i, j \in DOMAIN p : i < j /\ p[i] = "multipart" /\ p[j] \in BodyCalls
Labelled(p) == \E i \in DOMAIN p : p[i] \in {"form", "multipart"}

ValuesOf(n) ==
    [v : IF n = "content-length" THEN Nat ELSE Texts, sensitive : BOOLEAN]
IsHeaderMap(h) ==
    h = [n \in Names |-> h[n]] /\ \A n \in Names : h[n] \in Seq(ValuesOf(n))
Bodies ==
    {b \in [data : Payloads, len : Nat \cup {None}, reusable : BOOLEAN] :
        b.len \in {None, Size(b.data)}}
Fetched == [cors |-> TRUE, credentials |-> None, cache |-> None]

Req(url, headers, body, timeout, version, fetch) ==
    [failed |-> FALSE, url |-> url, headers |-> headers, body |-> body,
     timeout |-> timeout, version |-> version, fetch |-> fetch]

(* The request r of builder f: its Content-Length is the size of the body, *)
(* unless the calls gave up a form.                                        *)
Good(f, r, p) ==
    LET length == r.headers["content-length"]
    IN /\ r = Req(r.url, r.headers, r.body, r.timeout, r.version, r.fetch)
       /\ r.url = [creds |-> r.url.creds, query |-> r.url.query]
       /\ f = "wasm" => r.url.creds = asked.creds
       /\ IsHeaderMap(r.headers) /\ r.body \in Bodies \cup {None}
       /\ f # "wasm" => r.fetch = Fetched
       /\ f = "wasm" => r.version = "1.1"
       /\ length # <<>> => f = "async" /\ Formed(p)
       /\ length # <<>> /\ ~Replaced(p) =>
             /\ r.body # None
             /\ \A k \in DOMAIN length : length[k].v = Size(r.body.data)

Alike(s, t) == Len(s) = Len(t) /\ \A k \in 1..Len(s) : s[k].v = t[k].v

SameBody(a, b) ==
    (a = None <=> b = None) /\ (a # None => a.data = b.data)

(* The request r of the asynchronous builder and b of the blocking one.    *)
BlockingLike(r, b, p) ==
    /\ b.url = r.url /\ b.timeout = r.timeout
    /\ p[1] # "from_http" => b.version = r.version
    /\ \A n \in Names \ {"content-length"} : b.headers[n] = r.headers[n]
    /\ SameBody(r.body, b.body)
    /\ ~Replaced(p) =>
         IF r.headers["content-length"] = <<>>
         THEN r.body # None => b.body.len = r.body.len
         ELSE b.body.len = Size(b.body.data)

(* ... and b of the browser's, which keeps the credentials of the URL.     *)
WasmLike(r, b, p) ==
    /\ b.url = r.url /\ b.timeout = r.timeout
    /\ \A n \in {"authorization", "misc"} : Alike(b.headers[n], r.headers[n])
    /\ \/ Labelled(p)
       \/ Alike(b.headers["content-type"], r.headers["content-type"])
    /\ SameBody(r.body, b.body)

Agree(f, r, b, p) ==
    /\ f = "blocking" => BlockingLike(r, b, p)
    /\ f = "wasm" /\ asked.creds = None => WasmLike(r, b, p)

IInv ==
    /\ TypeOK
    /\ req = [f \in builders |-> req[f]]
    /\ bad # 0 => \A f \in builders : req[f] = Error(bad)
    /\ bad = 0 =>
         \A f \in builders : /\ Good(f, req[f], past)
                              /\ Agree(f, req["async"], req[f], past)
    /\ sent # None => sent = [f \in builders |-> Wire(f, req[f])]
=============================================================================
