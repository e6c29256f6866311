--------------------------- MODULE RequestsProofs ---------------------------
(***************************************************************************)
(* Proofs about Requests, for any pairing with the asynchronous builder,   *)
(* any default headers and any number of calls: the inductive invariant,   *)
(* and the safety properties that follow from it.                          *)
(***************************************************************************)
EXTENDS Requests, SequenceTheorems, TLAPS

(* Requests are compared by whether they failed.                           *)
Whole(r) == r = Req(r.url, r.headers, r.body, r.timeout, r.version, r.fetch)

LEMMA SizeNat == \A data : Size(data) \in Nat
  BY DEF Size

LEMMA BodiesMade ==
  ASSUME NEW data \in Payloads
  PROVE  /\ Bytes(data) \in Bodies /\ Streaming(data, None) \in Bodies
         /\ Streaming(data, Size(data)) \in Bodies
  BY SizeNat DEF Bytes, Streaming, Bodies

LEMMA ValuesMade ==
  /\ \A n \in Names \ {"content-length"}, v \in Texts, s \in BOOLEAN :
        Value(v, s) \in ValuesOf(n)
  /\ \A k \in Nat, s \in BOOLEAN :
        Value(k, s) \in ValuesOf("content-length")
  BY DEF Value, ValuesOf

LEMMA NoBody == None \notin Bodies
  BY RequestsAssumption DEF Bodies

(* --- What the operations do to the fields of a request ----------------- *)

WithHeaders(r, h) == [r EXCEPT !.headers = h]
WithUrl(r, u) == [r EXCEPT !.url = u]
Put(h, n, s) == [h EXCEPT ![n] = s]
Extended(url, pairs) ==
    [creds |-> url.creds, query |-> url.query \o pairs]

LEMMA FieldsSet ==
  ASSUME NEW r, Whole(r), NEW y
  PROVE  /\ WithBody(r, y)
              = Req(r.url, r.headers, y, r.timeout, r.version, r.fetch)
         /\ WithTimeout(r, y)
              = Req(r.url, r.headers, r.body, y, r.version, r.fetch)
         /\ WithVersion(r, y)
              = Req(r.url, r.headers, r.body, r.timeout, y, r.fetch)
         /\ WithHeaders(r, y)
              = Req(r.url, y, r.body, r.timeout, r.version, r.fetch)
         /\ WithUrl(r, y)
              = Req(y, r.headers, r.body, r.timeout, r.version, r.fetch)
  <1>1. PICK u, h, b, t, v, x : r = Req(u, h, b, t, v, x)
    BY DEF Whole
  <1>2. /\ r.url = u /\ r.headers = h /\ r.body = b /\ r.timeout = t
        /\ r.version = v /\ r.fetch = x
    BY <1>1 DEF Req
  <1>3. WithBody(r, y)
           = Req(r.url, r.headers, y, r.timeout, r.version, r.fetch)
    <2>1. PICK s : s = WithBody(r, y)
      OBVIOUS
    <2>2. s = [failed |-> FALSE, url |-> u, headers |-> h,
               body |-> y, timeout |-> t, version |-> v,
               fetch |-> x]
      BY <1>1, <1>2, <2>1 DEF Req, WithBody
    <2>3. QED
      BY <1>2, <2>1, <2>2 DEF Req
  <1>4. WithTimeout(r, y)
           = Req(r.url, r.headers, r.body, y, r.version, r.fetch)
    <2>1. PICK s : s = WithTimeout(r, y)
      OBVIOUS
    <2>2. s = [failed |-> FALSE, url |-> u, headers |-> h,
               body |-> b, timeout |-> y, version |-> v,
               fetch |-> x]
      BY <1>1, <1>2, <2>1 DEF Req, WithTimeout
    <2>3. QED
      BY <1>2, <2>1, <2>2 DEF Req
  <1>5. WithVersion(r, y)
           = Req(r.url, r.headers, r.body, r.timeout, y, r.fetch)
    <2>1. PICK s : s = WithVersion(r, y)
      OBVIOUS
    <2>2. s = [failed |-> FALSE, url |-> u, headers |-> h,
               body |-> b, timeout |-> t, version |-> y,
               fetch |-> x]
      BY <1>1, <1>2, <2>1 DEF Req, WithVersion
    <2>3. QED
      BY <1>2, <2>1, <2>2 DEF Req
  <1>6. WithHeaders(r, y)
           = Req(r.url, y, r.body, r.timeout, r.version, r.fetch)
    <2>1. PICK s : s = WithHeaders(r, y)
      OBVIOUS
    <2>2. s = [failed |-> FALSE, url |-> u, headers |-> y,
               body |-> b, timeout |-> t, version |-> v,
               fetch |-> x]
      BY <1>1, <1>2, <2>1 DEF Req, WithHeaders
    <2>3. QED
      BY <1>2, <2>1, <2>2 DEF Req
  <1>7. WithUrl(r, y)
           = Req(y, r.headers, r.body, r.timeout, r.version, r.fetch)
    <2>1. PICK s : s = WithUrl(r, y)
      OBVIOUS
    <2>2. s = [failed |-> FALSE, url |-> y, headers |-> h,
               body |-> b, timeout |-> t, version |-> v,
               fetch |-> x]
      BY <1>1, <1>2, <2>1 DEF Req, WithUrl
    <2>3. QED
      BY <1>2, <2>1, <2>2 DEF Req
  <1>8. QED
    BY <1>3, <1>4, <1>5, <1>6, <1>7

LEMMA FetchSet ==
  ASSUME NEW r, Whole(r), NEW n, NEW y
  PROVE  WithFetch(r, n, y)
              = Req(r.url, r.headers, r.body, r.timeout, r.version,
                    Put(r.fetch, n, y))
  <1>1. PICK u, h, b, t, v, x : r = Req(u, h, b, t, v, x)
    BY DEF Whole
  <1>2. /\ r.url = u /\ r.headers = h /\ r.body = b /\ r.timeout = t
        /\ r.version = v /\ r.fetch = x
    BY <1>1 DEF Req
  <1>3. WithFetch(r, n, y)
           = Req(r.url, r.headers, r.body, r.timeout, r.version,
                 Put(r.fetch, n, y))
    <2>1. PICK s : s = WithFetch(r, n, y)
      OBVIOUS
    <2>2. s = [failed |-> FALSE, url |-> u, headers |-> h,
               body |-> b, timeout |-> t, version |-> v,
               fetch |-> Put(x, n, y)]
      BY <1>1, <1>2, <2>1 DEF Req, WithFetch, Put
    <2>3. QED
      BY <1>2, <2>1, <2>2 DEF Req
  <1>4. QED
    BY <1>3

LEMMA HeadersPut ==
  ASSUME NEW r, NEW n, NEW y
  PROVE  /\ HeaderAppend(r, n, y)
              = WithHeaders(r, Put(r.headers, n, Append(r.headers[n], y)))
         /\ HeaderInsert(r, n, y)
              = WithHeaders(r, Put(r.headers, n, <<y>>))
  BY DEF HeaderAppend, HeaderInsert, WithHeaders, Put

LEMMA QueryGrows ==
  ASSUME NEW r, Whole(r), NEW pairs,
         r.url = [creds |-> r.url.creds, query |-> r.url.query]
  PROVE  Query(r, pairs)
           = WithUrl(r, Extended(r.url, pairs))
  <1>1. PICK u : u = r.url
    OBVIOUS
  <1>2. PICK s : s = [u EXCEPT !.query = u.query \o pairs]
    OBVIOUS
  <1>3. s = [creds |-> u.creds, query |-> u.query \o pairs]
    BY <1>1, <1>2
  <1>4. Query(r, pairs) = WithUrl(r, s)
    BY <1>1, <1>2 DEF Query, WithUrl
  <1>5. QED
    BY <1>1, <1>3, <1>4 DEF Extended

-----------------------------------------------------------------------------
(* Headers and calls                                                       *)

(* A header that is set keeps the map of headers one.                      *)
LEMMA HeaderMapKept ==
  ASSUME NEW h, IsHeaderMap(h), NEW n \in Names, NEW s \in Seq(ValuesOf(n))
  PROVE  IsHeaderMap(Put(h, n, s)) /\ Put(h, n, s)[n] = s
         /\ \A m \in Names \ {n} : Put(h, n, s)[m] = h[m]
  <1>1. PICK g : g = [h EXCEPT ![n] = s]
    OBVIOUS
  <1>2. /\ g[n] = s /\ \A m \in Names \ {n} : g[m] = h[m]
        /\ g = [m \in Names |-> g[m]]
    BY <1>1 DEF IsHeaderMap
  <1>3. QED
    BY <1>1, <1>2 DEF IsHeaderMap, Put

LEMMA NoHeaderMap ==
  IsHeaderMap(NoHeaders) /\ \A n \in Names : NoHeaders[n] = <<>>
  BY DEF IsHeaderMap, NoHeaders

LEMMA TwoValues ==
  ASSUME NEW S, NEW v \in S, NEW w \in S
  PROVE  <<v, w>> \in Seq(S)
  OBVIOUS

LEMMA HeaderAppended ==
  ASSUME NEW h, IsHeaderMap(h), NEW n \in Names, NEW v \in ValuesOf(n)
  PROVE  LET g == Put(h, n, Append(h[n], v))
         IN /\ IsHeaderMap(g) /\ g[n] = Append(h[n], v)
            /\ \A m \in Names \ {n} : g[m] = h[m]
  <1>1. h[n] \in Seq(ValuesOf(n))
    BY DEF IsHeaderMap
  <1>2. PICK s \in Seq(ValuesOf(n)) : s = Append(h[n], v)
    BY <1>1, AppendProperties
  <1>3. /\ IsHeaderMap(Put(h, n, s)) /\ Put(h, n, s)[n] = s
        /\ \A m \in Names \ {n} : Put(h, n, s)[m] = h[m]
    BY HeaderMapKept
  <1>4. QED
    BY <1>2, <1>3

LEMMA FirstValue ==
  ASSUME NEW v
  PROVE  LET s == Append(<<>>, v) IN DOMAIN s = 1..1 /\ s[1] = v
  <1>1. PICK S : v \in S
    <2>1. v \in {v}
      OBVIOUS
    <2>2. QED
      BY <2>1
  <1>2. <<>> \in Seq(S) /\ Len(<<>>) = 0
    OBVIOUS
  <1>3. PICK s : s = Append(<<>>, v)
    OBVIOUS
  <1>4. s \in Seq(S) /\ Len(s) = 1 /\ s[1] = v
    BY <1>1, <1>2, <1>3, AppendProperties
  <1>5. DOMAIN s = 1..1
    BY <1>4, LenProperties
  <1>6. QED
    BY <1>3, <1>4, <1>5

LEMMA OneValue ==
  ASSUME NEW S, NEW v \in S
  PROVE  /\ <<v>> \in Seq(S) /\ Len(<<v>>) = 1 /\ <<v>>[1] = v
         /\ <<v>> # <<>> /\ DOMAIN <<v>> = 1..1
  <1>1. <<v>> \in Seq(S) /\ Len(<<v>>) = 1 /\ <<v>>[1] = v
    OBVIOUS
  <1>2. DOMAIN <<v>> = 1..1
    BY <1>1, LenProperties
  <1>3. QED
    BY <1>1, <1>2

(* What the history says after one more call.                              *)
LEMMA OneMoreCall ==
  ASSUME NEW p \in Seq(Calls), Len(p) >= 1, NEW name \in Calls
  PROVE  LET q == Append(p, name)
         IN /\ Formed(q) <=> Formed(p) \/ name = "multipart"
            /\ Replaced(q) <=>
                 Replaced(p) \/ (Formed(p) /\ name \in BodyCalls)
            /\ Labelled(q) <=> Labelled(p) \/ name \in {"form", "multipart"}
            /\ q[1] = p[1]
  <1>1. PICK q : q = Append(p, name)
    OBVIOUS
  <1>2. PICK n \in Nat : n = Len(p)
    BY LenProperties
  <1>3. /\ DOMAIN p = 1..n /\ DOMAIN q = 1..(n + 1) /\ q[n + 1] = name
        /\ \A i \in 1..n : q[i] = p[i]
    <2>1. /\ q \in Seq(Calls) /\ Len(q) = n + 1
          /\ q[n + 1] = name /\ \A i \in 1..n : q[i] = p[i]
      BY <1>1, <1>2, AppendProperties
    <2>2. DOMAIN p = 1..n /\ DOMAIN q = 1..(n + 1)
      BY <1>2, <2>1, LenProperties
    <2>3. QED
      BY <2>1, <2>2
  <1>4. \A i \in 1..(n + 1) : i \in 1..n \/ i = n + 1
    BY <1>2
  <1>5. 1..n \subseteq 1..(n + 1) /\ n + 1 \in 1..(n + 1)
    BY <1>2
  <1>6. /\ Formed(q) <=> Formed(p) \/ name = "multipart"
        /\ Labelled(q) <=> Labelled(p) \/ name \in {"form", "multipart"}
    BY <1>3, <1>4, <1>5 DEF Formed, Labelled
  <1>7. ASSUME Replaced(q)
        PROVE  Replaced(p) \/ (Formed(p) /\ name \in BodyCalls)
    <2>1. PICK i \in 1..(n + 1), j \in 1..(n + 1) :
             i < j /\ q[i] = "multipart" /\ q[j] \in BodyCalls
      BY <1>3, <1>7 DEF Replaced
    <2>2. i \in 1..n /\ p[i] = "multipart"
      BY <1>2, <1>3, <2>1
    <2>3. CASE j \in 1..n
      BY <1>3, <2>1, <2>2, <2>3 DEF Replaced
    <2>4. CASE j = n + 1
      BY <1>3, <2>1, <2>2, <2>4 DEF Formed
    <2>5. QED
      BY <1>4, <2>3, <2>4
  <1>8. ASSUME Replaced(p) \/ (Formed(p) /\ name \in BodyCalls)
        PROVE  Replaced(q)
    <2>1. CASE Replaced(p)
      BY <1>3, <1>5, <2>1 DEF Replaced
    <2>2. CASE Formed(p) /\ name \in BodyCalls
      <3>1. PICK i \in 1..n : p[i] = "multipart"
        BY <1>3, <2>2 DEF Formed
      <3>2. /\ i \in DOMAIN q /\ n + 1 \in DOMAIN q /\ i < n + 1
            /\ q[i] = "multipart" /\ q[n + 1] \in BodyCalls
        BY <1>2, <1>3, <1>5, <2>2, <3>1
      <3>3. QED
        BY <3>2 DEF Replaced
    <2>3. QED
      BY <1>8, <2>1, <2>2
  <1>9. q[1] = p[1]
    BY <1>2, <1>3
  <1>10. QED
    BY <1>1, <1>6, <1>7, <1>8, <1>9

-----------------------------------------------------------------------------
(* What the operations make of a good request                              *)

LEMMA GoodIsWhole ==
  ASSUME NEW f, NEW r, NEW p, Good(f, r, p)
  PROVE  Whole(r) /\ r.failed = FALSE /\ IsHeaderMap(r.headers)
  <1>1. Whole(r)
    BY DEF Good, Whole
  <1>2. PICK u, h, b, t, v, x : r = Req(u, h, b, t, v, x)
    BY <1>1 DEF Whole
  <1>3. r.failed = FALSE
    BY <1>2 DEF Req
  <1>4. QED
    BY <1>1, <1>3 DEF Good

LEMMA GoodLater ==
  ASSUME NEW f, NEW r, NEW p, Good(f, r, p), NEW q,
         Formed(p) => Formed(q), Replaced(p) => Replaced(q)
  PROVE  Good(f, r, q)
  BY DEF Good

LEMMA GoodHeaders ==
  ASSUME NEW f, NEW r, NEW p, Good(f, r, p), NEW h, IsHeaderMap(h),
         h["content-length"] = r.headers["content-length"]
  PROVE  Good(f, WithHeaders(r, h), p)
  <1>1. PICK s : s = WithHeaders(r, h)
    OBVIOUS
  <1>2. s = Req(r.url, h, r.body, r.timeout, r.version, r.fetch)
    BY <1>1, GoodIsWhole, FieldsSet
  <1>3. /\ s.url = r.url /\ s.headers = h /\ s.body = r.body
        /\ s.timeout = r.timeout /\ s.version = r.version
        /\ s.fetch = r.fetch
    BY <1>2 DEF Req
  <1>4. Good(f, s, p)
    BY <1>2, <1>3 DEF Good
  <1>5. QED
    BY <1>1, <1>4
(* A new body: a form that was given is given up.                          *)
LEMMA GoodBody ==
  ASSUME NEW f, NEW r, NEW p, Good(f, r, p), NEW b \in Bodies, NEW q,
         Formed(p) => Formed(q) /\ Replaced(q)
  PROVE  Good(f, WithBody(r, b), q)
  <1>1. PICK s : s = WithBody(r, b)
    OBVIOUS
  <1>2. s = Req(r.url, r.headers, b, r.timeout, r.version, r.fetch)
    BY <1>1, GoodIsWhole, FieldsSet
  <1>3. /\ s.url = r.url /\ s.headers = r.headers /\ s.body = b
        /\ s.timeout = r.timeout /\ s.version = r.version
        /\ s.fetch = r.fetch
    BY <1>2 DEF Req
  <1>4. Good(f, s, q)
    BY <1>2, <1>3 DEF Good
  <1>5. QED
    BY <1>1, <1>4

LEMMA GoodRest ==
  ASSUME NEW f, NEW r, NEW p, Good(f, r, p), NEW n, NEW y
  PROVE  /\ Good(f, WithTimeout(r, y), p)
         /\ f # "wasm" => Good(f, WithVersion(r, y), p)
         /\ f = "wasm" => Good(f, WithFetch(r, n, y), p)
         /\ Good(f, Query(r, y), p)
  <1>1. Whole(r)
    BY GoodIsWhole
  <1>2. Good(f, WithTimeout(r, y), p)
    <2>1. PICK s : s = WithTimeout(r, y)
      OBVIOUS
    <2>2. s = Req(r.url, r.headers, r.body, y, r.version, r.fetch)
      BY <1>1, <2>1, FieldsSet
    <2>3. /\ s.url = r.url /\ s.headers = r.headers /\ s.body = r.body
          /\ s.timeout = y /\ s.version = r.version /\ s.fetch = r.fetch
      BY <2>2 DEF Req
    <2>4. Good(f, s, p)
      BY <2>2, <2>3 DEF Good
    <2>5. QED
      BY <2>1, <2>4
  <1>3. ASSUME f # "wasm" PROVE Good(f, WithVersion(r, y), p)
    <2>1. PICK s : s = WithVersion(r, y)
      OBVIOUS
    <2>2. s = Req(r.url, r.headers, r.body, r.timeout, y, r.fetch)
      BY <1>1, <2>1, FieldsSet
    <2>3. /\ s.url = r.url /\ s.headers = r.headers /\ s.body = r.body
          /\ s.timeout = r.timeout /\ s.version = y /\ s.fetch = r.fetch
      BY <2>2 DEF Req
    <2>4. Good(f, s, p)
      BY <1>3, <2>2, <2>3 DEF Good
    <2>5. QED
      BY <1>3, <2>1, <2>4
  <1>4. ASSUME f = "wasm" PROVE Good(f, WithFetch(r, n, y), p)
    <2>1. PICK s : s = WithFetch(r, n, y)
      OBVIOUS
    <2>2. s = Req(r.url, r.headers, r.body, r.timeout, r.version,
                  Put(r.fetch, n, y))
      <3>1. WithFetch(r, n, y)
              = Req(r.url, r.headers, r.body, r.timeout, r.version,
                    Put(r.fetch, n, y))
        BY <1>1, FetchSet
      <3>2. QED
        BY <2>1, <3>1
    <2>3. /\ s.url = r.url /\ s.headers = r.headers /\ s.body = r.body
          /\ s.timeout = r.timeout /\ s.version = r.version
          /\ s.fetch = Put(r.fetch, n, y)
      BY <2>2 DEF Req
    <2>4. Good(f, s, p)
      BY <1>4, <2>2, <2>3 DEF Good
    <2>5. QED
      BY <1>4, <2>1, <2>4
  <1>5. Good(f, Query(r, y), p)
    <2>1. PICK u : u = Extended(r.url, y)
      OBVIOUS
    <2>2. PICK s : s = Query(r, y)
      OBVIOUS
    <2>3. s = Req(u, r.headers, r.body, r.timeout, r.version, r.fetch)
      <3>1. r.url = [creds |-> r.url.creds, query |-> r.url.query]
        BY DEF Good
      <3>2. s = WithUrl(r, u)
        BY <1>1, <2>1, <2>2, <3>1, QueryGrows
      <3>3. WithUrl(r, u)
              = Req(u, r.headers, r.body, r.timeout, r.version, r.fetch)
        BY <1>1, FieldsSet
      <3>4. QED
        BY <3>2, <3>3
    <2>4. /\ s.url = u /\ s.headers = r.headers /\ s.body = r.body
          /\ s.timeout = r.timeout /\ s.version = r.version
          /\ s.fetch = r.fetch
      BY <2>3 DEF Req
    <2>5. u = [creds |-> u.creds, query |-> u.query] /\ u.creds = r.url.creds
      BY <2>1 DEF Extended
    <2>6. Good(f, s, p)
      BY <2>3, <2>4, <2>5 DEF Good
    <2>7. QED
      BY <2>2, <2>6
  <1>6. QED
    BY <1>2, <1>3, <1>4, <1>5

-----------------------------------------------------------------------------
(* What the operations make of two requests that agree                     *)

LEMMA AlikeAppended ==
  ASSUME NEW S, NEW s \in Seq(S), NEW t \in Seq(S), Alike(s, t),
         NEW y \in S, NEW z \in S, y.v = z.v
  PROVE  Alike(Append(s, y), Append(t, z))
  <1>1. PICK n \in Nat : n = Len(s) /\ n = Len(t)
    BY LenProperties DEF Alike
  <1>2. PICK a : a = Append(s, y)
    OBVIOUS
  <1>3. PICK b : b = Append(t, z)
    OBVIOUS
  <1>4. /\ Len(a) = n + 1 /\ a[n + 1] = y /\ \A i \in 1..n : a[i] = s[i]
    <2>1. /\ Len(a) = Len(s) + 1 /\ a[Len(s) + 1] = y
          /\ \A i \in 1..Len(s) : a[i] = s[i]
      BY <1>2, AppendProperties
    <2>2. QED
      BY <1>1, <2>1
  <1>5. /\ Len(b) = n + 1 /\ b[n + 1] = z /\ \A i \in 1..n : b[i] = t[i]
    <2>1. /\ Len(b) = Len(t) + 1 /\ b[Len(t) + 1] = z
          /\ \A i \in 1..Len(t) : b[i] = t[i]
      BY <1>3, AppendProperties
    <2>2. QED
      BY <1>1, <2>1
  <1>6. \A i \in 1..(n + 1) : i \in 1..n \/ i = n + 1
    BY <1>1
  <1>7. \A i \in 1..n : s[i].v = t[i].v
    BY <1>1 DEF Alike
  <1>8. Alike(a, b)
    BY <1>4, <1>5, <1>6, <1>7 DEF Alike
  <1>9. QED
    BY <1>2, <1>3, <1>8

LEMMA AgreeLater ==
  ASSUME NEW f, NEW r, NEW b, NEW p, Agree(f, r, b, p), NEW q,
         Replaced(p) => Replaced(q), Labelled(p) => Labelled(q), q[1] = p[1]
  PROVE  Agree(f, r, b, q)
  BY DEF Agree, BlockingLike, WasmLike

LEMMA AgreeHeaders ==
  ASSUME NEW f, NEW r, NEW b, NEW p, Whole(r), Whole(b), Agree(f, r, b, p),
         NEW h, NEW g, h["content-length"] = r.headers["content-length"],
         f = "blocking" => \A n \in Names \ {"content-length"} : g[n] = h[n],
         f = "wasm" /\ asked.creds = None =>
            /\ \A n \in {"authorization", "misc"} : Alike(g[n], h[n])
            /\ Labelled(p) \/ Alike(g["content-type"], h["content-type"])
  PROVE  Agree(f, WithHeaders(r, h), WithHeaders(b, g), p)
  <1>1. PICK s : s = WithHeaders(r, h)
    OBVIOUS
  <1>2. PICK t : t = WithHeaders(b, g)
    OBVIOUS
  <1>3. /\ s = Req(r.url, h, r.body, r.timeout, r.version, r.fetch)
        /\ t = Req(b.url, g, b.body, b.timeout, b.version, b.fetch)
    BY <1>1, <1>2, FieldsSet
  <1>4. /\ s.url = r.url /\ s.headers = h /\ s.body = r.body
        /\ s.timeout = r.timeout /\ s.version = r.version
        /\ t.url = b.url /\ t.headers = g /\ t.body = b.body
        /\ t.timeout = b.timeout /\ t.version = b.version
    BY <1>3 DEF Req
  <1>5. Agree(f, s, t, p)
    BY <1>4 DEF Agree, BlockingLike, WasmLike
  <1>6. QED
    BY <1>1, <1>2, <1>5

LEMMA AgreeBodies ==
  ASSUME NEW f, NEW r, NEW b, NEW p, Good("async", r, p), Good(f, b, p),
         Agree(f, r, b, p),
         NEW x \in Bodies, NEW y \in Bodies, x.data = y.data,
         f = "blocking" => x.len = y.len,
         NEW q, Formed(p) => Replaced(q), Labelled(p) => Labelled(q),
         q[1] = p[1]
  PROVE  Agree(f, WithBody(r, x), WithBody(b, y), q)
  <1>1. PICK s : s = WithBody(r, x)
    OBVIOUS
  <1>2. PICK t : t = WithBody(b, y)
    OBVIOUS
  <1>3. /\ s = Req(r.url, r.headers, x, r.timeout, r.version, r.fetch)
        /\ t = Req(b.url, b.headers, y, b.timeout, b.version, b.fetch)
    BY <1>1, <1>2, FieldsSet, GoodIsWhole
  <1>4. /\ s.url = r.url /\ s.headers = r.headers /\ s.body = x
        /\ s.timeout = r.timeout /\ s.version = r.version
        /\ t.url = b.url /\ t.headers = b.headers /\ t.body = y
        /\ t.timeout = b.timeout /\ t.version = b.version
    BY <1>3 DEF Req
  <1>5. SameBody(x, y)
    BY NoBody DEF SameBody
  <1>6. ~Replaced(q) => r.headers["content-length"] = <<>>
    BY DEF Good
  <1>7. Agree(f, s, t, q)
    BY <1>4, <1>5, <1>6 DEF Agree, BlockingLike, WasmLike
  <1>8. QED
    BY <1>1, <1>2, <1>7

LEMMA AgreeRest ==
  ASSUME NEW f, NEW r, NEW b, NEW p, Good("async", r, p), Good(f, b, p),
         Agree(f, r, b, p), NEW n, NEW y
  PROVE  /\ Agree(f, WithTimeout(r, y), WithTimeout(b, y), p)
         /\ Agree(f, WithVersion(r, y), WithVersion(b, y), p)
         /\ f = "wasm" => Agree(f, r, WithFetch(b, n, y), p)
         /\ Agree(f, Query(r, y), Query(b, y), p)
  <1>1. Whole(r) /\ Whole(b)
    BY GoodIsWhole
  <1>2. Agree(f, WithTimeout(r, y), WithTimeout(b, y), p)
    <2>1. PICK s, t : s = WithTimeout(r, y) /\ t = WithTimeout(b, y)
      OBVIOUS
    <2>2. /\ s = Req(r.url, r.headers, r.body, y, r.version, r.fetch)
          /\ t = Req(b.url, b.headers, b.body, y, b.version, b.fetch)
      BY <1>1, <2>1, FieldsSet
    <2>3. /\ s.url = r.url /\ s.headers = r.headers /\ s.body = r.body
          /\ s.timeout = y /\ s.version = r.version
          /\ t.url = b.url /\ t.headers = b.headers /\ t.body = b.body
          /\ t.timeout = y /\ t.version = b.version
      BY <2>2 DEF Req
    <2>4. Agree(f, s, t, p)
      BY <2>3 DEF Agree, BlockingLike, WasmLike
    <2>5. QED
      BY <2>1, <2>4
  <1>3. Agree(f, WithVersion(r, y), WithVersion(b, y), p)
    <2>1. PICK s, t : s = WithVersion(r, y) /\ t = WithVersion(b, y)
      OBVIOUS
    <2>2. /\ s = Req(r.url, r.headers, r.body, r.timeout, y, r.fetch)
          /\ t = Req(b.url, b.headers, b.body, b.timeout, y, b.fetch)
      BY <1>1, <2>1, FieldsSet
    <2>3. /\ s.url = r.url /\ s.headers = r.headers /\ s.body = r.body
          /\ s.timeout = r.timeout /\ s.version = y
          /\ t.url = b.url /\ t.headers = b.headers /\ t.body = b.body
          /\ t.timeout = b.timeout /\ t.version = y
      BY <2>2 DEF Req
    <2>4. Agree(f, s, t, p)
      BY <2>3 DEF Agree, BlockingLike, WasmLike
    <2>5. QED
      BY <2>1, <2>4
  <1>4. ASSUME f = "wasm"
        PROVE  Agree(f, r, WithFetch(b, n, y), p)
    <2>1. PICK t : t = WithFetch(b, n, y)
      OBVIOUS
    <2>2. t = Req(b.url, b.headers, b.body, b.timeout, b.version,
                  Put(b.fetch, n, y))
      <3>1. WithFetch(b, n, y)
              = Req(b.url, b.headers, b.body, b.timeout, b.version,
                    Put(b.fetch, n, y))
        BY <1>1, FetchSet
      <3>2. QED
        BY <2>1, <3>1
    <2>3. /\ t.url = b.url /\ t.headers = b.headers /\ t.body = b.body
          /\ t.timeout = b.timeout /\ t.version = b.version
      BY <2>2 DEF Req
    <2>4. Agree(f, r, t, p)
      BY <1>4, <2>3 DEF Agree, WasmLike
    <2>5. QED
      BY <2>1, <2>4
  <1>5. Agree(f, Query(r, y), Query(b, y), p)
    <2>1. PICK s, t : s = Query(r, y) /\ t = Query(b, y)
      OBVIOUS
    <2>2. /\ s = Req(Extended(r.url, y), r.headers, r.body, r.timeout,
                     r.version, r.fetch)
          /\ t = Req(Extended(b.url, y), b.headers, b.body, b.timeout,
                     b.version, b.fetch)
      <3>1. /\ r.url = [creds |-> r.url.creds, query |-> r.url.query]
            /\ b.url = [creds |-> b.url.creds, query |-> b.url.query]
        BY DEF Good
      <3>2. /\ s = WithUrl(r, Extended(r.url, y))
            /\ t = WithUrl(b, Extended(b.url, y))
        BY <1>1, <2>1, <3>1, QueryGrows
      <3>3. QED
        BY <1>1, <3>2, FieldsSet
    <2>3. /\ s.url = Extended(r.url, y) /\ s.headers = r.headers
          /\ s.body = r.body /\ s.timeout = r.timeout
          /\ s.version = r.version
          /\ t.url = Extended(b.url, y) /\ t.headers = b.headers
          /\ t.body = b.body /\ t.timeout = b.timeout
          /\ t.version = b.version
      BY <2>2 DEF Req
    <2>4. Agree(f, s, t, p)
      BY <2>3 DEF Agree, BlockingLike, WasmLike
    <2>5. QED
      BY <2>1, <2>4
  <1>6. QED
    BY <1>2, <1>3, <1>4, <1>5

-----------------------------------------------------------------------------
(* What each call makes of a builder, and of the asynchronous one beside it *)

Pair(f, r, b, p) == Good("async", r, p) /\ Good(f, b, p) /\ Agree(f, r, b, p)

LEMMA AppendKeeps ==
  ASSUME NEW f, NEW r, NEW b, NEW p, Pair(f, r, b, p),
         NEW n \in Names \ {"content-length"},
         NEW y \in ValuesOf(n), NEW z \in ValuesOf(n), y.v = z.v,
         f = "blocking" => y = z
  PROVE  /\ Good(f, HeaderAppend(b, n, z), p)
         /\ Agree(f, HeaderAppend(r, n, y), HeaderAppend(b, n, z), p)
  <1> DEFINE h == Put(r.headers, n, Append(r.headers[n], y))
             g == Put(b.headers, n, Append(b.headers[n], z))
  <1>1. /\ Good("async", r, p) /\ Good(f, b, p) /\ Agree(f, r, b, p)
        /\ Whole(r) /\ Whole(b)
        /\ IsHeaderMap(r.headers) /\ IsHeaderMap(b.headers)
    BY GoodIsWhole DEF Pair
  <1>2. r.headers[n] \in Seq(ValuesOf(n)) /\ b.headers[n] \in Seq(ValuesOf(n))
    BY <1>1 DEF IsHeaderMap
  <1>4. /\ IsHeaderMap(g) /\ g[n] = Append(b.headers[n], z)
        /\ \A m \in Names \ {n} : g[m] = b.headers[m]
    BY <1>1, HeaderAppended
  <1>5. /\ h[n] = Append(r.headers[n], y)
        /\ \A m \in Names \ {n} : h[m] = r.headers[m]
    BY <1>1, HeaderAppended
  <1>6. "content-length" \in Names \ {n}
    BY DEF Names
  <1>7. /\ HeaderAppend(r, n, y) = WithHeaders(r, h)
        /\ HeaderAppend(b, n, z) = WithHeaders(b, g)
    BY HeadersPut
  <1> HIDE DEF h, g
  <1>8. Good(f, WithHeaders(b, g), p)
    BY <1>1, <1>4, <1>6, GoodHeaders
  <1>9. f = "blocking" =>
          \A m \in Names \ {"content-length"} : g[m] = h[m]
    <2>1. f = "blocking" =>
            \A m \in Names \ {"content-length"} : b.headers[m] = r.headers[m]
      BY <1>1 DEF Agree, BlockingLike
    <2>2. QED
      BY <1>4, <1>5, <2>1
  <1>10. ASSUME f = "wasm", asked.creds = None, NEW m \in Names,
                Alike(b.headers[m], r.headers[m])
         PROVE  Alike(g[m], h[m])
    <2>1. CASE m = n
      <3>1. Alike(Append(b.headers[n], z), Append(r.headers[n], y))
        BY <1>2, <1>10, <2>1, AlikeAppended
      <3>2. QED
        BY <1>4, <1>5, <2>1, <3>1
    <2>2. CASE m # n
      BY <1>4, <1>5, <1>10, <2>2
    <2>3. QED
      BY <2>1, <2>2
  <1>11. f = "wasm" /\ asked.creds = None =>
            /\ \A m \in {"authorization", "misc"} : Alike(g[m], h[m])
            /\ Labelled(p) \/ Alike(g["content-type"], h["content-type"])
    BY <1>1, <1>10 DEF Agree, WasmLike, Names
  <1>12. Agree(f, WithHeaders(r, h), WithHeaders(b, g), p)
    BY <1>1, <1>5, <1>6, <1>9, <1>11, AgreeHeaders
  <1>13. QED
    BY <1>7, <1>8, <1>12

(* The Content-Type of a body, where there is none.                        *)
OrPut(h, n, v) == IF h[n] = <<>> THEN Put(h, n, <<v>>) ELSE h

LEMMA OrInserted ==
  ASSUME NEW r, Whole(r), NEW n, NEW v
  PROVE  HeaderOrInsert(r, n, v) = WithHeaders(r, OrPut(r.headers, n, v))
  <1>1. CASE r.headers[n] = <<>>
    BY <1>1, HeadersPut DEF HeaderOrInsert, OrPut
  <1>2. CASE r.headers[n] # <<>>
    <2>1. WithHeaders(r, r.headers) = r
      BY FieldsSet DEF Whole
    <2>2. QED
      BY <1>2, <2>1 DEF HeaderOrInsert, OrPut
  <1>3. QED
    BY <1>1, <1>2

LEMMA TypePut ==
  ASSUME NEW h, IsHeaderMap(h), NEW v \in ValuesOf("content-type")
  PROVE  /\ IsHeaderMap(OrPut(h, "content-type", v))
         /\ IsHeaderMap(Put(h, "content-type", <<v>>))
         /\ \A m \in Names \ {"content-type"} :
               /\ OrPut(h, "content-type", v)[m] = h[m]
               /\ Put(h, "content-type", <<v>>)[m] = h[m]
         /\ OrPut(h, "content-type", v)["content-type"]
               = IF h["content-type"] = <<>> THEN <<v>> ELSE h["content-type"]
  <1>1. /\ "content-type" \in Names
        /\ <<v>> \in Seq(ValuesOf("content-type"))
    BY OneValue DEF Names
  <1>2. /\ IsHeaderMap(Put(h, "content-type", <<v>>))
        /\ Put(h, "content-type", <<v>>)["content-type"] = <<v>>
        /\ \A m \in Names \ {"content-type"} :
               Put(h, "content-type", <<v>>)[m] = h[m]
    BY <1>1, HeaderMapKept
  <1>3. QED
    BY <1>2 DEF OrPut

LEMMA TypeKeeps ==
  ASSUME NEW f, NEW r, NEW b, NEW p, Pair(f, r, b, p),
         NEW v \in ValuesOf("content-type")
  PROVE  /\ Good(f, HeaderOrInsert(b, "content-type", v), p)
         /\ Good(f, HeaderInsert(b, "content-type", v), p)
         /\ Agree(f, HeaderOrInsert(r, "content-type", v),
                     HeaderOrInsert(b, "content-type", v), p)
         /\ f = "wasm" /\ Labelled(p) =>
              Agree(f, HeaderOrInsert(r, "content-type", v),
                       HeaderInsert(b, "content-type", v), p)
  <1> DEFINE ct == "content-type"
             h == OrPut(r.headers, ct, v)
             g == OrPut(b.headers, ct, v)
             i == Put(b.headers, ct, <<v>>)
  <1>1. /\ Good("async", r, p) /\ Good(f, b, p) /\ Agree(f, r, b, p)
        /\ Whole(r) /\ Whole(b)
        /\ IsHeaderMap(r.headers) /\ IsHeaderMap(b.headers)
    BY GoodIsWhole DEF Pair
  <1>2. /\ IsHeaderMap(g) /\ IsHeaderMap(i)
        /\ \A m \in Names \ {ct} :
              g[m] = b.headers[m] /\ i[m] = b.headers[m] /\ h[m] = r.headers[m]
        /\ g[ct] = IF b.headers[ct] = <<>> THEN <<v>> ELSE b.headers[ct]
        /\ h[ct] = IF r.headers[ct] = <<>> THEN <<v>> ELSE r.headers[ct]
    BY <1>1, TypePut
  <1>3. /\ HeaderOrInsert(r, ct, v) = WithHeaders(r, h)
        /\ HeaderOrInsert(b, ct, v) = WithHeaders(b, g)
        /\ HeaderInsert(b, ct, v) = WithHeaders(b, i)
    BY <1>1, OrInserted, HeadersPut
  <1>4. /\ {"authorization", "misc", "content-length"} \subseteq Names \ {ct}
        /\ ct \in Names
    BY DEF Names
  <1> HIDE DEF h, g, i
  <1>5. Good(f, WithHeaders(b, g), p) /\ Good(f, WithHeaders(b, i), p)
    BY <1>1, <1>2, <1>4, GoodHeaders
  <1>6. f = "blocking" =>
          \A m \in Names \ {"content-length"} : g[m] = h[m]
    <2>1. f = "blocking" =>
            \A m \in Names \ {"content-length"} : b.headers[m] = r.headers[m]
      BY <1>1 DEF Agree, BlockingLike
    <2>2. QED
      BY <1>2, <1>4, <2>1
  <1>7. f = "wasm" /\ asked.creds = None =>
          \A m \in {"authorization", "misc"} :
             Alike(g[m], h[m]) /\ Alike(i[m], h[m])
    BY <1>1, <1>2, <1>4 DEF Agree, WasmLike
  <1>8. f = "wasm" /\ asked.creds = None =>
          Labelled(p) \/ Alike(g[ct], h[ct])
    <2>1. SUFFICES ASSUME f = "wasm", asked.creds = None, ~Labelled(p)
                   PROVE  Alike(g[ct], h[ct])
      OBVIOUS
    <2>2. Alike(b.headers[ct], r.headers[ct])
      BY <1>1, <2>1 DEF Agree, WasmLike
    <2>3. /\ b.headers[ct] \in Seq(ValuesOf(ct))
          /\ r.headers[ct] \in Seq(ValuesOf(ct))
      BY <1>1, <1>4 DEF IsHeaderMap
    <2>4. b.headers[ct] = <<>> <=> r.headers[ct] = <<>>
      BY <2>2, <2>3, EmptySeq DEF Alike
    <2>5. Alike(<<v>>, <<v>>)
      BY DEF Alike
    <2>6. QED
      BY <1>2, <2>2, <2>4, <2>5
  <1>9. Agree(f, WithHeaders(r, h), WithHeaders(b, g), p)
    BY <1>1, <1>2, <1>4, <1>6, <1>7, <1>8, AgreeHeaders
  <1>10. ASSUME f = "wasm", Labelled(p)
         PROVE  Agree(f, WithHeaders(r, h), WithHeaders(b, i), p)
    BY <1>1, <1>2, <1>4, <1>7, <1>10, AgreeHeaders
  <1>11. QED
    BY <1>3, <1>5, <1>9, <1>10

LEMMA BodyKeeps ==
  ASSUME NEW f, NEW r, NEW b, NEW q, Pair(f, r, b, q),
         Formed(q) => Replaced(q),
         NEW x \in Bodies, NEW y \in Bodies, x.data = y.data,
         f = "blocking" => x.len = y.len
  PROVE  /\ Good(f, WithBody(b, y), q)
         /\ Agree(f, WithBody(r, x), WithBody(b, y), q)
  BY GoodBody, AgreeBodies DEF Pair

LEMMA FormKeeps ==
  ASSUME NEW f, NEW r, NEW b, NEW q, Pair(f, r, b, q),
         Formed(q) => Replaced(q), Labelled(q)
  PROVE  /\ Good(f, FormBody(f, b), q)
         /\ Agree(f, FormBody("async", r), FormBody(f, b), q)
  <1> DEFINE ct == "content-type"
             v == Value("urlencoded", FALSE)
  <1>1. v \in ValuesOf(ct)
    <2>1. "urlencoded" \in Texts /\ FALSE \in BOOLEAN
      BY DEF Texts
    <2>2. ct \in Names \ {"content-length"}
      BY DEF Names
    <2>3. QED
      BY <2>1, <2>2, ValuesMade
  <1>2. PICK x : x = Bytes("pairs") /\ x \in Bodies
    <2>1. "pairs" \in Payloads
      BY DEF Payloads
    <2>2. Bytes("pairs") \in Bodies
      BY <2>1, BodiesMade
    <2>3. QED
      BY <2>2
  <1> HIDE DEF v
  <1>3. PICK s : s = HeaderOrInsert(r, ct, v)
    OBVIOUS
  <1>4. PICK t : t = IF f = "wasm" THEN HeaderInsert(b, ct, v)
                     ELSE HeaderOrInsert(b, ct, v)
    OBVIOUS
  <1>5. Pair("async", r, r, q)
    BY DEF Pair, Agree
  <1>6. Pair(f, s, t, q)
    <2>1. Good("async", s, q)
      BY <1>1, <1>3, <1>5, TypeKeeps
    <2>2. CASE f = "wasm"
      BY <1>1, <1>3, <1>4, <2>1, <2>2, TypeKeeps DEF Pair
    <2>3. CASE f # "wasm"
      BY <1>1, <1>3, <1>4, <2>1, <2>3, TypeKeeps DEF Pair
    <2>4. QED
      BY <2>2, <2>3
  <1>7. /\ FormBody("async", r) = WithBody(s, x)
        /\ FormBody(f, b) = WithBody(t, x)
    BY <1>2, <1>3, <1>4 DEF FormBody, v
  <1>8. QED
    BY <1>2, <1>6, <1>7, BodyKeeps

LEMMA JsonKeeps ==
  ASSUME NEW f, NEW r, NEW b, NEW q, Pair(f, r, b, q),
         Formed(q) => Replaced(q)
  PROVE  /\ Good(f, JsonBody(b), q)
         /\ Agree(f, JsonBody(r), JsonBody(b), q)
  <1> DEFINE ct == "content-type"
             v == Value("json", FALSE)
  <1>1. v \in ValuesOf(ct)
    <2>1. "json" \in Texts /\ FALSE \in BOOLEAN
      BY DEF Texts
    <2>2. ct \in Names \ {"content-length"}
      BY DEF Names
    <2>3. QED
      BY <2>1, <2>2, ValuesMade
  <1>2. PICK x : x = Bytes("json") /\ x \in Bodies
    <2>1. "json" \in Payloads
      BY DEF Payloads
    <2>2. Bytes("json") \in Bodies
      BY <2>1, BodiesMade
    <2>3. QED
      BY <2>2
  <1> HIDE DEF v
  <1>3. PICK s, t : /\ s = HeaderOrInsert(r, ct, v)
                    /\ t = HeaderOrInsert(b, ct, v)
    OBVIOUS
  <1>4. Pair("async", r, r, q)
    BY DEF Pair, Agree
  <1>5. Pair(f, s, t, q)
    BY <1>1, <1>3, <1>4, TypeKeeps DEF Pair
  <1>6. JsonBody(r) = WithBody(s, x) /\ JsonBody(b) = WithBody(t, x)
    BY <1>2, <1>3 DEF JsonBody, v
  <1>7. QED
    BY <1>2, <1>5, <1>6, BodyKeeps

(* The headers of a call replace those of the same name.                   *)
Replacing(h, given) ==
    [n \in Names |-> IF given[n] = <<>> THEN h[n] ELSE given[n]]

LEMMA ReplaceKeeps ==
  ASSUME NEW f, NEW r, NEW b, NEW q, Pair(f, r, b, q),
         NEW given, IsHeaderMap(given), given["content-length"] = <<>>
  PROVE  /\ Good(f, ReplaceHeaders(b, given), q)
         /\ Agree(f, ReplaceHeaders(r, given), ReplaceHeaders(b, given), q)
  <1>1. PICK h, g : h = Replacing(r.headers, given)
                    /\ g = Replacing(b.headers, given)
    OBVIOUS
  <1>2. /\ ReplaceHeaders(r, given) = WithHeaders(r, h)
        /\ ReplaceHeaders(b, given) = WithHeaders(b, g)
    BY <1>1 DEF ReplaceHeaders, WithHeaders, Replacing
  <1>3. /\ Good("async", r, q) /\ Good(f, b, q) /\ Agree(f, r, b, q)
        /\ Whole(r) /\ Whole(b)
        /\ IsHeaderMap(r.headers) /\ IsHeaderMap(b.headers)
    BY GoodIsWhole DEF Pair
  <1>4. \A n \in Names :
          /\ g[n] = IF given[n] = <<>> THEN b.headers[n] ELSE given[n]
          /\ h[n] = IF given[n] = <<>> THEN r.headers[n] ELSE given[n]
    BY <1>1 DEF Replacing
  <1>5. {"authorization", "misc", "content-length", "content-type"}
          \subseteq Names
    BY DEF Names
  <1>6. IsHeaderMap(g)
    <2>1. g = [n \in Names |-> g[n]]
      BY <1>1 DEF Replacing
    <2>2. \A n \in Names : g[n] \in Seq(ValuesOf(n))
      BY <1>3, <1>4 DEF IsHeaderMap
    <2>3. QED
      BY <2>1, <2>2 DEF IsHeaderMap
  <1>7. \A n : Alike(given[n], given[n])
    BY DEF Alike
  <1>8. f = "blocking" =>
          \A m \in Names \ {"content-length"} : g[m] = h[m]
    BY <1>3, <1>4 DEF Agree, BlockingLike
  <1>9. f = "wasm" /\ asked.creds = None =>
          /\ \A n \in {"authorization", "misc"} : Alike(g[n], h[n])
          /\ Labelled(q) \/ Alike(g["content-type"], h["content-type"])
    BY <1>3, <1>4, <1>5, <1>7 DEF Agree, WasmLike
  <1>10. Good(f, WithHeaders(b, g), q)
    BY <1>3, <1>4, <1>5, <1>6, GoodHeaders
  <1>11. Agree(f, WithHeaders(r, h), WithHeaders(b, g), q)
    BY <1>3, <1>4, <1>5, <1>8, <1>9, AgreeHeaders
  <1>12. QED
    BY <1>2, <1>10, <1>11

(* A clone of a request is the request.                                    *)
LEMMA CloneIsSame ==
  ASSUME NEW f, NEW r, NEW q, Good(f, r, q), TryClone(f, r) # None
  PROVE  TryClone(f, r) = r
  <1>1. TryClone(f, r) = RequestClone(f, r)
    BY DEF TryClone
  <1>2. PICK u, h, b, t, v, x : r = Req(u, h, b, t, v, x)
    <2>1. Whole(r)
      BY GoodIsWhole
    <2>2. QED
      BY <2>1 DEF Whole
  <1>3. /\ r.url = u /\ r.headers = h /\ r.body = b /\ r.timeout = t
        /\ r.version = v /\ r.fetch = x
    BY <1>2 DEF Req
  <1>4. (f # "wasm" => x = Fetched) /\ (f = "wasm" => v = "1.1")
    BY <1>3 DEF Good
  <1>5. PICK c : c = RequestClone(f, r)
    OBVIOUS
  <1>6. c = [failed |-> FALSE, url |-> u, headers |-> h, body |-> b,
             timeout |-> t, version |-> v, fetch |-> x]
    BY <1>3, <1>4, <1>5 DEF RequestClone, RequestNew, Fetched
  <1>7. QED
    BY <1>1, <1>2, <1>5, <1>6 DEF Req

-----------------------------------------------------------------------------
(* A multipart form                                                        *)

Forms == {form \in [data : {"parts", "empty form"}, known : BOOLEAN] :
            form.data = "empty form" => form.known}

(* The bodies of one form: each says its length, or that it does not know. *)
LEMMA FormBodies ==
  ASSUME NEW form \in Forms
  PROVE  LET s == FormStream(form)
             r == FormReader(form)
             w == Streaming(form.data, None)
             n == FormLength(form)
         IN /\ s \in Bodies /\ r \in Bodies /\ w \in Bodies
            /\ s.data = form.data /\ r.data = form.data /\ w.data = form.data
            /\ r.len = n
            /\ n = None => s.len = None
            /\ n # None => n \in Nat /\ n = Size(form.data)
  <1>1. form.data \in Payloads /\ form.data \in {"parts", "empty form"}
    BY DEF Forms, Payloads
  <1>2. PICK k \in Nat : k = Size(form.data)
    BY SizeNat
  <1>3. k # None
    BY RequestsAssumption
  <1>4. /\ FormStream(form) \in Bodies /\ FormReader(form) \in Bodies
        /\ Streaming(form.data, None) \in Bodies
    BY <1>1, BodiesMade DEF FormStream, FormReader, FormLength
  <1>5. /\ FormStream(form).data = form.data
        /\ FormReader(form).data = form.data
        /\ FormReader(form).len = FormLength(form)
        /\ Streaming(form.data, None).data = form.data
    BY DEF FormStream, FormReader, Bytes, Streaming
  <1>6. FormLength(form) = None => FormStream(form).len = None
    BY <1>2, <1>3 DEF FormLength, FormStream, Streaming, Forms
  <1>7. FormLength(form) # None =>
          FormLength(form) \in Nat /\ FormLength(form) = Size(form.data)
    BY <1>2 DEF FormLength
  <1>8. QED
    BY <1>4, <1>5, <1>6, <1>7

(* The headers of a form: its type, and a length n if there is one.        *)
FormType == Value("multipart", FALSE)
Typed(h) == Put(h, "content-type", Append(h["content-type"], FormType))
Measured(h, n) ==
    IF n = None THEN h
    ELSE Put(h, "content-length",
             Append(h["content-length"], Value(n, FALSE)))

LEMMA FormHeaders ==
  ASSUME NEW h, IsHeaderMap(h), NEW n \in Nat \cup {None}
  PROVE  /\ IsHeaderMap(Typed(h)) /\ IsHeaderMap(Measured(Typed(h), n))
         /\ \A m \in Names \ {"content-type"} : Typed(h)[m] = h[m]
         /\ \A m \in Names \ {"content-length"} :
               Measured(Typed(h), n)[m] = Typed(h)[m]
         /\ Typed(h)["content-type"] = Append(h["content-type"], FormType)
         /\ Measured(Typed(h), n)["content-length"]
               = IF n = None THEN h["content-length"]
                 ELSE Append(h["content-length"], Value(n, FALSE))
  <1>1. /\ "content-type" \in Names \ {"content-length"}
        /\ "content-length" \in Names \ {"content-type"}
        /\ "multipart" \in Texts /\ FALSE \in BOOLEAN
    BY DEF Names, Texts
  <1>2. PICK t : t = Typed(h)
    OBVIOUS
  <1>3. FormType \in ValuesOf("content-type")
    BY <1>1, ValuesMade DEF FormType
  <1>4. /\ IsHeaderMap(t)
        /\ t["content-type"] = Append(h["content-type"], FormType)
        /\ \A m \in Names \ {"content-type"} : t[m] = h[m]
    BY <1>1, <1>2, <1>3, HeaderAppended DEF Typed
  <1>5. CASE n = None
    BY <1>1, <1>2, <1>4, <1>5 DEF Measured
  <1>6. CASE n # None
    <2>1. PICK v : v = Value(n, FALSE)
      OBVIOUS
    <2>2. v \in ValuesOf("content-length")
      BY <1>1, <1>6, <2>1, ValuesMade
    <2>3. PICK g : g = Put(t, "content-length",
                           Append(t["content-length"], v))
      OBVIOUS
    <2>4. /\ IsHeaderMap(g)
          /\ g["content-length"] = Append(t["content-length"], v)
          /\ \A m \in Names \ {"content-length"} : g[m] = t[m]
      BY <1>1, <1>4, <2>2, <2>3, HeaderAppended
    <2>5. g = Measured(t, n)
      BY <1>6, <2>1, <2>3 DEF Measured
    <2>6. QED
      BY <1>1, <1>2, <1>4, <1>6, <2>1, <2>4, <2>5
  <1>7. QED
    BY <1>5, <1>6

LEMMA MultipartIs ==
  ASSUME NEW r, Whole(r), NEW form
  PROVE  /\ Multipart("async", r, form)
              = Req(r.url, Measured(Typed(r.headers), FormLength(form)),
                    FormStream(form), r.timeout, r.version, r.fetch)
         /\ Multipart("blocking", r, form)
              = Req(r.url, Typed(r.headers), FormReader(form),
                    r.timeout, r.version, r.fetch)
         /\ Multipart("wasm", r, form)
              = Req(r.url, r.headers, Streaming(form.data, None),
                    r.timeout, r.version, r.fetch)
  <1>1. PICK t : t = HeaderAppend(r, "content-type", FormType)
    OBVIOUS
  <1>2. t = WithHeaders(r, Typed(r.headers))
    BY <1>1, HeadersPut DEF Typed
  <1>3. t = Req(r.url, Typed(r.headers), r.body, r.timeout, r.version,
                r.fetch)
    BY <1>2, FieldsSet
  <1>4. /\ t.url = r.url /\ t.headers = Typed(r.headers)
        /\ t.body = r.body /\ t.timeout = r.timeout
        /\ t.version = r.version /\ t.fetch = r.fetch
    BY <1>3 DEF Req
  <1>5. Whole(t)
    BY <1>3, <1>4 DEF Whole
  <1>6. PICK m : m = IF FormLength(form) = None THEN t
                     ELSE HeaderAppend(t, "content-length",
                                       Value(FormLength(form), FALSE))
    OBVIOUS
  <1>7. m = WithHeaders(t, Measured(t.headers, FormLength(form)))
    <2>1. CASE FormLength(form) = None
      <3>1. WithHeaders(t, t.headers) = t
        BY <1>5, FieldsSet DEF Whole
      <3>2. QED
        BY <1>6, <2>1, <3>1 DEF Measured
    <2>2. CASE FormLength(form) # None
      BY <1>6, <2>2, HeadersPut DEF Measured
    <2>3. QED
      BY <2>1, <2>2
  <1>8. m = Req(t.url, Measured(t.headers, FormLength(form)), t.body,
                t.timeout, t.version, t.fetch)
    BY <1>5, <1>7, FieldsSet
  <1>9. /\ m.url = r.url /\ m.timeout = r.timeout
        /\ m.headers = Measured(Typed(r.headers), FormLength(form))
        /\ m.body = r.body /\ m.version = r.version /\ m.fetch = r.fetch
    BY <1>4, <1>8 DEF Req
  <1>10. Whole(m)
    BY <1>8, <1>4, <1>9 DEF Whole
  <1>11. Multipart("async", r, form) = WithBody(m, FormStream(form))
    BY <1>1, <1>6 DEF Multipart, FormType
  <1>12. Multipart("blocking", r, form) = WithBody(t, FormReader(form))
    BY <1>1 DEF Multipart, FormType
  <1>13. Multipart("wasm", r, form) = WithBody(r, Streaming(form.data, None))
    BY DEF Multipart
  <1>14. WithBody(m, FormStream(form))
           = Req(m.url, m.headers, FormStream(form), m.timeout, m.version,
                 m.fetch)
    BY <1>10, FieldsSet
  <1>15. WithBody(t, FormReader(form))
           = Req(t.url, t.headers, FormReader(form), t.timeout, t.version,
                 t.fetch)
    BY <1>5, FieldsSet
  <1>16. WithBody(r, Streaming(form.data, None))
           = Req(r.url, r.headers, Streaming(form.data, None), r.timeout,
                 r.version, r.fetch)
    BY FieldsSet
  <1>17. QED
    BY <1>4, <1>9, <1>11, <1>12, <1>13, <1>14, <1>15, <1>16

LEMMA GoodForm ==
  ASSUME NEW f \in Builders, NEW r, NEW p, Good(f, r, p),
         NEW form \in Forms, NEW q, Formed(q),
         Formed(p) => Replaced(q)
  PROVE  Good(f, Multipart(f, r, form), q)
  <1> DEFINE cl == "content-length"
  <1>1. Whole(r) /\ IsHeaderMap(r.headers)
    BY GoodIsWhole
  <1>2. PICK n \in Nat \cup {None} : n = FormLength(form)
    BY FormBodies
  <1>3. PICK h : h = Measured(Typed(r.headers), n)
    OBVIOUS
  <1>4. PICK g : g = Typed(r.headers)
    OBVIOUS
  <1>5. /\ IsHeaderMap(h) /\ IsHeaderMap(g)
        /\ h[cl] = IF n = None THEN r.headers[cl]
                   ELSE Append(r.headers[cl], Value(n, FALSE))
        /\ g[cl] = r.headers[cl]
    BY <1>1, <1>3, <1>4, FormHeaders DEF Names
  <1>6. r.url = [creds |-> r.url.creds, query |-> r.url.query]
    BY DEF Good
  <1>7. CASE f = "async"
    <2>1. PICK s : s = Multipart("async", r, form)
      OBVIOUS
    <2>2. s = Req(r.url, h, FormStream(form), r.timeout, r.version, r.fetch)
      BY <1>1, <1>2, <1>3, <2>1, MultipartIs
    <2>3. /\ s.url = r.url /\ s.headers = h /\ s.body = FormStream(form)
          /\ s.timeout = r.timeout /\ s.version = r.version
          /\ s.fetch = r.fetch
      BY <2>2 DEF Req
    <2>4. s.body \in Bodies /\ s.body # None /\ s.body.data = form.data
      BY <2>3, FormBodies, NoBody
    <2>5. ASSUME h[cl] # <<>>, ~Replaced(q)
          PROVE  \A k \in DOMAIN h[cl] : h[cl][k].v = Size(s.body.data)
      <3>1. r.headers[cl] = <<>>
        BY <2>5 DEF Good
      <3>2. n # None /\ n = Size(form.data)
        BY <1>2, <1>5, <2>5, <3>1, FormBodies
      <3>3. PICK v : v = Value(n, FALSE)
        OBVIOUS
      <3>4. h[cl] = Append(<<>>, v) /\ v.v = n
        BY <1>5, <3>1, <3>2, <3>3 DEF Value
      <3>5. DOMAIN h[cl] = 1..1 /\ h[cl][1] = v
        BY <3>4, FirstValue
      <3>6. QED
        BY <2>4, <3>2, <3>4, <3>5
    <2>6. Good("async", s, q)
      BY <1>5, <1>6, <1>7, <2>2, <2>3, <2>4, <2>5 DEF Good
    <2>7. QED
      BY <1>7, <2>1, <2>6
  <1>8. CASE f = "blocking"
    <2>1. PICK s : s = Multipart("blocking", r, form)
      OBVIOUS
    <2>2. s = Req(r.url, g, FormReader(form), r.timeout, r.version, r.fetch)
      BY <1>1, <1>4, <2>1, MultipartIs
    <2>3. /\ s.url = r.url /\ s.headers = g /\ s.body = FormReader(form)
          /\ s.timeout = r.timeout /\ s.version = r.version
          /\ s.fetch = r.fetch
      BY <2>2 DEF Req
    <2>4. s.body \in Bodies
      BY <2>3, FormBodies
    <2>5. g[cl] = <<>>
      BY <1>5, <1>8 DEF Good
    <2>6. Good("blocking", s, q)
      BY <1>5, <1>6, <1>8, <2>2, <2>3, <2>4, <2>5 DEF Good
    <2>7. QED
      BY <1>8, <2>1, <2>6
  <1>9. CASE f = "wasm"
    <2>1. PICK s : s = Multipart("wasm", r, form)
      OBVIOUS
    <2>2. s = Req(r.url, r.headers, Streaming(form.data, None), r.timeout,
                  r.version, r.fetch)
      BY <1>1, <2>1, MultipartIs
    <2>3. /\ s.url = r.url /\ s.headers = r.headers
          /\ s.body = Streaming(form.data, None)
          /\ s.timeout = r.timeout /\ s.version = r.version
          /\ s.fetch = r.fetch
      BY <2>2 DEF Req
    <2>4. s.body \in Bodies
      BY <2>3, FormBodies
    <2>5. r.headers[cl] = <<>>
      BY <1>9 DEF Good
    <2>6. Good("wasm", s, q)
      BY <1>6, <1>9, <1>1, <2>2, <2>3, <2>4, <2>5 DEF Good
    <2>7. QED
      BY <1>9, <2>1, <2>6
  <1>10. QED
    BY <1>7, <1>8, <1>9 DEF Builders

LEMMA AgreeForm ==
  ASSUME NEW f \in Builders, NEW r, NEW b, NEW p, Pair(f, r, b, p),
         NEW form \in Forms, NEW q, Labelled(q), q[1] = p[1],
         Formed(p) => Replaced(q)
  PROVE  Agree(f, Multipart("async", r, form), Multipart(f, b, form), q)
  <1> DEFINE cl == "content-length"
             ct == "content-type"
  <1>1. /\ Good("async", r, p) /\ Good(f, b, p) /\ Agree(f, r, b, p)
        /\ Whole(r) /\ Whole(b)
        /\ IsHeaderMap(r.headers) /\ IsHeaderMap(b.headers)
    BY GoodIsWhole DEF Pair
  <1>2. PICK n \in Nat \cup {None} : n = FormLength(form)
    BY FormBodies
  <1>3. PICK h : h = Measured(Typed(r.headers), n)
    OBVIOUS
  <1>4. PICK g : g = Typed(b.headers)
    OBVIOUS
  <1>5. /\ IsHeaderMap(h) /\ IsHeaderMap(g)
        /\ h[ct] = Append(r.headers[ct], FormType)
        /\ g[ct] = Append(b.headers[ct], FormType)
        /\ \A m \in Names \ {cl, ct} :
              h[m] = r.headers[m] /\ g[m] = b.headers[m]
        /\ h[cl] = IF n = None THEN r.headers[cl]
                   ELSE Append(r.headers[cl], Value(n, FALSE))
    <2>1. /\ IsHeaderMap(Typed(b.headers))
          /\ Typed(b.headers)[ct] = Append(b.headers[ct], FormType)
          /\ \A m \in Names \ {ct} : Typed(b.headers)[m] = b.headers[m]
      BY <1>1, <1>2, FormHeaders
    <2>2. /\ IsHeaderMap(h)
          /\ Typed(r.headers)[ct] = Append(r.headers[ct], FormType)
          /\ \A m \in Names \ {ct} : Typed(r.headers)[m] = r.headers[m]
          /\ \A m \in Names \ {cl} : h[m] = Typed(r.headers)[m]
          /\ h[cl] = IF n = None THEN r.headers[cl]
                     ELSE Append(r.headers[cl], Value(n, FALSE))
      BY <1>1, <1>3, FormHeaders
    <2>3. ct \in Names \ {cl} /\ cl \in Names \ {ct}
      BY DEF Names
    <2>4. QED
      BY <1>4, <2>1, <2>2, <2>3
  <1>6. PICK s : s = Multipart("async", r, form)
    OBVIOUS
  <1>7. s = Req(r.url, h, FormStream(form), r.timeout, r.version, r.fetch)
    BY <1>1, <1>2, <1>3, <1>6, MultipartIs
  <1>8. /\ s.url = r.url /\ s.headers = h /\ s.body = FormStream(form)
        /\ s.timeout = r.timeout /\ s.version = r.version
    BY <1>7 DEF Req
  <1>9. /\ s.body # None /\ s.body.data = form.data
        /\ n = None => s.body.len = None
    BY <1>2, <1>8, FormBodies, NoBody
  <1>10. CASE f = "async"
    BY <1>10 DEF Agree
  <1>11. CASE f = "blocking"
    <2>1. PICK t : t = Multipart("blocking", b, form)
      OBVIOUS
    <2>2. t = Req(b.url, g, FormReader(form), b.timeout, b.version, b.fetch)
      BY <1>1, <1>4, <2>1, MultipartIs
    <2>3. /\ t.url = b.url /\ t.headers = g /\ t.body = FormReader(form)
          /\ t.timeout = b.timeout /\ t.version = b.version
      BY <2>2 DEF Req
    <2>4. /\ t.body # None /\ t.body.data = form.data /\ t.body.len = n
          /\ n # None => n = Size(form.data)
      BY <1>2, <2>3, FormBodies, NoBody
    <2>5. BlockingLike(r, b, p)
      BY <1>1, <1>11 DEF Agree
    <2>6. \A m \in Names \ {cl} : g[m] = h[m]
      <3>1. \A m \in Names \ {cl} : b.headers[m] = r.headers[m]
        BY <2>5 DEF BlockingLike
      <3>2. QED
        BY <1>5, <3>1
    <2>7. SameBody(s.body, t.body)
      BY <1>9, <2>4 DEF SameBody
    <2>8. ASSUME ~Replaced(q)
          PROVE  IF h[cl] = <<>>
                 THEN t.body.len = s.body.len
                 ELSE t.body.len = Size(t.body.data)
      <3>1. r.headers[cl] = <<>>
        BY <1>1, <2>8 DEF Good
      <3>2. CASE n = None
        BY <1>5, <1>9, <2>4, <3>1, <3>2
      <3>3. CASE n # None
        BY <1>5, <2>4, <3>1, <3>3
      <3>4. QED
        BY <3>2, <3>3
    <2>9. BlockingLike(s, t, q)
      BY <1>8, <2>3, <2>5, <2>6, <2>7, <2>8 DEF BlockingLike
    <2>10. QED
      BY <1>6, <1>11, <2>1, <2>9 DEF Agree
  <1>12. CASE f = "wasm"
    <2>1. PICK t : t = Multipart("wasm", b, form)
      OBVIOUS
    <2>2. t = Req(b.url, b.headers, Streaming(form.data, None), b.timeout,
                  b.version, b.fetch)
      BY <1>1, <2>1, MultipartIs
    <2>3. /\ t.url = b.url /\ t.headers = b.headers
          /\ t.body = Streaming(form.data, None)
          /\ t.timeout = b.timeout /\ t.version = b.version
      BY <2>2 DEF Req
    <2>4. t.body # None /\ t.body.data = form.data
      BY <2>3, FormBodies, NoBody
    <2>5. SameBody(s.body, t.body)
      BY <1>9, <2>4 DEF SameBody
    <2>6. \A m \in {"authorization", "misc"} : h[m] = r.headers[m]
      BY <1>5 DEF Names
    <2>7. ASSUME asked.creds = None
          PROVE  WasmLike(s, t, q)
      <3>1. WasmLike(r, b, p)
        BY <1>1, <1>12, <2>7 DEF Agree
      <3>2. QED
        BY <1>8, <2>3, <2>5, <2>6, <3>1 DEF WasmLike
    <2>8. QED
      BY <1>6, <1>12, <2>1, <2>7 DEF Agree
  <1>13. QED
    BY <1>10, <1>11, <1>12 DEF Builders

-----------------------------------------------------------------------------
(* A call on the builders                                                  *)

LEMMA WellBegun ==
  ASSUME IInv
  PROVE  /\ "async" \in builders /\ builders \subseteq Builders
         /\ past \in Seq(Calls) /\ Len(past) \in Nat /\ Len(past) >= 1
         /\ bad \in 0..Len(past) /\ bad \in Nat
         /\ bad = 0 => \A f \in builders :
                          Pair(f, req["async"], req[f], past)
  <1>1. "async" \in builders /\ builders \subseteq Builders
    BY RequestsAssumption DEF IInv, TypeOK
  <1>2. /\ past \in Seq(Calls) /\ Len(past) \in 1..(MaxCalls + 1)
        /\ bad \in 0..Len(past)
    BY DEF IInv, TypeOK
  <1>3. PICK n : n = Len(past)
    OBVIOUS
  <1>4. MaxCalls + 1 \in Nat /\ n \in 1..(MaxCalls + 1) /\ bad \in 0..n
    BY <1>2, <1>3, RequestsAssumption
  <1>5. n \in Nat /\ n >= 1 /\ bad \in Nat
    BY <1>4
  <1>6. bad = 0 => \A f \in builders : Pair(f, req["async"], req[f], past)
    BY <1>1 DEF IInv, Pair
  <1>7. QED
    BY <1>1, <1>2, <1>3, <1>5, <1>6

LEMMA PairsLater ==
  ASSUME IInv, bad = 0, NEW name \in Calls, NEW f \in builders
  PROVE  LET q == Append(past, name)
         IN /\ Pair(f, req["async"], req[f], q)
            /\ name \in BodyCalls \ {"multipart"} =>
                 (Formed(q) => Replaced(q))
            /\ name \in {"form", "multipart"} => Labelled(q)
            /\ name = "multipart" =>
                 Formed(q) /\ (Formed(past) => Replaced(q))
            /\ q[1] = past[1]
  <1>1. Pair(f, req["async"], req[f], past)
    BY WellBegun
  <1>2. PICK q : q = Append(past, name)
    OBVIOUS
  <1>3. /\ Formed(q) <=> Formed(past) \/ name = "multipart"
        /\ Replaced(q) <=>
             Replaced(past) \/ (Formed(past) /\ name \in BodyCalls)
        /\ Labelled(q) <=> Labelled(past) \/ name \in {"form", "multipart"}
        /\ q[1] = past[1]
    BY <1>2, WellBegun, OneMoreCall
  <1>4. Pair(f, req["async"], req[f], q)
    BY <1>1, <1>3, GoodLater, AgreeLater DEF Pair
  <1>5. "multipart" \in BodyCalls
    BY DEF BodyCalls
  <1>6. QED
    BY <1>2, <1>3, <1>4, <1>5

(* What a call must do to the requests for the invariant to hold after it. *)
Kept(name, new) ==
    bad = 0 =>
        \A f \in builders :
            /\ Good(f, new[f], Append(past, name))
            /\ Agree(f, new["async"], new[f], Append(past, name))

LEMMA CallKeeps ==
  ASSUME IInv, NEW name \in Calls, NEW ok \in BOOLEAN, NEW new,
         Apply(name, ok, new), Kept(name, new)
  PROVE  IInv'
  <1>1. /\ sent = None /\ sent' = None /\ builders' = builders
        /\ asked' = asked /\ defaults' = defaults
        /\ past' = Append(past, name) /\ Len(past) <= MaxCalls
        /\ bad' = IF bad = 0 /\ ~ok THEN Len(past') ELSE bad
        /\ req' = [f \in builders |-> Outcome(req[f], ok, new[f])]
    BY DEF Apply
  <1>2. PICK n \in Nat : n = Len(past) /\ n >= 1
    BY WellBegun
  <1>3. /\ past' \in Seq(Calls) /\ Len(past') = n + 1
        /\ n + 1 \in 1..(MaxCalls + 1)
    <2>1. past' \in Seq(Calls) /\ Len(past') = n + 1
      BY <1>1, <1>2, WellBegun, AppendProperties
    <2>2. n + 1 \in 1..(MaxCalls + 1)
      BY <1>1, <1>2, RequestsAssumption
    <2>3. QED
      BY <2>1, <2>2
  <1>4. bad \in 0..n /\ bad' \in 0..(n + 1)
    BY <1>1, <1>2, <1>3, WellBegun
  <1>5. DOMAIN req' = builders /\ req' = [f \in builders |-> req'[f]]
    BY <1>1
  <1>6. TypeOK'
    <2>1. builders \in Pairings /\ defaults \in Defaults
          /\ asked \in Urls \cup {None}
      BY DEF IInv, TypeOK
    <2>2. QED
      BY <1>1, <1>3, <1>4, <1>5, <2>1 DEF TypeOK, Urls
  <1>7. ASSUME bad' # 0, NEW f \in builders
        PROVE  req'[f] = Error(bad')
    <2>1. req'[f] = Outcome(req[f], ok, new[f])
      BY <1>1
    <2>2. CASE bad # 0
      <3>1. req[f] = Error(bad) /\ bad' = bad
        BY <1>1, <2>2 DEF IInv
      <3>2. QED
        BY <2>1, <3>1 DEF Outcome, Error
    <2>3. CASE bad = 0
      <3>1. ~ok /\ bad' = n + 1
        BY <1>1, <1>3, <1>7, <2>3
      <3>2. req[f].failed = FALSE
        BY <2>3, GoodIsWhole, WellBegun DEF Pair
      <3>3. QED
        BY <1>2, <2>1, <3>1, <3>2 DEF Outcome
    <2>4. QED
      BY <2>2, <2>3
  <1>8. ASSUME bad' = 0
        PROVE  \A f \in builders :
                 /\ Good(f, req'[f], past')
                 /\ Agree(f, req'["async"], req'[f], past')
    <2>1. bad = 0 /\ ok
      BY <1>1, <1>2, <1>3, <1>8
    <2>2. \A f \in builders : req'[f] = new[f]
      <3>1. \A f \in builders : req[f].failed = FALSE
        BY <2>1, GoodIsWhole, WellBegun DEF Pair
      <3>2. QED
        BY <1>1, <2>1, <3>1 DEF Outcome
    <2>3. QED
      BY <1>1, <2>1, <2>2, WellBegun DEF Kept
  <1>9. (\A f \in builders : /\ Good(f, req[f], past)
                             /\ Agree(f, req["async"], req[f], past))'
         <=> \A f \in builders : /\ Good(f, req'[f], past')
                                 /\ Agree(f, req'["async"], req'[f], past')
    BY <1>1 DEF Good, Agree, BlockingLike, WasmLike
  <1>10. QED
    BY <1>1, <1>5, <1>6, <1>7, <1>8, <1>9 DEF IInv, Error

-----------------------------------------------------------------------------
(* Each call keeps the invariant                                           *)

LEMMA HeaderCall ==
  ASSUME IInv, NEW n \in {"misc", "content-type"}, NEW ok \in BOOLEAN,
         CallHeader(n, ok)
  PROVE  IInv'
  <1> DEFINE new == [f \in builders |->
                       HeaderAppend(req[f], n, Value("own", FALSE))]
             q == Append(past, "header")
  <1>1. "header" \in Calls
    BY DEF Calls
  <1>2. /\ n \in Names \ {"content-length"}
        /\ "own" \in Texts /\ TRUE \in BOOLEAN /\ FALSE \in BOOLEAN
    BY DEF Names, Texts
  <1>3. ASSUME bad = 0, NEW f \in builders
        PROVE  Good(f, new[f], q) /\ Agree(f, new["async"], new[f], q)
    <2>1. /\ new[f] = HeaderAppend(req[f], n, Value("own", FALSE))
          /\ new["async"] = HeaderAppend(req["async"], n, Value("own", FALSE))
      BY WellBegun
    <2>2. Pair(f, req["async"], req[f], q)
      BY <1>1, <1>3, PairsLater
    <2>3. PICK v : v = Value("own", FALSE) /\ v \in ValuesOf(n)
      BY <1>2, ValuesMade
    <2>4. /\ new[f] = HeaderAppend(req[f], n, v)
          /\ new["async"] = HeaderAppend(req["async"], n, v)
      BY <2>1, <2>3
    <2>5. PICK r, b : r = req["async"] /\ b = req[f]
      OBVIOUS
    <2>6. /\ Good(f, HeaderAppend(b, n, v), q)
          /\ Agree(f, HeaderAppend(r, n, v),
                      HeaderAppend(b, n, v), q)
      BY <1>2, <2>2, <2>3, <2>5, AppendKeeps
    <2>7. QED
      BY <2>4, <2>5, <2>6
  <1>4. Apply("header", ok, new)
    BY DEF CallHeader
  <1> HIDE DEF new
  <1>5. Kept("header", new)
    BY <1>3 DEF Kept
  <1>6. QED
    BY <1>1, <1>4, <1>5, CallKeeps

LEMMA BasicAuthCall ==
  ASSUME IInv, CallBasicAuth
  PROVE  IInv'
  <1> DEFINE new == [f \in builders |-> BasicAuth(f, req[f], "basic")]
             q == Append(past, "basic_auth")
  <1>1. "basic_auth" \in Calls
    BY DEF Calls
  <1>2. /\ "authorization" \in Names \ {"content-length"}
        /\ "basic" \in Texts /\ TRUE \in BOOLEAN /\ FALSE \in BOOLEAN
    BY DEF Names, Texts
  <1>3. ASSUME bad = 0, NEW f \in builders
        PROVE  Good(f, new[f], q) /\ Agree(f, new["async"], new[f], q)
    <2>1. /\ new[f] = BasicAuth(f, req[f], "basic")
          /\ new["async"] = BasicAuth("async", req["async"], "basic")
      BY WellBegun
    <2>2. Pair(f, req["async"], req[f], q)
      BY <1>1, <1>3, PairsLater
    <2>3. PICK v : /\ v = Value("basic", TRUE)
                   /\ v \in ValuesOf("authorization")
      BY <1>2, ValuesMade
    <2>4. /\ new[f] = HeaderAppend(req[f], "authorization", v)
          /\ new["async"] = HeaderAppend(req["async"], "authorization", v)
      BY <2>1, <2>3 DEF BasicAuth
    <2>5. PICK r, b : r = req["async"] /\ b = req[f]
      OBVIOUS
    <2>6. /\ Good(f, HeaderAppend(b, "authorization", v), q)
          /\ Agree(f, HeaderAppend(r, "authorization", v),
                      HeaderAppend(b, "authorization", v), q)
      BY <1>2, <2>2, <2>3, <2>5, AppendKeeps
    <2>7. QED
      BY <2>4, <2>5, <2>6
  <1>4. Apply("basic_auth", TRUE, new)
    BY DEF CallBasicAuth
  <1> HIDE DEF new
  <1>5. Kept("basic_auth", new)
    BY <1>3 DEF Kept
  <1>6. QED
    BY <1>1, <1>4, <1>5, CallKeeps

LEMMA BearerAuthCall ==
  ASSUME IInv, NEW ok \in BOOLEAN, CallBearerAuth(ok)
  PROVE  IInv'
  <1> DEFINE new == [f \in builders |-> BearerAuth(f, req[f], "bearer")]
             q == Append(past, "bearer_auth")
  <1>1. "bearer_auth" \in Calls
    BY DEF Calls
  <1>2. /\ "authorization" \in Names \ {"content-length"}
        /\ "bearer" \in Texts /\ TRUE \in BOOLEAN /\ FALSE \in BOOLEAN
    BY DEF Names, Texts
  <1>3. ASSUME bad = 0, NEW f \in builders
        PROVE  Good(f, new[f], q) /\ Agree(f, new["async"], new[f], q)
    <2>1. /\ new[f] = BearerAuth(f, req[f], "bearer")
          /\ new["async"] = BearerAuth("async", req["async"], "bearer")
      BY WellBegun
    <2>2. Pair(f, req["async"], req[f], q)
      BY <1>1, <1>3, PairsLater
    <2>3. PICK y : /\ y = Value("bearer", TRUE)
                   /\ y \in ValuesOf("authorization")
      BY <1>2, ValuesMade
    <2>4. PICK z : /\ z = Value("bearer", f # "wasm")
                   /\ z \in ValuesOf("authorization")
      BY <1>2, ValuesMade
    <2>5. /\ new[f] = HeaderAppend(req[f], "authorization", z)
          /\ new["async"] = HeaderAppend(req["async"], "authorization", y)
      BY <2>1, <2>3, <2>4 DEF BearerAuth, HeaderSensitive
    <2>6. y.v = z.v /\ (f = "blocking" => y = z)
      BY <2>3, <2>4 DEF Value
    <2>7. PICK r, b : r = req["async"] /\ b = req[f]
      OBVIOUS
    <2>8. /\ Good(f, HeaderAppend(b, "authorization", z), q)
          /\ Agree(f, HeaderAppend(r, "authorization", y),
                      HeaderAppend(b, "authorization", z), q)
      BY <1>2, <2>2, <2>3, <2>4, <2>6, <2>7, AppendKeeps
    <2>9. QED
      BY <2>5, <2>7, <2>8
  <1>4. Apply("bearer_auth", ok, new)
    BY DEF CallBearerAuth
  <1> HIDE DEF new
  <1>5. Kept("bearer_auth", new)
    BY <1>3 DEF Kept
  <1>6. QED
    BY <1>1, <1>4, <1>5, CallKeeps

LEMMA HeadersCall ==
  ASSUME IInv, CallHeaders
  PROVE  IInv'
  <1> DEFINE given == [NoHeaders EXCEPT !["misc"] = <<Value("x", FALSE),
                                                     Value("y", FALSE)>>]
             new == [f \in builders |-> ReplaceHeaders(req[f], given)]
             q == Append(past, "headers")
  <1>1. "headers" \in Calls
    BY DEF Calls
  <1>2. /\ IsHeaderMap(given) /\ given["content-length"] = <<>>
        /\ "headers" \in Calls
    <2>1. PICK v : /\ v = Value("x", FALSE) /\ v \in ValuesOf("misc")
      BY ValuesMade DEF Names, Texts
    <2>2. PICK w : /\ w = Value("y", FALSE) /\ w \in ValuesOf("misc")
      BY ValuesMade DEF Names, Texts
    <2>3. given = [NoHeaders EXCEPT !["misc"] = <<v, w>>]
      BY <2>1, <2>2
    <2>4. PICK s \in Seq(ValuesOf("misc")) : s = <<v, w>>
      BY <2>1, <2>2, TwoValues
    <2>5. given = [NoHeaders EXCEPT !["misc"] = s]
      BY <2>3, <2>4
    <2>6. given = Put(NoHeaders, "misc", s)
      BY <2>5 DEF Put
    <2>7. /\ "misc" \in Names /\ "content-length" \in Names \ {"misc"}
      BY DEF Names
    <2>8. PICK h : h = Put(NoHeaders, "misc", s)
      OBVIOUS
    <2>9. IsHeaderMap(h) /\ h["content-length"] = <<>>
      BY <2>7, <2>8, HeaderMapKept, NoHeaderMap
    <2>10. given = h
      BY <2>6, <2>8
    <2>11. QED
      BY <1>1, <2>9, <2>10
  <1> HIDE DEF given
  <1>3. ASSUME bad = 0, NEW f \in builders
        PROVE  Good(f, new[f], q) /\ Agree(f, new["async"], new[f], q)
    <2>1. /\ new[f] = ReplaceHeaders(req[f], given)
          /\ new["async"] = ReplaceHeaders(req["async"], given)
      BY WellBegun
    <2> HIDE DEF new
    <2>2. PICK r, b : r = req["async"] /\ b = req[f]
      OBVIOUS
    <2>3. Pair(f, r, b, q)
      BY <1>1, <1>3, <2>2, PairsLater
    <2> HIDE DEF q
    <2>4. /\ Good(f, ReplaceHeaders(b, given), q)
          /\ Agree(f, ReplaceHeaders(r, given), ReplaceHeaders(b, given), q)
      BY <1>2, <2>3, ReplaceKeeps
    <2>5. QED
      BY <2>1, <2>2, <2>4
  <1>4. Apply("headers", TRUE, new)
    BY DEF CallHeaders, given
  <1> HIDE DEF new, given
  <1>5. Kept("headers", new)
    BY <1>3 DEF Kept
  <1>6. QED
    BY <1>1, <1>4, <1>5, CallKeeps

LEMMA BodyCall ==
  ASSUME IInv, CallBody
  PROVE  IInv'
  <1> DEFINE new == [f \in builders |-> WithBody(req[f], Bytes("text"))]
             q == Append(past, "body")
  <1>1. "body" \in Calls
    BY DEF Calls
  <1>2. Bytes("text") \in Bodies /\ "body" \in BodyCalls \ {"multipart"}
    <2>1. "text" \in Payloads
      BY DEF Payloads
    <2>2. QED
      BY <2>1, BodiesMade DEF BodyCalls
  <1>3. ASSUME bad = 0, NEW f \in builders
        PROVE  Good(f, new[f], q) /\ Agree(f, new["async"], new[f], q)
    <2>1. /\ new[f] = WithBody(req[f], Bytes("text"))
          /\ new["async"] = WithBody(req["async"], Bytes("text"))
      BY WellBegun
    <2>2. Pair(f, req["async"], req[f], q)
      BY <1>1, <1>3, PairsLater
    <2>3. Formed(q) => Replaced(q)
      BY <1>1, <1>2, <1>3, PairsLater
    <2>4. QED
      BY <1>2, <2>1, <2>2, <2>3, BodyKeeps
  <1>4. Apply("body", TRUE, new)
    BY DEF CallBody
  <1> HIDE DEF new
  <1>5. Kept("body", new)
    BY <1>3 DEF Kept
  <1>6. QED
    BY <1>1, <1>4, <1>5, CallKeeps

LEMMA StreamCall ==
  ASSUME IInv, NEW len \in {None, Size("stream")},
         CallStream(len)
  PROVE  IInv'
  <1> DEFINE new == [f \in builders |->
                       WithBody(req[f], Streaming("stream", len))]
             q == Append(past, "body")
  <1>1. "body" \in Calls
    BY DEF Calls
  <1>2. /\ Streaming("stream", len) \in Bodies
        /\ "body" \in BodyCalls \ {"multipart"}
    <2>1. "stream" \in Payloads
      BY DEF Payloads
    <2>2. QED
      BY <2>1, BodiesMade DEF BodyCalls
  <1>3. ASSUME bad = 0, NEW f \in builders
        PROVE  Good(f, new[f], q) /\ Agree(f, new["async"], new[f], q)
    <2>1. /\ new[f] = WithBody(req[f], Streaming("stream", len))
          /\ new["async"] = WithBody(req["async"], Streaming("stream", len))
      BY WellBegun
    <2>2. Pair(f, req["async"], req[f], q)
      BY <1>1, <1>3, PairsLater
    <2>3. Formed(q) => Replaced(q)
      BY <1>1, <1>2, <1>3, PairsLater
    <2>4. QED
      BY <1>2, <2>1, <2>2, <2>3, BodyKeeps
  <1>4. Apply("body", TRUE, new)
    BY DEF CallStream
  <1> HIDE DEF new
  <1>5. Kept("body", new)
    BY <1>3 DEF Kept
  <1>6. QED
    BY <1>1, <1>4, <1>5, CallKeeps

LEMMA TimeoutCall ==
  ASSUME IInv, CallTimeout
  PROVE  IInv'
  <1> DEFINE new == [f \in builders |-> WithTimeout(req[f], 1)]
             q == Append(past, "timeout")
  <1>1. "timeout" \in Calls
    BY DEF Calls
  <1>3. ASSUME bad = 0, NEW f \in builders
        PROVE  Good(f, new[f], q) /\ Agree(f, new["async"], new[f], q)
    <2>1. /\ new[f] = WithTimeout(req[f], 1)
          /\ new["async"] = WithTimeout(req["async"], 1)
      BY WellBegun
    <2>2. Pair(f, req["async"], req[f], q)
      BY <1>1, <1>3, PairsLater
    <2>3. QED
      BY <2>1, <2>2, GoodRest, AgreeRest DEF Pair
  <1>4. Apply("timeout", TRUE, new)
    BY DEF CallTimeout
  <1> HIDE DEF new
  <1>5. Kept("timeout", new)
    BY <1>3 DEF Kept
  <1>6. QED
    BY <1>1, <1>4, <1>5, CallKeeps

LEMMA VersionCall ==
  ASSUME IInv, CallVersion
  PROVE  IInv'
  <1> DEFINE new == [f \in builders |-> WithVersion(req[f], "2")]
             q == Append(past, "version")
  <1>1. "version" \in Calls
    BY DEF Calls
  <1>2. "wasm" \notin builders
    BY DEF CallVersion
  <1>3. ASSUME bad = 0, NEW f \in builders
        PROVE  Good(f, new[f], q) /\ Agree(f, new["async"], new[f], q)
    <2>1. /\ new[f] = WithVersion(req[f], "2")
          /\ new["async"] = WithVersion(req["async"], "2")
      BY WellBegun
    <2>2. Pair(f, req["async"], req[f], q)
      BY <1>1, <1>3, PairsLater
    <2>3. QED
      BY <1>2, <2>1, <2>2, GoodRest, AgreeRest DEF Pair
  <1>4. Apply("version", TRUE, new)
    BY DEF CallVersion
  <1> HIDE DEF new
  <1>5. Kept("version", new)
    BY <1>3 DEF Kept
  <1>6. QED
    BY <1>1, <1>4, <1>5, CallKeeps

LEMMA QueryCall ==
  ASSUME IInv, NEW pairs, NEW ok \in BOOLEAN, CallQuery(pairs, ok)
  PROVE  IInv'
  <1> DEFINE new == [f \in builders |-> Query(req[f], pairs)]
             q == Append(past, "query")
  <1>1. "query" \in Calls
    BY DEF Calls
  <1>3. ASSUME bad = 0, NEW f \in builders
        PROVE  Good(f, new[f], q) /\ Agree(f, new["async"], new[f], q)
    <2>1. /\ new[f] = Query(req[f], pairs)
          /\ new["async"] = Query(req["async"], pairs)
      BY WellBegun
    <2>2. Pair(f, req["async"], req[f], q)
      BY <1>1, <1>3, PairsLater
    <2>3. QED
      BY <2>1, <2>2, GoodRest, AgreeRest DEF Pair
  <1>4. Apply("query", ok, new)
    BY DEF CallQuery
  <1> HIDE DEF new
  <1>5. Kept("query", new)
    BY <1>3 DEF Kept
  <1>6. QED
    BY <1>1, <1>4, <1>5, CallKeeps

LEMMA FormCall ==
  ASSUME IInv, NEW ok \in BOOLEAN, CallForm(ok)
  PROVE  IInv'
  <1> DEFINE new == [f \in builders |-> FormBody(f, req[f])]
             q == Append(past, "form")
  <1>1. "form" \in Calls
    BY DEF Calls
  <1>2. "form" \in BodyCalls \ {"multipart"}
    BY DEF BodyCalls
  <1>3. ASSUME bad = 0, NEW f \in builders
        PROVE  Good(f, new[f], q) /\ Agree(f, new["async"], new[f], q)
    <2>1. /\ new[f] = FormBody(f, req[f])
          /\ new["async"] = FormBody("async", req["async"])
      BY WellBegun
    <2>2. Pair(f, req["async"], req[f], q)
      BY <1>1, <1>3, PairsLater
    <2>3. (Formed(q) => Replaced(q)) /\ Labelled(q)
      BY <1>1, <1>2, <1>3, PairsLater
    <2>4. QED
      BY <2>1, <2>2, <2>3, FormKeeps
  <1>4. Apply("form", ok, new)
    BY DEF CallForm
  <1> HIDE DEF new
  <1>5. Kept("form", new)
    BY <1>3 DEF Kept
  <1>6. QED
    BY <1>1, <1>4, <1>5, CallKeeps

LEMMA JsonCall ==
  ASSUME IInv, NEW ok \in BOOLEAN, CallJson(ok)
  PROVE  IInv'
  <1> DEFINE new == [f \in builders |-> JsonBody(req[f])]
             q == Append(past, "json")
  <1>1. "json" \in Calls
    BY DEF Calls
  <1>2. "json" \in BodyCalls \ {"multipart"}
    BY DEF BodyCalls
  <1>3. ASSUME bad = 0, NEW f \in builders
        PROVE  Good(f, new[f], q) /\ Agree(f, new["async"], new[f], q)
    <2>1. /\ new[f] = JsonBody(req[f])
          /\ new["async"] = JsonBody(req["async"])
      BY WellBegun
    <2>2. Pair(f, req["async"], req[f], q)
      BY <1>1, <1>3, PairsLater
    <2>3. Formed(q) => Replaced(q)
      BY <1>1, <1>2, <1>3, PairsLater
    <2>4. QED
      BY <2>1, <2>2, <2>3, JsonKeeps
  <1>4. Apply("json", ok, new)
    BY DEF CallJson
  <1> HIDE DEF new
  <1>5. Kept("json", new)
    BY <1>3 DEF Kept
  <1>6. QED
    BY <1>1, <1>4, <1>5, CallKeeps

LEMMA MultipartCall ==
  ASSUME IInv, NEW form \in Forms, CallMultipart(form)
  PROVE  IInv'
  <1> DEFINE new == [f \in builders |-> Multipart(f, req[f], form)]
             q == Append(past, "multipart")
  <1>1. "multipart" \in Calls
    BY DEF Calls
  <1>3. ASSUME bad = 0, NEW f \in builders
        PROVE  Good(f, new[f], q) /\ Agree(f, new["async"], new[f], q)
    <2>1. /\ new[f] = Multipart(f, req[f], form)
          /\ new["async"] = Multipart("async", req["async"], form)
      BY WellBegun
    <2>2. Pair(f, req["async"], req[f], q)
      BY <1>1, <1>3, PairsLater
    <2>3. /\ Pair(f, req["async"], req[f], past) /\ f \in Builders
      BY <1>3, WellBegun
    <2>4. /\ Formed(q) /\ (Formed(past) => Replaced(q)) /\ Labelled(q)
          /\ q[1] = past[1]
      BY <1>1, <1>3, PairsLater
    <2>5. Good(f, new[f], q)
      BY <2>1, <2>3, <2>4, GoodForm DEF Pair
    <2>6. QED
      BY <2>1, <2>3, <2>4, <2>5, AgreeForm
  <1>4. Apply("multipart", TRUE, new)
    BY DEF CallMultipart
  <1> HIDE DEF new
  <1>5. Kept("multipart", new)
    BY <1>3 DEF Kept
  <1>6. QED
    BY <1>1, <1>4, <1>5, CallKeeps

LEMMA FetchCall ==
  ASSUME IInv, NEW option, NEW v, CallFetch(option, v)
  PROVE  IInv'
  <1> DEFINE new == [f \in builders |->
                       IF f = "wasm" THEN WithFetch(req[f], option, v)
                       ELSE req[f]]
             q == Append(past, "fetch")
  <1>1. "fetch" \in Calls
    BY DEF Calls
  <1>3. ASSUME bad = 0, NEW f \in builders
        PROVE  Good(f, new[f], q) /\ Agree(f, new["async"], new[f], q)
    <2>1. /\ new[f] = IF f = "wasm" THEN WithFetch(req[f], option, v)
                      ELSE req[f]
          /\ new["async"] = req["async"]
      BY WellBegun
    <2>2. Pair(f, req["async"], req[f], q)
      BY <1>1, <1>3, PairsLater
    <2>3. CASE f = "wasm"
      BY <2>1, <2>2, <2>3, GoodRest, AgreeRest DEF Pair
    <2>4. CASE f # "wasm"
      BY <2>1, <2>2, <2>4 DEF Pair
    <2>5. QED
      BY <2>3, <2>4
  <1>4. Apply("fetch", TRUE, new)
    BY DEF CallFetch
  <1> HIDE DEF new
  <1>5. Kept("fetch", new)
    BY <1>3 DEF Kept
  <1>6. QED
    BY <1>1, <1>4, <1>5, CallKeeps

LEMMA CloneCall ==
  ASSUME IInv, CallTryClone
  PROVE  IInv'
  <1> DEFINE new == [f \in builders |-> TryClone(f, req[f])]
             q == Append(past, "try_clone")
  <1>1. "try_clone" \in Calls
    BY DEF Calls
  <1>2. \A f \in builders : TryClone(f, req[f]) # None
    BY DEF CallTryClone
  <1>3. ASSUME bad = 0, NEW f \in builders
        PROVE  Good(f, new[f], q) /\ Agree(f, new["async"], new[f], q)
    <2>1. /\ new[f] = TryClone(f, req[f])
          /\ new["async"] = TryClone("async", req["async"])
      BY WellBegun
    <2>2. Pair(f, req["async"], req[f], q)
      BY <1>1, <1>3, PairsLater
    <2>3. new[f] = req[f] /\ new["async"] = req["async"]
      BY <1>2, <2>1, <2>2, WellBegun, CloneIsSame DEF Pair
    <2>4. QED
      BY <2>2, <2>3 DEF Pair
  <1>4. Apply("try_clone", TRUE, new)
    BY DEF CallTryClone
  <1> HIDE DEF new
  <1>5. Kept("try_clone", new)
    BY <1>3 DEF Kept
  <1>6. QED
    BY <1>1, <1>4, <1>5, CallKeeps

-----------------------------------------------------------------------------
(* How the builders begin                                                  *)

LEMMA SelfAgree ==
  ASSUME NEW f, NEW r, NEW p, r.headers["content-length"] = <<>>
  PROVE  Agree(f, r, r, p)
  BY DEF Agree, BlockingLike, WasmLike, Alike, SameBody

LEMMA RequestNewIs ==
  ASSUME NEW url \in Urls
  PROVE  /\ RequestNew(url)
              = Req(url, NoHeaders, None, None, "1.1", Fetched)
         /\ url = [creds |-> url.creds, query |-> url.query]
  BY DEF RequestNew, Req, Fetched, Urls

LEMMA RequestNewGood ==
  ASSUME NEW f, NEW url \in Urls, asked = url, NEW p
  PROVE  /\ Good(f, RequestNew(url), p)
         /\ RequestNew(url).headers["content-length"] = <<>>
         /\ RequestNew(url).url = url
  <1>1. PICK r : r = RequestNew(url)
    OBVIOUS
  <1>2. r = Req(url, NoHeaders, None, None, "1.1", Fetched)
    BY <1>1, RequestNewIs
  <1>3. /\ r.url = url /\ r.headers = NoHeaders /\ r.body = None
        /\ r.timeout = None /\ r.version = "1.1" /\ r.fetch = Fetched
    BY <1>2 DEF Req
  <1>4. /\ IsHeaderMap(NoHeaders) /\ NoHeaders["content-length"] = <<>>
        /\ url = [creds |-> url.creds, query |-> url.query]
    BY NoHeaderMap, RequestNewIs DEF Names
  <1>5. Good(f, r, p)
    BY <1>2, <1>3, <1>4 DEF Good
  <1>6. QED
    BY <1>1, <1>3, <1>4, <1>5

(* The credentials of a URL become a header, but in a browser.             *)
LEMMA BuilderNewGood ==
  ASSUME NEW f, NEW url \in Urls, asked = url, NEW p
  PROVE  LET r == BuilderNew(f, RequestNew(url))
         IN Good(f, r, p) /\ r.headers["content-length"] = <<>>
  <1>1. PICK r : r = RequestNew(url)
    OBVIOUS
  <1>2. Good(f, r, p) /\ r.headers["content-length"] = <<>> /\ r.url = url
    BY <1>1, RequestNewGood
  <1>3. PICK auth : auth = ExtractAuthority(r.url)
    OBVIOUS
  <1>4. CASE f = "wasm" \/ auth = None
    BY <1>1, <1>2, <1>3, <1>4 DEF BuilderNew
  <1>5. CASE f # "wasm" /\ auth # None
    <2>1. PICK u : u = [creds |-> None, query |-> url.query]
      OBVIOUS
    <2>2. PICK s : s = WithUrl(r, u)
      OBVIOUS
    <2>3. s = Req(u, r.headers, r.body, r.timeout, r.version, r.fetch)
      BY <1>2, <2>2, GoodIsWhole, FieldsSet
    <2>4. /\ s.url = u /\ s.headers = r.headers /\ s.body = r.body
          /\ s.timeout = r.timeout /\ s.version = r.version
          /\ s.fetch = r.fetch
      BY <2>3 DEF Req
    <2>5. u = [creds |-> u.creds, query |-> u.query]
      BY <2>1
    <2>6. Good(f, s, p)
      <3>1. /\ IsHeaderMap(r.headers) /\ r.body \in Bodies \cup {None}
            /\ r.fetch = Fetched /\ r.headers["content-length"] = <<>>
        BY <1>2, <1>5 DEF Good
      <3>2. f # "wasm"
        BY <1>5
      <3>3. QED
        BY <2>3, <2>4, <2>5, <3>1, <3>2 DEF Good
    <2>7. u = [url EXCEPT !.creds = None]
      BY <2>1, RequestNewIs
    <2>8. s = [r EXCEPT !.url.creds = None]
      BY <1>2, <2>2, <2>7 DEF WithUrl
    <2>9. /\ auth \in Texts /\ TRUE \in BOOLEAN
          /\ "authorization" \in Names \ {"content-length"}
          /\ "content-length" \in Names \ {"authorization"}
          /\ "authorization" \in Names
      BY <1>3, <1>5 DEF ExtractAuthority, Texts, Names
    <2>10. PICK v : v = Value(auth, TRUE) /\ v \in ValuesOf("authorization")
      BY <2>9, ValuesMade
    <2>11. PICK h : h = Put(s.headers, "authorization",
                            Append(s.headers["authorization"], v))
      OBVIOUS
    <2>12. /\ IsHeaderMap(h)
           /\ h["content-length"] = s.headers["content-length"]
      BY <2>6, <2>9, <2>10, <2>11, GoodIsWhole, HeaderAppended
    <2>13. Good(f, WithHeaders(s, h), p)
      BY <2>6, <2>12, GoodHeaders
    <2>14. WithHeaders(s, h).headers = h
      <3>1. WithHeaders(s, h)
              = Req(s.url, h, s.body, s.timeout, s.version, s.fetch)
        BY <2>6, GoodIsWhole, FieldsSet
      <3>2. QED
        BY <3>1 DEF Req
    <2>15. BuilderNew(f, r) = WithHeaders(s, h)
      <3>1. BuilderNew(f, r) = HeaderAppend(s, "authorization", v)
        BY <1>3, <1>5, <2>8, <2>10 DEF BuilderNew, BasicAuth
      <3>2. QED
        BY <2>11, <3>1, HeadersPut
    <2>16. QED
      BY <1>1, <1>2, <2>4, <2>12, <2>13, <2>14, <2>15
  <1>6. QED
    BY <1>4, <1>5

(* Without credentials the builders begin alike.                           *)
LEMMA BuilderNewAgrees ==
  ASSUME NEW f \in Builders, NEW url \in Urls, asked = url, NEW p
  PROVE  Agree(f, BuilderNew("async", RequestNew(url)),
                  BuilderNew(f, RequestNew(url)), p)
  <1>1. PICK r : r = RequestNew(url)
    OBVIOUS
  <1>2. r.url = url /\ BuilderNew("async", r).headers["content-length"] = <<>>
    BY <1>1, RequestNewGood, BuilderNewGood
  <1>3. CASE f # "wasm"
    <2>1. BuilderNew(f, r) = BuilderNew("async", r)
      BY <1>3 DEF BuilderNew, BasicAuth
    <2>2. QED
      BY <1>1, <1>2, <2>1, SelfAgree
  <1>4. CASE f = "wasm" /\ asked.creds = None
    <2>1. ExtractAuthority(url) = None
      BY <1>4, RequestsAssumption DEF ExtractAuthority, Creds
    <2>2. BuilderNew(f, r) = BuilderNew("async", r)
      BY <1>2, <2>1 DEF BuilderNew
    <2>3. QED
      BY <1>1, <1>2, <2>2, SelfAgree
  <1>5. CASE f = "wasm" /\ asked.creds # None
    BY <1>5 DEF Agree
  <1>6. QED
    BY <1>3, <1>4, <1>5

(* A request of the http crate has headers of its own.                     *)
LEMMA FromHttpGood ==
  ASSUME NEW f, NEW url \in Urls, asked = url, NEW p, p[1] = "from_http",
         NEW headers, IsHeaderMap(headers),
         headers["content-length"] = <<>>, NEW version
  PROVE  /\ Good(f, FromHttp(f, url, headers, version), p)
         /\ Agree(f, FromHttp("async", url, headers, version),
                     FromHttp(f, url, headers, version), p)
  <1>1. PICK b : b = Bytes("text") /\ b \in Bodies
    <2>1. "text" \in Payloads
      BY DEF Payloads
    <2>2. Bytes("text") \in Bodies
      BY <2>1, BodiesMade
    <2>3. QED
      BY <2>2
  <1>2. PICK r : r = FromHttp("async", url, headers, version)
    OBVIOUS
  <1>3. PICK s : s = FromHttp(f, url, headers, version)
    OBVIOUS
  <1>4. r = Req(url, headers, b, None, version, Fetched)
    BY <1>1, <1>2 DEF FromHttp, RequestNew, Req, Fetched
  <1>5. s = Req(url, headers, b, None,
                IF f = "async" THEN version ELSE "1.1", Fetched)
    BY <1>1, <1>3 DEF FromHttp, RequestNew, Req, Fetched
  <1>6. /\ r.url = url /\ r.headers = headers /\ r.body = b
        /\ r.timeout = None /\ r.version = version /\ r.fetch = Fetched
    BY <1>4 DEF Req
  <1>7. /\ s.url = url /\ s.headers = headers /\ s.body = b
        /\ s.timeout = None /\ s.fetch = Fetched
        /\ s.version = IF f = "async" THEN version ELSE "1.1"
    BY <1>5 DEF Req
  <1>8. url = [creds |-> url.creds, query |-> url.query]
    BY RequestNewIs
  <1>9. Good(f, s, p)
    BY <1>1, <1>5, <1>7, <1>8 DEF Good
  <1>10. Agree(f, r, s, p)
    BY <1>6, <1>7 DEF Agree, BlockingLike, WasmLike, Alike, SameBody
  <1>11. QED
    BY <1>2, <1>3, <1>9, <1>10

LEMMA InitKeeps == Init => IInv
  <1> SUFFICES ASSUME Init PROVE IInv
    OBVIOUS
  <1>1. /\ builders \in Pairings /\ defaults \in Defaults /\ sent = None
        /\ "async" \in builders /\ builders \subseteq Builders
    BY RequestsAssumption DEF Init
  <1>2. ASSUME NEW first \in Calls, NEW text \in Urls \cup {None},
               Begin(first, text), NEW new, req = [f \in builders |-> new[f]],
               text = None => \A f \in builders : new[f] = Error(1),
               text # None => \A f \in builders :
                                /\ Good(f, new[f], past)
                                /\ Agree(f, new["async"], new[f], past)
        PROVE  IInv
    <2>1. /\ past = <<first>> /\ asked = text
          /\ bad = IF text = None THEN 1 ELSE 0
      BY <1>2 DEF Begin
    <2>2. past \in Seq(Calls) /\ Len(past) = 1
      BY <2>1, OneValue
    <2>3. 1 \in 1..(MaxCalls + 1) /\ bad \in 0..1
      BY <2>1, RequestsAssumption
    <2>4. DOMAIN req = builders /\ req = [f \in builders |-> req[f]]
          /\ \A f \in builders : req[f] = new[f]
      BY <1>2
    <2>5. TypeOK
      BY <1>1, <1>2, <2>1, <2>2, <2>3, <2>4 DEF TypeOK
    <2>6. bad # 0 => text = None /\ bad = 1
      BY <2>1
    <2>7. bad = 0 => text # None
      BY <2>1
    <2>8. QED
      BY <1>1, <1>2, <2>4, <2>5, <2>6, <2>7 DEF IInv
  <1>3. CASE NewRequest
    <2>1. PICK text \in Urls \cup {None} :
            /\ Begin("request", text)
            /\ req = [f \in builders |->
                        IF text = None THEN Error(1)
                        ELSE BuilderNew(f, RequestNew(text))]
      BY <1>3 DEF NewRequest
    <2>2. text # None => \A f \in builders :
             /\ Good(f, BuilderNew(f, RequestNew(text)), past)
             /\ Agree(f, BuilderNew("async", RequestNew(text)),
                         BuilderNew(f, RequestNew(text)), past)
      BY <1>1, <2>1, BuilderNewGood, BuilderNewAgrees DEF Begin
    <2>3. /\ "request" \in Calls
          /\ req = [f \in builders |-> req[f]]
          /\ text = None => \A f \in builders : req[f] = Error(1)
          /\ text # None => \A f \in builders :
               req[f] = BuilderNew(f, RequestNew(text))
      BY <2>1 DEF Calls
    <2>4. QED
      BY <1>1, <1>2, <2>1, <2>2, <2>3
  <1>4. CASE NewFromParts
    <2>1. PICK url \in Urls :
            /\ Begin("from_parts", url)
            /\ req = [f \in builders |-> RequestNew(url)]
      BY <1>4 DEF NewFromParts
    <2>2. \A f \in builders :
            /\ Good(f, RequestNew(url), past)
            /\ Agree(f, RequestNew(url), RequestNew(url), past)
      BY <2>1, RequestNewGood, SelfAgree DEF Begin
    <2>3. /\ "from_parts" \in Calls
          /\ req = [f \in builders |-> req[f]]
          /\ \A f \in builders : req[f] = RequestNew(url)
      BY <2>1 DEF Calls
    <2>4. url # None
      BY RequestsAssumption
    <2>5. QED
      BY <1>1, <1>2, <2>1, <2>2, <2>3, <2>4
  <1>5. CASE NewFromHttp
    <2>1. PICK url \in Urls, version \in {"1.1", "2"},
               headers \in {[NoHeaders EXCEPT !["misc"] =
                               <<Value("http", FALSE)>>]} :
            /\ Begin("from_http", url)
            /\ req = [f \in builders |-> FromHttp(f, url, headers, version)]
      BY <1>5 DEF NewFromHttp
    <2>2. IsHeaderMap(headers) /\ headers["content-length"] = <<>>
      <3>1. /\ "misc" \in Names \ {"content-length"} /\ "http" \in Texts
            /\ FALSE \in BOOLEAN /\ "misc" \in Names
            /\ "content-length" \in Names \ {"misc"}
        BY DEF Names, Texts
      <3>2. PICK v : v = Value("http", FALSE) /\ v \in ValuesOf("misc")
        BY <3>1, ValuesMade
      <3>3. PICK s \in Seq(ValuesOf("misc")) : s = <<v>>
        BY <3>2, OneValue
      <3>4. headers = Put(NoHeaders, "misc", s)
        BY <3>2, <3>3 DEF Put
      <3>5. QED
        BY <3>1, <3>4, HeaderMapKept, NoHeaderMap
    <2>3. past[1] = "from_http" /\ asked = url
      BY <2>1 DEF Begin
    <2>4. \A f \in builders :
            /\ Good(f, FromHttp(f, url, headers, version), past)
            /\ Agree(f, FromHttp("async", url, headers, version),
                        FromHttp(f, url, headers, version), past)
      BY <2>2, <2>3, FromHttpGood
    <2>5. /\ "from_http" \in Calls
          /\ req = [f \in builders |-> req[f]]
          /\ \A f \in builders : req[f] = FromHttp(f, url, headers, version)
      BY <2>1 DEF Calls
    <2>6. url # None
      BY RequestsAssumption
    <2>7. QED
      BY <1>1, <1>2, <2>1, <2>4, <2>5, <2>6
  <1>6. QED
    BY <1>3, <1>4, <1>5 DEF Init

-----------------------------------------------------------------------------
(* The invariant                                                           *)

(* What goes out depends on the request, the defaults and the history.     *)
LEMMA WireKept ==
  ASSUME defaults' = defaults, past' = past
  PROVE  \A f, r : Wire(f, r)' = Wire(f, r)
  <1>1. DefaultHeaders' = DefaultHeaders
    BY DEF DefaultHeaders
  <1>2. \A h : MergeHeaders(h)' = MergeHeaders(h)
    BY <1>1 DEF MergeHeaders
  <1>3. \A r : Fetch(r)' = Fetch(r)
    BY DEF Fetch
  <1>4. \A f, r : IntoAsync(f, r)' = IntoAsync(f, r)
    BY DEF IntoAsync
  <1>5. QED
    BY <1>2, <1>3, <1>4 DEF Wire

(* The requests of a step that leaves them alone stay alike.               *)
LEMMA AlikeKept ==
  ASSUME IInv, builders' = builders, asked' = asked, req' = req,
         past' = past, bad' = bad
  PROVE  (/\ bad # 0 => \A f \in builders : req[f] = Error(bad)
          /\ bad = 0 =>
               \A f \in builders : /\ Good(f, req[f], past)
                                    /\ Agree(f, req["async"], req[f], past))'
  <1>1. (bad # 0 => \A f \in builders : req[f] = Error(bad))'
    BY DEF IInv, Error
  <1>2. ASSUME bad' = 0, NEW f \in builders'
        PROVE  Good(f, req[f], past)' /\ Agree(f, req["async"], req[f], past)'
    <2>1. Good(f, req[f], past) /\ Agree(f, req["async"], req[f], past)
      BY <1>2 DEF IInv
    <2>2. PICK r, a, p : r = req[f] /\ a = req["async"] /\ p = past
      OBVIOUS
    <2>3. Good(f, r, p)'
      BY <2>1, <2>2 DEF Good
    <2>4. Agree(f, a, r, p)'
      BY <2>1, <2>2 DEF Agree, BlockingLike, WasmLike
    <2>5. /\ Good(f, req[f], past)' = Good(f, r, p)'
          /\ Agree(f, req["async"], req[f], past)' = Agree(f, a, r, p)'
      BY <2>2
    <2>6. QED
      BY <2>3, <2>4, <2>5
  <1>3. QED
    BY <1>1, <1>2

LEMMA SendKeeps ==
  ASSUME IInv, Send
  PROVE  IInv'
  <1>1. /\ builders' = builders /\ asked' = asked /\ defaults' = defaults
        /\ req' = req /\ past' = past /\ bad' = bad
        /\ sent' = [f \in builders |-> Wire(f, req[f])]
    BY DEF Send
  <1>2. TypeOK' /\ (req = [f \in builders |-> req[f]])'
    BY <1>1 DEF IInv, TypeOK, Urls
  <1>3. (sent # None => sent = [f \in builders |-> Wire(f, req[f])])'
    BY <1>1, WireKept
  <1>4. (/\ bad # 0 => \A f \in builders : req[f] = Error(bad)
         /\ bad = 0 =>
              \A f \in builders : /\ Good(f, req[f], past)
                                   /\ Agree(f, req["async"], req[f], past))'
    BY <1>1, AlikeKept
  <1>5. QED
    BY <1>2, <1>3, <1>4 DEF IInv

LEMMA StutterKeeps ==
  ASSUME IInv, UNCHANGED vars
  PROVE  IInv'
  <1>1. /\ builders' = builders /\ asked' = asked /\ defaults' = defaults
        /\ req' = req /\ past' = past /\ bad' = bad /\ sent' = sent
    BY DEF vars
  <1>2. TypeOK' /\ (req = [f \in builders |-> req[f]])'
    BY <1>1 DEF IInv, TypeOK, Urls
  <1>3. (sent # None => sent = [f \in builders |-> Wire(f, req[f])])'
    BY <1>1, WireKept DEF IInv
  <1>4. (/\ bad # 0 => \A f \in builders : req[f] = Error(bad)
         /\ bad = 0 =>
              \A f \in builders : /\ Good(f, req[f], past)
                                   /\ Agree(f, req["async"], req[f], past))'
    BY <1>1, AlikeKept
  <1>5. QED
    BY <1>2, <1>3, <1>4 DEF IInv

LEMMA NextKeeps == IInv /\ [Next]_vars => IInv'
  <1> SUFFICES ASSUME IInv, [Next]_vars PROVE IInv'
    OBVIOUS
  <1>1. ASSUME NEW n \in {"misc", "content-type"}, NEW ok \in BOOLEAN,
               CallHeader(n, ok)
        PROVE  IInv'
    BY <1>1, HeaderCall
  <1>2. CASE CallHeaders
    BY <1>2, HeadersCall
  <1>3. CASE CallBasicAuth
    BY <1>3, BasicAuthCall
  <1>4. ASSUME NEW ok \in BOOLEAN,
               CallBearerAuth(ok) \/ CallForm(ok) \/ CallJson(ok)
        PROVE  IInv'
    BY <1>4, BearerAuthCall, FormCall, JsonCall
  <1>5. CASE CallBody \/ CallTimeout \/ CallVersion \/ CallTryClone
    BY <1>5, BodyCall, TimeoutCall, VersionCall, CloneCall
  <1>6. ASSUME NEW len \in {None, Size("stream")}, CallStream(len)
        PROVE  IInv'
    BY <1>6, StreamCall
  <1>7. ASSUME NEW pairs \in {<<>>, <<"a">>}, NEW ok \in BOOLEAN,
               CallQuery(pairs, ok)
        PROVE  IInv'
    BY <1>7, QueryCall
  <1>8. ASSUME NEW form \in [data : {"parts", "empty form"}, known : BOOLEAN],
               form.data = "empty form" => form.known, CallMultipart(form)
        PROVE  IInv'
    <2>1. form \in Forms
      BY <1>8 DEF Forms
    <2>2. QED
      BY <1>8, <2>1, MultipartCall
  <1>9. ASSUME NEW option, NEW v, CallFetch(option, v)
        PROVE  IInv'
    BY <1>9, FetchCall
  <1>10. CASE Send
    BY <1>10, SendKeeps
  <1>11. CASE UNCHANGED vars
    BY <1>11, StutterKeeps
  <1>12. CASE Done
    BY <1>12, StutterKeeps DEF Done
  <1>13. QED
    BY <1>1, <1>2, <1>3, <1>4, <1>5, <1>6, <1>7, <1>8, <1>9, <1>10, <1>11,
       <1>12 DEF Next

(* What the builders hold is what the calls so far made of it, alike for   *)
(* the builders that are compared: each call of RequestBuilder keeps it.   *)
THEOREM RequestsInvariant == Spec => []IInv
  <1>1. Init => IInv
    BY InitKeeps
  <1>2. IInv /\ [Next]_vars => IInv'
    BY NextKeeps
  <1>3. QED
    BY <1>1, <1>2, PTL DEF Spec

(* Every variable has its type.                                            *)
THEOREM TypeCorrect == Spec => []TypeOK
  <1>1. IInv => TypeOK
    BY DEF IInv
  <1>2. QED
    BY <1>1, RequestsInvariant, PTL

-----------------------------------------------------------------------------
(* What goes out                                                           *)

SentBody(f, r) ==
    IF f = "wasm"
    THEN IF r.body = None THEN None
         ELSE IF Size(r.body.data) = 0 THEN None ELSE r.body
    ELSE IF r.body = None THEN Bytes("nothing") ELSE r.body

Out(f, r) == IntoAsync(f, r).headers

LEMMA IntoAsyncIs ==
  ASSUME NEW f, NEW r, NEW p, Good(f, r, p)
  PROVE  /\ IntoAsync(f, r) = Req(r.url, Out(f, r), r.body, r.timeout,
                                  r.version, r.fetch)
         /\ \A n \in Names \ {"content-length"} : Out(f, r)[n] = r.headers[n]
         /\ Out(f, r)["content-length"]
              = IF f = "blocking" /\ r.body # None /\ r.body.len # None
                THEN <<Value(r.body.len, FALSE)>>
                ELSE r.headers["content-length"]
  <1>1. Whole(r) /\ IsHeaderMap(r.headers)
    BY GoodIsWhole
  <1>2. PICK o : o = IntoAsync(f, r)
    OBVIOUS
  <1>3. CASE f = "blocking" /\ r.body # None /\ r.body.len # None
    <2>1. PICK v : v = Value(r.body.len, FALSE)
      OBVIOUS
    <2>2. r.body.len \in Nat /\ "content-length" \in Names
      BY <1>3 DEF Good, Bodies, Names
    <2>3. v \in ValuesOf("content-length")
      BY <2>1, <2>2, ValuesMade
    <2>4. PICK s \in Seq(ValuesOf("content-length")) : s = <<v>>
      BY <2>3, OneValue
    <2>5. PICK h : h = Put(r.headers, "content-length", s)
      OBVIOUS
    <2>6. /\ h["content-length"] = s
          /\ \A n \in Names \ {"content-length"} : h[n] = r.headers[n]
      BY <1>1, <2>2, <2>5, HeaderMapKept
    <2>7. o = WithHeaders(r, h)
      BY <1>2, <1>3, <2>1, <2>4, <2>5, HeadersPut DEF IntoAsync
    <2>8. o = Req(r.url, h, r.body, r.timeout, r.version, r.fetch)
      BY <1>1, <2>7, FieldsSet
    <2>9. o.headers = h
      BY <2>8 DEF Req
    <2>10. QED
      BY <1>2, <1>3, <2>1, <2>4, <2>6, <2>8, <2>9 DEF Out
  <1>4. CASE ~(f = "blocking" /\ r.body # None /\ r.body.len # None)
    <2>1. o = r
      BY <1>2, <1>4 DEF IntoAsync
    <2>2. QED
      BY <1>1, <1>2, <1>4, <2>1 DEF Out, Whole
  <1>5. QED
    BY <1>3, <1>4

LEMMA WireIs ==
  ASSUME NEW f, NEW r, NEW p, Good(f, r, p)
  PROVE  LET w == Wire(f, r)
         IN /\ w.failed <=> f = "wasm" /\ r.url.creds # None
            /\ ~w.failed =>
                 /\ w.url = r.url /\ w.timeout = r.timeout
                 /\ w.version = r.version /\ w.body = SentBody(f, r)
                 /\ w.headers = MergeHeaders(Out(f, r))
  <1>1. Whole(r) /\ r.failed = FALSE
    BY GoodIsWhole
  <1>2. PICK o : o = IntoAsync(f, r)
    OBVIOUS
  <1>3. PICK h : h = Out(f, r)
    OBVIOUS
  <1>4. o = Req(r.url, h, r.body, r.timeout, r.version, r.fetch)
    BY <1>2, <1>3, IntoAsyncIs
  <1>5. /\ o.url = r.url /\ o.headers = h /\ o.body = r.body
        /\ o.timeout = r.timeout /\ o.version = r.version
        /\ o.fetch = r.fetch
    BY <1>4 DEF Req
  <1>6. Whole(o)
    BY <1>4, <1>5 DEF Whole
  <1>7. PICK m : m = WithHeaders(o, MergeHeaders(h))
    OBVIOUS
  <1>8. m = Req(r.url, MergeHeaders(h), r.body, r.timeout, r.version,
                r.fetch)
    BY <1>5, <1>6, <1>7, FieldsSet
  <1>9. /\ m.url = r.url /\ m.headers = MergeHeaders(h)
        /\ m.body = r.body /\ m.timeout = r.timeout
        /\ m.version = r.version /\ m.fetch = r.fetch /\ m.failed = FALSE
    BY <1>8 DEF Req
  <1>10. Whole(m)
    BY <1>8, <1>9 DEF Whole
  <1>11. m = [o EXCEPT !.headers = MergeHeaders(o.headers)]
    BY <1>5, <1>7 DEF WithHeaders
  <1>12. Wire(f, r) = IF f = "wasm" THEN Fetch(m)
                      ELSE IF o.body = None THEN WithBody(m, Bytes("nothing"))
                           ELSE m
    BY <1>1, <1>2, <1>11 DEF Wire
  <1>13. \A y : WithBody(m, y) = Req(r.url, MergeHeaders(h), y, r.timeout,
                                     r.version, r.fetch)
    BY <1>9, <1>10, FieldsSet
  <1>14. CASE f = "wasm" /\ r.url.creds # None
    BY <1>9, <1>12, <1>14 DEF Fetch, Error
  <1>15. CASE f = "wasm" /\ r.url.creds = None
    <2>1. PICK w : w = Wire(f, r)
      OBVIOUS
    <2>2. CASE r.body = None
      <3>1. w = m /\ SentBody(f, r) = None
        BY <1>9, <1>12, <1>15, <2>1, <2>2 DEF Fetch, SentBody
      <3>2. QED
        BY <1>3, <1>9, <1>15, <2>1, <2>2, <3>1
    <2>3. CASE r.body # None /\ Size(r.body.data) = 0
      <3>1. w = WithBody(m, None) /\ SentBody(f, r) = None
        BY <1>9, <1>12, <1>15, <2>1, <2>3 DEF Fetch, SentBody
      <3>2. QED
        <4>1. w = Req(r.url, MergeHeaders(h), SentBody(f, r), r.timeout,
                      r.version, r.fetch)
          BY <1>13, <3>1
        <4>2. QED
          BY <1>3, <1>15, <2>1, <4>1 DEF Req
    <2>4. CASE r.body # None /\ Size(r.body.data) # 0
      <3>1. w = m /\ SentBody(f, r) = r.body
        BY <1>9, <1>12, <1>15, <2>1, <2>4 DEF Fetch, SentBody
      <3>2. QED
        BY <1>3, <1>9, <1>15, <2>1, <3>1
    <2>5. QED
      BY <2>2, <2>3, <2>4
  <1>16. CASE f # "wasm"
    <2>1. PICK w : w = Wire(f, r)
      OBVIOUS
    <2>2. CASE r.body = None
      <3>1. w = WithBody(m, Bytes("nothing"))
            /\ SentBody(f, r) = Bytes("nothing")
        BY <1>5, <1>12, <1>16, <2>1, <2>2 DEF SentBody
      <3>2. QED
        <4>1. w = Req(r.url, MergeHeaders(h), SentBody(f, r), r.timeout,
                      r.version, r.fetch)
          BY <1>13, <3>1
        <4>2. QED
          BY <1>3, <1>16, <2>1, <4>1 DEF Req
    <2>3. CASE r.body # None
      <3>1. w = m /\ SentBody(f, r) = r.body
        BY <1>5, <1>12, <1>16, <2>1, <2>3 DEF SentBody
      <3>2. QED
        BY <1>3, <1>9, <1>16, <2>1, <3>1
    <2>4. QED
      BY <2>2, <2>3
  <1>17. QED
    BY <1>14, <1>15, <1>16

LEMMA FirstErrorSent == IInv => FirstErrorWins
  <1> SUFFICES ASSUME IInv, sent # None, NEW f \in builders
               PROVE  IF bad # 0 THEN sent[f] = Error(bad)
                      ELSE sent[f].failed => f = "wasm" /\ asked.creds # None
    BY DEF FirstErrorWins
  <1>1. sent[f] = Wire(f, req[f])
    BY DEF IInv
  <1>2. CASE bad # 0
    <2>1. req[f] = Error(bad)
      BY <1>2 DEF IInv
    <2>2. QED
      BY <1>1, <1>2, <2>1 DEF Wire, Error
  <1>3. CASE bad = 0
    <2>1. Good(f, req[f], past)
      BY <1>3 DEF IInv
    <2>2. sent[f].failed => f = "wasm" /\ req[f].url.creds # None
      BY <1>1, <2>1, WireIs
    <2>3. f = "wasm" => req[f].url.creds = asked.creds
      BY <2>1 DEF Good
    <2>4. QED
      BY <1>3, <2>2, <2>3
  <1>4. QED
    BY <1>2, <1>3

LEMMA ClonesSent == IInv => CloneIsEqual
  <1> SUFFICES ASSUME IInv, NEW f \in builders, TryClone(f, req[f]) # None
               PROVE  Wire(f, TryClone(f, req[f])) = Wire(f, req[f])
    BY DEF CloneIsEqual
  <1>1. bad = 0
    BY DEF IInv, Error, TryClone
  <1>2. Good(f, req[f], past)
    BY <1>1 DEF IInv
  <1>3. QED
    BY <1>2, CloneIsSame

(* What the invariant says of a request that was sent.                     *)
LEMMA WellSentIs ==
  ASSUME IInv, NEW f \in WellSent
  PROVE  /\ bad = 0 /\ f \in builders /\ f \in Builders
         /\ Good(f, req[f], past) /\ Agree(f, req["async"], req[f], past)
         /\ f = "wasm" => asked.creds = None
         /\ sent[f].url = req[f].url /\ sent[f].timeout = req[f].timeout
         /\ sent[f].version = req[f].version
         /\ sent[f].body = SentBody(f, req[f])
         /\ sent[f].headers = MergeHeaders(Out(f, req[f]))
  <1>1. /\ sent # None /\ f \in builders /\ f \in Builders
        /\ ~sent[f].failed
    BY WellBegun DEF WellSent
  <1>2. sent[f] = Wire(f, req[f])
    BY <1>1 DEF IInv
  <1>3. bad = 0
    <2>1. SUFFICES ASSUME bad # 0 PROVE FALSE
      OBVIOUS
    <2>2. req[f] = Error(bad)
      BY <1>1, <2>1 DEF IInv
    <2>3. QED
      BY <1>1, <1>2, <2>2 DEF Wire, Error
  <1>4. Good(f, req[f], past) /\ Agree(f, req["async"], req[f], past)
    BY <1>1, <1>3 DEF IInv
  <1>5. f = "wasm" => req[f].url.creds = None
    BY <1>1, <1>2, <1>4, WireIs
  <1>6. f = "wasm" => asked.creds = None
    BY <1>4, <1>5 DEF Good
  <1>7. QED
    BY <1>1, <1>2, <1>3, <1>4, <1>6, WireIs

(* No default is a Content-Length.                                         *)
LEMMA LengthKept ==
  ASSUME IInv, NEW h
  PROVE  MergeHeaders(h)["content-length"] = h["content-length"]
  <1>1. "content-length" \in Names /\ defaults["content-length"] = <<>>
    BY RequestsAssumption DEF IInv, TypeOK, Names
  <1>2. DefaultHeaders["content-length"] = <<>>
    BY <1>1 DEF DefaultHeaders
  <1>3. QED
    BY <1>1, <1>2 DEF MergeHeaders

LEMMA LengthSent == IInv => LengthIsOfTheBody
  <1> DEFINE cl == "content-length"
  <1> SUFFICES ASSUME IInv, NEW f \in WellSent,
                      ~(f = "async" /\ Overridden),
                      NEW k \in DOMAIN Values(f, cl)
               PROVE  Values(f, cl)[k].v = Size(sent[f].body.data)
    BY DEF LengthIsOfTheBody
  <1>1. PICK r : r = req[f]
    OBVIOUS
  <1>2. /\ Good(f, r, past) /\ sent[f].body = SentBody(f, r)
        /\ sent[f].headers = MergeHeaders(Out(f, r)) /\ f \in Builders
    BY <1>1, WellSentIs
  <1>3. Values(f, cl) = Out(f, r)[cl]
    BY <1>2, LengthKept DEF Values
  <1>4. Out(f, r)[cl] = IF f = "blocking" /\ r.body # None /\ r.body.len # None
                        THEN <<Value(r.body.len, FALSE)>>
                        ELSE r.headers[cl]
    BY <1>2, IntoAsyncIs
  <1>5. CASE f = "blocking" /\ r.body # None /\ r.body.len # None
    <2>1. r.body.len = Size(r.body.data) /\ sent[f].body = r.body
      BY <1>2, <1>5 DEF Good, Bodies, SentBody
    <2>2. PICK v : v = Value(r.body.len, FALSE)
      OBVIOUS
    <2>3. v.v = r.body.len
      BY <2>2 DEF Value
    <2>4. Values(f, cl) = <<v>>
      BY <1>3, <1>4, <1>5, <2>2
    <2>5. k \in 1..1 /\ <<v>>[1] = v
      BY <2>4, OneValue
    <2>6. k = 1
      BY <2>5
    <2>7. QED
      BY <2>1, <2>3, <2>4, <2>5, <2>6
  <1>6. CASE ~(f = "blocking" /\ r.body # None /\ r.body.len # None)
    <2>1. Values(f, cl) = r.headers[cl] /\ r.headers[cl] # <<>>
      <3>1. Values(f, cl) = r.headers[cl]
        BY <1>3, <1>4, <1>6
      <3>2. DOMAIN <<>> = {}
        OBVIOUS
      <3>3. QED
        BY <3>1, <3>2
    <2>2. f = "async"
      BY <1>2, <2>1 DEF Good
    <2>3. ~Replaced(past)
      BY <2>2 DEF Overridden, Replaced
    <2>4. r.body # None /\ r.headers[cl][k].v = Size(r.body.data)
      BY <1>2, <2>1, <2>3 DEF Good
    <2>5. sent[f].body = r.body
      BY <1>2, <2>2, <2>4 DEF SentBody
    <2>6. QED
      BY <2>1, <2>4, <2>5
  <1>7. QED
    BY <1>5, <1>6

-----------------------------------------------------------------------------
(* The builders send the same                                              *)

LEMMA PlainAlike ==
  ASSUME NEW S, NEW T, NEW s \in Seq(S), NEW t \in Seq(T), Alike(s, t)
  PROVE  Plain(s) = Plain(t) /\ (s = <<>> <=> t = <<>>)
  <1>1. PICK n \in Nat : n = Len(s) /\ n = Len(t)
    BY LenProperties DEF Alike
  <1>2. DOMAIN s = 1..n /\ DOMAIN t = 1..n
    BY <1>1, LenProperties
  <1>3. \A k \in 1..n : s[k].v = t[k].v
    BY <1>1 DEF Alike
  <1>4. Plain(s) = Plain(t)
    BY <1>2, <1>3 DEF Plain
  <1>5. s = <<>> <=> t = <<>>
    BY <1>1, EmptySeq
  <1>6. QED
    BY <1>4, <1>5

(* A header that both have alike, or get from the same default.            *)
LEMMA MergedAlike ==
  ASSUME NEW n \in Names, NEW g, NEW h, IsHeaderMap(g), IsHeaderMap(h),
         NEW a, NEW b, a[n] = g[n], b[n] = h[n], Alike(g[n], h[n])
  PROVE  Plain(MergeHeaders(a)[n]) = Plain(MergeHeaders(b)[n])
  <1>1. /\ g[n] \in Seq(ValuesOf(n)) /\ h[n] \in Seq(ValuesOf(n))
    BY DEF IsHeaderMap
  <1>2. Plain(g[n]) = Plain(h[n]) /\ (g[n] = <<>> <=> h[n] = <<>>)
    BY <1>1, PlainAlike
  <1>3. /\ MergeHeaders(a)[n]
             = IF g[n] = <<>> THEN DefaultHeaders[n] ELSE g[n]
        /\ MergeHeaders(b)[n]
             = IF h[n] = <<>> THEN DefaultHeaders[n] ELSE h[n]
    BY DEF MergeHeaders
  <1>4. QED
    BY <1>2, <1>3

LEMMA MergedSame ==
  ASSUME NEW n \in Names, NEW a, NEW b, a[n] = b[n]
  PROVE  MergeHeaders(a)[n] = MergeHeaders(b)[n]
  BY DEF MergeHeaders

(* The length that is declared for a body x with the lengths s.            *)
LEMMA DeclaredIs ==
  ASSUME NEW f, NEW s, Values(f, "content-length") = s, NEW n,
         \/ s = <<>> /\ sent[f].body.len = n
         \/ s # <<>> /\ (\A k \in DOMAIN s : s[k].v = n)
            /\ DOMAIN s # {}
  PROVE  Declared(f) = {n}
  <1>1. CASE s = <<>>
    BY <1>1 DEF Declared
  <1>2. CASE s # <<>>
    <2>1. Declared(f) = {x.v : x \in Range(s)}
      BY <1>2 DEF Declared
    <2>2. PICK k : k \in DOMAIN s
      BY <1>2
    <2>3. s[k] \in Range(s) /\ s[k].v = n
      BY <1>2, <2>2 DEF Range
    <2>4. \A x \in Range(s) : x.v = n
      BY <1>2 DEF Range
    <2>5. QED
      BY <2>1, <2>3, <2>4
  <1>3. QED
    BY <1>1, <1>2

LEMMA BothSent ==
  ASSUME IInv, WellSent = builders, NEW f \in builders
  PROVE  /\ f \in WellSent /\ "async" \in WellSent
         /\ f = "wasm" => WasmLike(req["async"], req[f], past)
         /\ f = "blocking" => BlockingLike(req["async"], req[f], past)
  BY WellBegun, WellSentIs DEF Agree

LEMMA BlockingSent ==
  ASSUME IInv, WellSent = builders, "blocking" \in builders
  PROVE  LET f == "blocking"
         IN /\ sent[f].url = sent["async"].url
            /\ sent[f].timeout = sent["async"].timeout
            /\ \A n \in Names \ {"content-length"} :
                  Values(f, n) = Values("async", n)
            /\ sent[f].body.data = sent["async"].body.data
            /\ Overridden \/ Declared(f) = Declared("async")
            /\ past[1] # "from_http" =>
                  sent[f].version = sent["async"].version
  <1> DEFINE cl == "content-length"
  <1>1. PICK r, b : r = req["async"] /\ b = req["blocking"]
    OBVIOUS
  <1>2. BlockingLike(r, b, past) /\ Good("async", r, past)
        /\ Good("blocking", b, past)
    BY <1>1, BothSent, WellSentIs
  <1>3. /\ sent["async"].url = r.url /\ sent["async"].timeout = r.timeout
        /\ sent["async"].version = r.version
        /\ sent["async"].body = SentBody("async", r)
        /\ sent["async"].headers = MergeHeaders(Out("async", r))
    BY <1>1, BothSent, WellSentIs
  <1>4. /\ sent["blocking"].url = b.url
        /\ sent["blocking"].timeout = b.timeout
        /\ sent["blocking"].version = b.version
        /\ sent["blocking"].body = SentBody("blocking", b)
        /\ sent["blocking"].headers = MergeHeaders(Out("blocking", b))
    BY <1>1, BothSent, WellSentIs
  <1>5. \A n \in Names \ {cl} : Values("blocking", n) = Values("async", n)
    <2>1. \A n \in Names \ {cl} : b.headers[n] = r.headers[n]
      BY <1>2 DEF BlockingLike
    <2>2. \A n \in Names \ {cl} : Out("blocking", b)[n] = b.headers[n]
      BY <1>2, IntoAsyncIs
    <2>3. \A n \in Names \ {cl} : Out("async", r)[n] = r.headers[n]
      BY <1>2, IntoAsyncIs
    <2>4. QED
      BY <1>3, <1>4, <2>1, <2>2, <2>3, MergedSame DEF Values
  <1>6. SameBody(r.body, b.body)
    BY <1>2 DEF BlockingLike
  <1>7. sent["blocking"].body.data = sent["async"].body.data
    BY <1>3, <1>4, <1>6 DEF SentBody, SameBody
  <1>8. ASSUME ~Overridden
        PROVE  Declared("blocking") = Declared("async")
    <2>1. ~Replaced(past)
      BY <1>8 DEF Overridden, Replaced
    <2>2. /\ Values("async", cl) = r.headers[cl]
          /\ Values("blocking", cl)
               = IF b.body # None /\ b.body.len # None
                 THEN <<Value(b.body.len, FALSE)>> ELSE b.headers[cl]
          /\ b.headers[cl] = <<>>
      <3>1. Out("async", r)[cl] = r.headers[cl]
        BY <1>2, IntoAsyncIs
      <3>2. Out("blocking", b)[cl]
              = IF b.body # None /\ b.body.len # None
                THEN <<Value(b.body.len, FALSE)>> ELSE b.headers[cl]
        BY <1>2, IntoAsyncIs
      <3>3. b.headers[cl] = <<>>
        BY <1>2 DEF Good
      <3>4. QED
        BY <1>3, <1>4, <3>1, <3>2, <3>3, LengthKept DEF Values
    <2>3. ASSUME b.body # None, b.body.len # None
          PROVE  Declared("blocking") = {b.body.len}
      <3>1. PICK v : v = Value(b.body.len, FALSE)
        OBVIOUS
      <3>2. v.v = b.body.len
        BY <3>1 DEF Value
      <3>3. PICK s : s = <<v>>
        OBVIOUS
      <3>4. Values("blocking", cl) = s
        BY <2>2, <2>3, <3>1, <3>3
      <3>5. DOMAIN s = 1..1 /\ s[1] = v /\ s # <<>>
        BY <3>3, OneValue
      <3>6. /\ DOMAIN s # {}
            /\ \A k \in DOMAIN s : s[k].v = b.body.len
        BY <3>2, <3>5
      <3>7. QED
        BY <3>4, <3>5, <3>6, DeclaredIs
    <2>4. CASE r.headers[cl] = <<>> /\ r.body = None
      <3>1. b.body = None
        BY <1>6, <2>4 DEF SameBody
      <3>2. /\ sent["async"].body = Bytes("nothing")
            /\ sent["blocking"].body = Bytes("nothing")
        BY <1>3, <1>4, <2>4, <3>1 DEF SentBody
      <3>3. /\ Values("async", cl) = <<>> /\ Values("blocking", cl) = <<>>
        BY <2>2, <2>4, <3>1
      <3>4. QED
        BY <3>2, <3>3 DEF Declared
    <2>5. CASE r.headers[cl] = <<>> /\ r.body # None
      <3>1. b.body # None /\ b.body.len = r.body.len
        <4>1. b.body # None
          BY <1>6, <2>5 DEF SameBody
        <4>2. QED
          BY <1>2, <2>1, <2>5, <4>1 DEF BlockingLike
      <3>2. sent["async"].body = r.body /\ sent["blocking"].body = b.body
        BY <1>3, <1>4, <2>5, <3>1 DEF SentBody
      <3>3. Declared("async") = {r.body.len}
        <4>1. Values("async", cl) = <<>>
              /\ sent["async"].body.len = r.body.len
          BY <2>2, <2>5, <3>2
        <4>2. QED
          BY <4>1, DeclaredIs
      <3>4. Declared("blocking") = {b.body.len}
        <4>1. CASE b.body.len # None
          BY <2>3, <3>1, <4>1
        <4>2. CASE b.body.len = None
          BY <2>2, <3>2, <4>2, DeclaredIs
        <4>3. QED
          BY <4>1, <4>2
      <3>5. QED
        BY <3>1, <3>3, <3>4
    <2>6. CASE r.headers[cl] # <<>>
      <3>1. /\ r.body # None
            /\ \A k \in DOMAIN r.headers[cl] :
                  r.headers[cl][k].v = Size(r.body.data)
        BY <1>2, <2>1, <2>6 DEF Good
      <3>2. /\ b.body # None /\ b.body.data = r.body.data
            /\ b.body.len = Size(b.body.data)
        BY <1>2, <1>6, <2>1, <2>6, <3>1 DEF SameBody, BlockingLike
      <3>3. b.body.len # None
        BY <3>2, SizeNat, RequestsAssumption
      <3>4. Declared("blocking") = {Size(r.body.data)}
        BY <2>3, <3>2, <3>3
      <3>5. DOMAIN r.headers[cl] # {}
        <4>1. r.headers[cl] \in Seq(ValuesOf(cl))
          BY <1>2 DEF Good, IsHeaderMap, Names
        <4>2. PICK n \in Nat : n = Len(r.headers[cl]) /\ n # 0
          BY <2>6, <4>1, LenProperties, EmptySeq
        <4>3. DOMAIN r.headers[cl] = 1..n /\ 1 \in 1..n
          BY <4>1, <4>2, LenProperties
        <4>4. QED
          BY <4>3
      <3>6. Declared("async") = {Size(r.body.data)}
        BY <2>2, <2>6, <3>1, <3>5, DeclaredIs
      <3>7. QED
        BY <3>4, <3>6
    <2>7. QED
      BY <2>4, <2>5, <2>6
  <1>9. QED
    BY <1>2, <1>3, <1>4, <1>5, <1>7, <1>8 DEF BlockingLike

LEMMA WasmSent ==
  ASSUME IInv, WellSent = builders, "wasm" \in builders
  PROVE  LET f == "wasm"
         IN /\ sent[f].url = sent["async"].url
            /\ sent[f].timeout = sent["async"].timeout
            /\ \A n \in {"authorization", "misc"} :
                  Plain(Values(f, n)) = Plain(Values("async", n))
            /\ \/ Plain(Values(f, "content-type"))
                    = Plain(Values("async", "content-type"))
               \/ Labelled(past)
            /\ IF sent[f].body = None
               THEN Size(sent["async"].body.data) = 0
               ELSE sent[f].body.data = sent["async"].body.data
  <1>1. PICK r, b : r = req["async"] /\ b = req["wasm"]
    OBVIOUS
  <1>2. WasmLike(r, b, past) /\ Good("async", r, past)
        /\ Good("wasm", b, past)
    BY <1>1, BothSent, WellSentIs
  <1>3. /\ sent["async"].url = r.url /\ sent["async"].timeout = r.timeout
        /\ sent["async"].body = SentBody("async", r)
        /\ sent["async"].headers = MergeHeaders(Out("async", r))
    BY <1>1, BothSent, WellSentIs
  <1>4. /\ sent["wasm"].url = b.url /\ sent["wasm"].timeout = b.timeout
        /\ sent["wasm"].body = SentBody("wasm", b)
        /\ sent["wasm"].headers = MergeHeaders(Out("wasm", b))
    BY <1>1, BothSent, WellSentIs
  <1>5. ASSUME NEW n \in Names \ {"content-length"},
               Alike(b.headers[n], r.headers[n])
        PROVE  Plain(Values("wasm", n)) = Plain(Values("async", n))
    <2>1. /\ Out("wasm", b)[n] = b.headers[n]
          /\ Out("async", r)[n] = r.headers[n]
      BY <1>2, IntoAsyncIs
    <2>2. IsHeaderMap(b.headers) /\ IsHeaderMap(r.headers)
      BY <1>2 DEF Good
    <2>3. Plain(MergeHeaders(Out("wasm", b))[n])
            = Plain(MergeHeaders(Out("async", r))[n])
      BY <1>5, <2>1, <2>2, MergedAlike
    <2>4. QED
      BY <1>3, <1>4, <2>3 DEF Values
  <1>6. {"authorization", "misc", "content-type"}
          \subseteq Names \ {"content-length"}
    BY DEF Names
  <1>7. SameBody(r.body, b.body)
    BY <1>2 DEF WasmLike
  <1>8. IF sent["wasm"].body = None
        THEN Size(sent["async"].body.data) = 0
        ELSE sent["wasm"].body.data = sent["async"].body.data
    <2>1. CASE b.body = None
      <3>1. sent["wasm"].body = None /\ sent["async"].body = Bytes("nothing")
        BY <1>3, <1>4, <1>7, <2>1 DEF SentBody, SameBody
      <3>2. Size("nothing") = 0 /\ Bytes("nothing").data = "nothing"
        BY DEF Size, Bytes
      <3>3. QED
        BY <3>1, <3>2
    <2>2. CASE b.body # None
      <3>1. r.body # None /\ b.body.data = r.body.data
        BY <1>7, <2>2 DEF SameBody
      <3>2. sent["async"].body = r.body
        BY <1>3, <3>1 DEF SentBody
      <3>3. sent["wasm"].body = IF Size(b.body.data) = 0 THEN None
                                ELSE b.body
        BY <1>4, <2>2 DEF SentBody
      <3>4. QED
        BY <2>2, <3>1, <3>2, <3>3
    <2>3. QED
      BY <2>1, <2>2
  <1>9. QED
    BY <1>2, <1>3, <1>4, <1>5, <1>6, <1>8 DEF WasmLike

LEMMA AllSentAlike == IInv => BuildersAgree
  <1> SUFFICES ASSUME IInv, WellSent = builders,
                      NEW f \in builders \ {"async"}
               PROVE  /\ sent[f].url = sent["async"].url
                      /\ sent[f].timeout = sent["async"].timeout
                      /\ \A n \in Names \ {"content-length"} :
                           \/ Plain(Values(f, n)) = Plain(Values("async", n))
                           \/ f = "wasm" /\ n = "content-type"
                              /\ Labelled(past)
                      /\ IF f = "blocking"
                         THEN /\ sent[f].body.data = sent["async"].body.data
                              /\ Overridden \/ Declared(f) = Declared("async")
                              /\ past[1] # "from_http" =>
                                   sent[f].version = sent["async"].version
                         ELSE IF sent[f].body = None
                              THEN Size(sent["async"].body.data) = 0
                              ELSE sent[f].body.data
                                     = sent["async"].body.data
    BY DEF BuildersAgree, Labelled
  <1>1. f = "blocking" \/ f = "wasm"
    BY WellBegun DEF Builders
  <1>2. CASE f = "blocking"
    BY <1>2, BlockingSent
  <1>3. CASE f = "wasm"
    <2>1. \A n \in Names \ {"content-length"} :
            n \in {"authorization", "misc"} \/ n = "content-type"
      BY DEF Names
    <2>2. QED
      BY <1>3, <2>1, WasmSent
  <1>4. QED
    BY <1>1, <1>2, <1>3

-----------------------------------------------------------------------------
(* The properties of a request                                             *)

(* The first error of the calls is what send returns, whatever follows it: *)
(* RequestBuilder keeps its request as a Result and maps over it.          *)
THEOREM FirstErrorAlwaysWins == Spec => []FirstErrorWins
  BY FirstErrorSent, RequestsInvariant, PTL

(* The Content-Length that the builders wrote is the size of the body that *)
(* goes out, however the calls replaced one body by another, but for the   *)
(* asynchronous builder's after a form: RequestBuilder::multipart.         *)
THEOREM LengthIsAlwaysOfTheBody == Spec => []LengthIsOfTheBody
  BY LengthSent, RequestsInvariant, PTL

(* A clone is sent like its original, after any calls: Request::try_clone. *)
THEOREM CloneIsAlwaysEqual == Spec => []CloneIsEqual
  BY ClonesSent, RequestsInvariant, PTL

(* The same calls send the same request through each builder, but for what *)
(* BuildersAgree excepts.                                                  *)
THEOREM BuildersAlwaysAgree == Spec => []BuildersAgree
  BY AllSentAlike, RequestsInvariant, PTL

=============================================================================
