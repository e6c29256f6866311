--------------------------- MODULE ConnectorProofs ---------------------------
(***************************************************************************)
(* Proofs about Connector, for any clients, proxies, URLs and requests:    *)
(* the inductive invariant, and what follows from it; and about what the   *)
(* ClientBuilders build (B), for any calls, roots, revocation lists and    *)
(* sets of cargo features.                                                 *)
(***************************************************************************)
EXTENDS Connector, FiniteSetTheorems, TLAPS

CONSTANTS Builds, Tried, Proxies, Roots, Crls, Domains, Addresses, BadRoot,
          BadCrl, MaxCalls
VARIABLES features, builder, blocking, client, handle, calls, asked

B == INSTANCE ClientBuilder WITH config <- builder, Addrs <- Addresses

-----------------------------------------------------------------------------
(* Products                                                                *)

LEMMA TimesMonotone ==
    ASSUME NEW t \in Nat, NEW a \in Nat, NEW b \in Nat, a <= b
    PROVE  t * a <= t * b
<1>1. PICK d \in Nat : b = a + d
  <2>1. b - a \in Nat /\ b = a + (b - a)
    OBVIOUS
  <2>2. QED
    BY <2>1
<1>2. t * b = t * a + t * d
  BY <1>1
<1>3. t * d \in Nat /\ t * a \in Nat
  OBVIOUS
<1>4. QED
  BY <1>2, <1>3

LEMMA TimesNext ==
    ASSUME NEW t \in Nat, NEW a \in Nat
    PROVE  t * (a + 1) = t * a + t
  OBVIOUS

-----------------------------------------------------------------------------
(* Concatenations                                                          *)

LEMMA OneAndOne ==
    ASSUME NEW S, NEW a \in S, NEW b \in S
    PROVE  <<a>> \o <<b>> = <<a, b>>
<1> DEFINE s == <<a>> \o <<b>>
           t == <<a, b>>
<1>1. s \in Seq(S) /\ t \in Seq(S) /\ Len(s) = 2 /\ Len(t) = 2
  OBVIOUS
<1>2. s[1] = t[1] /\ s[2] = t[2]
  OBVIOUS
<1> HIDE DEF s, t
<1>3. \A k \in 1..2 : s[k] = t[k]
  BY <1>2
<1>4. s = t
  BY <1>1, <1>3
<1>5. QED
  BY <1>4 DEF s, t

LEMMA OneAndTwo ==
    ASSUME NEW S, NEW a \in S, NEW b \in S, NEW c \in S
    PROVE  <<a>> \o <<b, c>> = <<a, b, c>>
<1> DEFINE s == <<a>> \o <<b, c>>
           t == <<a, b, c>>
<1>1. s \in Seq(S) /\ t \in Seq(S) /\ Len(s) = 3 /\ Len(t) = 3
  OBVIOUS
<1>2. s[1] = t[1] /\ s[2] = t[2] /\ s[3] = t[3]
  OBVIOUS
<1> HIDE DEF s, t
<1>3. \A k \in 1..3 : s[k] = t[k]
  BY <1>2
<1>4. s = t
  BY <1>1, <1>3
<1>5. QED
  BY <1>4 DEF s, t

LEMMA TwoAndOne ==
    ASSUME NEW S, NEW a \in S, NEW b \in S, NEW c \in S
    PROVE  <<a, b>> \o <<c>> = <<a, b, c>>
<1> DEFINE s == <<a, b>> \o <<c>>
           t == <<a, b, c>>
<1>1. s \in Seq(S) /\ t \in Seq(S) /\ Len(s) = 3 /\ Len(t) = 3
  OBVIOUS
<1>2. s[1] = t[1] /\ s[2] = t[2] /\ s[3] = t[3]
  OBVIOUS
<1> HIDE DEF s, t
<1>3. \A k \in 1..3 : s[k] = t[k]
  BY <1>2
<1>4. s = t
  BY <1>1, <1>3
<1>5. QED
  BY <1>4 DEF s, t

LEMMA ThreeAndOne ==
    ASSUME NEW S, NEW a \in S, NEW b \in S, NEW c \in S, NEW d \in S
    PROVE  <<a, b, c>> \o <<d>> = <<a, b, c, d>>
<1> DEFINE s == <<a, b, c>> \o <<d>>
           t == <<a, b, c, d>>
<1>1. s \in Seq(S) /\ t \in Seq(S) /\ Len(s) = 4 /\ Len(t) = 4
  OBVIOUS
<1>2. s[1] = t[1] /\ s[2] = t[2] /\ s[3] = t[3] /\ s[4] = t[4]
  OBVIOUS
<1> HIDE DEF s, t
<1>3. \A k \in 1..4 : s[k] = t[k]
  BY <1>2
<1>4. s = t
  BY <1>1, <1>3
<1>5. QED
  BY <1>4 DEF s, t

-----------------------------------------------------------------------------
(* Plans                                                                   *)

(* The stages of v do the same to the same parties as those of w, and only *)
(* TLS may have come to less than was offered.                             *)
Narrows(v, w) ==
    /\ DOMAIN v = DOMAIN w
    /\ \A k \in DOMAIN w :
         /\ v[k].do = w[k].do /\ v[k].to = w[k].to
         /\ \/ v[k].with = w[k].with
            \/ w[k].do = "tls" /\ v[k].with = FALSE

(* A step keeps a plan.                                                    *)
LEMMA StepKeepsThePlan ==
    ASSUME NEW S, NEW wire \in Seq(S), NEW todo \in Seq(S), todo # <<>>,
           NEW s \in S, s.do = Head(todo).do, s.to = Head(todo).to,
           \/ s.with = Head(todo).with
           \/ s.do = "tls" /\ s.with = FALSE
    PROVE  Narrows(Append(wire, s) \o Tail(todo), wire \o todo)
<1> DEFINE w == wire \o todo
           v == Append(wire, s) \o Tail(todo)
<1>1. /\ Len(wire) \in Nat /\ Len(todo) \in Nat /\ Len(todo) >= 1
      /\ Append(wire, s) \in Seq(S) /\ Tail(todo) \in Seq(S)
      /\ Len(Append(wire, s)) = Len(wire) + 1
      /\ Len(Tail(todo)) = Len(todo) - 1
  OBVIOUS
<1>2. /\ w \in Seq(S) /\ Len(w) = Len(wire) + Len(todo)
      /\ v \in Seq(S) /\ Len(v) = Len(wire) + Len(todo)
  BY <1>1
<1>3. DOMAIN w = 1..Len(w) /\ DOMAIN v = 1..Len(w)
  BY <1>2
<1>4. ASSUME NEW k \in DOMAIN w
      PROVE  v[k] = IF k = Len(wire) + 1 THEN s ELSE w[k]
  <2>1. k \in Int /\ 1 <= k /\ k <= Len(wire) + Len(todo)
    BY <1>2, <1>3, <1>4
  <2>2. CASE k <= Len(wire)
    BY <1>1, <2>1, <2>2
  <2>3. CASE k = Len(wire) + 1
    BY <1>1, <2>1, <2>3
  <2>4. CASE k > Len(wire) + 1
    <3>1. w[k] = todo[k - Len(wire)]
      BY <1>1, <2>1, <2>4
    <3>2. v[k] = Tail(todo)[k - Len(wire) - 1]
      BY <1>1, <2>1, <2>4
    <3>3. Tail(todo)[k - Len(wire) - 1] = todo[k - Len(wire)]
      BY <1>1, <2>1, <2>4
    <3>4. QED
      BY <3>1, <3>2, <3>3, <2>1, <2>4, <1>1
  <2>5. QED
    BY <2>1, <2>2, <2>3, <2>4, <1>1
<1>5. w[Len(wire) + 1] = Head(todo)
  BY <1>1
<1>6. ASSUME NEW k \in DOMAIN w
      PROVE  /\ v[k].do = w[k].do /\ v[k].to = w[k].to
             /\ \/ v[k].with = w[k].with
                \/ w[k].do = "tls" /\ v[k].with = FALSE
  <2>1. CASE k = Len(wire) + 1
    <3>1. v[k] = s /\ w[k] = Head(todo)
      BY <1>4, <1>5, <2>1
    <3>2. QED
      BY <3>1
  <2>2. CASE k # Len(wire) + 1
    <3>1. v[k] = w[k]
      BY <1>4, <2>2
    <3>2. QED
      BY <3>1
  <2>3. QED
    BY <2>1, <2>2
<1>7. QED
  BY <1>3, <1>6 DEF Narrows

(* A proxy's answer that the loop over the proxies stops at is one of its  *)
(* answers.                                                                *)
LEMMA ViaType ==
    ASSUME NEW d, NEW via \in Routes(d)
    PROVE  via \in Vias \cup {None}
<1>1. CASE via = None
  BY <1>1
<1>2. CASE via # None
  <2>1. PICK k \in DOMAIN config.proxies :
          via \in {IF u = None THEN None ELSE Intercepted(config.proxies[k], u) :
                     u \in Intercept(config.proxies[k], d)}
    BY <1>2 DEF FirstOf, Routes
  <2>2. PICK u \in Intercept(config.proxies[k], d) :
          u # None /\ via = Intercepted(config.proxies[k], u)
    BY <1>2, <2>1
  <2>3. u \in config.proxies[k].answers \ {None}
    BY <2>2 DEF Intercept
  <2>4. QED
    BY <2>2, <2>3 DEF Vias
<1>3. QED
  BY <1>1, <1>2

(* An answer's URL is one to connect to.                                   *)
LEMMA ViaUrl ==
    ASSUME ConnectorAssumption, config \in Configs, NEW via \in Vias
    PROVE  /\ via # None /\ via.url \in Urls
           /\ via.url.scheme \in SocksSchemes \cup HttpSchemes
<1>1. PICK k \in DOMAIN config.proxies :
        \E u \in config.proxies[k].answers \ {None} :
            via = Intercepted(config.proxies[k], u)
  BY DEF Vias
<1>2. PICK u \in config.proxies[k].answers \ {None} :
        via = Intercepted(config.proxies[k], u)
  BY <1>1
<1>3. via.url = u
  BY <1>2 DEF Intercepted
<1>4. QED
  BY <1>2, <1>3 DEF ConnectorAssumption, Urls

(* The stages of the routes fit.                                           *)
LEMMA DirectFits ==
    ASSUME ConnectorAssumption, config \in Configs, NEW d \in Dests,
           NEW u \in Urls, u.scheme \in HttpSchemes,
           NEW via \in Vias \cup {None}, NEW isProxy \in BOOLEAN,
           isProxy => via \in Vias /\ u = via.url /\ d.scheme = "http",
           ~isProxy => via = None /\ u = d,
           NEW c, c = ConnectWithMaybeProxy(d, via, u, isProxy),
           ~config.local =>
               via \in Routes(d)
    PROVE  /\ c \in Conns /\ c.key = d /\ c.todo # <<>>
           /\ FitsItsUrl(c) /\ FitsItsRoute(c)
<1> DEFINE https == u.scheme = "https"
           w == c.todo
<1>0. config.h2 \in BOOLEAN /\ config.nodelay \in BOOLEAN
      /\ config.tlsInfo \in BOOLEAN
  BY DEF ConnectorAssumption
<1>1. /\ Dial(u, config.nodelay \/ https) \in Stages
      /\ Tls(u, config.h2) \in Stages
      /\ Stage("nodelay", Addr(u), FALSE) \in Stages
  <2>1. Addr(u) \in Addrs
    BY DEF Addrs
  <2>2. Dial(u, config.nodelay \/ https) \in
            [do : {"dial", "nodelay"}, to : Addrs, with : BOOLEAN]
    BY <1>0, <2>1 DEF Dial, Stage
  <2>3. Tls(u, config.h2) \in
            [do : {"tls"}, to : {x.host : x \in Urls}, with : BOOLEAN]
    BY <1>0 DEF Tls, Stage
  <2>4. Stage("nodelay", Addr(u), FALSE) \in
            [do : {"dial", "nodelay"}, to : Addrs, with : BOOLEAN]
    BY <2>1 DEF Stage
  <2>5. QED
    BY <2>2, <2>3, <2>4 DEF Stages
<1> DEFINE D == Dial(u, config.nodelay \/ https)
           T == Tls(u, config.h2)
           N == Stage("nodelay", Addr(u), FALSE)
<1>2. w = IF ~https THEN <<D>> ELSE IF config.nodelay THEN <<D, T>>
          ELSE <<D, T, N>>
  <2>1. w = (<<D>> \o (IF https THEN <<T>> ELSE <<>>))
            \o (IF https /\ ~config.nodelay THEN <<N>> ELSE <<>>)
    BY DEF ConnectWithMaybeProxy, Connection, Secure
  <2>2. D \in Stages /\ T \in Stages /\ N \in Stages
    BY <1>1
  <2> HIDE DEF D, T, N, w
  <2>3. <<D>> \o <<T>> = <<D, T>> /\ <<D, T>> \o <<N>> = <<D, T, N>>
    BY <2>2, OneAndOne, TwoAndOne
  <2>4. <<D>> \o <<>> = <<D>> /\ <<D, T>> \o <<>> = <<D, T>>
    BY <2>2
  <2>5. QED
    BY <1>0, <2>1, <2>3, <2>4
<1>3. /\ D.do = "dial" /\ D.to = Addr(u) /\ D.with = (config.nodelay \/ https)
      /\ T.do = "tls" /\ T.to = u.host
      /\ N.do = "nodelay" /\ N.to = Addr(u) /\ N.with = FALSE
  BY DEF Dial, Tls, Stage
<1>4. /\ c = [key |-> d, via |-> via, todo |-> w, wire |-> <<>>,
              isProxy |-> isProxy, tlsInfo |-> config.tlsInfo /\ https]
      /\ w \in Seq(Stages) /\ w # <<>>
  <2>1. D \in Stages /\ T \in Stages /\ N \in Stages
    BY <1>1
  <2>2. w \in Seq(Stages) /\ w # <<>>
    <3> HIDE DEF D, T, N, w
    <3>1. QED
      BY <1>2, <2>1
  <2>3. QED
    BY <2>2 DEF ConnectWithMaybeProxy, Connection
<1>5. /\ c \in Conns /\ c.key = d /\ c.via = via /\ c.isProxy = isProxy
      /\ Plan(c) = w
  <2>1. <<>> \in Seq(Stages) /\ (config.tlsInfo /\ https) \in BOOLEAN
    OBVIOUS
  <2> HIDE DEF https, w
  <2>2. QED
    BY <1>4, <2>1 DEF Conns, Plan
<1>6. /\ isProxy = ReadByProxy(d, via)
      /\ isProxy = (via # None /\ Addr(u) = Addr(via.url))
  BY ViaUrl DEF ReadByProxy
<1>7. ~isProxy => d = u
  OBVIOUS
<1>8. d.scheme \in HttpSchemes
  BY DEF ConnectorAssumption
<1>9. FitsItsRoute(c)
  <2>1. /\ Last(w, {"local", "dial", "socks", "connect"}, 1)
        /\ w[1].do = "dial" /\ w[1].to = Addr(u)
        /\ \A k \in DOMAIN w : w[k].do # "connect"
    <3> HIDE DEF https, D, T, N, w
    <3>1. CASE ~https
      BY <1>2, <1>3, <3>1 DEF Last
    <3>2. CASE https /\ config.nodelay
      BY <1>2, <1>3, <3>2 DEF Last
    <3>3. CASE https /\ ~config.nodelay
      BY <1>2, <1>3, <3>3 DEF Last
    <3>4. QED
      BY <3>1, <3>2, <3>3
  <2>2. 1 \in DOMAIN w
    BY <2>1 DEF Last
  <2> HIDE DEF https, w
  <2>3. c.isProxy = (/\ c.via # None /\ Plan(c)[1].do = "dial"
                    /\ Plan(c)[1].to = Addr(c.via.url))
    BY <1>5, <1>6, <2>1
  <2>4. QED
    BY <1>5, <1>6, <2>1, <2>2, <2>3 DEF FitsItsRoute
<1>10. FitsItsUrl(c)
  <2> HIDE DEF D, T, N, w
  <2>1. CASE ~https
    <3>1. D.with = config.nodelay
      BY <1>0, <1>3, <2>1
    <3>2. d.scheme # "https"
      BY <1>7, <2>1
    <3>3. QED
      BY <1>2, <1>3, <1>5, <2>1, <3>1, <3>2
      DEF FitsItsUrl, TunnelingOverHttp1, RestoringNodelay, Last
  <2>2. CASE https /\ config.nodelay
    <3>1. d.scheme = "https" => T.to = d.host
      BY <1>3, <1>7
    <3>2. w = <<D, T>> /\ D.with = config.nodelay
      BY <1>0, <1>2, <1>3, <2>2
    <3>3. QED
      BY <1>3, <1>5, <3>1, <3>2
      DEF FitsItsUrl, Securing, TunnelingOverHttp1, RestoringNodelay, Last
  <2>3. CASE https /\ ~config.nodelay
    <3>1. d.scheme = "https" => T.to = d.host
      BY <1>3, <1>7
    <3>2. w = <<D, T, N>> /\ N.with = config.nodelay
      BY <1>0, <1>2, <1>3, <2>3
    <3>3. QED
      BY <1>3, <1>5, <3>1, <3>2
      DEF FitsItsUrl, Securing, TunnelingOverHttp1, RestoringNodelay, Last
  <2>4. QED
    BY <2>1, <2>2, <2>3
<1>11. QED
  BY <1>4, <1>5, <1>9, <1>10

(* A connection over a local socket.                                       *)
LEMMA LocalFits ==
    ASSUME ConnectorAssumption, config \in Configs, NEW d \in Dests,
           config.local, NEW c, c = ConnectLocalTransport(d)
    PROVE  /\ c \in Conns /\ c.key = d /\ c.todo # <<>>
           /\ FitsItsUrl(c) /\ FitsItsRoute(c)
<1> DEFINE https == d.scheme = "https"
           w == c.todo
           L == Stage("local", None, None)
           T == Tls(d, config.h2)
<1>0. config.h2 \in BOOLEAN /\ config.tlsInfo \in BOOLEAN /\ d \in Urls
  BY DEF ConnectorAssumption, Urls
<1>1. L \in Stages /\ T \in Stages
  <2>1. L \in [do : {"local"}, to : {None}, with : {None}]
    BY DEF Stage
  <2>2. T \in [do : {"tls"}, to : {x.host : x \in Urls}, with : BOOLEAN]
    BY <1>0 DEF Tls, Stage
  <2>3. QED
    BY <2>1, <2>2 DEF Stages
<1>2. w = IF https THEN <<L, T>> ELSE <<L>>
  <2>1. w = <<L>> \o (IF https THEN <<T>> ELSE <<>>)
    BY DEF ConnectLocalTransport, Connection, Secure
  <2> HIDE DEF L, T, w
  <2>2. <<L>> \o <<T>> = <<L, T>> /\ <<L>> \o <<>> = <<L>>
    BY <1>1, OneAndOne
  <2>3. QED
    BY <2>1, <2>2
<1>3. /\ L.do = "local" /\ T.do = "tls" /\ T.to = d.host
  BY DEF Tls, Stage
<1>4. /\ c = [key |-> d, via |-> None, todo |-> w, wire |-> <<>>,
              isProxy |-> FALSE, tlsInfo |-> config.tlsInfo /\ https]
      /\ w \in Seq(Stages) /\ w # <<>>
  <2>1. w \in Seq(Stages) /\ w # <<>>
    <3> HIDE DEF L, T, w
    <3>1. QED
      BY <1>1, <1>2
  <2>2. QED
    BY <2>1 DEF ConnectLocalTransport, Connection
<1>5. /\ c \in Conns /\ c.key = d /\ c.via = None /\ c.isProxy = FALSE
      /\ Plan(c) = w
  <2>1. <<>> \in Seq(Stages) /\ (config.tlsInfo /\ https) \in BOOLEAN
    OBVIOUS
  <2> HIDE DEF https, w
  <2>2. QED
    BY <1>4, <2>1 DEF Conns, Plan
<1> HIDE DEF L, T, w
<1>6. FitsItsUrl(c)
  BY <1>2, <1>3, <1>5
  DEF FitsItsUrl, Securing, TunnelingOverHttp1
<1>7. FitsItsRoute(c)
  <2>1. /\ Last(w, {"local", "dial", "socks", "connect"}, 1)
        /\ 1 \in DOMAIN w /\ w[1].do = "local"
        /\ \A k \in DOMAIN w : w[k].do # "connect"
    BY <1>2, <1>3 DEF Last
  <2>2. QED
    BY <1>5, <2>1 DEF FitsItsRoute, ReadByProxy
<1>8. QED
  BY <1>4, <1>5, <1>6, <1>7

(* A connection through a SOCKS proxy.                                     *)
LEMMA SocksFits ==
    ASSUME ConnectorAssumption, config \in Configs, NEW d \in Dests,
           NEW via \in Vias, via.url.scheme \in SocksSchemes,
           ~config.local, via \in Routes(d),
           NEW c, c = ConnectSocks(d, via)
    PROVE  /\ c \in Conns /\ c.key = d /\ c.todo # <<>>
           /\ FitsItsUrl(c) /\ FitsItsRoute(c)
<1> DEFINE https == d.scheme = "https"
           u == via.url
           resolves == u.scheme \in {"socks4", "socks5"}
           w == c.todo
           R == Stage("resolve", Addr(d), None)
           D == Dial(u, config.nodelay)
           K == Stage("socks", Addr(d),
                      IF u.scheme \in {"socks5", "socks5h"} THEN u.creds
                      ELSE None)
           T == Tls(d, config.h2)
           info == config.tlsInfo /\ https /\ config.backend = "native"
<1>0. /\ config.h2 \in BOOLEAN /\ config.nodelay \in BOOLEAN
      /\ d \in Urls /\ u \in Urls
  BY ViaUrl DEF ConnectorAssumption, Urls
<1>1. R \in Stages /\ D \in Stages /\ K \in Stages /\ T \in Stages
  <2>1. Addr(d) \in Addrs /\ Addr(u) \in Addrs
    BY <1>0 DEF Addrs
  <2>2. R \in [do : {"resolve"}, to : Addrs, with : {None}]
    BY <2>1 DEF Stage
  <2>3. D \in [do : {"dial", "nodelay"}, to : Addrs, with : BOOLEAN]
    BY <1>0, <2>1 DEF Dial, Stage
  <2>4. K \in [do : {"socks"}, to : Addrs,
               with : {None} \cup {x.creds : x \in Urls}]
    BY <1>0, <2>1 DEF Stage
  <2>5. T \in [do : {"tls"}, to : {x.host : x \in Urls}, with : BOOLEAN]
    BY <1>0 DEF Tls, Stage
  <2>6. QED
    BY <2>2, <2>3, <2>4, <2>5 DEF Stages
<1>2. w = IF resolves THEN IF https THEN <<R, D, K, T>> ELSE <<R, D, K>>
          ELSE IF https THEN <<D, K, T>> ELSE <<D, K>>
  <2>1. w = ((IF resolves THEN <<R>> ELSE <<>>) \o <<D, K>>)
            \o (IF https THEN <<T>> ELSE <<>>)
    BY DEF ConnectSocks, Connection, Secure
  <2> HIDE DEF R, D, K, T, w, resolves, https
  <2>2. <<R>> \o <<D, K>> = <<R, D, K>> /\ <<D, K>> \o <<T>> = <<D, K, T>>
    BY <1>1, OneAndTwo, TwoAndOne
  <2>3. <<R, D, K>> \o <<T>> = <<R, D, K, T>>
    BY <1>1, ThreeAndOne
  <2>4. /\ <<>> \o <<D, K>> = <<D, K>> /\ <<D, K>> \o <<>> = <<D, K>>
        /\ <<R, D, K>> \o <<>> = <<R, D, K>>
    BY <1>1
  <2>5. QED
    BY <2>1, <2>2, <2>3, <2>4
<1>3. /\ R.do = "resolve" /\ D.do = "dial" /\ K.do = "socks"
      /\ T.do = "tls" /\ T.to = d.host /\ D.with = config.nodelay
  BY DEF Dial, Tls, Stage
<1>4. /\ c = [key |-> d, via |-> via, todo |-> w, wire |-> <<>>,
              isProxy |-> FALSE, tlsInfo |-> info]
      /\ w \in Seq(Stages) /\ w # <<>>
  <2>1. w \in Seq(Stages) /\ w # <<>>
    <3> HIDE DEF R, D, K, T, w, resolves, https
    <3>1. QED
      BY <1>1, <1>2
  <2>2. QED
    BY <2>1 DEF ConnectSocks, Connection
<1>5. /\ c \in Conns /\ c.key = d /\ c.via = via /\ c.isProxy = FALSE
      /\ Plan(c) = w
  <2>1. <<>> \in Seq(Stages) /\ info \in BOOLEAN
    BY DEF ConnectorAssumption
  <2> HIDE DEF info, w
  <2>2. QED
    BY <1>4, <2>1 DEF Conns, Plan
<1> HIDE DEF R, D, K, T, w, resolves
<1>6. FitsItsUrl(c)
  <2>1. CASE resolves
    BY <1>2, <1>3, <1>5, <2>1
    DEF FitsItsUrl, Securing, TunnelingOverHttp1, RestoringNodelay, Last
  <2>2. CASE ~resolves
    BY <1>2, <1>3, <1>5, <2>2
    DEF FitsItsUrl, Securing, TunnelingOverHttp1, RestoringNodelay, Last
  <2>3. QED
    BY <2>1, <2>2
<1>7. FitsItsRoute(c)
  <2>1. \A k \in DOMAIN w : w[k].do # "connect"
    BY <1>2, <1>3
  <2>2. \E k \in DOMAIN w :
          /\ Last(w, {"local", "dial", "socks", "connect"}, k)
          /\ w[k].do = "socks"
    <3>1. CASE resolves
      BY <1>2, <1>3, <3>1 DEF Last
    <3>2. CASE ~resolves
      BY <1>2, <1>3, <3>2 DEF Last
    <3>3. QED
      BY <3>1, <3>2
  <2>3. ReadByProxy(d, via) = FALSE
    BY DEF ReadByProxy, SocksSchemes, HttpSchemes
  <2>4. PICK k \in DOMAIN w :
          /\ Last(w, {"local", "dial", "socks", "connect"}, k)
          /\ w[k].do = "socks"
    BY <2>2
  <2>5. c.isProxy = (/\ c.via # None /\ Plan(c)[k].do = "dial"
                    /\ Plan(c)[k].to = Addr(c.via.url))
    BY <1>5, <2>4
  <2>6. \E j \in DOMAIN Plan(c) :
          /\ Last(Plan(c), {"local", "dial", "socks", "connect"}, j)
          /\ c.isProxy = (/\ c.via # None /\ Plan(c)[j].do = "dial"
                          /\ Plan(c)[j].to = Addr(c.via.url))
    BY <1>5, <2>4, <2>5
  <2>7. /\ ~config.local => c.via \in Routes(c.key)
        /\ c.isProxy = ReadByProxy(c.key, c.via)
        /\ \A j \in DOMAIN Plan(c) : Plan(c)[j].do # "connect"
    BY <1>5, <2>1, <2>3
  <2>8. QED
    BY <2>6, <2>7 DEF FitsItsRoute
<1>8. QED
  BY <1>4, <1>5, <1>6, <1>7

(* A tunnel through an HTTP proxy.                                         *)
LEMMA TunnelFits ==
    ASSUME ConnectorAssumption, config \in Configs, NEW d \in Dests,
           d.scheme = "https", NEW via \in Vias,
           ~config.local, via \in Routes(d),
           NEW c, c = Tunnel(d, via)
    PROVE  /\ c \in Conns /\ c.key = d /\ c.todo # <<>>
           /\ FitsItsUrl(c) /\ FitsItsRoute(c)
<1> DEFINE u == via.url
           https == u.scheme = "https"
           w == c.todo
           D == Dial(u, config.nodelay)
           P == Tls(u, ProxyTlsOffersH2)
           K == Stage("connect", Addr(d),
                      [auth |-> via.auth, misc |-> via.misc])
           T == Tls(d, config.h2)
<1>0. /\ config.h2 \in BOOLEAN /\ config.nodelay \in BOOLEAN
      /\ d \in Urls /\ u \in Urls /\ ProxyTlsOffersH2 \in BOOLEAN
  BY ViaUrl DEF ConnectorAssumption, Urls, ProxyTlsOffersH2
<1>1. D \in Stages /\ P \in Stages /\ K \in Stages /\ T \in Stages
  <2>1. Addr(d) \in Addrs /\ Addr(u) \in Addrs
    BY <1>0 DEF Addrs
  <2>2. D \in [do : {"dial", "nodelay"}, to : Addrs, with : BOOLEAN]
    BY <1>0, <2>1 DEF Dial, Stage
  <2>3. K \in [do : {"connect"}, to : Addrs,
               with : {[auth |-> v.auth, misc |-> v.misc] : v \in Vias}]
    BY <2>1 DEF Stage
  <2>4. /\ T \in [do : {"tls"}, to : {x.host : x \in Urls}, with : BOOLEAN]
        /\ P \in [do : {"tls"}, to : {x.host : x \in Urls}, with : BOOLEAN]
    BY <1>0 DEF Tls, Stage
  <2>5. QED
    BY <2>2, <2>3, <2>4 DEF Stages
<1>2. w = IF https THEN <<D, P, K, T>> ELSE <<D, K, T>>
  <2>1. w = ((<<D>> \o (IF https THEN <<P>> ELSE <<>>)) \o <<K>>) \o <<T>>
    BY DEF Tunnel, Connection, Secure
  <2> HIDE DEF D, P, K, T, w, https
  <2>2. <<D>> \o <<P>> = <<D, P>> /\ <<D, P>> \o <<K>> = <<D, P, K>>
    BY <1>1, OneAndOne, TwoAndOne
  <2>3. <<D, P, K>> \o <<T>> = <<D, P, K, T>>
    BY <1>1, ThreeAndOne
  <2>4. <<D>> \o <<>> = <<D>>
    BY <1>1
  <2>5. <<D>> \o <<K>> = <<D, K>> /\ <<D, K>> \o <<T>> = <<D, K, T>>
    BY <1>1, OneAndOne, TwoAndOne
  <2>6. QED
    BY <2>1, <2>2, <2>3, <2>4, <2>5
<1>3. /\ D.do = "dial" /\ D.with = config.nodelay
      /\ P.do = "tls" /\ P.with = ProxyTlsOffersH2
      /\ K.do = "connect"
      /\ K.with = [auth |-> via.auth, misc |-> via.misc]
      /\ T.do = "tls" /\ T.to = d.host
  BY DEF Dial, Tls, Stage
<1>4. /\ c = [key |-> d, via |-> via, todo |-> w, wire |-> <<>>,
              isProxy |-> FALSE, tlsInfo |-> FALSE]
      /\ w \in Seq(Stages) /\ w # <<>>
  <2>1. w \in Seq(Stages) /\ w # <<>>
    <3> HIDE DEF D, P, K, T, w, https
    <3>1. QED
      BY <1>1, <1>2
  <2>2. QED
    BY <2>1 DEF Tunnel, Connection
<1>5. /\ c \in Conns /\ c.key = d /\ c.via = via /\ c.isProxy = FALSE
      /\ Plan(c) = w
  <2>1. <<>> \in Seq(Stages)
    OBVIOUS
  <2> HIDE DEF w
  <2>2. QED
    BY <1>4, <2>1 DEF Conns, Plan
<1> HIDE DEF D, P, K, T, w, https
<1>6. FitsItsUrl(c)
  <2>1. config.backend = "rustls" => ~ProxyTlsOffersH2
    BY DEF ProxyTlsOffersH2
  <2>2. CASE https
    BY <1>2, <1>3, <1>5, <2>1, <2>2
    DEF FitsItsUrl, Securing, TunnelingOverHttp1, RestoringNodelay, Last
  <2>3. CASE ~https
    BY <1>2, <1>3, <1>5, <2>3
    DEF FitsItsUrl, Securing, TunnelingOverHttp1, RestoringNodelay, Last
  <2>4. QED
    BY <2>2, <2>3
<1>7. FitsItsRoute(c)
  <2>1. /\ \E k \in DOMAIN w :
             /\ Last(w, {"local", "dial", "socks", "connect"}, k)
             /\ w[k].do = "connect"
        /\ \A k \in DOMAIN w : w[k].do = "connect" =>
             w[k].with = [auth |-> via.auth, misc |-> via.misc]
    <3>1. CASE https
      BY <1>2, <1>3, <3>1 DEF Last
    <3>2. CASE ~https
      BY <1>2, <1>3, <3>2 DEF Last
    <3>3. QED
      BY <3>1, <3>2
  <2>2. ReadByProxy(d, via) = FALSE
    BY DEF ReadByProxy
  <2>3. PICK k \in DOMAIN w :
          /\ Last(w, {"local", "dial", "socks", "connect"}, k)
          /\ w[k].do = "connect"
    BY <2>1
  <2>4. c.isProxy = (/\ c.via # None /\ Plan(c)[k].do = "dial"
                    /\ Plan(c)[k].to = Addr(c.via.url))
    BY <1>5, <2>3
  <2>5. \E j \in DOMAIN Plan(c) :
          /\ Last(Plan(c), {"local", "dial", "socks", "connect"}, j)
          /\ c.isProxy = (/\ c.via # None /\ Plan(c)[j].do = "dial"
                          /\ Plan(c)[j].to = Addr(c.via.url))
    BY <1>5, <2>3, <2>4
  <2>6. /\ ~config.local => c.via \in Routes(c.key)
        /\ c.isProxy = ReadByProxy(c.key, c.via)
        /\ \A j \in DOMAIN Plan(c) : Plan(c)[j].do = "connect" =>
             Plan(c)[j].with = [auth |-> c.via.auth, misc |-> c.via.misc]
    BY <1>5, <2>1, <2>2
  <2>7. QED
    BY <2>5, <2>6 DEF FitsItsRoute
<1>8. QED
  BY <1>4, <1>5, <1>6, <1>7

(* Whatever ConnectorService::call sets out to do fits.                    *)
LEMMA ConnectionsFit ==
    ASSUME ConnectorAssumption, config \in Configs, NEW d \in Dests,
           NEW c \in Connections(d)
    PROVE  /\ c \in Conns /\ c.key = d /\ c.todo # <<>>
           /\ FitsItsUrl(c) /\ FitsItsRoute(c)
<1>1. CASE config.local
  <2>1. c = ConnectLocalTransport(d)
    BY <1>1 DEF Connections
  <2>2. QED
    BY <1>1, <2>1, LocalFits
<1>2. CASE ~config.local
  <2>1. PICK via \in Routes(d) :
          c = IF via = None THEN ConnectWithMaybeProxy(d, None, d, FALSE)
              ELSE ConnectViaProxy(d, via)
    BY <1>2 DEF Connections, ConnectorProxies, Routes
  <2>2. via \in Vias \cup {None} /\ d \in Urls /\ d.scheme \in HttpSchemes
    BY ViaType DEF Urls, ConnectorAssumption
  <2>3. CASE via = None
    <3>1. c = ConnectWithMaybeProxy(d, None, d, FALSE)
      BY <2>1, <2>3
    <3>2. None \in Routes(d)
      BY <2>1, <2>3
    <3>3. \A p \in BOOLEAN : ~p /\ c = ConnectWithMaybeProxy(d, None, d, p) =>
              /\ c \in Conns /\ c.key = d /\ c.todo # <<>>
              /\ FitsItsUrl(c) /\ FitsItsRoute(c)
      BY <2>2, <3>2, DirectFits
    <3>4. QED
      BY <3>1, <3>3
  <2>4. CASE via # None
    <3>1. via \in Vias /\ c = ConnectViaProxy(d, via)
      BY <2>1, <2>2, <2>4
    <3>2. via.url \in Urls /\ via.url.scheme \in SocksSchemes \cup HttpSchemes
      BY <3>1, ViaUrl
    <3>3. CASE via.url.scheme \in SocksSchemes
      <4>1. c = ConnectSocks(d, via)
        BY <3>1, <3>3 DEF ConnectViaProxy
      <4>2. via \in Routes(d)
        BY <2>1
      <4>3. QED
        BY <1>2, <3>1, <3>3, <4>1, <4>2, SocksFits
    <3>4. CASE via.url.scheme \notin SocksSchemes /\ d.scheme = "https"
      BY <1>2, <3>1, <3>4, TunnelFits DEF ConnectViaProxy
    <3>5. CASE via.url.scheme \notin SocksSchemes /\ d.scheme # "https"
      <4>1. c = ConnectWithMaybeProxy(d, via, via.url, TRUE)
        BY <3>1, <3>5 DEF ConnectViaProxy
      <4>2. d.scheme = "http" /\ via.url.scheme \in HttpSchemes
        BY <2>2, <3>2, <3>5 DEF HttpSchemes
      <4>3. QED
        BY <3>1, <3>2, <4>1, <4>2, DirectFits
    <3>6. QED
      BY <3>3, <3>4, <3>5
  <2>5. QED
    BY <2>3, <2>4
<1>3. QED
  BY <1>1, <1>2

(* A step of a connection: what its plan does for the URL and the route is *)
(* done, or left to be done.                                               *)
LEMMA StepFits ==
    ASSUME NEW c \in Conns, c.todo # <<>>, FitsItsUrl(c), FitsItsRoute(c),
           NEW got \in IF Head(c.todo).do = "tls"
                       THEN {FALSE, Head(c.todo).with}
                       ELSE {Head(c.todo).with},
           NEW t, t = [Head(c.todo) EXCEPT !.with = got],
           NEW next,
           next = [key |-> c.key, via |-> c.via, todo |-> Tail(c.todo),
                   wire |-> Append(c.wire, t), isProxy |-> c.isProxy,
                   tlsInfo |-> c.tlsInfo]
    PROVE  /\ next \in Conns /\ next.key = c.key
           /\ FitsItsUrl(next) /\ FitsItsRoute(next)
<1> DEFINE s == Head(c.todo)
           w == Plan(c)
           v == Plan(next)
<1>1. c.wire \in Seq(Stages) /\ c.todo \in Seq(Stages) /\ s \in Stages
  BY DEF Conns
<1>2. /\ t \in Stages /\ t.do = s.do /\ t.to = s.to
      /\ \/ t.with = s.with
         \/ t.do = "tls" /\ t.with = FALSE
  <2> HIDE DEF s
  <2>0. /\ t = [s EXCEPT !.with = got]
        /\ got \in IF s.do = "tls" THEN {FALSE, s.with} ELSE {s.with}
    BY DEF s
  <2>1. CASE s.do # "tls"
    <3>1. got = s.with
      BY <2>0, <2>1
    <3>2. t = s
      BY <1>1, <2>0, <3>1 DEF Stages
    <3>3. QED
      BY <1>1, <3>2
  <2>2. CASE s.do = "tls"
    <3>1. s \in [do : {"tls"}, to : {u.host : u \in Urls}, with : BOOLEAN]
      BY <1>1, <2>2 DEF Stages
    <3>2. got \in BOOLEAN /\ (got = s.with \/ got = FALSE)
      BY <2>0, <2>2, <3>1
    <3>3. t = [do |-> s.do, to |-> s.to, with |-> got]
      BY <2>0, <3>1
    <3>4. t \in [do : {"tls"}, to : {u.host : u \in Urls}, with : BOOLEAN]
      BY <3>1, <3>2, <3>3
    <3>5. QED
      BY <2>2, <3>2, <3>3, <3>4 DEF Stages
  <2>3. QED
    BY <2>1, <2>2
<1>3. Tail(c.todo) \in Seq(Stages) /\ Append(c.wire, t) \in Seq(Stages)
  BY <1>1, <1>2
<1>4. /\ next.key = c.key /\ next.via = c.via
      /\ next.isProxy = c.isProxy
      /\ next.wire = Append(c.wire, t) /\ next.todo = Tail(c.todo)
  OBVIOUS
<1>5. next \in Conns
  BY <1>3 DEF Conns
<1>6. Narrows(v, w)
  <2> DEFINE wire == c.wire
             todo == c.todo
  <2>1. w = wire \o todo /\ v = Append(wire, t) \o Tail(todo)
    BY <1>4 DEF Plan
  <2>2. /\ wire \in Seq(Stages) /\ todo \in Seq(Stages) /\ todo # <<>>
        /\ t \in Stages /\ t.do = Head(todo).do /\ t.to = Head(todo).to
    BY <1>1, <1>2
  <2>3. \/ t.with = Head(todo).with
        \/ t.do = "tls" /\ t.with = FALSE
    BY <1>2
  <2> HIDE DEF s, w, v, wire, todo
  <2>4. Narrows(Append(wire, t) \o Tail(todo), wire \o todo)
    BY <2>2, <2>3, StepKeepsThePlan
  <2>5. QED
    BY <2>1, <2>4
<1> HIDE DEF s, w, v
<1>7. FitsItsUrl(next)
  <2>1. c.key.scheme = "https" => Securing(v, c.key.host)
    BY ZenonT(40), <1>6 DEF Narrows, FitsItsUrl, Securing, w
  <2>2. config.backend = "rustls" => TunnelingOverHttp1(v)
    BY <1>6 DEF Narrows, FitsItsUrl, TunnelingOverHttp1, w
  <2>3. ~config.local => RestoringNodelay(v)
    BY <1>6 DEF Narrows, FitsItsUrl, RestoringNodelay, Last, w
  <2>4. QED
    BY <1>4, <2>1, <2>2, <2>3 DEF FitsItsUrl, v
<1>8. FitsItsRoute(next)
  <2>1. /\ ~config.local => c.via \in Routes(c.key)
        /\ c.isProxy = ReadByProxy(c.key, c.via)
    BY DEF FitsItsRoute
  <2>2. PICK k \in DOMAIN w :
          /\ Last(w, {"local", "dial", "socks", "connect"}, k)
          /\ c.isProxy = (/\ c.via # None /\ w[k].do = "dial"
                          /\ w[k].to = Addr(c.via.url))
    BY DEF FitsItsRoute, w
  <2>3. Last(v, {"local", "dial", "socks", "connect"}, k)
    BY <1>6, <2>2 DEF Narrows, Last
  <2>4. c.isProxy = (/\ c.via # None /\ v[k].do = "dial"
                    /\ v[k].to = Addr(c.via.url))
    BY <1>6, <2>2 DEF Narrows
  <2>5. \A j \in DOMAIN v : v[j].do = "connect" =>
          v[j].with = [auth |-> c.via.auth, misc |-> c.via.misc]
    BY <1>6 DEF Narrows, FitsItsRoute, w
  <2>6. \E j \in DOMAIN v :
          /\ Last(v, {"local", "dial", "socks", "connect"}, j)
          /\ c.isProxy = (/\ c.via # None /\ v[j].do = "dial"
                          /\ v[j].to = Addr(c.via.url))
    BY <1>6, <2>2, <2>3, <2>4 DEF Narrows
  <2>7. QED
    BY <1>4, <2>1, <2>5, <2>6 DEF FitsItsRoute, v
<1>9. QED
  BY <1>4, <1>5, <1>7, <1>8

-----------------------------------------------------------------------------
(* Headers                                                                 *)

(* With proxies that are unambiguous, the one that execute finds for its   *)
(* headers is the one that the connector will find.                        *)
LEMMA HeadersOfTheRoute ==
    ASSUME ConnectorAssumption, config \in Configs, Unambiguous,
           ~config.local, NEW d \in Dests,
           NEW a \in ProxyAuth(d, None), NEW m \in ProxyCustomHeaders(d),
           NEW via \in Routes(d)
    PROVE  /\ a = OfRoute(d, via, via.auth)
           /\ m = OfRoute(d, via, via.misc)
<1> DEFINE P(k) == config.proxies[k]
           Says(k) == Intercept(P(k), d)
<1>1. ASSUME NEW k \in DOMAIN config.proxies, NEW u \in Says(k), u # None
      PROVE  /\ u \in P(k).answers /\ Intercepted(P(k), u) # None
             /\ u.scheme \in SocksSchemes \cup HttpSchemes
  <2>1. u \in P(k).answers \ {None}
    BY <1>1 DEF Intercept
  <2>2. QED
    BY <2>1 DEF ConnectorAssumption
<1>2. CASE via = None
  <2>1. \A k \in DOMAIN config.proxies : Says(k) = {None}
    <3> SUFFICES ASSUME NEW k \in DOMAIN config.proxies
                 PROVE  Says(k) = {None}
      OBVIOUS
    <3>1. None \in {IF u = None THEN None ELSE Intercepted(P(k), u) :
                      u \in Says(k)}
      BY <1>2 DEF Routes, FirstOf
    <3>2. None \in Says(k)
      BY <1>1, <3>1
    <3>3. QED
      BY <3>2 DEF Unambiguous
  <2>2. \A x \in FirstOf(config.proxies, d, NonTunnelAuth) : x = None
    BY <2>1 DEF FirstOf
  <2>3. \A x \in FirstOf(config.proxies, d, NonTunnelHeaders) : x = None
    BY <2>1 DEF FirstOf
  <2>4. a = None /\ m = None
    BY <2>2, <2>3 DEF ProxyAuth, ProxyCustomHeaders
  <2>5. QED
    BY <1>2, <2>4 DEF OfRoute, ReadByProxy
<1>3. CASE via # None
  <2>1. PICK k \in DOMAIN config.proxies :
          via \in {IF u = None THEN None ELSE Intercepted(P(k), u) :
                     u \in Says(k)}
    BY <1>3 DEF Routes, FirstOf
  <2>2. PICK u \in Says(k) : u # None /\ via = Intercepted(P(k), u)
    BY <1>3, <2>1
  <2>3. Says(k) = {u}
    BY <2>2 DEF Unambiguous
  <2>4. \A j \in DOMAIN config.proxies : j # k => Says(j) = {None}
    BY <2>2, <2>3 DEF Unambiguous
  <2>5. \A x \in FirstOf(config.proxies, d, NonTunnelAuth) :
          x = NonTunnelAuth(P(k), u)
    BY <2>2, <2>3, <2>4 DEF FirstOf
  <2>6. \A x \in FirstOf(config.proxies, d, NonTunnelHeaders) :
          x = NonTunnelHeaders(P(k), u)
    BY <2>2, <2>3, <2>4 DEF FirstOf
  <2>7. /\ via.url = u /\ via.misc = P(k).misc
        /\ via.auth = IF P(k).extra # None THEN P(k).extra ELSE u.creds
    BY <2>2 DEF Intercepted
  <2>8. u \in P(k).answers
    BY <1>1, <2>2
  <2>9. a = OfRoute(d, via, via.auth)
    <3>1. CASE a \in FirstOf(config.proxies, d, NonTunnelAuth)
      <4>1. CASE d.scheme = "http"
        BY <1>3, <2>5, <2>7, <3>1, <4>1
        DEF NonTunnelAuth, Intercepted, OfRoute, ReadByProxy
      <4>2. CASE d.scheme # "http"
        BY <4>2 DEF ProxyAuth, OfRoute, ReadByProxy
      <4>3. QED
        BY <4>1, <4>2
    <3>2. CASE a \notin FirstOf(config.proxies, d, NonTunnelAuth)
      <4>1. a = None /\ (d.scheme # "http" \/ ~MaybeHasHttpAuth(P(k)))
        BY <3>2 DEF ProxyAuth
      <4>2. QED
        BY <2>7, <2>8, <4>1 DEF MaybeHasHttpAuth, OfRoute, ReadByProxy
    <3>3. QED
      BY <3>1, <3>2
  <2>10. m = OfRoute(d, via, via.misc)
    <3>1. CASE m \in FirstOf(config.proxies, d, NonTunnelHeaders)
      <4>1. CASE d.scheme = "http"
        BY <1>3, <2>6, <2>7, <3>1, <4>1
        DEF NonTunnelHeaders, OfRoute, ReadByProxy
      <4>2. CASE d.scheme # "http"
        BY <4>2 DEF ProxyCustomHeaders, OfRoute, ReadByProxy
      <4>3. QED
        BY <4>1, <4>2
    <3>2. CASE m \notin FirstOf(config.proxies, d, NonTunnelHeaders)
      <4>1. m = None /\ (d.scheme # "http" \/ ~MaybeHasHttpHeaders(P(k)))
        BY <3>2 DEF ProxyCustomHeaders
      <4>2. QED
        BY <2>7, <2>8, <4>1 DEF MaybeHasHttpHeaders, OfRoute, ReadByProxy
    <3>3. QED
      BY <3>1, <3>2
  <2>11. QED
    BY <2>9, <2>10
<1>4. QED
  BY <1>2, <1>3

-----------------------------------------------------------------------------
(* The configuration never changes, and with it what a connection may be   *)
(* and what fits.                                                          *)

LEMMA ConnsNext ==
    ASSUME config' = config
    PROVE  Conns' = Conns
  BY DEF Conns, Stages, Vias, Urls, Addrs

LEMMA FitsNext ==
    ASSUME config' = config, NEW c
    PROVE  /\ FitsItsUrl(c)' <=> FitsItsUrl(c)
           /\ FitsItsRoute(c)' <=> FitsItsRoute(c)
  BY DEF FitsItsUrl, FitsItsRoute, RestoringNodelay, Routes, FirstOf

LEMMA FitsOfConnNext ==
    ASSUME config' = config, NEW r
    PROVE  /\ FitsItsUrl(conn[r])' <=> FitsItsUrl(conn'[r])
           /\ FitsItsRoute(conn[r])' <=> FitsItsRoute(conn'[r])
  BY DEF FitsItsUrl, FitsItsRoute, RestoringNodelay, Routes, FirstOf

LEMMA ConfigIsFixed ==
    ASSUME [Next]_vars
    PROVE  config' = config
  BY DEF Next, vars, Execute, Ready, Call, Step, Fails, TimedOut, Responds,
         Ends, Reuse, Redirected, Tick, Done

(* It is enough to show what fits of the connections after a step.         *)
LEMMA PlansFitNext ==
    ASSUME config' = config,
           \A r \in Requests : phase'[r] \in {"connecting", "sent"} =>
               FitsItsUrl(conn'[r]) /\ FitsItsRoute(conn'[r]),
           \A c \in idle' : FitsItsUrl(c) /\ FitsItsRoute(c)
    PROVE  PlansFit'
<1>1. \A r \in (Connecting \cup Sent)' :
        (FitsItsUrl(conn[r]) /\ FitsItsRoute(conn[r]))'
  BY FitsOfConnNext DEF Connecting, Sent
<1>2. \A c \in idle' : (FitsItsUrl(c) /\ FitsItsRoute(c))'
  BY FitsNext
<1>3. QED
  BY <1>1, <1>2 DEF PlansFit

(* What the type says of requests and connections.                         *)
LEMMA PlansAndTypes ==
    ASSUME TypeOK, PlansFit
    PROVE  /\ \A r \in Requests : phase[r] \in {"connecting", "sent"} =>
                 /\ conn[r] \in Conns /\ conn[r].key = dest[r]
                 /\ dest[r] \in Dests
                 /\ FitsItsUrl(conn[r]) /\ FitsItsRoute(conn[r])
           /\ \A c \in idle : /\ c \in Conns /\ c.todo = <<>>
                              /\ FitsItsUrl(c) /\ FitsItsRoute(c)
  BY DEF TypeOK, PlansFit, Connecting, Sent

(* The end of a request, which may leave its connection to the pool.       *)
LEMMA EndsKeeps ==
    ASSUME ConnectorAssumption, TypeOK, PlansFit, NEW r \in Requests, Ends(r),
           \/ UNCHANGED idle
           \/ phase[r] = "sent" /\ Return(conn[r])
    PROVE  TypeOK' /\ PlansFit'
<1> USE DEF Ends, Rest, Return, NoHeaders
<1>1. Conns' = Conns
  BY ConnsNext
<1>2. \A c \in idle' : c \in Conns /\ c.todo = <<>>
                      /\ FitsItsUrl(c) /\ FitsItsRoute(c)
  BY PlansAndTypes DEF TypeOK
<1>3. TypeOK'
  BY <1>1, <1>2 DEF TypeOK, ConnectorAssumption
<1>4. PlansFit'
  BY <1>2, PlansAndTypes, PlansFitNext DEF TypeOK
<1>5. QED
  BY <1>3, <1>4

LEMMA TypesAndPlansPreserved ==
    ASSUME ConnectorAssumption, TypeOK, PlansFit, [Next]_vars
    PROVE  TypeOK' /\ PlansFit'
<1>1. config' = config /\ config \in Configs
  BY ConfigIsFixed DEF TypeOK
<1>2. Conns' = Conns
  BY <1>1, ConnsNext
<1>3. ASSUME NEW r \in Requests, Execute(r)
      PROVE  TypeOK' /\ PlansFit'
  <2>1. TypeOK'
    BY <1>2, <1>3 DEF Execute, TypeOK
  <2>2. PlansFit'
    BY <1>1, <1>3, PlansAndTypes, PlansFitNext DEF Execute, TypeOK
  <2>3. QED
    BY <2>1, <2>2
<1>4. ASSUME NEW r \in Requests, Ready(r)
      PROVE  TypeOK' /\ PlansFit'
  <2>1. TypeOK'
    BY <1>2, <1>4 DEF Ready, TypeOK
  <2>2. PlansFit'
    BY <1>1, <1>4, PlansAndTypes, PlansFitNext DEF Ready, TypeOK
  <2>3. QED
    BY <2>1, <2>2
<1>5. ASSUME NEW r \in Requests, Call(r)
      PROVE  TypeOK' /\ PlansFit'
  <2>1. dest[r] \in Dests
    BY <1>5 DEF Call, TypeOK
  <2>2. PICK c \in Connections(dest[r]) : conn' = [conn EXCEPT ![r] = c]
    BY <1>5 DEF Call
  <2>3. /\ c \in Conns /\ c.key = dest[r] /\ c.todo # <<>>
        /\ FitsItsUrl(c) /\ FitsItsRoute(c)
    BY <1>1, <2>1, ConnectionsFit
  <2>4. TypeOK'
    BY <1>2, <1>5, <2>2, <2>3 DEF Call, TypeOK
  <2>5. PlansFit'
    BY <1>1, <1>5, <2>2, <2>3, PlansAndTypes, PlansFitNext DEF Call, TypeOK
  <2>6. QED
    BY <2>4, <2>5
<1>6. ASSUME NEW r \in Requests, Step(r)
      PROVE  TypeOK' /\ PlansFit'
  <2> DEFINE c == conn[r]
             Next1(got) == [c EXCEPT !.todo = Tail(@),
                                     !.wire = Append(@, [Head(c.todo) EXCEPT
                                                           !.with = got])]
  <2>1. PICK got \in IF Head(c.todo).do = "tls" THEN {FALSE, Head(c.todo).with}
                     ELSE {Head(c.todo).with} :
          /\ conn' = [conn EXCEPT ![r] = Next1(got)]
          /\ phase' = IF Next1(got).todo = <<>>
                      THEN [phase EXCEPT ![r] = "sent"] ELSE phase
          /\ idle' \subseteq idle \cup {Next1(got)}
          /\ Next1(got).todo # <<>> => idle' = idle
          /\ IF Next1(got).todo = <<>> THEN Rest(r) ELSE UNCHANGED <<age, timer>>
    BY <1>6 DEF Step
  <2>2. /\ phase[r] = "connecting" /\ UNCHANGED <<config, dest, headers, hops>>
    BY <1>6 DEF Step
  <2>3. /\ c \in Conns /\ c.todo # <<>> /\ c.key = dest[r]
        /\ FitsItsUrl(c) /\ FitsItsRoute(c)
    BY <2>2, PlansAndTypes DEF TypeOK
  <2>4. PICK next : next = Next1(got)
    OBVIOUS
  <2>5. next = [key |-> c.key, via |-> c.via, todo |-> Tail(c.todo),
                wire |-> Append(c.wire, [Head(c.todo) EXCEPT !.with = got]),
                isProxy |-> c.isProxy, tlsInfo |-> c.tlsInfo]
    BY <2>3, <2>4 DEF Conns
  <2>6. /\ next \in Conns /\ next.key = c.key
        /\ FitsItsUrl(next) /\ FitsItsRoute(next)
    BY <2>3, <2>5, StepFits
  <2> HIDE DEF Next1
  <2>7. \A x \in idle' : /\ x \in Conns /\ x.todo = <<>>
                         /\ FitsItsUrl(x) /\ FitsItsRoute(x)
    <3>1. \A x \in idle' : x \in idle \/ (x = next /\ next.todo = <<>>)
      BY <2>1, <2>4
    <3>2. \A x \in idle : /\ x \in Conns /\ x.todo = <<>>
                         /\ FitsItsUrl(x) /\ FitsItsRoute(x)
      BY PlansAndTypes
    <3>3. QED
      BY <2>6, <3>1, <3>2
  <2>8. /\ age' \in [Requests -> Nat] /\ timer' \in [Requests -> Nat]
    <3>1. Rest(r) \/ UNCHANGED <<age, timer>>
      BY <2>1
    <3>2. age \in [Requests -> Nat] /\ timer \in [Requests -> Nat]
      BY DEF TypeOK
    <3>3. CASE Rest(r)
      BY <3>2, <3>3 DEF Rest
    <3>4. CASE UNCHANGED <<age, timer>>
      BY <3>2, <3>4
    <3>5. QED
      BY <3>1, <3>3, <3>4
  <2>9. TypeOK'
    BY <1>2, <2>1, <2>2, <2>3, <2>4, <2>6, <2>7, <2>8 DEF TypeOK
  <2>10. PlansFit'
    BY <1>1, <2>1, <2>2, <2>4, <2>6, <2>7, PlansAndTypes, PlansFitNext
    DEF TypeOK
  <2>11. QED
    BY <2>9, <2>10
<1>7. ASSUME NEW r \in Requests, Fails(r) \/ TimedOut(r) \/ Responds(r)
      PROVE  TypeOK' /\ PlansFit'
  BY <1>7, EndsKeeps DEF Fails, TimedOut, Responds
<1>8. ASSUME NEW r \in Requests, NEW c \in idle, Reuse(r, c)
      PROVE  TypeOK' /\ PlansFit'
  <2>1. c \in Conns /\ c.todo = <<>> /\ FitsItsUrl(c) /\ FitsItsRoute(c)
    BY PlansAndTypes
  <2>2. idle' \subseteq idle
    BY <1>8 DEF Reuse
  <2>3. TypeOK'
    BY <1>2, <1>8, <2>1, <2>2 DEF Reuse, TypeOK
  <2>4. PlansFit'
    BY <1>1, <1>8, <2>1, <2>2, PlansAndTypes, PlansFitNext DEF Reuse, TypeOK
  <2>5. QED
    BY <2>3, <2>4
<1>9. ASSUME NEW r \in Requests, NEW d \in Dests, Redirected(r, d)
      PROVE  TypeOK' /\ PlansFit'
  <2>1. \A c \in idle' : c \in Conns /\ c.todo = <<>>
                        /\ FitsItsUrl(c) /\ FitsItsRoute(c)
    BY <1>9, PlansAndTypes DEF Redirected, Return, TypeOK
  <2>2. hops' \in [Requests -> 0..MaxHops]
    BY <1>9 DEF Redirected, TypeOK, ConnectorAssumption
  <2>3. TypeOK'
    BY <1>2, <1>9, <2>1, <2>2 DEF Redirected, TypeOK
  <2>4. PlansFit'
    BY <1>1, <1>9, <2>1, PlansAndTypes, PlansFitNext DEF Redirected, TypeOK
  <2>5. QED
    BY <2>3, <2>4
<1>10. CASE Tick
  <2>1. TypeOK'
    BY <1>2, <1>10 DEF Tick, TypeOK
  <2>2. PlansFit'
    BY <1>1, <1>10, PlansAndTypes, PlansFitNext DEF Tick, TypeOK
  <2>3. QED
    BY <2>1, <2>2
<1>11. CASE UNCHANGED vars
  <2>1. TypeOK'
    BY <1>2, <1>11 DEF vars, TypeOK
  <2>2. PlansFit'
    BY <1>1, <1>11, PlansAndTypes, PlansFitNext DEF vars, TypeOK
  <2>3. QED
    BY <2>1, <2>2
<1>12. QED
  BY <1>3, <1>4, <1>5, <1>6, <1>7, <1>8, <1>9, <1>10, <1>11 DEF Next, Done

-----------------------------------------------------------------------------
(* The headers stay those of the route                                     *)

LEMMA RoutesNext ==
    ASSUME config' = config, NEW r
    PROVE  /\ Unambiguous' <=> Unambiguous
           /\ Routes(dest[r])' = Routes(dest'[r])
  BY DEF Unambiguous, Routes, FirstOf

LEMMA HeadersPreserved ==
    ASSUME ConnectorAssumption, TypeOK, HeadersFit, [Next]_vars
    PROVE  HeadersFit'
<1>1. config' = config /\ config \in Configs
  BY ConfigIsFixed DEF TypeOK
<1> DEFINE Fit(q, d, h, n) ==
             h.auth # "own" =>
               \A via \in Routes(d) :
                 /\ h.auth \in {None, OfRoute(d, via, via.auth)}
                 /\ n = 0 => /\ h.auth = OfRoute(d, via, via.auth)
                            /\ h.misc = OfRoute(d, via, via.misc)
<1> SUFFICES ASSUME Unambiguous, ~config.local, NEW q \in Requests,
                    phase'[q] \notin {"new", "over"}
             PROVE  Fit(q, dest'[q], headers'[q], hops'[q])
  BY <1>1, RoutesNext DEF HeadersFit
<1>2. phase[q] \notin {"new", "over"} =>
        Fit(q, dest[q], headers[q], hops[q])
  BY DEF HeadersFit
<1> HIDE DEF Fit
<1>3. CASE /\ phase[q] \notin {"new", "over"}
           /\ dest'[q] = dest[q] /\ headers'[q] = headers[q]
           /\ hops'[q] = hops[q]
  BY <1>2, <1>3
<1>4. ASSUME NEW r \in Requests, Execute(r)
      PROVE  Fit(q, dest'[q], headers'[q], hops'[q])
  <2>1. CASE q = r
    <3>1. PICK d \in Dests, own \in {None, "own"} :
            \E a \in ProxyAuth(d, own), m \in ProxyCustomHeaders(d) :
              /\ dest' = [dest EXCEPT ![r] = d]
              /\ headers' = [headers EXCEPT ![r] = [auth |-> a, misc |-> m]]
      BY <1>4 DEF Execute
    <3>2. PICK a \in ProxyAuth(d, own), m \in ProxyCustomHeaders(d) :
            /\ dest' = [dest EXCEPT ![r] = d]
            /\ headers' = [headers EXCEPT ![r] = [auth |-> a, misc |-> m]]
      BY <3>1
    <3>3. dest'[q] = d /\ headers'[q] = [auth |-> a, misc |-> m]
      BY <2>1, <3>2 DEF TypeOK
    <3>4. CASE own = None
      <4>1. \A via \in Routes(d) : /\ a = OfRoute(d, via, via.auth)
                                   /\ m = OfRoute(d, via, via.misc)
        BY <1>1, <3>2, <3>4, HeadersOfTheRoute
      <4>2. QED
        BY <3>3, <4>1 DEF Fit
    <3>5. CASE own = "own"
      <4>1. a = "own"
        BY <3>2, <3>5 DEF ProxyAuth, ConnectorAssumption
      <4>2. QED
        BY <3>3, <4>1 DEF Fit
    <3>6. QED
      BY <3>4, <3>5
  <2>2. CASE q # r
    BY <1>3, <1>4, <2>2 DEF Execute, TypeOK
  <2>3. QED
    BY <2>1, <2>2
<1>5. ASSUME NEW r \in Requests, NEW d \in Dests, Redirected(r, d)
      PROVE  Fit(q, dest'[q], headers'[q], hops'[q])
  <2>1. CASE q = r
    <3>1. /\ phase[q] = "sent" /\ hops'[q] # 0 /\ dest'[q] = d
          /\ IF d = dest[q] THEN headers'[q] = headers[q]
             ELSE headers'[q].auth = None
      BY <1>5, <2>1 DEF Redirected, TypeOK
    <3>2. CASE d = dest[q]
      BY <1>2, <3>1, <3>2 DEF Fit
    <3>3. CASE d # dest[q]
      BY <3>1, <3>3 DEF Fit
    <3>4. QED
      BY <3>2, <3>3
  <2>2. CASE q # r
    BY <1>3, <1>5, <2>2 DEF Redirected, TypeOK
  <2>3. QED
    BY <2>1, <2>2
<1>6. ASSUME NEW r \in Requests, Ends(r)
      PROVE  Fit(q, dest'[q], headers'[q], hops'[q])
  BY <1>3, <1>6 DEF Ends, TypeOK
<1>7. ASSUME NEW r \in Requests,
             \/ Ready(r) \/ Call(r) \/ Step(r)
             \/ \E c \in idle : Reuse(r, c)
      PROVE  Fit(q, dest'[q], headers'[q], hops'[q])
  <2>1. UNCHANGED <<dest, headers, hops>> /\ phase[r] \notin {"new", "over"}
    BY <1>7 DEF Ready, Call, Step, Reuse
  <2>2. q # r => phase'[q] = phase[q]
    BY <1>7 DEF Ready, Call, Step, Reuse, TypeOK
  <2>3. QED
    BY <1>3, <2>1, <2>2
<1>8. CASE Tick \/ UNCHANGED vars
  BY <1>3, <1>8 DEF Tick, vars
<1>9. QED
  BY <1>4, <1>5, <1>6, <1>7, <1>8
  DEF Next, Done, Fails, TimedOut, Responds

-----------------------------------------------------------------------------
(* Nobody waits longer than the others' timeouts                           *)

LEMMA Counts ==
    ASSUME ConnectorAssumption, NEW r \in Requests
    PROVE  /\ IsFiniteSet(Behind(r)) /\ Cardinality(Behind(r)) \in Nat
           /\ Cardinality(Requests) - 1 \in Nat
           /\ Cardinality(Requests) \in Nat
           /\ Cardinality(Behind(r)) <= Cardinality(Requests) - 1
           /\ IsFiniteSet(Behind(r)') /\ Cardinality(Behind(r)') \in Nat
<1>1. IsFiniteSet(Requests)
  BY DEF ConnectorAssumption
<1>2. /\ IsFiniteSet(Requests \ {r})
      /\ Cardinality(Requests \ {r}) = Cardinality(Requests) - 1
  BY <1>1, FS_RemoveElement
<1>3. Behind(r) \subseteq Requests \ {r}
  BY DEF Behind
<1>4. /\ IsFiniteSet(Behind(r))
      /\ Cardinality(Behind(r)) <= Cardinality(Requests \ {r})
  BY <1>2, <1>3, FS_Subset
<1>5. /\ Cardinality(Behind(r)) \in Nat /\ Cardinality(Requests \ {r}) \in Nat
      /\ Cardinality(Requests) \in Nat
  BY <1>1, <1>2, <1>4, FS_CardinalityType
<1>6. IsFiniteSet(Behind(r)') /\ Cardinality(Behind(r)') \in Nat
  <2>1. Behind(r)' \subseteq Requests \ {r}
    BY DEF Behind
  <2>2. QED
    BY <1>2, <2>1, FS_Subset, FS_CardinalityType
<1>7. QED
  BY <1>2, <1>4, <1>5, <1>6

(* The wait of a request q that stays in the queue, in a step that lets    *)
(* nobody in front of it.                                                  *)
LEMMA QueuedKeeps ==
    ASSUME ConnectorAssumption, TypeOK, WaitIsBounded, config' = config,
           config.timeout # None, NEW q \in Queued, age'[q] = age[q],
           Behind(q) \subseteq Behind(q)'
    PROVE  /\ config.timeout \in Nat /\ age[q] \in Nat
           /\ Cardinality(Behind(q)') \in Nat
           /\ Permitted => age[q] <= config.timeout * Cardinality(Behind(q)')
           /\ ~Permitted => \A c \in Connecting :
                age[q] <= config.timeout * Cardinality(Behind(q)') + timer[c]
<1> DEFINE t == config.timeout
           a == Cardinality(Behind(q))
           b == Cardinality(Behind(q)')
<1>1. t \in Nat /\ age[q] \in Nat /\ q \in Requests
  BY DEF ConnectorAssumption, TypeOK, Queued
<1>2. a \in Nat /\ b \in Nat /\ a <= b
  BY <1>1, Counts, FS_Subset, FS_CardinalityType
<1>3. \A c \in Connecting : timer[c] \in Nat
  BY DEF TypeOK, Connecting
<1>4. /\ Permitted => age[q] <= t * a
      /\ ~Permitted => \A c \in Connecting : age[q] <= t * a + timer[c]
  BY DEF WaitIsBounded
<1> HIDE DEF t, a, b
<1>5. t * a <= t * b /\ t * a \in Nat /\ t * b \in Nat
  BY <1>1, <1>2, TimesMonotone DEF t
<1>6. ~Permitted => \A c \in Connecting : age[q] <= t * b + timer[c]
  <2> SUFFICES ASSUME ~Permitted, NEW c \in Connecting
               PROVE  age[q] <= t * b + timer[c]
    OBVIOUS
  <2>1. age[q] <= t * a + timer[c] /\ timer[c] \in Nat
    BY <1>3, <1>4
  <2>2. QED
    BY <1>1, <1>5, <2>1
<1>7. Permitted => age[q] <= t * b
  BY <1>1, <1>4, <1>5
<1>8. QED
  BY <1>1, <1>2, <1>6, <1>7 DEF t, b

(* A step that changes nothing in the connector.                           *)
LEMMA AsideKeepsWait ==
    ASSUME ConnectorAssumption, TypeOK, WaitIsBounded, config' = config,
           Connecting' = Connecting, Queued' = Queued,
           \A q \in Queued : age'[q] = age[q],
           \A q \in Connecting : age'[q] = age[q] /\ timer'[q] = timer[q]
    PROVE  WaitIsBounded'
<1> SUFFICES ASSUME config.timeout # None
             PROVE  WaitIsBounded'
  BY DEF WaitIsBounded
<1>1. Permitted' = Permitted
  BY DEF Permitted
<1>2. \A q \in Connecting :
        /\ timer'[q] <= config'.timeout
        /\ config'.limit = 0 => age'[q] = timer'[q]
        /\ age'[q] <= config'.timeout * (Cardinality(Requests) - 1) + timer'[q]
  BY DEF WaitIsBounded
<1>3. ASSUME NEW q \in Queued
      PROVE  /\ config'.limit = 0 => age'[q] = 0
             /\ Permitted' => age'[q] <= config'.timeout * Cardinality(Behind(q)')
             /\ ~Permitted' => \A c \in Connecting :
                  age'[q] <= config'.timeout * Cardinality(Behind(q)') + timer'[c]
  <2>1. Behind(q) \subseteq Behind(q)'
    BY <1>3 DEF Behind, Queued, Connecting
  <2>2. QED
    BY <1>1, <1>3, <2>1, QueuedKeeps DEF WaitIsBounded
<1>4. QED
  BY <1>2, <1>3 DEF WaitIsBounded

(* A request that joins the queue is behind those that have waited at all. *)
LEMMA ReadyKeepsWait ==
    ASSUME ConnectorAssumption, TypeOK, WaitIsBounded,
           NEW r \in Requests, Ready(r)
    PROVE  WaitIsBounded'
<1> SUFFICES ASSUME config.timeout # None
             PROVE  WaitIsBounded'
  BY DEF WaitIsBounded, Ready
<1>1. /\ config' = config /\ timer' = timer
      /\ Connecting' = Connecting /\ Queued' = Queued \cup {r}
      /\ r \notin Queued /\ r \notin Connecting
      /\ age'[r] = 0 /\ \A q \in Requests \ {r} : age'[q] = age[q]
  BY DEF Ready, TypeOK, Connecting, Queued
<1>2. Permitted' = Permitted
  BY <1>1 DEF Permitted
<1>3. \A q \in Connecting :
        /\ timer'[q] <= config'.timeout
        /\ config'.limit = 0 => age'[q] = timer'[q]
        /\ age'[q] <= config'.timeout * (Cardinality(Requests) - 1) + timer'[q]
  BY <1>1 DEF WaitIsBounded, Connecting
<1>4. ASSUME NEW q \in Queued \cup {r}
      PROVE  /\ config'.limit = 0 => age'[q] = 0
             /\ Permitted' => age'[q] <= config'.timeout * Cardinality(Behind(q)')
             /\ ~Permitted' => \A c \in Connecting :
                  age'[q] <= config'.timeout * Cardinality(Behind(q)') + timer'[c]
  <2>1. q \in Requests /\ config.timeout \in Nat
    BY DEF Queued, TypeOK, ConnectorAssumption
  <2>2. CASE age'[q] = 0
    <3>1. Cardinality(Behind(q)') \in Nat
      BY <2>1, Counts
    <3>2. config.timeout * Cardinality(Behind(q)') \in Nat
      BY <2>1, <3>1
    <3>3. \A c \in Connecting : timer[c] \in Nat
      BY DEF Connecting, TypeOK
    <3>4. QED
      BY <1>1, <2>2, <3>2, <3>3
  <2>3. CASE age'[q] # 0
    <3>1. q \in Queued /\ q # r /\ age'[q] = age[q]
      BY <1>1, <2>1, <2>3
    <3>2. age[q] > 0
      BY <2>1, <2>3, <3>1 DEF TypeOK
    <3>3. Behind(q) \subseteq Behind(q)'
      BY <1>1, <3>1, <3>2 DEF Behind, Connecting, Queued
    <3>4. QED
      BY <1>1, <1>2, <3>1, <3>3, QueuedKeeps DEF WaitIsBounded
  <2>4. QED
    BY <2>2, <2>3
<1>5. QED
  BY <1>1, <1>3, <1>4 DEF WaitIsBounded

(* The one that has waited longest gets the permit.                        *)
LEMMA CallKeepsWait ==
    ASSUME ConnectorAssumption, TypeOK, WaitIsBounded,
           NEW r \in Requests, Call(r)
    PROVE  WaitIsBounded'
<1> SUFFICES ASSUME config.timeout # None
             PROVE  WaitIsBounded'
  BY DEF WaitIsBounded, Call
<1>1. /\ config' = config /\ age' = age
      /\ Connecting' = Connecting \cup {r} /\ Queued' = Queued \ {r}
      /\ r \in Queued /\ r \notin Connecting /\ Permitted
      /\ timer'[r] = 0 /\ \A q \in Requests \ {r} : timer'[q] = timer[q]
      /\ \A q \in Queued : age[q] <= age[r]
  BY DEF Call, TypeOK, Connecting, Queued
<1>2. /\ config.timeout \in Nat
      /\ \A q \in Requests : age[q] \in Nat /\ timer[q] \in Nat
  BY DEF TypeOK, ConnectorAssumption
<1>3. ASSUME NEW q \in Connecting \cup {r}
      PROVE  /\ timer'[q] <= config'.timeout
             /\ config'.limit = 0 => age'[q] = timer'[q]
             /\ age'[q] <= config'.timeout * (Cardinality(Requests) - 1)
                             + timer'[q]
  <2>1. CASE q \in Connecting
    BY <1>1, <2>1 DEF WaitIsBounded, Connecting
  <2>2. CASE q = r
    <3>1. config.limit = 0 => age[r] = 0
      BY <1>1 DEF WaitIsBounded
    <3>2. age[r] <= config.timeout * Cardinality(Behind(r))
      BY <1>1 DEF WaitIsBounded
    <3>3. /\ config.timeout * Cardinality(Behind(r))
                <= config.timeout * (Cardinality(Requests) - 1)
          /\ config.timeout * Cardinality(Behind(r)) \in Nat
          /\ config.timeout * (Cardinality(Requests) - 1) \in Nat
      <4>1. /\ Cardinality(Behind(r)) \in Nat
            /\ Cardinality(Requests) - 1 \in Nat
            /\ Cardinality(Behind(r)) <= Cardinality(Requests) - 1
        BY Counts
      <4>2. QED
        BY <1>2, <4>1, TimesMonotone
    <3>4. age[r] <= config.timeout * (Cardinality(Requests) - 1) + 0
      BY <1>2, <3>2, <3>3
    <3>5. QED
      BY <1>1, <1>2, <2>2, <3>1, <3>4
  <2>3. QED
    BY <2>1, <2>2
<1>4. ASSUME NEW q \in Queued \ {r}
      PROVE  /\ config'.limit = 0 => age'[q] = 0
             /\ Permitted' => age'[q] <= config'.timeout * Cardinality(Behind(q)')
             /\ ~Permitted' => \A c \in Connecting \cup {r} :
                  age'[q] <= config'.timeout * Cardinality(Behind(q)') + timer'[c]
  <2>1. Behind(q) \subseteq Behind(q)'
    BY <1>1, <1>2 DEF Behind, Queued, Connecting
  <2>2. /\ age[q] <= config.timeout * Cardinality(Behind(q)')
        /\ Cardinality(Behind(q)') \in Nat
    BY <1>1, <2>1, QueuedKeeps
  <2>3. \A c \in Connecting \cup {r} : timer'[c] \in Nat
    BY <1>1, <1>2 DEF Connecting
  <2>4. config.timeout * Cardinality(Behind(q)') \in Nat /\ age[q] \in Nat
    BY <1>2, <2>2 DEF Queued
  <2>5. \A c \in Connecting \cup {r} :
          age[q] <= config.timeout * Cardinality(Behind(q)') + timer'[c]
    BY <2>2, <2>3, <2>4
  <2>6. QED
    BY <1>1, <2>2, <2>5 DEF WaitIsBounded
<1>5. QED
  BY <1>1, <1>3, <1>4 DEF WaitIsBounded

(* Who leaves the connector, at its timeout or before, is behind all that  *)
(* wait from then on.                                                      *)
LEMMA LeaveKeepsWait ==
    ASSUME ConnectorAssumption, TypeOK, WaitIsBounded, config' = config,
           NEW r \in Connecting,
           Connecting' = Connecting \ {r}, Queued' = Queued,
           \A q \in Requests \ {r} : age'[q] = age[q] /\ timer'[q] = timer[q]
    PROVE  WaitIsBounded'
<1> SUFFICES ASSUME config.timeout # None
             PROVE  WaitIsBounded'
  BY DEF WaitIsBounded
<1>1. /\ config.timeout \in Nat
      /\ \A q \in Requests : age[q] \in Nat /\ timer[q] \in Nat
      /\ Connecting \subseteq Requests /\ Queued \subseteq Requests \ {r}
  BY DEF TypeOK, ConnectorAssumption, Connecting, Queued
<1>2. \A q \in Connecting \ {r} :
        /\ timer'[q] <= config'.timeout
        /\ config'.limit = 0 => age'[q] = timer'[q]
        /\ age'[q] <= config'.timeout * (Cardinality(Requests) - 1) + timer'[q]
  BY <1>1 DEF WaitIsBounded
<1>3. ASSUME NEW q \in Queued
      PROVE  /\ config'.limit = 0 => age'[q] = 0
             /\ Permitted' => age'[q] <= config'.timeout * Cardinality(Behind(q)')
             /\ ~Permitted' => \A c \in Connecting \ {r} :
                  age'[q] <= config'.timeout * Cardinality(Behind(q)') + timer'[c]
  <2> DEFINE t == config.timeout
             a == Cardinality(Behind(q))
             b == Cardinality(Behind(q)')
  <2>1. q \in Requests /\ q # r /\ age'[q] = age[q]
    BY <1>1
  <2>2. a + 1 <= b /\ a \in Nat /\ b \in Nat
    <3>1. /\ r \notin Behind(q)
          /\ Behind(q) \cup {r} \subseteq Behind(q)'
      BY <1>1, <2>1 DEF Behind, Queued, Connecting
    <3>2. /\ IsFiniteSet(Behind(q)) /\ a \in Nat
          /\ IsFiniteSet(Behind(q)') /\ b \in Nat
      BY <2>1, Counts
    <3>3. Cardinality(Behind(q) \cup {r}) = a + 1
      BY <3>1, <3>2, FS_AddElement
    <3>4. Cardinality(Behind(q) \cup {r}) <= b
      BY <3>1, <3>2, FS_Subset
    <3>5. QED
      BY <3>2, <3>3, <3>4
  <2>3. /\ Permitted => age[q] <= t * a
        /\ ~Permitted => age[q] <= t * a + timer[r]
        /\ timer[r] <= t /\ timer[r] \in Nat /\ t \in Nat /\ age[q] \in Nat
    BY <1>1, <2>1 DEF WaitIsBounded
  <2>4. \A c \in Connecting \ {r} : timer'[c] \in Nat
    BY <1>1
  <2> HIDE DEF t, a, b
  <2>5. t * a + t <= t * b /\ t * a \in Nat /\ t * b \in Nat
    <3>1. a + 1 \in Nat
      BY <2>2
    <3>2. t * (a + 1) <= t * b
      BY <2>2, <2>3, <3>1, TimesMonotone
    <3>3. t * (a + 1) = t * a + t
      BY <2>2, <2>3, TimesNext
    <3>4. t * a \in Nat /\ t * b \in Nat
      BY <2>2, <2>3
    <3>5. QED
      BY <3>2, <3>3, <3>4
  <2>6. age[q] <= t * b
    BY <2>3, <2>5
  <2>7. \A c \in Connecting \ {r} : age[q] <= t * b + timer'[c]
    BY <2>3, <2>4, <2>5, <2>6
  <2>8. config.limit = 0 => age[q] = 0
    BY DEF WaitIsBounded
  <2>9. QED
    BY <2>1, <2>6, <2>7, <2>8 DEF t, b
<1>4. QED
  BY <1>2, <1>3 DEF WaitIsBounded

(* Time passes for a request in the queue only while others are connecting *)
(* and for all of those.                                                   *)
LEMMA TickKeepsWait ==
    ASSUME ConnectorAssumption, TypeOK, WaitIsBounded, Tick
    PROVE  WaitIsBounded'
<1>1. /\ config' = config /\ config.timeout \in Nat /\ config.timeout # None
      /\ Connecting' = Connecting /\ Queued' = Queued
      /\ Queued \subseteq Requests /\ Connecting \subseteq Requests
      /\ \A q \in Requests : age[q] \in Nat /\ timer[q] \in Nat
      /\ \A q \in Connecting : /\ age'[q] = age[q] + 1
                                /\ timer'[q] = timer[q] + 1
                                /\ timer[q] # config.timeout
      /\ \A q \in Queued : age'[q] = age[q] + 1
      /\ Queued # {} => ~Permitted
  BY DEF Tick, TypeOK, ConnectorAssumption, Connecting, Queued, Expired
<1>2. Permitted' = Permitted
  BY <1>1 DEF Permitted
<1>3. ASSUME NEW q \in Connecting
      PROVE  /\ timer'[q] <= config'.timeout
             /\ config'.limit = 0 => age'[q] = timer'[q]
             /\ age'[q] <= config'.timeout * (Cardinality(Requests) - 1)
                             + timer'[q]
  <2>1. /\ timer[q] <= config.timeout
        /\ config.limit = 0 => age[q] = timer[q]
        /\ age[q] <= config.timeout * (Cardinality(Requests) - 1) + timer[q]
    BY <1>1 DEF WaitIsBounded
  <2>2. /\ Cardinality(Requests) - 1 \in Nat /\ age[q] \in Nat
        /\ timer[q] \in Nat
    BY <1>1, Counts
  <2>3. config.timeout * (Cardinality(Requests) - 1) \in Nat
    BY <1>1, <2>2
  <2>4. QED
    BY <1>1, <2>1, <2>2, <2>3
<1>4. ASSUME NEW q \in Queued
      PROVE  /\ config'.limit = 0 => age'[q] = 0
             /\ Permitted' => age'[q] <= config'.timeout * Cardinality(Behind(q)')
             /\ ~Permitted' => \A c \in Connecting :
                  age'[q] <= config'.timeout * Cardinality(Behind(q)') + timer'[c]
  <2>1. ~Permitted /\ config.limit # 0
    BY <1>1 DEF Permitted
  <2>2. Behind(q)' = Behind(q)
    BY <1>1 DEF Behind, Queued, Connecting
  <2>3. config.timeout * Cardinality(Behind(q)) \in Nat
    BY <1>1, Counts
  <2>4. \A c \in Connecting :
          age[q] <= config.timeout * Cardinality(Behind(q)) + timer[c]
    BY <1>1, <2>1 DEF WaitIsBounded
  <2>5. \A c \in Connecting :
          age[q] + 1 <= config.timeout * Cardinality(Behind(q)) + (timer[c] + 1)
    BY <1>1, <2>3, <2>4
  <2>6. QED
    BY <1>1, <1>2, <2>1, <2>2, <2>5
<1>5. QED
  BY <1>1, <1>3, <1>4 DEF WaitIsBounded

LEMMA WaitPreserved ==
    ASSUME ConnectorAssumption, TypeOK, WaitIsBounded, [Next]_vars
    PROVE  WaitIsBounded'
<1>1. config' = config
  BY ConfigIsFixed
<1>2. ASSUME NEW r \in Requests,
             \/ Execute(r) \/ Responds(r)
             \/ \E c \in idle : Reuse(r, c)
             \/ \E d \in Dests : Redirected(r, d)
      PROVE  WaitIsBounded'
  <2>1. /\ Connecting' = Connecting /\ Queued' = Queued
        /\ r \notin Connecting /\ r \notin Queued
        /\ \A q \in Requests \ {r} : age'[q] = age[q] /\ timer'[q] = timer[q]
    BY <1>2 DEF Execute, Responds, Ends, Rest, Reuse, Redirected, Connecting,
                Queued, TypeOK
  <2>2. QED
    BY <1>1, <2>1, AsideKeepsWait DEF Connecting, Queued
<1>3. ASSUME NEW r \in Requests, Fails(r) \/ TimedOut(r)
      PROVE  WaitIsBounded'
  <2>1. /\ r \in Connecting
        /\ Connecting' = Connecting \ {r} /\ Queued' = Queued
        /\ \A q \in Requests \ {r} : age'[q] = age[q] /\ timer'[q] = timer[q]
    BY <1>3 DEF Fails, TimedOut, Ends, Rest, Connecting, Queued, TypeOK
  <2>2. QED
    BY <1>1, <2>1, LeaveKeepsWait
<1>4. ASSUME NEW r \in Requests, Step(r)
      PROVE  WaitIsBounded'
  <2>1. /\ r \in Connecting
        /\ \/ phase' = phase /\ UNCHANGED <<age, timer>>
           \/ phase' = [phase EXCEPT ![r] = "sent"] /\ Rest(r)
    BY <1>4 DEF Step, Connecting
  <2>2. CASE phase' = phase /\ UNCHANGED <<age, timer>>
    <3>1. Connecting' = Connecting /\ Queued' = Queued
      BY <2>2 DEF Connecting, Queued
    <3>2. QED
      BY <1>1, <2>2, <3>1, AsideKeepsWait
  <2>3. CASE phase' = [phase EXCEPT ![r] = "sent"] /\ Rest(r)
    <3>1. /\ Connecting' = Connecting \ {r} /\ Queued' = Queued
          /\ \A q \in Requests \ {r} : age'[q] = age[q]
                                       /\ timer'[q] = timer[q]
      BY <2>1, <2>3 DEF Rest, Connecting, Queued, TypeOK
    <3>2. QED
      BY <1>1, <2>1, <3>1, LeaveKeepsWait
  <2>4. QED
    BY <2>1, <2>2, <2>3
<1>5. CASE UNCHANGED vars
  <2>1. Connecting' = Connecting /\ Queued' = Queued
    BY <1>5 DEF vars, Connecting, Queued
  <2>2. QED
    BY <1>1, <1>5, <2>1, AsideKeepsWait DEF vars
<1>6. QED
  BY <1>2, <1>3, <1>4, <1>5, ReadyKeepsWait, CallKeepsWait, TickKeepsWait
  DEF Next, Done

-----------------------------------------------------------------------------
(* The invariant                                                           *)

LEMMA IInvInitially ==
    ASSUME ConnectorAssumption, Init
    PROVE  IInv
<1>1. TypeOK
  BY DEF Init, TypeOK, ConnectorAssumption, NoHeaders
<1>2. Connecting = {} /\ Queued = {} /\ Sent = {} /\ idle = {}
  BY DEF Init, Connecting, Queued, Sent
<1>3. PlansFit /\ WaitIsBounded
  BY <1>2 DEF PlansFit, WaitIsBounded
<1>4. HeadersFit
  BY DEF Init, HeadersFit
<1>5. QED
  BY <1>1, <1>3, <1>4 DEF IInv

LEMMA IInvPreserved ==
    ASSUME ConnectorAssumption, IInv, [Next]_vars
    PROVE  IInv'
<1>1. TypeOK /\ PlansFit /\ HeadersFit /\ WaitIsBounded
  BY DEF IInv
<1>2. TypeOK' /\ PlansFit'
  BY <1>1, TypesAndPlansPreserved
<1>3. HeadersFit' /\ WaitIsBounded'
  BY <1>1, HeadersPreserved, WaitPreserved
<1>4. QED
  BY <1>2, <1>3 DEF IInv

LEMMA Invariance == Spec => []IInv
<1>1. Init => IInv
  BY IInvInitially, ConnectorAssumption
<1>2. IInv /\ [Next]_vars => IInv'
  BY IInvPreserved, ConnectorAssumption
<1>3. QED
  BY <1>1, <1>2, PTL DEF Spec

(* Every variable has its type, and a request that makes or uses a         *)
(* connection has one to its own destination: the pool and the redirects   *)
(* of async_impl/client.rs never leave a request with another's.           *)
THEOREM TypeCorrect == Spec => []TypeOK
<1>1. IInv => TypeOK
  BY DEF IInv
<1>2. QED
  BY <1>1, Invariance, PTL

-----------------------------------------------------------------------------
(* The wire                                                                *)

(* The stage that is last of some kind is the one that CHOOSE finds.       *)
LEMMA LastIsChosen ==
    ASSUME NEW S, NEW w \in Seq(S), NEW verbs, NEW k, Last(w, verbs, k)
    PROVE  LET found == {i \in DOMAIN w : w[i].do \in verbs}
           IN (CHOOSE i \in found : \A j \in found : j <= i) = k
<1> DEFINE found == {i \in DOMAIN w : w[i].do \in verbs}
<1>1. DOMAIN w = 1..Len(w) /\ Len(w) \in Nat
  OBVIOUS
<1>2. k \in found /\ \A j \in found : j <= k
  BY <1>1 DEF Last
<1>3. \A i \in found : (\A j \in found : j <= i) => i = k
  <2>1. \A i, j \in found : i <= j /\ j <= i => i = j
    BY <1>1
  <2>2. QED
    BY <1>2, <2>1
<1> HIDE DEF found
<1>4. (CHOOSE i \in found : \A j \in found : j <= i) = k
  BY <1>2, <1>3
<1>5. QED
  BY <1>4 DEF found

(* A plan that was carried out is what happened on the wire.               *)
LEMMA SentPlans ==
    ASSUME TypeOK, PlansFit, NEW r \in Sent
    PROVE  /\ Plan(conn[r]) = conn[r].wire
           /\ conn[r].wire \in Seq(Stages) /\ conn[r].key = dest[r]
           /\ conn[r].via \in Vias \cup {None}
           /\ dest[r] \in Dests
           /\ FitsItsUrl(conn[r]) /\ FitsItsRoute(conn[r])
<1>1. /\ r \in Requests /\ phase[r] = "sent"
      /\ conn[r] \in Conns /\ conn[r].todo = <<>>
      /\ conn[r].key = dest[r] /\ dest[r] \in Dests
  BY DEF Sent, TypeOK
<1>2. conn[r].wire \in Seq(Stages) /\ conn[r].via \in Vias \cup {None}
  BY <1>1 DEF Conns
<1> DEFINE w == conn[r].wire
<1>3. w \o <<>> = w
  <2>1. w \in Seq(Stages)
    BY <1>2
  <2> HIDE DEF w
  <2>2. QED
    BY <2>1
<1>4. QED
  BY <1>1, <1>2, <1>3 DEF Plan, PlansFit

(* For any client, proxies and URLs: a request for an https URL is only    *)
(* written beneath TLS with the URL's own host, a rustls client never      *)
(* writes CONNECT on HTTP/2, and hyper gets a socket with the TCP_NODELAY  *)
(* that was asked for (ConnectorService::call, tls_proxy).  What remains   *)
(* to be done of a connection was planned when it was called for, and no   *)
(* step departs from the plan, other than to offer h2 and get http/1.1.    *)
THEOREM WireIsAlwaysAsAsked == Spec => []WireIsAsAsked
<1>1. ASSUME TypeOK, PlansFit
      PROVE  OriginIsSecured
  <2> SUFFICES ASSUME NEW r \in Sent, dest[r].scheme = "https"
               PROVE  \E k \in DOMAIN conn[r].wire :
                        /\ conn[r].wire[k].do = "tls"
                        /\ conn[r].wire[k].to = dest[r].host
                        /\ \A j \in (k + 1)..Len(conn[r].wire) :
                             conn[r].wire[j].do = "nodelay"
    BY DEF OriginIsSecured
  <2> DEFINE w == conn[r].wire
  <2>1. w \in Seq(Stages) /\ Securing(w, dest[r].host)
    BY <1>1, SentPlans DEF FitsItsUrl
  <2> HIDE DEF w
  <2>2. PICK k \in DOMAIN w : /\ w[k].do = "tls" /\ w[k].to = dest[r].host
                              /\ \A j \in DOMAIN w : j > k =>
                                   w[j].do = "nodelay"
    BY <2>1 DEF Securing
  <2>3. \A j \in (k + 1)..Len(w) : j \in DOMAIN w /\ j > k
    BY <2>1
  <2>4. QED
    BY <2>2, <2>3 DEF w
<1>2. ASSUME TypeOK, PlansFit
      PROVE  TunnelIsHttp1
  <2> SUFFICES ASSUME config.backend = "rustls", NEW r \in Connecting \cup Sent,
                      NEW k \in DOMAIN conn[r].wire,
                      conn[r].wire[k].do = "connect",
                      NEW j \in 1..(k - 1), conn[r].wire[j].do = "tls"
               PROVE  ~conn[r].wire[j].with
    BY DEF TunnelIsHttp1
  <2> DEFINE w == conn[r].wire
             t == conn[r].todo
  <2>1. /\ w \in Seq(Stages) /\ t \in Seq(Stages)
        /\ TunnelingOverHttp1(w \o t)
    BY <1>2 DEF TypeOK, Conns, PlansFit, FitsItsUrl, Plan, Connecting, Sent
  <2>2. k \in DOMAIN w /\ w[k].do = "connect" /\ w[j].do = "tls"
    OBVIOUS
  <2> HIDE DEF w, t
  <2>3. /\ j \in DOMAIN w /\ j < k
        /\ \A i \in DOMAIN w : i \in DOMAIN (w \o t) /\ (w \o t)[i] = w[i]
    BY <2>1, <2>2
  <2>4. ~w[j].with
    BY <2>1, <2>2, <2>3 DEF TunnelingOverHttp1
  <2>5. QED
    BY <2>4 DEF w
<1>3. ASSUME TypeOK, PlansFit
      PROVE  NodelayIsAsAsked
  <2> SUFFICES ASSUME NEW r \in Sent, ~config.local
               PROVE  LET w == conn[r].wire
                          sets == {k \in DOMAIN w :
                                     w[k].do \in {"dial", "nodelay"}}
                      IN w[CHOOSE k \in sets : \A j \in sets : j <= k].with
                           = config.nodelay
    BY DEF NodelayIsAsAsked
  <2> DEFINE w == conn[r].wire
             sets == {k \in DOMAIN w : w[k].do \in {"dial", "nodelay"}}
             last == CHOOSE k \in sets : \A j \in sets : j <= k
  <2>1. w \in Seq(Stages) /\ RestoringNodelay(w)
    BY <1>3, SentPlans DEF FitsItsUrl
  <2> HIDE DEF w
  <2>2. PICK k \in DOMAIN w : /\ Last(w, {"dial", "nodelay"}, k)
                              /\ w[k].with = config.nodelay
    BY <2>1 DEF RestoringNodelay
  <2>3. last = k
    BY <2>1, <2>2, LastIsChosen
  <2> HIDE DEF last
  <2>4. w[last].with = config.nodelay
    BY <2>2, <2>3
  <2>5. QED
    BY <2>4 DEF last, w
<1>4. IInv => WireIsAsAsked
  BY <1>1, <1>2, <1>3 DEF IInv, WireIsAsAsked
<1>5. QED
  BY <1>4, Invariance, PTL

(* For any combination of proxies: is_proxy says exactly that the party    *)
(* that reads the request is a proxy, a CONNECT has the headers of its own *)
(* proxy, and, when the proxies are unambiguous, so has any other request, *)
(* whether its connection is new or another request left it to the pool    *)
(* (connect_via_proxy, Client::proxy_auth, remove_sensitive_headers).      *)
THEOREM HeadersAlwaysFitTheRoute == Spec => []HeadersFitTheRoute
<1>1. ASSUME TypeOK, PlansFit
      PROVE  AbsoluteFormForProxies
  <2> SUFFICES ASSUME NEW r \in Sent
               PROVE  conn[r].isProxy =
                        (/\ conn[r].via # None
                         /\ Reached(conn[r]).do = "dial"
                         /\ Reached(conn[r]).to = Addr(conn[r].via.url))
    BY DEF AbsoluteFormForProxies
  <2> DEFINE w == conn[r].wire
             verbs == {"local", "dial", "socks", "connect"}
  <2>1. /\ w \in Seq(Stages)
        /\ \E k \in DOMAIN w :
             /\ Last(w, verbs, k)
             /\ conn[r].isProxy = (/\ conn[r].via # None /\ w[k].do = "dial"
                                   /\ w[k].to = Addr(conn[r].via.url))
    <3>1. Plan(conn[r]) = w /\ w \in Seq(Stages) /\ FitsItsRoute(conn[r])
      BY <1>1, SentPlans
    <3> HIDE DEF w
    <3>2. QED
      BY <3>1 DEF FitsItsRoute
  <2>2. Reached(conn[r]) =
          w[CHOOSE k \in {i \in DOMAIN w : w[i].do \in verbs} :
              \A j \in {i \in DOMAIN w : w[i].do \in verbs} : j <= k]
    BY DEF Reached, Reaches
  <2> HIDE DEF w, verbs
  <2>3. PICK k \in DOMAIN w :
          /\ Last(w, verbs, k)
          /\ conn[r].isProxy = (/\ conn[r].via # None /\ w[k].do = "dial"
                                /\ w[k].to = Addr(conn[r].via.url))
    BY <2>1
  <2>4. Reached(conn[r]) = w[k]
    <3>1. (CHOOSE n \in {i \in DOMAIN w : w[i].do \in verbs} :
              \A j \in {i \in DOMAIN w : w[i].do \in verbs} : j <= n) = k
      BY <2>1, <2>3, LastIsChosen
    <3>2. QED
      BY <2>2, <3>1
  <2>5. QED
    BY <2>3, <2>4
<1>2. ASSUME TypeOK, PlansFit, HeadersFit
      PROVE  CredentialsOfTheRoute
  <2> SUFFICES ASSUME NEW r \in Sent
               PROVE  LET c == conn[r]
                          ofRoute(x) == IF c.isProxy THEN x ELSE None
                      IN /\ \A k \in DOMAIN c.wire : c.wire[k].do = "connect" =>
                              c.wire[k].with = [auth |-> c.via.auth,
                                                misc |-> c.via.misc]
                         /\ Unambiguous /\ ~config.local
                            /\ headers[r].auth # "own" =>
                              IF hops[r] = 0
                              THEN /\ headers[r].auth = ofRoute(c.via.auth)
                                   /\ headers[r].misc = ofRoute(c.via.misc)
                              ELSE /\ headers[r].auth # None => c.isProxy
                                   /\ headers[r].auth \in
                                        {None, ofRoute(c.via.auth)}
    BY DEF CredentialsOfTheRoute
  <2> DEFINE c == conn[r]
             ofRoute(x) == IF c.isProxy THEN x ELSE None
  <2>1. /\ Plan(c) = c.wire /\ FitsItsRoute(c) /\ c.key = dest[r]
    BY <1>2, SentPlans
  <2>2. \A k \in DOMAIN c.wire : c.wire[k].do = "connect" =>
          c.wire[k].with = [auth |-> c.via.auth, misc |-> c.via.misc]
    BY <2>1 DEF FitsItsRoute
  <2>3. ASSUME Unambiguous, ~config.local, headers[r].auth # "own"
        PROVE  /\ headers[r].auth \in {None, ofRoute(c.via.auth)}
               /\ hops[r] = 0 => /\ headers[r].auth = ofRoute(c.via.auth)
                                 /\ headers[r].misc = ofRoute(c.via.misc)
    <3>1. c.via \in Routes(dest[r])
      BY <2>1, <2>3 DEF FitsItsRoute
    <3>2. \A x : OfRoute(dest[r], c.via, x) = ofRoute(x)
      BY <2>1 DEF FitsItsRoute, OfRoute
    <3>3. r \in Requests /\ phase[r] \notin {"new", "over"}
      BY DEF Sent
    <3> HIDE DEF ofRoute, c
    <3>4. QED
      BY <1>2, <2>3, <3>1, <3>2, <3>3 DEF HeadersFit
  <2>4. QED
    BY <2>2, <2>3
<1>3. IInv => HeadersFitTheRoute
  BY <1>1, <1>2 DEF IInv, HeadersFitTheRoute
<1>4. QED
  BY <1>3, Invariance, PTL

(* For any number of requests, connect timeout and limit on concurrent     *)
(* connects: no attempt takes more than the timeout, and no request is in  *)
(* the connector for longer than all the requests' timeouts together       *)
(* (ConnectorBuilder::build, with_timeout).  A request that waits for a    *)
(* permit has waited for one timeout of each of those that have left, or   *)
(* came after it, at the most, and for the permit that is given back next. *)
THEOREM ConnectIsAlwaysBounded == Spec => []ConnectIsBounded
<1>1. ASSUME ConnectorAssumption, TypeOK, WaitIsBounded,
             config.timeout # None, NEW r \in Connecting \cup Queued
      PROVE  /\ phase[r] = "connecting" => timer[r] <= config.timeout
             /\ age[r] <= config.timeout * (IF config.limit = 0 THEN 1
                                            ELSE Cardinality(Requests))
  <2> DEFINE t == config.timeout
             n == Cardinality(Requests)
             b == Cardinality(Behind(r))
  <2>1. /\ r \in Requests /\ t \in Nat /\ config.limit \in Nat
        /\ \A q \in Requests : age[q] \in Nat /\ timer[q] \in Nat
        /\ Connecting \subseteq Requests
    BY <1>1 DEF Connecting, Queued, TypeOK, ConnectorAssumption
  <2>2. n \in Nat /\ n - 1 \in Nat /\ b \in Nat /\ b <= n - 1
    BY <1>1, <2>1, Counts
  <2>3. \A q \in Connecting : timer[q] <= t
    BY <1>1 DEF WaitIsBounded
  <2>4. r \in Connecting => /\ config.limit = 0 => age[r] = timer[r]
                            /\ age[r] <= t * (n - 1) + timer[r]
    BY <1>1 DEF WaitIsBounded
  <2>5. r \in Queued => /\ config.limit = 0 => age[r] = 0
                        /\ Permitted => age[r] <= t * b
                        /\ ~Permitted => \A q \in Connecting :
                                           age[r] <= t * b + timer[q]
    BY <1>1 DEF WaitIsBounded
  <2>6. ~Permitted => Connecting # {}
    <3>1. Connecting = {} => Cardinality(Connecting) = 0
      BY FS_EmptySet
    <3>2. QED
      BY <2>1, <3>1 DEF Permitted
  <2>7. phase[r] = "connecting" => timer[r] <= t
    BY <2>1, <2>3 DEF Connecting
  <2> HIDE DEF t, n, b
  <2>8. t * b <= t * (n - 1) /\ t * b \in Nat /\ t * (n - 1) \in Nat
    BY <2>1, <2>2, TimesMonotone
  <2>9. t * n = t * (n - 1) + t /\ t * n \in Nat
    <3>1. t * ((n - 1) + 1) = t * (n - 1) + t
      BY <2>1, <2>2, TimesNext
    <3>2. (n - 1) + 1 = n
      BY <2>2
    <3>3. QED
      BY <2>1, <2>2, <3>1, <3>2
  <2>10. ASSUME config.limit = 0
         PROVE  age[r] <= t
    <3>1. CASE r \in Connecting
      BY <2>3, <2>4, <2>10, <3>1
    <3>2. CASE r \in Queued
      BY <2>1, <2>5, <2>10, <3>2
    <3>3. QED
      BY <3>1, <3>2
  <2>11. age[r] <= t * n
    <3>1. CASE r \in Connecting
      BY <2>1, <2>3, <2>4, <2>8, <2>9, <3>1
    <3>2. CASE r \in Queued /\ Permitted
      BY <2>1, <2>5, <2>8, <2>9, <3>2
    <3>3. CASE r \in Queued /\ ~Permitted
      <4>1. PICK q \in Connecting : age[r] <= t * b + timer[q]
        BY <2>5, <2>6, <3>3
      <4>2. timer[q] <= t /\ timer[q] \in Nat
        BY <2>1, <2>3
      <4>3. QED
        BY <2>1, <2>8, <2>9, <4>1, <4>2
    <3>4. QED
      BY <3>1, <3>2, <3>3
  <2>12. t * 1 = t
    BY <2>1
  <2>13. QED
    BY <2>7, <2>10, <2>11, <2>12 DEF t, n
<1>2. IInv => ConnectIsBounded
  BY <1>1, ConnectorAssumption DEF IInv, ConnectIsBounded
<1>3. QED
  BY <1>2, Invariance, PTL

-----------------------------------------------------------------------------
(* What the ClientBuilders build: whatever they are asked for.             *)
(* A call that gives both builders what it makes of a setting.             *)
LEMMA TurnKeeps ==
  ASSUME B!IInv, NEW c, NEW b, B!Turn(c, b),
         {"version", "baseUrl"} \subseteq DOMAIN c,
         c.version \in {"all", "h1", "h2", "h3"},
         c.version = "h2" => "http2" \in features,
         c.version = "h3" => "http3" \in features,
         b # None => b = [inner |-> c, timeout |-> b.timeout,
                          baseUrl |-> c.baseUrl]
  PROVE  B!IInv'
  <1>1. /\ client = None /\ builder' = c /\ blocking' = b
        /\ features' = features /\ client' = client /\ handle' = handle
    BY DEF B!Turn
  <1>2. B!Preferred' /\ B!Follows'
    BY <1>1 DEF B!Preferred, B!Follows
  <1>3. B!HandleOf'
    BY <1>1 DEF B!IInv, B!HandleOf, B!Error
  <1>4. B!BuiltOf'
    BY <1>1 DEF B!BuiltOf, B!Built
  <1>5. QED
    BY <1>2, <1>3, <1>4 DEF B!IInv

(* A setting of c that is neither the version nor the base URL.            *)
Alters(c, d) ==
    DOMAIN d = DOMAIN c /\ d.version = c.version /\ d.baseUrl = c.baseUrl

LEMMA WithInnerIs ==
  ASSUME B!IInv, NEW d
  PROVE  /\ B!Inner = builder
         /\ blocking = None => B!WithInner(d) = None
         /\ blocking # None =>
              B!WithInner(d) = [inner |-> d, timeout |-> blocking.timeout,
                              baseUrl |-> builder.baseUrl]
  <1>1. CASE blocking = None
    BY <1>1 DEF B!Inner, B!WithInner
  <1>2. CASE blocking # None
    <2>1. PICK t, u : blocking = [inner |-> builder, timeout |-> t,
                                  baseUrl |-> u] /\ u = builder.baseUrl
                      /\ t = blocking.timeout
      BY <1>2 DEF B!IInv, B!Follows
    <2>2. PICK w : w = B!WithInner(d)
      OBVIOUS
    <2>3. w = [inner |-> d, timeout |-> t, baseUrl |-> u]
      BY <1>2, <2>1, <2>2 DEF B!WithInner
    <2>4. B!Inner = builder
      BY <1>2, <2>1 DEF B!Inner
    <2>5. QED
      BY <1>2, <2>1, <2>2, <2>3, <2>4
  <1>3. QED
    BY <1>1, <1>2

LEMMA SettingKeeps ==
  ASSUME B!IInv, NEW d, Alters(builder, d), B!Turn(d, B!WithInner(d))
  PROVE  B!IInv'
  <1>1. PICK b : b = B!WithInner(d)
    OBVIOUS
  <1>2. b # None => b = [inner |-> d, timeout |-> b.timeout,
                         baseUrl |-> d.baseUrl]
    BY <1>1, WithInnerIs DEF Alters
  <1>3. /\ {"version", "baseUrl"} \subseteq DOMAIN d
        /\ d.version \in {"all", "h1", "h2", "h3"}
        /\ d.version = "h2" => "http2" \in features
        /\ d.version = "h3" => "http3" \in features
    BY DEF B!IInv, B!Preferred, Alters
  <1>4. QED
    BY <1>1, <1>2, <1>3, TurnKeeps

LEMMA SettingsAlter ==
  ASSUME NEW c, {"version", "baseUrl"} \subseteq DOMAIN c, NEW x, NEW y
  PROVE  /\ Alters(c, B!UserAgent(c, x)) /\ Alters(c, B!DefaultHeaders(c, x))
         /\ Alters(c, B!Cookies(c, x)) /\ Alters(c, B!Middleware(c, x))
         /\ Alters(c, B!Knob(c, x, y)) /\ Alters(c, B!Proxy(c, x))
         /\ Alters(c, B!EnvConfigProxy(c)) /\ Alters(c, B!NoProxy(c))
         /\ Alters(c, [c EXCEPT !.timeout = x])
         /\ Alters(c, B!ConnectTimeout(c, x)) /\ Alters(c, B!ReadTimeout(c, x))
         /\ Alters(c, B!CertsMerge(c, x)) /\ Alters(c, B!CertsOnly(c, x))
         /\ Alters(c, B!CrlsOnly(c, x)) /\ Alters(c, B!WithIdentity(c, x))
         /\ Alters(c, B!DangerHostnames(c, x))
         /\ Alters(c, B!DangerCerts(c, x))
         /\ Alters(c, B!VersionMin(c, x)) /\ Alters(c, B!VersionMax(c, x))
         /\ Alters(c, B!Backend(c, x)) /\ Alters(c, B!Hickory(c, x))
         /\ Alters(c, B!Resolver(c, x)) /\ Alters(c, B!Override(c, x, y))
         /\ Alters(c, B!Layer(c, x))
  BY DEF Alters, B!UserAgent, B!DefaultHeaders, B!Cookies, B!Middleware,
         B!Knob, B!Proxy, B!EnvConfigProxy, B!NoProxy, B!ConnectTimeout,
         B!ReadTimeout, B!CertsMerge, B!CertsOnly, B!CrlsOnly, B!WithIdentity,
         B!DangerHostnames, B!DangerCerts, B!VersionMin, B!VersionMax,
         B!Backend, B!Hickory, B!Resolver, B!Override, B!Layer

Settings ==
    \/ B!SetUserAgent \/ B!SetDefaultHeaders \/ B!SetCookies \/ B!SetKnob
    \/ B!AddProxy \/ B!UseEnvProxies \/ B!UseNoProxy \/ B!AddCerts \/ B!AddCrls
    \/ B!SetIdentity \/ B!AcceptDanger \/ B!SetTlsVersion \/ B!SetBackend
    \/ B!SetResolver \/ B!AddLayer

(* Most calls give the setting to both builders alike.                     *)
LEMMA SettingsAreTurns ==
  ASSUME Tried \subseteq B!Knobs, B!IInv, Settings
  PROVE  \E d : Alters(builder, d) /\ B!Turn(d, B!WithInner(d))
  <1>1. B!Inner = builder /\ {"version", "baseUrl"} \subseteq DOMAIN builder
    BY WithInnerIs DEF B!IInv, B!Preferred
  <1>2. CASE B!SetUserAgent
    BY <1>1, <1>2, SettingsAlter
    DEF B!SetUserAgent, B!Call, B!BlockingHeaders
  <1>3. CASE B!SetDefaultHeaders
    BY <1>1, <1>3, SettingsAlter
    DEF B!SetDefaultHeaders, B!Call, B!BlockingHeaders
  <1>4. CASE B!SetCookies
    BY <1>1, <1>4, SettingsAlter
    DEF B!SetCookies, B!Call, B!BlockingHeaders
  <1>5. CASE B!SetKnob
    <2>1. PICK k \in Tried, v \in {"off", "on", "too_long"} :
            B!Call(B!Knob(builder, k, v),
                   B!BlockingKnob(k, B!Knob(B!Inner, k, v)))
      BY <1>5 DEF B!SetKnob
    <2>2. \A d : B!BlockingKnob(k, d) = B!WithInner(d)
      BY DEF B!Knobs, B!BlockingKnob, B!BlockingAccepts, B!BlockingRules,
          B!BlockingPool, B!BlockingHttp, B!BlockingQuic, B!BlockingTcp,
          B!BlockingTls, B!BlockingBackend
    <2>3. QED
      BY <1>1, <2>1, <2>2, SettingsAlter DEF B!Call
  <1>6. CASE B!AddProxy
    BY <1>1, <1>6, SettingsAlter
    DEF B!AddProxy, B!CallOfProxies, B!BlockingRules
  <1>7. CASE B!UseEnvProxies
    BY <1>1, <1>7, SettingsAlter
    DEF B!UseEnvProxies, B!CallOfProxies, B!BlockingRules
  <1>8. CASE B!UseNoProxy
    BY <1>1, <1>8, SettingsAlter
    DEF B!UseNoProxy, B!CallOfProxies, B!BlockingRules
  <1>9. CASE B!AddCerts
    BY <1>1, <1>9, SettingsAlter
    DEF B!AddCerts, B!Call, B!BlockingCerts
  <1>10. CASE B!AddCrls
    BY <1>1, <1>10, SettingsAlter
    DEF B!AddCrls, B!Call, B!BlockingCerts
  <1>11. CASE B!SetIdentity
    BY <1>1, <1>11, SettingsAlter
    DEF B!SetIdentity, B!Call, B!BlockingCerts
  <1>12. CASE B!AcceptDanger
    BY <1>1, <1>12, SettingsAlter
    DEF B!AcceptDanger, B!Call, B!BlockingTls
  <1>13. CASE B!SetTlsVersion
    BY <1>1, <1>13, SettingsAlter
    DEF B!SetTlsVersion, B!Call, B!BlockingTls
  <1>14. CASE B!SetBackend
    BY <1>1, <1>14, SettingsAlter
    DEF B!SetBackend, B!Call, B!BlockingBackend
  <1>15. CASE B!SetResolver
    BY <1>1, <1>15, SettingsAlter
    DEF B!SetResolver, B!Call, B!BlockingDns
  <1>16. CASE B!AddLayer
    BY <1>1, <1>16, SettingsAlter
    DEF B!AddLayer, B!Call, B!BlockingDns
  <1>17. QED
    BY <1>2, <1>3, <1>4, <1>5, <1>6, <1>7, <1>8, <1>9, <1>10, <1>11, <1>12,
       <1>13, <1>14, <1>15, <1>16
    DEF Settings

LEMMA BuilderInitKeeps == B!Init => B!IInv
  <1> SUFFICES ASSUME B!Init PROVE B!IInv
    OBVIOUS
  <1>1. PICK c : c = B!New(features)
    OBVIOUS
  <1>2. /\ {"version", "baseUrl"} \subseteq DOMAIN c
        /\ c.version = "all" /\ c.baseUrl = None
    BY <1>1 DEF B!New
  <1>3. /\ builder = c /\ client = None /\ handle = None
        /\ blocking # None =>
             blocking = [inner |-> c, timeout |-> B!DefaultTimeout,
                         baseUrl |-> None]
    BY <1>1 DEF B!Init, B!NewBlocking
  <1>4. QED
    BY <1>2, <1>3
    DEF B!IInv, B!Preferred, B!Follows, B!HandleOf, B!BuiltOf, B!Built

LEMMA OthersKeep ==
  ASSUME B!IInv,
         \/ B!SetBaseUrl \/ B!PushMiddleware \/ B!SetTimeout
         \/ B!SetConnectTimeout
         \/ B!SetReadTimeout \/ B!SetVersion \/ B!Convert
  PROVE  B!IInv'
  <1>1. /\ B!Inner = builder /\ {"version", "baseUrl"} \subseteq DOMAIN builder
        /\ builder.version \in {"all", "h1", "h2", "h3"}
        /\ builder.version = "h2" => "http2" \in features
        /\ builder.version = "h3" => "http3" \in features
        /\ blocking # None =>
             blocking = [inner |-> builder, timeout |-> blocking.timeout,
                         baseUrl |-> builder.baseUrl]
    BY WithInnerIs DEF B!IInv, B!Preferred, B!Follows
  <1>2. CASE B!SetBaseUrl
    <2>1. PICK url \in {"absolute", "relative"} :
            B!Turn(B!BaseUrl(builder, url), B!BlockingBaseUrl(url))
      BY <1>2 DEF B!SetBaseUrl, B!Call
    <2>2. PICK c : c = B!BaseUrl(builder, url)
      OBVIOUS
    <2>3. DOMAIN c = DOMAIN builder /\ c.version = builder.version
          /\ c.baseUrl = url
      BY <1>1, <2>2 DEF B!BaseUrl
    <2>4. PICK b : b = B!BlockingBaseUrl(url)
      OBVIOUS
    <2>5. PICK w : w = B!WithInner(c)
      OBVIOUS
    <2>6. b = IF w = None THEN None ELSE [w EXCEPT !.baseUrl = url]
      BY <1>1, <2>2, <2>4, <2>5 DEF B!BlockingBaseUrl
    <2>7. w # None => w = [inner |-> c, timeout |-> blocking.timeout,
                           baseUrl |-> builder.baseUrl]
      BY <2>5, WithInnerIs
    <2>8. b # None => b = [inner |-> c, timeout |-> blocking.timeout,
                           baseUrl |-> url]
      BY <2>6, <2>7
    <2>9. b # None => b = [inner |-> c, timeout |-> b.timeout,
                           baseUrl |-> c.baseUrl]
      BY <2>3, <2>8
    <2>10. QED
      BY <1>1, <2>1, <2>2, <2>3, <2>4, <2>9, TurnKeeps
  <1>3. CASE B!PushMiddleware
    <2>1. B!Turn(B!Middleware(builder, "m"),
                 B!WithInner(B!Middleware(builder, "m")))
      BY <1>3, WithInnerIs DEF B!PushMiddleware, B!Call
    <2>2. QED
      BY <1>1, <2>1, SettingsAlter, SettingKeeps
  <1>4. CASE B!SetTimeout
    <2>1. PICK t \in {None, 10, 90} :
            IF blocking = None
            THEN B!Turn([builder EXCEPT !.timeout = t], None)
            ELSE B!Turn(builder, B!BlockingTimeout(t))
      BY <1>4 DEF B!SetTimeout, B!Call
    <2>2. CASE blocking = None
      <3>1. PICK d : d = [builder EXCEPT !.timeout = t]
        OBVIOUS
      <3>2. Alters(builder, d)
        BY <1>1, <3>1, SettingsAlter
      <3>3. B!WithInner(d) = None
        BY <2>2, WithInnerIs
      <3>4. QED
        BY <2>1, <2>2, <3>1, <3>2, <3>3, SettingKeeps
    <2>3. CASE blocking # None
      <3>1. PICK b : b = B!BlockingTimeout(t)
        OBVIOUS
      <3>2. b = [blocking EXCEPT !.timeout = t]
        BY <2>3, <3>1 DEF B!BlockingTimeout
      <3>3. b = [inner |-> builder, timeout |-> t, baseUrl |-> builder.baseUrl]
        BY <1>1, <2>3, <3>2
      <3>4. b = [inner |-> builder, timeout |-> b.timeout,
                 baseUrl |-> builder.baseUrl]
        BY <3>3
      <3>5. QED
        BY <1>1, <2>1, <2>3, <3>1, <3>4, TurnKeeps
    <2>4. QED
      BY <2>2, <2>3
  <1>5. CASE B!SetConnectTimeout
    <2>1. PICK t : B!Turn(IF t = None THEN builder
                          ELSE B!ConnectTimeout(builder, t),
                        B!BlockingConnectTimeout(t))
      BY <1>5 DEF B!SetConnectTimeout, B!Call
    <2>2. CASE t = None
      BY <1>1, <2>1, <2>2, TurnKeeps DEF B!BlockingConnectTimeout
    <2>3. CASE t # None
      <3>1. PICK d : d = B!ConnectTimeout(builder, t)
        OBVIOUS
      <3>2. B!Turn(d, B!WithInner(d))
        BY <1>1, <2>1, <2>3, <3>1 DEF B!BlockingConnectTimeout
      <3>3. Alters(builder, d)
        BY <1>1, <3>1, SettingsAlter
      <3>4. QED
        BY <3>2, <3>3, SettingKeeps
    <2>4. QED
      BY <2>2, <2>3
  <1>6. CASE B!SetReadTimeout
    <2>1. B!Turn(B!ReadTimeout(builder, 5),
                 B!WithInner(B!ReadTimeout(builder, 5)))
      BY <1>6, WithInnerIs DEF B!SetReadTimeout, B!Call
    <2>2. QED
      BY <1>1, <2>1, SettingsAlter, SettingKeeps
  <1>7. CASE B!SetVersion
    <2>1. PICK v \in {"h1"} \cup {x \in {"h2"} : "http2" \in features}
                            \cup {x \in {"h3"} : "http3" \in features} :
            B!Turn(B!Version(builder, v), B!WithInner(B!Version(builder, v)))
      BY <1>1, <1>7 DEF B!SetVersion, B!Call, B!BlockingHttp
    <2>2. PICK d : d = B!Version(builder, v)
      OBVIOUS
    <2>3. DOMAIN d = DOMAIN builder /\ d.version = v
          /\ d.baseUrl = builder.baseUrl
      BY <1>1, <2>2 DEF B!Version
    <2>4. PICK b : b = B!WithInner(d)
      OBVIOUS
    <2>5. b # None => b = [inner |-> d, timeout |-> b.timeout,
                           baseUrl |-> d.baseUrl]
      BY <2>3, <2>4, WithInnerIs
    <2>6. QED
      BY <1>1, <2>1, <2>2, <2>3, <2>4, <2>5, TurnKeeps
  <1>8. CASE B!Convert
    <2>1. PICK b : b = B!FromAsync(builder)
      OBVIOUS
    <2>2. b = [inner |-> builder, timeout |-> b.timeout,
               baseUrl |-> builder.baseUrl]
      BY <2>1 DEF B!FromAsync
    <2>3. B!Turn(builder, b)
      BY <1>8, <2>1 DEF B!Convert, B!Call
    <2>4. QED
      BY <1>1, <2>2, <2>3, TurnKeeps
  <1>9. QED
    BY <1>2, <1>3, <1>4, <1>5, <1>6, <1>7, <1>8

LEMMA BuildKeeps ==
  ASSUME B!IInv, B!Build
  PROVE  B!IInv'
  <1>1. PICK luck \in SUBSET {"platform", "endpoint"} :
          /\ client' = B!Client(features, builder, luck)
          /\ handle' = IF blocking = None THEN None
                       ELSE B!Handle(features, blocking, luck)
    BY DEF B!Build
  <1>2. /\ features' = features /\ builder' = builder /\ blocking' = blocking
    BY DEF B!Build
  <1>3. B!Preferred' /\ B!Follows'
    BY <1>2 DEF B!IInv, B!Preferred, B!Follows
  <1>4. B!HandleOf'
    <2>1. SUFFICES ASSUME handle' # None
                   PROVE  IF handle' = B!Error THEN client' = B!Error
                          ELSE handle'.inner = client'
      BY DEF B!HandleOf, B!Error
    <2>2. blocking # None /\ blocking.inner = builder
      BY <1>1, <2>1 DEF B!IInv, B!Follows
    <2>3. handle' = IF client' = B!Error THEN B!Error
                    ELSE [failed |-> FALSE, inner |-> client',
                          timeout |-> blocking.timeout,
                          baseUrl |-> blocking.baseUrl]
      BY <1>1, <2>2 DEF B!Handle
    <2>4. CASE client' = B!Error
      BY <2>3, <2>4
    <2>5. CASE client' # B!Error
      <3>1. PICK h : h = [failed |-> FALSE, inner |-> client',
                          timeout |-> blocking.timeout,
                          baseUrl |-> blocking.baseUrl]
        OBVIOUS
      <3>2. handle' = h /\ h.failed = FALSE /\ h.inner = client'
        BY <2>3, <2>5, <3>1
      <3>3. h # B!Error
        BY <3>2 DEF B!Error
      <3>4. QED
        BY <3>2, <3>3
    <2>6. QED
      BY <2>4, <2>5
  <1>5. B!BuiltOf'
    <2>1. B!Client(features, builder, luck)'
            = B!Client(features', builder', luck)
      OBVIOUS
    <2>2. client' = B!Client(features', builder', luck)
      BY <1>1, <1>2
    <2>3. QED
      BY <2>2 DEF B!BuiltOf
  <1>6. QED
    BY <1>3, <1>4, <1>5 DEF B!IInv

LEMMA BuilderStutterKeeps ==
  ASSUME B!IInv, UNCHANGED B!vars
  PROVE  B!IInv'
  BY DEF B!vars, B!IInv, B!Preferred, B!Follows, B!HandleOf, B!BuiltOf,
         B!Built

LEMMA BuilderNextKeeps ==
  ASSUME Tried \subseteq B!Knobs
  PROVE  B!IInv /\ [B!Next]_(B!vars) => B!IInv'
  <1> SUFFICES ASSUME B!IInv, [B!Next]_(B!vars) PROVE B!IInv'
    OBVIOUS
  <1>1. CASE Settings
    BY <1>1, SettingsAreTurns, SettingKeeps
  <1>2. CASE \/ B!SetBaseUrl \/ B!PushMiddleware \/ B!SetTimeout
             \/ B!SetConnectTimeout \/ B!SetReadTimeout \/ B!SetVersion
             \/ B!Convert
    BY <1>2, OthersKeep
  <1>3. CASE B!Build
    BY <1>3, BuildKeeps
  <1>4. CASE UNCHANGED B!vars
    BY <1>4, BuilderStutterKeeps
  <1>5. QED
    BY <1>1, <1>2, <1>3, <1>4 DEF B!Next, Settings

(* A preference is for a protocol that is compiled in, the blocking builder *)
(* is the async one with a timeout of its own, and what was built is of the *)
(* present builder.                                                         *)
THEOREM BuilderInvariant ==
  ASSUME Tried \subseteq B!Knobs
  PROVE  B!Spec => []B!IInv
  BY BuilderInitKeeps, BuilderNextKeeps, PTL DEF B!Spec

-----------------------------------------------------------------------------
(* What the invariant says of the two builders and of what they build      *)

LEMMA InvAgrees == B!IInv => B!BlockingAgrees
  <1> SUFFICES ASSUME B!IInv PROVE B!BlockingAgrees
    OBVIOUS
  <1>1. ASSUME blocking # None
        PROVE  blocking.inner = builder /\ blocking.baseUrl = builder.baseUrl
    <2>1. PICK t, u : /\ blocking = [inner |-> builder, timeout |-> t,
                                     baseUrl |-> u]
                      /\ u = builder.baseUrl
      BY <1>1 DEF B!IInv, B!Follows
    <2>2. QED
      BY <2>1
  <1>2. QED
    BY <1>1 DEF B!IInv, B!HandleOf, B!BlockingAgrees

(* A client that was built is of a builder without an error, and these are *)
(* its parts.                                                              *)
LEMMA BuiltIs ==
  ASSUME B!IInv, B!Built
  PROVE  \E luck \in SUBSET {"platform", "endpoint"} :
           /\ ~B!Fails(features, builder, luck)
           /\ client.tcp = B!TcpClient(features, builder)
           /\ client.h3 = B!H3Client(features, builder, luck)
  <1>1. PICK luck \in SUBSET {"platform", "endpoint"} :
               client = B!Client(features, builder, luck)
    BY DEF B!IInv, B!BuiltOf
  <1>2. ~B!Fails(features, builder, luck)
    BY <1>1 DEF B!Client, B!Built
  <1>3. PICK t, h, p, d, u, o, r, m :
          /\ client = [failed |-> FALSE, tcp |-> t, h3 |-> h, proxies |-> p,
                       headers |-> d, baseUrl |-> u, timeout |-> o,
                       readTimeout |-> r, middleware |-> m]
          /\ t = B!TcpClient(features, builder)
          /\ h = B!H3Client(features, builder, luck)
    BY <1>1, <1>2 DEF B!Client
  <1>4. client.tcp = t /\ client.h3 = h
    BY <1>3
  <1>5. QED
    BY <1>2, <1>3, <1>4

(* A client of TCP offers and trusts what its TLS says.                    *)
LEMMA TcpClientIs ==
  ASSUME NEW f, NEW c
  PROVE  LET t == B!TcpClient(f, c)
         IN /\ t.alpn = B!Tls(f, c).alpn /\ t.verifier = B!Tls(f, c).verifier
            /\ t.resolve = B!DynResolver(c) /\ t.layers = B!TcpLayers(c)
            /\ t.h2Only = (c.version = "h2")
  <1>1. PICK a, v, s, l, o, n, e :
          /\ B!TcpClient(f, c) = [alpn |-> a, verifier |-> v, resolve |-> s,
                                layers |-> l, h2Only |-> o,
                                connectTimeout |-> n, nets |-> e]
          /\ a = B!Tls(f, c).alpn /\ v = B!Tls(f, c).verifier
          /\ s = B!DynResolver(c) /\ l = B!TcpLayers(c)
          /\ o = (c.version = "h2")
    BY DEF B!TcpClient
  <1>2. QED
    BY <1>1

LEMMA TlsIs ==
  ASSUME NEW f, NEW c
  PROVE  /\ c.backend = "native" =>
                /\ B!Tls(f, c).verifier = B!NativeVerifier(c)
                /\ B!Tls(f, c).alpn = B!NativeAlpn(f, c)
         /\ c.backend = "rustls" =>
                /\ B!Tls(f, c).verifier = B!RustlsVerifier(c)
                /\ B!Tls(f, c).alpn = B!RustlsAlpn(f, c)
  <1>1. ASSUME c.backend = "native"
        PROVE  /\ B!Tls(f, c).verifier = B!NativeVerifier(c)
               /\ B!Tls(f, c).alpn = B!NativeAlpn(f, c)
    <2>1. PICK v, a : /\ v = B!NativeVerifier(c) /\ a = B!NativeAlpn(f, c)
                      /\ B!Tls(f, c) = [verifier |-> v, alpn |-> a]
      BY <1>1 DEF B!Tls
    <2>2. QED
      BY <2>1
  <1>2. ASSUME c.backend = "rustls"
        PROVE  /\ B!Tls(f, c).verifier = B!RustlsVerifier(c)
               /\ B!Tls(f, c).alpn = B!RustlsAlpn(f, c)
    <2>1. PICK v, a : /\ v = B!RustlsVerifier(c) /\ a = B!RustlsAlpn(f, c)
                      /\ B!Tls(f, c) = [verifier |-> v, alpn |-> a]
      BY <1>2 DEF B!Tls
    <2>2. QED
      BY <2>1
  <1>3. QED
    BY <1>1, <1>2

(* The protocols that are offered are those preferred and compiled in.     *)
LEMMA AlpnIsPreferred ==
  ASSUME NEW f, NEW c, c.version \in {"all", "h1", "h2", "h3"},
         c.version = "h2" => "http2" \in f,
         c.version = "h3" => "http3" \in f,
         NEW p, p \in B!RustlsAlpn(f, c) \/ p \in B!NativeAlpn(f, c)
  PROVE  /\ p \in {"h2", "http/1.1"}
         /\ p = "h2" => "http2" \in f
         /\ c.version = "h1" => p = "http/1.1"
         /\ c.version = "h2" => p = "h2"
  BY DEF B!RustlsAlpn, B!NativeAlpn, B!AllAlpn

LEMMA InvTransports == B!IInv => B!TransportsAgree
  <1> SUFFICES ASSUME B!IInv, B!Built
               PROVE  /\ B!NegotiatesWhatItSpeaks
                      /\ client.h3 # B!NoH3Client =>
                             /\ client.h3.layers = client.tcp.layers
                             /\ client.h3.verifier = client.tcp.verifier
                             /\ client.h3.resolve = client.tcp.resolve
                      /\ builder.version = "h3" /\ builder.backend = "rustls"
                           => client.h3 # B!NoH3Client
    BY DEF B!TransportsAgree
  <1> DEFINE f == features
             c == builder
  <1>1. PICK luck \in SUBSET {"platform", "endpoint"} :
               /\ ~B!Fails(f, c, luck) /\ client.tcp = B!TcpClient(f, c)
               /\ client.h3 = B!H3Client(f, c, luck)
    BY BuiltIs
  <1>2. PICK t : t = client.tcp
    OBVIOUS
  <1>3. /\ t.alpn = B!Tls(f, c).alpn /\ t.verifier = B!Tls(f, c).verifier
        /\ t.resolve = B!DynResolver(c) /\ t.layers = B!TcpLayers(c)
        /\ t.h2Only = (c.version = "h2")
    BY <1>1, <1>2, TcpClientIs
  <1>4. B!NegotiatesWhatItSpeaks
    <2>1. SUFFICES ASSUME c.backend \in {"native", "rustls"}, NEW p \in t.alpn
                   PROVE  /\ B!Speaks(t, p) = p /\ B!Allows(c.version, p)
                          /\ p = "h2" => "http2" \in f
      BY <1>2 DEF B!NegotiatesWhatItSpeaks
    <2>2. p \in B!RustlsAlpn(f, c) \/ p \in B!NativeAlpn(f, c)
      BY <1>3, <2>1, TlsIs
    <2>3. /\ p \in {"h2", "http/1.1"}
          /\ p = "h2" => "http2" \in f
          /\ c.version = "h1" => p = "http/1.1"
          /\ c.version = "h2" => p = "h2"
      BY <2>2, AlpnIsPreferred DEF B!IInv, B!Preferred
    <2>4. B!Speaks(t, p) = p
      BY <1>3, <2>3 DEF B!Speaks
    <2>5. B!Allows(c.version, p)
      BY <2>3 DEF B!Allows
    <2>6. QED
      BY <2>3, <2>4, <2>5
  <1>5. ASSUME client.h3 # B!NoH3Client
        PROVE  /\ client.h3.layers = t.layers
               /\ client.h3.verifier = t.verifier
               /\ client.h3.resolve = t.resolve
    <2>1. PICK a, v, s, l :
            /\ client.h3 = [alpn |-> a, verifier |-> v, resolve |-> s,
                            layers |-> l]
            /\ v = B!Tls(f, c).verifier /\ s = B!DynResolver(c)
            /\ l = B!H3Layers(c)
      BY <1>1, <1>5 DEF B!H3Client
    <2>2. /\ client.h3.verifier = B!Tls(f, c).verifier
          /\ client.h3.resolve = B!DynResolver(c)
          /\ client.h3.layers = B!H3Layers(c)
      BY <2>1
    <2>3. B!H3Layers(c) = B!TcpLayers(c)
      BY DEF B!H3Layers, B!TcpLayers
    <2>4. QED
      BY <1>3, <2>2, <2>3
  <1>6. ASSUME c.version = "h3", c.backend = "rustls"
        PROVE  client.h3 # B!NoH3Client
    <2>1. "http3" \in f
      BY <1>6 DEF B!IInv, B!Preferred
    <2>2. B!HasH3(f, c)
      BY <1>6, <2>1 DEF B!HasH3
    <2>3. "endpoint" \in luck
      BY <1>1, <1>6, <2>2 DEF B!Fails, B!H3Fails
    <2>4. PICK a, v, s, l : /\ client.h3 = [alpn |-> a, verifier |-> v,
                                            resolve |-> s, layers |-> l]
                            /\ a = {"h3"}
      BY <1>1, <2>2, <2>3 DEF B!H3Client
    <2>5. client.h3.alpn = {"h3"} /\ B!NoH3Client.alpn = {}
      BY <2>4 DEF B!NoH3Client
    <2>6. QED
      BY <2>5
  <1>7. QED
    BY <1>2, <1>4, <1>5, <1>6

(* What a verifier of each kind trusts.                                    *)
LEMMA PlainTrust ==
  ASSUME NEW c, NEW peer, c.certs
  PROVE  B!VerifyServerCert(B!Verifier(TRUE, c.hostnames, ~c.certsOnly,
                                       c.roots, {}), peer)
           <=> /\ \/ peer.root \in c.roots
                  \/ ~c.certsOnly /\ peer.root = "builtin"
               /\ c.hostnames => peer.named
  BY DEF B!Verifier, B!VerifyServerCert

LEMMA NoVerifierTrust ==
  ASSUME NEW peer
  PROVE  B!VerifyServerCert(B!NoVerifier, peer)
  BY DEF B!NoVerifier, B!Verifier, B!VerifyServerCert

LEMMA IgnoreHostnameTrust ==
  ASSUME NEW roots, NEW peer
  PROVE  B!VerifyServerCert(B!IgnoreHostname(roots), peer)
           <=> peer.root \in roots
  BY DEF B!IgnoreHostname, B!Verifier, B!VerifyServerCert

LEMMA PlatformTrust ==
  ASSUME NEW roots, NEW peer
  PROVE  B!VerifyServerCert(B!PlatformVerifier(roots), peer)
           <=> /\ peer.root \in roots \/ peer.root = "builtin"
               /\ peer.named
  BY DEF B!PlatformVerifier, B!Verifier, B!VerifyServerCert

LEMMA WebPkiTrust ==
  ASSUME NEW roots, NEW crls, NEW peer
  PROVE  B!VerifyServerCert(B!WebPki(roots, crls), peer)
           <=> /\ peer.root \in roots /\ peer.named
               /\ peer.revoked \cap crls = {}
  BY DEF B!WebPki, B!Verifier, B!VerifyServerCert

(* A verifier trusts what the caller asked for, but for revocation lists   *)
(* that were left out.                                                     *)
Trusts(v, c, peer) ==
    B!VerifyServerCert(v, peer)
      <=> \/ B!Allowed(c, peer)
          \/ B!CrlsAreIgnored(c) /\ B!Valid(c, peer)

LEMMA NativeTrust ==
  ASSUME NEW c, c.backend = "native", NEW peer
  PROVE  Trusts(B!NativeVerifier(c), c, peer)
  <1>1. B!CrlsAreIgnored(c)
    BY DEF B!CrlsAreIgnored
  <1>2. CASE ~c.certs
    BY <1>2, NoVerifierTrust DEF B!NativeVerifier, B!Allowed, Trusts
  <1>3. CASE c.certs
    <2>1. B!VerifyServerCert(B!NativeVerifier(c), peer) <=> B!Valid(c, peer)
      BY <1>3, PlainTrust DEF B!NativeVerifier, B!Valid
    <2>2. B!Allowed(c, peer) => B!Valid(c, peer)
      BY <1>3 DEF B!Allowed
    <2>3. QED
      BY <1>1, <2>1, <2>2 DEF Trusts
  <1>4. QED
    BY <1>2, <1>3

(* What rustls cannot do for the caller, it refuses to build: the checks   *)
(* that are left are those that the caller left on, and the lists go only  *)
(* with the hostnames.                                                     *)
LEMMA RustlsTrust ==
  ASSUME NEW c, c.backend = "rustls", NEW luck, ~B!RustlsFails(c, luck),
         NEW peer
  PROVE  Trusts(B!RustlsVerifier(c), c, peer)
  <1>1. CASE ~c.certs
    BY <1>1, NoVerifierTrust DEF B!RustlsVerifier, B!Allowed, Trusts
  <1>2. CASE c.certs
    <2>1. c.certsOnly \/ (c.hostnames /\ c.crls = {})
      BY <1>2 DEF B!RustlsFails
    <2>2. B!Allowed(c, peer)
            <=> B!Valid(c, peer) /\ peer.revoked \cap c.crls = {}
      BY <1>2 DEF B!Allowed
    <2>3. B!CrlsAreIgnored(c) <=> ~c.hostnames
      BY DEF B!CrlsAreIgnored
    <2>4. CASE ~c.hostnames
      <3>1. B!VerifyServerCert(B!RustlsVerifier(c), peer)
              <=> B!Valid(c, peer)
        BY <1>2, <2>1, <2>4, IgnoreHostnameTrust
        DEF B!RustlsVerifier, B!Valid
      <3>2. QED
        BY <2>2, <2>3, <2>4, <3>1 DEF Trusts
    <2>5. CASE c.hostnames /\ ~c.certsOnly
      <3>1. B!VerifyServerCert(B!RustlsVerifier(c), peer)
              <=> B!Valid(c, peer)
        BY <1>2, <2>5, PlatformTrust DEF B!RustlsVerifier, B!Valid
      <3>2. peer.revoked \cap c.crls = {}
        BY <2>1, <2>5
      <3>3. QED
        BY <2>2, <2>3, <2>5, <3>1, <3>2 DEF Trusts
    <2>6. CASE c.hostnames /\ c.certsOnly
      <3>1. B!VerifyServerCert(B!RustlsVerifier(c), peer)
              <=> B!Valid(c, peer) /\ peer.revoked \cap c.crls = {}
        BY <1>2, <2>6, WebPkiTrust DEF B!RustlsVerifier, B!Valid
      <3>2. QED
        BY <2>2, <2>3, <2>6, <3>1 DEF Trusts
    <2>7. QED
      BY <2>4, <2>5, <2>6
  <1>3. QED
    BY <1>1, <1>2

LEMMA InvTrust == B!IInv => B!TrustIsAsAsked
  <1> SUFFICES ASSUME B!IInv, B!Built,
                      builder.backend \in {"native", "rustls"},
                      NEW peer \in B!Peers
               PROVE  Trusts(client.tcp.verifier, builder, peer)
    BY DEF B!TrustIsAsAsked, Trusts
  <1>1. PICK luck \in SUBSET {"platform", "endpoint"} :
               /\ ~B!Fails(features, builder, luck)
               /\ client.tcp = B!TcpClient(features, builder)
    BY BuiltIs
  <1>2. client.tcp.verifier = B!Tls(features, builder).verifier
    BY <1>1, TcpClientIs
  <1>3. CASE builder.backend = "native"
    <2>1. client.tcp.verifier = B!NativeVerifier(builder)
      BY <1>2, <1>3, TlsIs
    <2>2. QED
      BY <1>3, <2>1, NativeTrust
  <1>4. CASE builder.backend = "rustls"
    <2>1. client.tcp.verifier = B!RustlsVerifier(builder)
      BY <1>2, <1>4, TlsIs
    <2>2. ~B!RustlsFails(builder, luck)
      BY <1>1, <1>4 DEF B!Fails
    <2>3. QED
      BY <1>4, <2>1, <2>2, RustlsTrust
  <1>5. QED
    BY <1>3, <1>4

(* What is built trusts every server that the caller asked to trust, and   *)
(* no other one, whichever backend and verifier build() picks; of the      *)
(* revocation lists this holds only where CrlsAreIgnored does not say that *)
(* the code leaves them out.                                               *)
THEOREM TrustIsAlwaysAsAsked ==
  ASSUME Tried \subseteq B!Knobs
  PROVE  B!Spec => []B!TrustIsAsAsked
  BY BuilderInvariant, InvTrust, PTL

(* Whatever is negotiated is spoken and was preferred, and HTTP/3 is       *)
(* treated like TCP.                                                       *)
THEOREM TransportsAlwaysAgree ==
  ASSUME Tried \subseteq B!Knobs
  PROVE  B!Spec => []B!TransportsAgree
  BY BuilderInvariant, InvTransports, PTL

(* A blocking client is the async one of the same calls.                   *)
THEOREM BlockingAlwaysAgrees ==
  ASSUME Tried \subseteq B!Knobs
  PROVE  B!Spec => []B!BlockingAgrees
  BY BuilderInvariant, InvAgrees, PTL

-----------------------------------------------------------------------------
(* The proxies                                                             *)

(* A setting of c that is not about its proxies.                           *)
Spares(c, d) ==
    DOMAIN d = DOMAIN c /\ d.proxies = c.proxies /\ d.envProxy = c.envProxy

LEMMA SettingsSpare ==
  ASSUME NEW c, {"proxies", "envProxy"} \subseteq DOMAIN c, NEW x, NEW y
  PROVE  /\ Spares(c, c)
         /\ Spares(c, B!BaseUrl(c, x)) /\ Spares(c, B!Version(c, x))
         /\ Spares(c, B!UserAgent(c, x)) /\ Spares(c, B!DefaultHeaders(c, x))
         /\ Spares(c, B!Cookies(c, x)) /\ Spares(c, B!Middleware(c, x))
         /\ Spares(c, B!Knob(c, x, y))
         /\ Spares(c, [c EXCEPT !.timeout = x])
         /\ Spares(c, B!ConnectTimeout(c, x)) /\ Spares(c, B!ReadTimeout(c, x))
         /\ Spares(c, B!CertsMerge(c, x)) /\ Spares(c, B!CertsOnly(c, x))
         /\ Spares(c, B!CrlsOnly(c, x)) /\ Spares(c, B!WithIdentity(c, x))
         /\ Spares(c, B!DangerHostnames(c, x))
         /\ Spares(c, B!DangerCerts(c, x))
         /\ Spares(c, B!VersionMin(c, x)) /\ Spares(c, B!VersionMax(c, x))
         /\ Spares(c, B!Backend(c, x)) /\ Spares(c, B!Hickory(c, x))
         /\ Spares(c, B!Resolver(c, x)) /\ Spares(c, B!Override(c, x, y))
         /\ Spares(c, B!Layer(c, x))
  BY DEF Spares, B!BaseUrl, B!Version, B!UserAgent, B!DefaultHeaders,
         B!Cookies, B!Middleware, B!Knob, B!ConnectTimeout, B!ReadTimeout,
         B!CertsMerge, B!CertsOnly, B!CrlsOnly, B!WithIdentity,
         B!DangerHostnames, B!DangerCerts, B!VersionMin, B!VersionMax,
         B!Backend, B!Hickory, B!Resolver, B!Override, B!Layer

LEMMA SparesKeeps ==
  ASSUME B!ProxiesFollow, asked' = asked, Spares(builder, builder')
  PROVE  B!ProxiesFollow'
  <1>1. B!Standing' = B!Standing /\ B!EnvStands' = B!EnvStands
    BY DEF B!Standing, B!EnvStands
  <1>2. \A s, f : B!Lists(s, f)' <=> B!Lists(s, f)
    BY <1>1 DEF B!Lists
  <1>3. PICK f \in [1..Len(builder.proxies) -> B!Standing] :
               B!Lists(builder.proxies, f)
    BY DEF B!ProxiesFollow
  <1>4. PICK s : s = builder.proxies /\ s = builder'.proxies
    BY DEF Spares
  <1>5. B!Lists(s, f)'
    BY <1>2, <1>3, <1>4
  <1>6. f \in [1..Len(builder.proxies) -> B!Standing]'
    BY <1>1, <1>3, <1>4
  <1>7. B!Lists(builder.proxies, f)'
    BY <1>4, <1>5
  <1>8. /\ ({"proxies", "envProxy"} \subseteq DOMAIN builder)'
        /\ (builder.proxies \in Seq(Proxies))'
        /\ (asked \in Seq(Proxies \cup {"env", "none"}))'
        /\ (builder.envProxy <=> B!EnvStands)'
    BY <1>1 DEF B!ProxiesFollow, Spares
  <1>9. QED
    BY <1>6, <1>7, <1>8 DEF B!ProxiesFollow

(* The calls that are not about proxies.                                   *)
LEMMA CallsSpare ==
  ASSUME B!ProxiesFollow, B!Next, ~B!AddProxy, ~B!UseEnvProxies, ~B!UseNoProxy
  PROVE  asked' = asked /\ Spares(builder, builder')
  <1>1. {"proxies", "envProxy"} \subseteq DOMAIN builder
    BY DEF B!ProxiesFollow
  <1> DEFINE Spared == \E d, b : B!Call(d, b) /\ Spares(builder, d)
  <1>2. CASE B!SetBaseUrl
    <2>1. Spared
      BY <1>1, <1>2, SettingsSpare DEF B!SetBaseUrl
    <2>2. QED
      BY <2>1 DEF B!Call, B!Turn
  <1>3. CASE B!SetUserAgent
    <2>1. Spared
      BY <1>1, <1>3, SettingsSpare DEF B!SetUserAgent
    <2>2. QED
      BY <2>1 DEF B!Call, B!Turn
  <1>4. CASE B!SetDefaultHeaders
    <2>1. Spared
      BY <1>1, <1>4, SettingsSpare DEF B!SetDefaultHeaders
    <2>2. QED
      BY <2>1 DEF B!Call, B!Turn
  <1>5. CASE B!SetCookies
    <2>1. Spared
      BY <1>1, <1>5, SettingsSpare DEF B!SetCookies
    <2>2. QED
      BY <2>1 DEF B!Call, B!Turn
  <1>6. CASE B!SetKnob
    <2>1. PICK k, v, b : B!Call(B!Knob(builder, k, v), b)
      BY <1>6 DEF B!SetKnob
    <2>2. Spares(builder, B!Knob(builder, k, v))
      BY <1>1, SettingsSpare
    <2>3. QED
      BY <2>1, <2>2 DEF B!Call, B!Turn
  <1>7. CASE B!PushMiddleware
    <2>1. Spared
      BY <1>1, <1>7, SettingsSpare DEF B!PushMiddleware
    <2>2. QED
      BY <2>1 DEF B!Call, B!Turn
  <1>8. CASE B!SetConnectTimeout
    <2>1. Spared
      BY <1>1, <1>8, SettingsSpare DEF B!SetConnectTimeout
    <2>2. QED
      BY <2>1 DEF B!Call, B!Turn
  <1>9. CASE B!SetReadTimeout
    <2>1. Spared
      BY <1>1, <1>9, SettingsSpare DEF B!SetReadTimeout
    <2>2. QED
      BY <2>1 DEF B!Call, B!Turn
  <1>10. CASE B!SetVersion
    <2>1. Spared
      BY <1>1, <1>10, SettingsSpare DEF B!SetVersion
    <2>2. QED
      BY <2>1 DEF B!Call, B!Turn
  <1>11. CASE B!Convert
    <2>1. Spared
      BY <1>1, <1>11, SettingsSpare DEF B!Convert
    <2>2. QED
      BY <2>1 DEF B!Call, B!Turn
  <1>12. CASE B!AddCerts
    <2>1. Spared
      BY <1>1, <1>12, SettingsSpare DEF B!AddCerts
    <2>2. QED
      BY <2>1 DEF B!Call, B!Turn
  <1>13. CASE B!AddCrls
    <2>1. Spared
      BY <1>1, <1>13, SettingsSpare DEF B!AddCrls
    <2>2. QED
      BY <2>1 DEF B!Call, B!Turn
  <1>14. CASE B!SetIdentity
    <2>1. Spared
      BY <1>1, <1>14, SettingsSpare DEF B!SetIdentity
    <2>2. QED
      BY <2>1 DEF B!Call, B!Turn
  <1>15. CASE B!AcceptDanger
    <2>1. Spared
      BY <1>1, <1>15, SettingsSpare DEF B!AcceptDanger
    <2>2. QED
      BY <2>1 DEF B!Call, B!Turn
  <1>16. CASE B!SetTlsVersion
    <2>1. Spared
      BY <1>1, <1>16, SettingsSpare DEF B!SetTlsVersion
    <2>2. QED
      BY <2>1 DEF B!Call, B!Turn
  <1>17. CASE B!SetBackend
    <2>1. Spared
      BY <1>1, <1>17, SettingsSpare DEF B!SetBackend
    <2>2. QED
      BY <2>1 DEF B!Call, B!Turn
  <1>18. CASE B!SetResolver
    <2>1. Spared
      BY <1>1, <1>18, SettingsSpare DEF B!SetResolver
    <2>2. QED
      BY <2>1 DEF B!Call, B!Turn
  <1>19. CASE B!AddLayer
    <2>1. Spared
      BY <1>1, <1>19, SettingsSpare DEF B!AddLayer
    <2>2. QED
      BY <2>1 DEF B!Call, B!Turn
  <1>20. CASE B!SetTimeout
    <2>1. PICK t : B!Call([builder EXCEPT !.timeout = t], None)
                   \/ B!Call(builder, B!BlockingTimeout(t))
      BY <1>20 DEF B!SetTimeout
    <2>2. /\ Spares(builder, [builder EXCEPT !.timeout = t])
          /\ Spares(builder, builder)
      BY <1>1, SettingsSpare
    <2>3. QED
      BY <2>1, <2>2 DEF B!Call, B!Turn
  <1>21. CASE B!Build
    BY <1>1, <1>21, SettingsSpare DEF B!Build
  <1>22. QED
    BY <1>2, <1>3, <1>4, <1>5, <1>6, <1>7, <1>8, <1>9, <1>10, <1>11,
       <1>12, <1>13, <1>14, <1>15, <1>16, <1>17, <1>18, <1>19, <1>20, <1>21
    DEF B!Next

(* What one more call changes in the calls that stand.                     *)
LEMMA AskedGrows ==
  ASSUME B!ProxiesFollow, NEW x \in Proxies \cup {"env", "none"},
         asked' = Append(asked, x)
  PROVE  /\ Len(asked) \in Nat /\ DOMAIN asked = 1..Len(asked)
         /\ DOMAIN asked' = 1..(Len(asked) + 1)
         /\ Len(asked') = Len(asked) + 1
         /\ asked'[Len(asked) + 1] = x
         /\ \A k \in 1..Len(asked) : asked'[k] = asked[k]
         /\ asked' \in Seq(Proxies \cup {"env", "none"})
  BY DEF B!ProxiesFollow

LEMMA AddProxyKeeps ==
  ASSUME B!ProxiesFollow, B!AddProxy, {"env", "none"} \cap Proxies = {}
  PROVE  B!ProxiesFollow'
  <1> DEFINE n == Len(asked)
             m == Len(builder.proxies)
  <1>1. PICK p \in Proxies : /\ builder' = B!Proxy(builder, p)
                             /\ asked' = Append(asked, p)
    BY DEF B!AddProxy, B!CallOfProxies, B!Turn
  <1>2. /\ n \in Nat /\ DOMAIN asked = 1..n /\ DOMAIN asked' = 1..(n + 1)
        /\ Len(asked') = n + 1 /\ asked'[n + 1] = p
        /\ \A k \in 1..n : asked'[k] = asked[k]
        /\ asked' \in Seq(Proxies \cup {"env", "none"})
    BY <1>1, AskedGrows
  <1>3. /\ {"proxies", "envProxy"} \subseteq DOMAIN builder'
        /\ builder'.proxies = Append(builder.proxies, p)
        /\ builder'.envProxy = FALSE
    BY <1>1 DEF B!ProxiesFollow, B!Proxy
  <1>4. builder.proxies \in Seq(Proxies) /\ m \in Nat
    BY DEF B!ProxiesFollow
  <1>5. PICK s : s = builder'.proxies
    OBVIOUS
  <1>6. /\ s \in Seq(Proxies) /\ Len(s) = m + 1 /\ s[m + 1] = p
        /\ \A k \in 1..m : s[k] = builder.proxies[k]
    BY <1>3, <1>4, <1>5
  <1>7. B!Standing' = B!Standing \cup {n + 1}
    <2>1. ASSUME NEW k \in 1..n
          PROVE  k \in B!Standing' <=> k \in B!Standing
      BY <1>2, <2>1 DEF B!Standing
    <2>2. n + 1 \in B!Standing'
      BY <1>2 DEF B!Standing
    <2>3. B!Standing' \subseteq 1..(n + 1) /\ B!Standing \subseteq 1..n
      BY <1>2 DEF B!Standing
    <2>4. /\ n + 1 \in 1..(n + 1) /\ n + 1 \notin 1..n
          /\ \A k : k \in 1..(n + 1) <=> k \in 1..n \/ k = n + 1
      BY <1>2
    <2> HIDE DEF n
    <2>5. QED
      BY <2>1, <2>2, <2>3, <2>4
  <1>8. ~B!EnvStands'
    <2>1. ASSUME NEW k \in 1..(n + 1)
          PROVE  n + 1 \in k..(n + 1)
      BY <1>2
    <2>2. QED
      BY <1>2, <2>1 DEF B!EnvStands
  <1>9. PICK f \in [1..m -> B!Standing] : B!Lists(builder.proxies, f)
    BY DEF B!ProxiesFollow
  <1>10. PICK g : g = [k \in 1..(m + 1) |-> IF k = m + 1 THEN n + 1 ELSE f[k]]
    OBVIOUS
  <1>11. /\ g \in [1..(m + 1) -> B!Standing'] /\ DOMAIN g = 1..(m + 1)
         /\ g[m + 1] = n + 1 /\ \A k \in 1..m : g[k] = f[k]
    BY <1>4, <1>7, <1>9, <1>10
  <1>12. B!Standing \subseteq 1..n /\ DOMAIN f = 1..m
    BY <1>2, <1>9 DEF B!Standing
  <1> HIDE DEF n, m
  <1>13. B!Lists(s, g)'
    <2>0. /\ \A k : k \in 1..(m + 1) <=> k \in 1..m \/ k = m + 1
          /\ \A k \in 1..m : f[k] \in 1..n
      <3>1. \A k : k \in 1..(m + 1) <=> k \in 1..m \/ k = m + 1
        BY <1>4
      <3>2. \A k \in 1..m : f[k] \in B!Standing
        BY <1>9
      <3>3. QED
        BY <1>12, <3>1, <3>2
    <2>1. \A k \in 1..(m + 1) : s[k] = asked'[g[k]]
      <3>1. ASSUME NEW k \in 1..m
            PROVE  s[k] = asked'[g[k]]
        <4>1. builder.proxies[k] = asked[f[k]]
          BY <1>9, <1>12 DEF B!Lists
        <4>2. QED
          BY <1>2, <1>6, <1>11, <2>0, <4>1
      <3>2. s[m + 1] = asked'[g[m + 1]]
        BY <1>2, <1>6, <1>11
      <3>3. QED
        BY <2>0, <3>1, <3>2
    <2>2. \A j, k \in 1..(m + 1) : j < k => g[j] < g[k]
      <3>1. ASSUME NEW j \in 1..(m + 1), NEW k \in 1..(m + 1), j < k
            PROVE  g[j] < g[k]
        <4>1. j \in 1..m /\ g[j] = f[j] /\ f[j] \in 1..n
          <5>1. j \in 1..m
            BY <1>4, <3>1
          <5>2. QED
            BY <1>11, <2>0, <5>1
        <4>2. CASE k = m + 1
          BY <1>2, <1>11, <4>1, <4>2
        <4>3. CASE k # m + 1
          <5>1. k \in 1..m /\ f[j] < f[k]
            BY <1>4, <1>9, <1>12, <3>1, <4>1, <4>3 DEF B!Lists
          <5>2. QED
            BY <1>11, <4>1, <5>1
        <4>4. QED
          BY <4>2, <4>3
      <3>2. QED
        BY <3>1
    <2>3. \A i \in B!Standing' : \E k \in 1..(m + 1) : g[k] = i
      <3>1. ASSUME NEW i \in B!Standing PROVE \E k \in 1..(m + 1) : g[k] = i
        <4>1. PICK k \in 1..m : f[k] = i
          BY <1>9, <1>12 DEF B!Lists
        <4>2. k \in 1..(m + 1) /\ g[k] = i
          BY <1>4, <1>11, <4>1
        <4>3. QED
          BY <4>2
      <3>2. m + 1 \in 1..(m + 1)
        BY <1>4
      <3>3. QED
        BY <1>7, <1>11, <3>1, <3>2
    <2>4. QED
      BY <1>11, <2>1, <2>2, <2>3 DEF B!Lists
  <1>14. /\ (builder.proxies \in Seq(Proxies))'
         /\ Len(builder'.proxies) = m + 1
    BY <1>5, <1>6
  <1>15. g \in [1..Len(builder.proxies) -> B!Standing]'
    BY <1>11, <1>14
  <1>16. B!Lists(builder.proxies, g)'
    BY <1>5, <1>13
  <1>17. (builder.envProxy <=> B!EnvStands)'
    BY <1>3, <1>8
  <1>18. QED
    BY <1>2, <1>3, <1>14, <1>15, <1>16, <1>17 DEF B!ProxiesFollow

LEMMA UseEnvProxiesKeeps ==
  ASSUME B!ProxiesFollow, B!UseEnvProxies, {"env", "none"} \cap Proxies = {}
  PROVE  B!ProxiesFollow'
  <1> DEFINE n == Len(asked)
  <1>1. builder' = B!EnvConfigProxy(builder) /\ asked' = Append(asked, "env")
    BY DEF B!UseEnvProxies, B!CallOfProxies, B!Turn
  <1>2. /\ n \in Nat /\ DOMAIN asked = 1..n /\ DOMAIN asked' = 1..(n + 1)
        /\ Len(asked') = n + 1 /\ asked'[n + 1] = "env"
        /\ \A k \in 1..n : asked'[k] = asked[k]
        /\ asked' \in Seq(Proxies \cup {"env", "none"})
    BY <1>1, AskedGrows
  <1>3. /\ {"proxies", "envProxy"} \subseteq DOMAIN builder'
        /\ builder'.proxies = builder.proxies /\ builder'.envProxy = TRUE
    BY <1>1 DEF B!ProxiesFollow, B!EnvConfigProxy
  <1>4. B!Standing' = B!Standing
    <2>1. ASSUME NEW k \in 1..n
          PROVE  k \in B!Standing' <=> k \in B!Standing
      BY <1>2, <2>1 DEF B!Standing
    <2>2. n + 1 \notin B!Standing'
      BY <1>2 DEF B!Standing
    <2>3. B!Standing' \subseteq 1..(n + 1) /\ B!Standing \subseteq 1..n
      BY <1>2 DEF B!Standing
    <2>4. /\ n + 1 \in 1..(n + 1) /\ n + 1 \notin 1..n
          /\ \A k : k \in 1..(n + 1) <=> k \in 1..n \/ k = n + 1
      BY <1>2
    <2> HIDE DEF n
    <2>5. QED
      BY <2>1, <2>2, <2>3, <2>4
  <1>5. B!EnvStands'
    <2>1. n + 1 \in 1..(n + 1) /\ \A j \in (n + 1)..(n + 1) : j = n + 1
      BY <1>2
    <2>2. QED
      BY <1>2, <2>1 DEF B!EnvStands
  <1>6. PICK s : s = builder.proxies /\ s = builder'.proxies
    BY <1>3
  <1>7. PICK f \in [1..Len(s) -> B!Standing] : B!Lists(s, f)
    BY <1>6 DEF B!ProxiesFollow
  <1>8. B!Lists(s, f)'
    <2>1. \A k \in DOMAIN f : f[k] \in 1..n
      BY <1>2, <1>7 DEF B!Standing
    <2>2. QED
      BY <1>2, <1>4, <1>7, <2>1 DEF B!Lists
  <1>9. /\ f \in [1..Len(builder.proxies) -> B!Standing]'
        /\ B!Lists(builder.proxies, f)'
    BY <1>4, <1>6, <1>7, <1>8
  <1>10. (builder.proxies \in Seq(Proxies))'
    BY <1>3 DEF B!ProxiesFollow
  <1>11. QED
    BY <1>2, <1>3, <1>5, <1>9, <1>10 DEF B!ProxiesFollow

LEMMA UseNoProxyKeeps ==
  ASSUME B!ProxiesFollow, B!UseNoProxy, {"env", "none"} \cap Proxies = {}
  PROVE  B!ProxiesFollow'
  <1> DEFINE n == Len(asked)
  <1>1. builder' = B!NoProxy(builder) /\ asked' = Append(asked, "none")
    BY DEF B!UseNoProxy, B!CallOfProxies, B!Turn
  <1>2. /\ n \in Nat /\ DOMAIN asked' = 1..(n + 1)
        /\ Len(asked') = n + 1 /\ asked'[n + 1] = "none"
        /\ asked' \in Seq(Proxies \cup {"env", "none"})
    BY <1>1, AskedGrows
  <1>3. /\ {"proxies", "envProxy"} \subseteq DOMAIN builder'
        /\ builder'.proxies = <<>> /\ builder'.envProxy = FALSE
    BY <1>1 DEF B!ProxiesFollow, B!NoProxy
  <1>4. \A k \in 1..(n + 1) : n + 1 \in k..(n + 1)
    BY <1>2
  <1>5. B!Standing' = {} /\ ~B!EnvStands'
    BY <1>2, <1>4 DEF B!Standing, B!EnvStands
  <1>6. PICK s : s = <<>> /\ s = builder'.proxies
    BY <1>3
  <1>7. PICK f : f = [k \in 1..0 |-> 0]
    OBVIOUS
  <1>8. f \in [1..Len(s) -> {}] /\ DOMAIN f = {}
    BY <1>6, <1>7
  <1>9. B!Lists(s, f)'
    BY <1>5, <1>8 DEF B!Lists
  <1>10. /\ f \in [1..Len(builder.proxies) -> B!Standing]'
         /\ B!Lists(builder.proxies, f)'
    BY <1>5, <1>6, <1>8, <1>9
  <1>11. (builder.proxies \in Seq(Proxies))'
    BY <1>3
  <1>12. QED
    BY <1>2, <1>3, <1>5, <1>10, <1>11 DEF B!ProxiesFollow

LEMMA ProxiesInitially == B!Init => B!ProxiesFollow
  <1> SUFFICES ASSUME B!Init PROVE B!ProxiesFollow
    OBVIOUS
  <1>1. /\ {"proxies", "envProxy"} \subseteq DOMAIN builder
        /\ builder.proxies = <<>> /\ builder.envProxy = FALSE /\ asked = <<>>
    BY DEF B!Init, B!New
  <1>2. B!Standing = {} /\ ~B!EnvStands
    BY <1>1 DEF B!Standing, B!EnvStands
  <1>3. PICK f : f = [k \in 1..0 |-> 0]
    OBVIOUS
  <1>4. f \in [1..Len(builder.proxies) -> B!Standing] /\ DOMAIN f = {}
    BY <1>1, <1>2, <1>3
  <1>5. B!Lists(builder.proxies, f)
    BY <1>2, <1>4 DEF B!Lists
  <1>6. /\ builder.proxies \in Seq(Proxies)
        /\ asked \in Seq(Proxies \cup {"env", "none"})
    BY <1>1
  <1>7. builder.envProxy <=> B!EnvStands
    BY <1>1, <1>2
  <1>8. QED
    BY <1>1, <1>4, <1>5, <1>6, <1>7 DEF B!ProxiesFollow

LEMMA ProxiesNextKeeps ==
  ASSUME {"env", "none"} \cap Proxies = {}
  PROVE  B!ProxiesFollow /\ [B!Next]_(B!vars) => B!ProxiesFollow'
  <1> SUFFICES ASSUME B!ProxiesFollow, [B!Next]_(B!vars) PROVE B!ProxiesFollow'
    OBVIOUS
  <1>1. CASE B!AddProxy
    BY <1>1, AddProxyKeeps
  <1>2. CASE B!UseEnvProxies
    BY <1>2, UseEnvProxiesKeeps
  <1>3. CASE B!UseNoProxy
    BY <1>3, UseNoProxyKeeps
  <1>4. CASE B!Next /\ ~B!AddProxy /\ ~B!UseEnvProxies /\ ~B!UseNoProxy
    BY <1>4, CallsSpare, SparesKeeps
  <1>5. CASE UNCHANGED B!vars
    <2>1. asked' = asked /\ Spares(builder, builder')
      BY <1>5 DEF B!vars, Spares
    <2>2. QED
      BY <2>1, SparesKeeps
  <1>6. QED
    BY <1>1, <1>2, <1>3, <1>4, <1>5

(* A client that was built has the proxies of its builder, and after them  *)
(* the system's.                                                           *)
LEMMA InvProxies == B!IInv /\ B!ProxiesFollow => B!ProxiesAreAsAsked
  <1> SUFFICES ASSUME B!IInv, B!ProxiesFollow, B!Built
               PROVE  B!ProxiesAreAsAsked
    BY DEF B!ProxiesAreAsAsked
  <1> DEFINE p == builder.proxies
             m == Len(builder.proxies)
  <1>1. client.proxies = B!SystemLast(builder)
    <2>1. PICK luck \in SUBSET {"platform", "endpoint"} :
                 client = B!Client(features, builder, luck)
      BY DEF B!IInv, B!BuiltOf
    <2>2. PICK t, h, q, d, u, o, r, k :
            /\ client = [failed |-> FALSE, tcp |-> t, h3 |-> h, proxies |-> q,
                         headers |-> d, baseUrl |-> u, timeout |-> o,
                         readTimeout |-> r, middleware |-> k]
            /\ q = B!SystemLast(builder)
      BY <2>1 DEF B!Client, B!Built
    <2>3. QED
      BY <2>2
  <1>2. p \in Seq(Proxies) /\ m \in Nat
    BY DEF B!ProxiesFollow
  <1>3. PICK f \in [1..m -> B!Standing] : B!Lists(p, f)
    BY DEF B!ProxiesFollow
  <1>4. CASE B!EnvStands
    <2>1. client.proxies = p \o <<"system">>
      BY <1>1, <1>4 DEF B!SystemLast, B!ProxiesFollow
    <2>2. PICK s : s = client.proxies
      OBVIOUS
    <2>3. /\ Len(s) = m + 1 /\ s[m + 1] = "system"
          /\ \A k \in 1..m : s[k] = p[k]
      BY <1>2, <2>1, <2>2
    <2>4. B!Lists(s, f)
      BY <1>3, <2>3 DEF B!Lists
    <2>5. Len(s) - 1 = m /\ Len(s) > 0
      BY <1>2, <2>3
    <2>6. QED
      BY <1>3, <1>4, <2>2, <2>3, <2>4, <2>5 DEF B!ProxiesAreAsAsked
  <1>5. CASE ~B!EnvStands
    <2>1. client.proxies = p \o <<>>
      BY <1>1, <1>5 DEF B!SystemLast, B!ProxiesFollow
    <2>2. client.proxies = p
      BY <1>2, <2>1
    <2>3. QED
      BY <1>3, <1>5, <2>2 DEF B!ProxiesAreAsAsked
  <1>6. QED
    BY <1>4, <1>5

(* The proxies of a client are those added since the last no_proxy, in     *)
(* order, and the environment's only if it was asked for after them.       *)
THEOREM ProxiesAreAlwaysAsAsked ==
  ASSUME Tried \subseteq B!Knobs, {"env", "none"} \cap Proxies = {}
  PROVE  B!Spec => []B!ProxiesAreAsAsked
  BY BuilderInvariant, ProxiesInitially, ProxiesNextKeeps, InvProxies, PTL
  DEF B!Spec
=============================================================================
