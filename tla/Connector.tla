------------------------------ MODULE Connector ------------------------------
(***************************************************************************)
(* How a request reaches its origin: the proxies (proxy.rs), the headers   *)
(* Client::execute adds for them (async_impl/client.rs), the connector and *)
(* the steps of a connection over a local socket, a SOCKS proxy, an HTTP   *)
(* proxy, a CONNECT tunnel or directly (connect.rs), and the reuse of      *)
(* connections by hyper's pool (external).                                 *)
(*                                                                         *)
(* A connection is the sequence of stages it goes through on the wire.     *)
(* A URL is [scheme, host, port, creds]; a destination is one whose creds  *)
(* are None.  Time is abstracted: a connect timeout may fire at any stage. *)
(***************************************************************************)
EXTENDS Naturals, Sequences, FiniteSets

CONSTANTS None,
          Requests, \* requests the caller sends
          Dests,    \* URLs they and the redirects may go to
          Configs,  \* configurations of the client
          MaxHops   \* bound: redirects followed per request

Backends == {"native", "rustls"}
SocksSchemes == {"socks4", "socks4a", "socks5", "socks5h"}
HttpSchemes == {"http", "https"}

VARIABLES config,  \* what the Client and its ConnectorBuilder were built with
          phase,   \* where each request is
          dest,    \* the URL of its current hop
          headers, \* the proxy's part of its headers
          conn,    \* the connection it makes or uses, or None
          idle,    \* connections hyper's pool may give to a request
          hops,    \* redirects followed
          age,     \* how long its connector has been asked for a connection
          timer    \* how long its connect timeout has run

vars == <<config, phase, dest, headers, conn, idle, hops, age, timer>>

(* --- Proxies ----------------------------------------------------------- *)

(* A text without a scheme is taken to be http, SOCKS has a default port.  *)
IntoProxy(u) ==
    [u EXCEPT !.scheme = IF @ = None THEN "http" ELSE @,
              !.port = IF @ = None /\ u.scheme \in SocksSchemes
                       THEN 1080 ELSE @]

(* answers: what it may say of a URL it intercepts; a custom function may  *)
(* answer differently each time, and None.                                 *)
NewProxy(kind, urls) ==
    [kind |-> kind, extra |-> None, misc |-> None, no |-> {},
     answers |-> {IF u = None THEN None ELSE IntoProxy(u) : u \in urls}]

WithBasicAuth(p, creds) ==
    IF p.kind = "custom" THEN [p EXCEPT !.extra = creds]
    ELSE [p EXCEPT !.answers = {[u EXCEPT !.creds = creds] : u \in @}]
WithHttpAuth(p, value) == [p EXCEPT !.extra = value]
WithHeaders(p, misc) == [p EXCEPT !.misc = misc]
WithNoProxy(p, hosts) == [p EXCEPT !.no = hosts]

(* Matcher::intercept.  The custom function is not shown the exclusions.   *)
Intercept(p, d) ==
    IF p.kind = "custom" THEN p.answers
    ELSE IF p.kind \in {"all", d.scheme} /\ d.host \notin p.no
         THEN p.answers ELSE {None}

Intercepted(p, u) ==
    [url |-> u, auth |-> IF p.extra # None THEN p.extra ELSE u.creds,
     misc |-> p.misc]

(* Defect: credentials that are not in the URL are forgotten.              *)
MaybeHasAuthInUrl(p) ==
    p.kind = "custom" \/ \E u \in p.answers : u.creds # None

MaybeHasHttpAuth(p) ==
    \/ p.kind = "custom"
    \/ \E u \in p.answers : u.scheme \in HttpSchemes
                            /\ (u.creds # None \/ p.extra # None)
MaybeHasHttpHeaders(p) ==
    \/ p.kind = "custom"
    \/ \E u \in p.answers : u.scheme \in HttpSchemes /\ p.misc # None

NonTunnelAuth(p, u) ==
    IF u.scheme \in HttpSchemes THEN Intercepted(p, u).auth ELSE None
NonTunnelHeaders(p, u) == IF u.scheme \in HttpSchemes THEN p.misc ELSE None

(* What a loop over the proxies may come to that stops at the first one    *)
(* whose answer yields something: None if it gets to the end.              *)
FirstOf(proxies, d, Yield(_, _)) ==
    LET Yields(k) == {IF u = None THEN None ELSE Yield(proxies[k], u) :
                        u \in Intercept(proxies[k], d)}
        Passes(k) == None \in Yields(k)
    IN (UNION {{v \in Yields(k) \ {None} :
                  \A j \in 1..(k - 1) : Passes(j)} : k \in DOMAIN proxies})
       \cup (IF \A k \in DOMAIN proxies : Passes(k) THEN {None} ELSE {})

(* A Config is a ConnectorBuilder's, and None is no Intercepted.           *)
ASSUME ConnectorAssumption ==
    /\ IsFiniteSet(Requests)
    /\ MaxHops \in Nat
    /\ None # "own"
    /\ \A d \in Dests : d.scheme \in HttpSchemes
    /\ \A c \in Configs :
         /\ c.backend \in Backends /\ c.h2 \in BOOLEAN
         /\ c.nodelay \in BOOLEAN /\ c.tlsInfo \in BOOLEAN
         /\ c.local \in BOOLEAN
         /\ c.timeout \in Nat \cup {None} /\ c.limit \in Nat
         /\ \A k \in DOMAIN c.proxies :
              \A u \in c.proxies[k].answers \ {None} :
                 /\ u.scheme \in SocksSchemes \cup HttpSchemes
                 /\ Intercepted(c.proxies[k], u) # None

(* --- Client::execute --------------------------------------------------- *)

NoHeaders == [auth |-> None, misc |-> None]

(* The header that proxy_auth leaves; own: the caller's, or None.          *)
ProxyAuth(d, own) ==
    IF /\ \E k \in DOMAIN config.proxies : MaybeHasHttpAuth(config.proxies[k])
       /\ d.scheme = "http" /\ own = None
    THEN FirstOf(config.proxies, d, NonTunnelAuth) ELSE {own}

ProxyCustomHeaders(d) ==
    IF /\ \E k \in DOMAIN config.proxies :
             MaybeHasHttpHeaders(config.proxies[k])
       /\ d.scheme = "http"
    THEN FirstOf(config.proxies, d, NonTunnelHeaders) ELSE {None}

Execute(r) ==
    /\ phase[r] = "new"
    /\ \E d \in Dests, own \in {None, "own"} :
         \E a \in ProxyAuth(d, own), m \in ProxyCustomHeaders(d) :
           /\ dest' = [dest EXCEPT ![r] = d]
           /\ headers' = [headers EXCEPT ![r] = [auth |-> a, misc |-> m]]
    /\ phase' = [phase EXCEPT ![r] = "waiting"]
    /\ UNCHANGED <<config, conn, idle, hops, age, timer>>

(* --- Connections ------------------------------------------------------- *)

Addr(u) == <<u.host, u.port>>
Stage(do, to, with) == [do |-> do, to |-> to, with |-> with]
Dial(u, nodelay) == Stage("dial", Addr(u), nodelay)
Tls(u, h2) == Stage("tls", u.host, h2)

Connection(d, via, stages, isProxy, tlsInfo) ==
    [key |-> d, via |-> via, todo |-> stages, wire |-> <<>>,
     isProxy |-> isProxy, tlsInfo |-> tlsInfo]

(* TLS with the origin, for a URL that asks for it.                        *)
Secure(d) == IF d.scheme = "https" THEN <<Tls(d, config.h2)>> ELSE <<>>

(* Nagle's algorithm is off for a TLS handshake, and restored after it.    *)
ConnectWithMaybeProxy(d, via, u, isProxy) ==
    LET https == u.scheme = "https"
        restore == IF https /\ ~config.nodelay
                   THEN <<Stage("nodelay", Addr(u), FALSE)>> ELSE <<>>
    IN Connection(d, via,
           <<Dial(u, config.nodelay \/ https)>> \o Secure(u) \o restore,
           isProxy, config.tlsInfo /\ https)

ConnectLocalTransport(d) ==
    Connection(d, None, <<Stage("local", None, None)>> \o Secure(d), FALSE,
               config.tlsInfo /\ d.scheme = "https")

(* socks4 and socks5 resolve the origin's name before they dial.  Only the *)
(* native backend gives a socks connection its TLS information.            *)
ConnectSocks(d, via) ==
    LET u == via.url
        resolve == IF u.scheme \in {"socks4", "socks5"}
                   THEN <<Stage("resolve", Addr(d), None)>> ELSE <<>>
        rawAuth == IF u.scheme \in {"socks5", "socks5h"} THEN u.creds ELSE None
    IN Connection(d, via,
           resolve \o <<Dial(u, config.nodelay),
                        Stage("socks", Addr(d), rawAuth)>> \o Secure(d),
           FALSE,
           config.tlsInfo /\ d.scheme = "https" /\ config.backend = "native")

(* rustls has a second TLS configuration, without ALPN, to reach a proxy.  *)
ProxyTlsOffersH2 == config.h2 /\ config.backend = "native"

(* Defect: an https URL is sent to the proxy like an http one.             *)
ConnectWithoutTunnel(d, via) ==
    IF via.url.scheme \in SocksSchemes THEN ConnectSocks(d, via)
    ELSE ConnectWithMaybeProxy(d, via, via.url, TRUE)

Tunnel(d, via) ==
    LET u == via.url
    IN Connection(d, via,
           <<Dial(u, config.nodelay)>>
           \o (IF u.scheme = "https" THEN <<Tls(u, ProxyTlsOffersH2)>> ELSE <<>>)
           \o <<Stage("connect", Addr(d),
                      [auth |-> via.auth, misc |-> via.misc])>>
           \o Secure(d),
           FALSE, FALSE)

ConnectViaProxy(d, via) ==
    IF via.url.scheme \in SocksSchemes THEN ConnectSocks(d, via)
    ELSE IF d.scheme = "https" THEN Tunnel(d, via)
         ELSE ConnectWithMaybeProxy(d, via, via.url, TRUE)

(* A local socket empties the connector's list of proxies.                 *)
ConnectorProxies == IF config.local THEN <<>> ELSE config.proxies

(* ConnectorService::call: the connections it may set out to make.         *)
Connections(d) ==
    IF config.local THEN {ConnectLocalTransport(d)}
    ELSE {IF via = None THEN ConnectWithMaybeProxy(d, None, d, FALSE)
          ELSE ConnectViaProxy(d, via) :
              via \in FirstOf(ConnectorProxies, d, Intercepted)}

(* The stream on top of a connection has a certificate and an ALPN if it   *)
(* is TLS; what is beneath it has no say.                                  *)
TlsOnTop(c, negotiated) ==
    \E k \in DOMAIN c.wire :
        /\ c.wire[k].do = "tls" /\ c.wire[k].with \in negotiated
        /\ \A j \in (k + 1)..Len(c.wire) : c.wire[j].do = "nodelay"

HasCertificate(c) == TlsOnTop(c, BOOLEAN)
NegotiatedH2(c) == TlsOnTop(c, {TRUE})

(* The TlsInfo that Conn::connected attaches for the response.             *)
TlsInfo(c) == c.tlsInfo /\ HasCertificate(c)

(* --- The pool and the layers ------------------------------------------- *)

(* A request waits for a connection of its own unless one is idle.         *)
Reuse(r, c) ==
    /\ phase[r] = "waiting" /\ c.key = dest[r]
    /\ conn' = [conn EXCEPT ![r] = c]
    /\ idle' = IF NegotiatedH2(c) THEN idle ELSE idle \ {c}
    /\ phase' = [phase EXCEPT ![r] = "sent"]
    /\ UNCHANGED <<config, dest, headers, hops, age, timer>>

(* poll_ready of the layers: a limit on concurrent connects makes it wait. *)
Ready(r) ==
    /\ phase[r] = "waiting"
    /\ \A c \in idle : c.key # dest[r]
    /\ phase' = [phase EXCEPT ![r] = "queued"]
    /\ age' = [age EXCEPT ![r] = 0]
    /\ UNCHANGED <<config, dest, headers, conn, idle, hops, timer>>

Connecting == {r \in Requests : phase[r] = "connecting"}
Queued == {r \in Requests : phase[r] = "queued"}

(* The timeout, simple or the outermost layer, begins with the call.       *)
Permitted == config.limit = 0 \/ Cardinality(Connecting) < config.limit

Call(r) ==
    /\ phase[r] = "queued" /\ Permitted
    /\ \A q \in Queued : age[q] <= age[r]
    /\ \E c \in Connections(dest[r]) : conn' = [conn EXCEPT ![r] = c]
    /\ phase' = [phase EXCEPT ![r] = "connecting"]
    /\ timer' = [timer EXCEPT ![r] = 0]
    /\ UNCHANGED <<config, dest, headers, idle, hops, age>>

(* The clocks only matter to a request that is in the connector.           *)
Rest(r) == age' = [age EXCEPT ![r] = 0] /\ timer' = [timer EXCEPT ![r] = 0]

Step(r) ==
    LET c == conn[r]
        s == Head(c.todo)
    IN /\ phase[r] = "connecting"
       /\ \E got \in IF s.do = "tls" THEN {FALSE, s.with} ELSE {s.with} :
            LET next == [c EXCEPT !.todo = Tail(@),
                                  !.wire = Append(@, [s EXCEPT !.with = got])]
                made == next.todo = <<>>
            IN /\ conn' = [conn EXCEPT ![r] = next]
               /\ phase' = IF made THEN [phase EXCEPT ![r] = "sent"] ELSE phase
               /\ idle' = IF made /\ NegotiatedH2(next)
                          THEN idle \cup {next} ELSE idle
               /\ IF made THEN Rest(r) ELSE UNCHANGED <<age, timer>>
       /\ UNCHANGED <<config, dest, headers, hops>>

Ends(r) ==
    /\ phase' = [phase EXCEPT ![r] = "over"]
    /\ dest' = [dest EXCEPT ![r] = None]
    /\ headers' = [headers EXCEPT ![r] = NoHeaders]
    /\ conn' = [conn EXCEPT ![r] = None]
    /\ hops' = [hops EXCEPT ![r] = 0]
    /\ Rest(r)
    /\ UNCHANGED config

Fails(r) == phase[r] = "connecting" /\ Ends(r) /\ UNCHANGED idle

(* Defect: the timeout is lost when there are layers.                      *)
ExpiredWithoutLayers(r) == timer[r] = config.timeout /\ config.limit = 0

Expired(r) == timer[r] = config.timeout

TimedOut(r) ==
    /\ phase[r] = "connecting" /\ Expired(r)
    /\ Ends(r) /\ UNCHANGED idle

(* A connection whose response ended is kept for the pool, or closed.      *)
Return(c) == idle' \in {idle, idle \cup {c}}

Responds(r) == phase[r] = "sent" /\ Return(conn[r]) /\ Ends(r)

(* FollowRedirect resends the headers, and the redirect policy removes the *)
(* sensitive ones if the origin changes.                                   *)
Redirected(r, d) ==
    /\ phase[r] = "sent" /\ hops[r] < MaxHops
    /\ Return(conn[r])
    /\ conn' = [conn EXCEPT ![r] = None]
    /\ dest' = [dest EXCEPT ![r] = d]
    /\ headers' = IF d = dest[r] THEN headers
                  ELSE [headers EXCEPT ![r].auth = None]
    /\ hops' = [hops EXCEPT ![r] = @ + 1]
    /\ phase' = [phase EXCEPT ![r] = "waiting"]
    /\ UNCHANGED <<config, age, timer>>

(* A unit of time: the executor polls a timer that fired before the next.  *)
Tick ==
    /\ config.timeout # None
    /\ Connecting # {}
    /\ Queued = {} \/ ~Permitted
    /\ \A r \in Connecting : ~Expired(r)
    /\ age' = [r \in Requests |->
                 IF r \in Connecting \cup Queued THEN age[r] + 1 ELSE age[r]]
    /\ timer' = [r \in Requests |->
                   IF r \in Connecting THEN timer[r] + 1 ELSE timer[r]]
    /\ UNCHANGED <<config, phase, dest, headers, conn, idle, hops>>

Done == (\A r \in Requests : phase[r] = "over") /\ UNCHANGED vars

Init ==
    /\ config \in Configs
    /\ phase = [r \in Requests |-> "new"]
    /\ dest = [r \in Requests |-> None]
    /\ headers = [r \in Requests |-> NoHeaders]
    /\ conn = [r \in Requests |-> None]
    /\ idle = {}
    /\ hops = [r \in Requests |-> 0]
    /\ age = [r \in Requests |-> 0] /\ timer = [r \in Requests |-> 0]

Next ==
    \/ \E r \in Requests :
         \/ Execute(r) \/ Ready(r) \/ Call(r) \/ Step(r)
         \/ Fails(r) \/ TimedOut(r) \/ Responds(r)
         \/ \E c \in idle : Reuse(r, c)
         \/ \E d \in Dests : Redirected(r, d)
    \/ Tick
    \/ Done

Spec == Init /\ [][Next]_vars

-----------------------------------------------------------------------------
(* Properties                                                              *)

Sent == {r \in Requests : phase[r] = "sent"}

(* The URLs that a connection may be made to, and the answers of proxies.  *)
Urls == Dests \cup UNION {config.proxies[k].answers \ {None} :
                            k \in DOMAIN config.proxies}
Vias == UNION {{Intercepted(config.proxies[k], u) :
                  u \in config.proxies[k].answers \ {None}} :
                 k \in DOMAIN config.proxies}
Addrs == {Addr(u) : u \in Urls}
Stages ==
    UNION {[do : {"local"}, to : {None}, with : {None}],
           [do : {"resolve"}, to : Addrs, with : {None}],
           [do : {"dial", "nodelay"}, to : Addrs, with : BOOLEAN],
           [do : {"socks"}, to : Addrs,
            with : {None} \cup {u.creds : u \in Urls}],
           [do : {"connect"}, to : Addrs,
            with : {[auth |-> v.auth, misc |-> v.misc] : v \in Vias}],
           [do : {"tls"}, to : {u.host : u \in Urls}, with : BOOLEAN]}
Conns == [key : Dests, via : Vias \cup {None}, todo : Seq(Stages),
          wire : Seq(Stages), isProxy : BOOLEAN, tlsInfo : BOOLEAN]

(* Every variable has its type, and a request has a connection, to its own *)
(* destination, exactly while it makes or uses one.                        *)
TypeOK ==
    /\ config \in Configs
    /\ phase \in [Requests -> {"new", "waiting", "queued", "connecting",
                               "sent", "over"}]
    /\ dest \in [Requests -> Dests \cup {None}]
    /\ DOMAIN headers = Requests /\ DOMAIN conn = Requests
    /\ hops \in [Requests -> 0..MaxHops]
    /\ age \in [Requests -> Nat] /\ timer \in [Requests -> Nat]
    /\ \A r \in Requests :
         /\ IF phase[r] \in {"new", "over"} THEN dest[r] = None
            ELSE dest[r] \in Dests
         /\ IF phase[r] \in {"connecting", "sent"}
            THEN conn[r] \in Conns /\ conn[r].key = dest[r]
            ELSE conn[r] = None
         /\ phase[r] = "connecting" => conn[r].todo # <<>>
         /\ phase[r] = "sent" => conn[r].todo = <<>>
         /\ headers[r] = [auth |-> headers[r].auth, misc |-> headers[r].misc]
    /\ \A c \in idle : c \in Conns /\ c.todo = <<>>

(* The stages of a connection that reach another party.                    *)
Reaches(c) == {k \in DOMAIN c.wire :
                 c.wire[k].do \in {"local", "dial", "socks", "connect"}}
Reached(c) ==
    c.wire[CHOOSE k \in Reaches(c) : \A j \in Reaches(c) : j <= k]

(* A request for an https URL is only written on a connection whose        *)
(* outermost TLS is with the URL's own host, whatever route the connector  *)
(* took and whichever hop it was made for; with rustls, CONNECT is never   *)
(* written on a connection to a proxy that negotiated HTTP/2; and the TCP  *)
(* connection that is handed to hyper has the TCP_NODELAY the client was   *)
(* built with, though TLS handshakes change it on some routes.             *)
(* ConnectorService::call, tls_proxy.                                      *)
OriginIsSecured ==
    \A r \in Sent : dest[r].scheme = "https" =>
        \E k \in DOMAIN conn[r].wire :
            /\ conn[r].wire[k].do = "tls"
            /\ conn[r].wire[k].to = dest[r].host
            /\ \A j \in (k + 1)..Len(conn[r].wire) :
                 conn[r].wire[j].do = "nodelay"
TunnelIsHttp1 ==
    config.backend = "rustls" =>
        \A r \in Connecting \cup Sent : \A k \in DOMAIN conn[r].wire :
            conn[r].wire[k].do = "connect" =>
                \A j \in 1..(k - 1) :
                    conn[r].wire[j].do = "tls" => ~conn[r].wire[j].with
NodelayIsAsAsked ==
    \A r \in Sent :
        LET w == conn[r].wire
            sets == {k \in DOMAIN w : w[k].do \in {"dial", "nodelay"}}
        IN ~config.local =>
             w[CHOOSE k \in sets : \A j \in sets : j <= k].with = config.nodelay
WireIsAsAsked == OriginIsSecured /\ TunnelIsHttp1 /\ NodelayIsAsAsked

(* No destination has two proxies that may answer for it, and none of them *)
(* changes its mind.                                                       *)
Unambiguous ==
    \A d \in Dests :
        /\ \A k \in DOMAIN config.proxies :
             \A u, v \in Intercept(config.proxies[k], d) : u = v
        /\ \A j, k \in DOMAIN config.proxies :
             j # k => None \in Intercept(config.proxies[j], d)
                               \cup Intercept(config.proxies[k], d)

(* is_proxy, which makes hyper write the absolute form, says exactly that  *)
(* the party that reads the request is the proxy and not the origin at the *)
(* end of a tunnel, a SOCKS connection or a local socket (connected).      *)
(* The headers execute adds for a proxy, before there is a connection, are *)
(* those of the proxy that the connection turns out to go through, and a   *)
(* redirect never carries credentials to another party; a CONNECT always   *)
(* has those of its own proxy.  Client::proxy_auth, proxy_custom_headers   *)
(* and connect_via_proxy each look the proxy up for themselves.  Only if   *)
(* the proxies are unambiguous and there is no local socket.               *)
AbsoluteFormForProxies ==
    \A r \in Sent :
        conn[r].isProxy = /\ conn[r].via # None
                          /\ Reached(conn[r]).do = "dial"
                          /\ Reached(conn[r]).to = Addr(conn[r].via.url)
CredentialsOfTheRoute ==
    \A r \in Sent :
        LET c == conn[r]
            ofRoute(x) == IF c.isProxy THEN x ELSE None
        IN /\ \A k \in DOMAIN c.wire : c.wire[k].do = "connect" =>
                c.wire[k].with = [auth |-> c.via.auth, misc |-> c.via.misc]
           /\ Unambiguous /\ ~config.local /\ headers[r].auth # "own" =>
                IF hops[r] = 0
                THEN /\ headers[r].auth = ofRoute(c.via.auth)
                     /\ headers[r].misc = ofRoute(c.via.misc)
                ELSE /\ headers[r].auth # None => c.isProxy
                     /\ headers[r].auth \in {None, ofRoute(c.via.auth)}
HeadersFitTheRoute == AbsoluteFormForProxies /\ CredentialsOfTheRoute

(* With a connect_timeout no request spends more in the connector than the *)
(* timeout; behind a limit on concurrent connects, than the timeouts of    *)
(* all the requests that share it.  ConnectorBuilder::build.               *)
ConnectIsBounded ==
    config.timeout # None =>
        \A r \in Connecting \cup Queued :
            /\ phase[r] = "connecting" => timer[r] <= config.timeout
            /\ age[r] <= config.timeout * (IF config.limit = 0 THEN 1
                                           ELSE Cardinality(Requests))

-----------------------------------------------------------------------------
(* The inductive invariant                                                 *)

(* A connection's plan: what is done of it, and what is to be done.        *)
Plan(c) == c.wire \o c.todo

Last(w, verbs, k) ==
    /\ k \in DOMAIN w /\ w[k].do \in verbs
    /\ \A j \in DOMAIN w : j > k => w[j].do \notin verbs

Securing(w, host) ==
    \E k \in DOMAIN w : /\ w[k].do = "tls" /\ w[k].to = host
                        /\ \A j \in DOMAIN w : j > k => w[j].do = "nodelay"
TunnelingOverHttp1(w) ==
    \A k \in DOMAIN w : w[k].do = "connect" =>
        \A j \in DOMAIN w : j < k /\ w[j].do = "tls" => ~w[j].with
RestoringNodelay(w) ==
    \E k \in DOMAIN w : /\ Last(w, {"dial", "nodelay"}, k)
                        /\ w[k].with = config.nodelay

(* What a plan was drawn up to do, it still does after any of its steps.   *)
FitsItsUrl(c) ==
    /\ c.key.scheme = "https" => Securing(Plan(c), c.key.host)
    /\ config.backend = "rustls" => TunnelingOverHttp1(Plan(c))
    /\ ~config.local => RestoringNodelay(Plan(c))

(* Who reads a request, in which form, and the headers that are for it.    *)
ReadByProxy(d, via) ==
    via # None /\ via.url.scheme \in HttpSchemes /\ d.scheme = "http"
OfRoute(d, via, x) == IF ReadByProxy(d, via) THEN x ELSE None
Routes(d) == FirstOf(config.proxies, d, Intercepted)

FitsItsRoute(c) ==
    /\ ~config.local => c.via \in Routes(c.key)
    /\ c.isProxy = ReadByProxy(c.key, c.via)
    /\ \E k \in DOMAIN Plan(c) :
         /\ Last(Plan(c), {"local", "dial", "socks", "connect"}, k)
         /\ c.isProxy = (/\ c.via # None /\ Plan(c)[k].do = "dial"
                         /\ Plan(c)[k].to = Addr(c.via.url))
    /\ \A k \in DOMAIN Plan(c) : Plan(c)[k].do = "connect" =>
         Plan(c)[k].with = [auth |-> c.via.auth, misc |-> c.via.misc]

PlansFit ==
    /\ \A r \in Connecting \cup Sent : FitsItsUrl(conn[r]) /\ FitsItsRoute(conn[r])
    /\ \A c \in idle : FitsItsUrl(c) /\ FitsItsRoute(c)

(* The headers are those of whatever route the proxies give the current    *)
(* hop, or a redirect has taken the credentials away.                      *)
HeadersFit ==
    Unambiguous /\ ~config.local =>
        \A r \in Requests :
            /\ phase[r] \notin {"new", "over"}
            /\ headers[r].auth # "own"
            => \A via \in Routes(dest[r]) :
                 /\ headers[r].auth \in {None, OfRoute(dest[r], via, via.auth)}
                 /\ hops[r] = 0 =>
                      /\ headers[r].auth = OfRoute(dest[r], via, via.auth)
                      /\ headers[r].misc = OfRoute(dest[r], via, via.misc)

(* Everybody but a request that waits for a permit and those that get one, *)
(* or have one, before it.                                                 *)
Behind(r) == {q \in Requests \ {r} :
                /\ phase[q] # "connecting"
                /\ phase[q] = "queued" => age[q] < age[r]}

(* Nobody who is behind delays it, and everybody else does at most once,   *)
(* by a timeout: what it waited is what those that are behind now took.    *)
WaitIsBounded ==
    config.timeout # None =>
        /\ \A r \in Connecting :
             /\ timer[r] <= config.timeout
             /\ config.limit = 0 => age[r] = timer[r]
             /\ age[r] <= config.timeout * (Cardinality(Requests) - 1) + timer[r]
        /\ \A r \in Queued :
             /\ config.limit = 0 => age[r] = 0
             /\ Permitted => age[r] <= config.timeout * Cardinality(Behind(r))
             /\ ~Permitted => \A q \in Connecting :
                  age[r] <= config.timeout * Cardinality(Behind(r)) + timer[q]

IInv == TypeOK /\ PlansFit /\ HeadersFit /\ WaitIsBounded
=============================================================================
