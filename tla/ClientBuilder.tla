---------------------------- MODULE ClientBuilder ----------------------------
(***************************************************************************)
(* The two ClientBuilders (async_impl/client.rs, blocking/client.rs), what *)
(* they build, and the TLS of tls.rs.  The async builder and the blocking  *)
(* one are given the same calls, so that they can be compared; blocking    *)
(* is None before the caller turns an async builder into a blocking one.   *)
(*                                                                         *)
(* A setting that is only passed on to another library is a knob: a name,  *)
(* and the value of the last call.  A root certificate, a revocation list  *)
(* or a proxy is a model value.                                            *)
(***************************************************************************)
EXTENDS Integers, Sequences, FiniteSets

CONSTANTS None,
          Builds,   \* sets of cargo features that reqwest is compiled with
          Tried,    \* bound: the knobs that are called
          Proxies, Roots, Crls, Domains, Addrs,
          BadRoot,  \* a certificate whose text does not parse
          BadCrl,   \* a revocation list whose contents do not parse
          MaxCalls  \* bound: calls on a builder

VARIABLES features, \* the cargo features
          config,   \* the async builder
          blocking, \* the blocking builder [inner, timeout, baseUrl], or None
          client,   \* what the async builder built: None, Error or a Client
          handle,   \* what the blocking builder built
          calls,    \* calls made so far
          asked     \* history: the calls about proxies

vars == <<features, config, blocking, client, handle, calls, asked>>

(* --- The settings of a builder ----------------------------------------- *)

Accepts == {"gzip", "brotli", "zstd", "deflate"}
Rules == {"redirect", "referer", "retry", "request_logger"}
PoolKnobs == {"connection_verbose", "pool_idle_timeout",
              "pool_max_idle_per_host"}
Http1Knobs == {"http1_title_case_headers", "http1_obsolete_multiline_headers",
               "http1_ignore_invalid_headers", "http1_spaces_after_header_name",
               "http09_responses"}
Http2Knobs == {"http2_initial_stream_window_size", "http2_adaptive_window",
               "http2_initial_connection_window_size", "http2_max_frame_size",
               "http2_max_header_list_size", "http2_keep_alive_interval",
               "http2_keep_alive_timeout", "http2_keep_alive_while_idle"}
TcpKnobs == {"tcp_nodelay", "local_address", "interface", "tcp_keepalive",
             "tcp_keepalive_interval", "tcp_keepalive_retries",
             "tcp_user_timeout"}
LocalKnobs == {"unix_socket", "windows_named_pipe"}
TlsKnobs == {"tls_sni", "tls_sslkeylogfile"}
HttpsKnobs == {"tls_info", "https_only"}
QuicKnobs == {"tls_early_data", "http3_max_idle_timeout",
              "http3_stream_receive_window", "http3_conn_receive_window",
              "http3_send_window", "http3_congestion_bbr",
              "http3_max_field_section_size", "http3_send_grease"}
Knobs == UNION {Accepts, Rules, PoolKnobs, Http1Knobs, Http2Knobs, TcpKnobs,
                LocalKnobs, TlsKnobs, HttpsKnobs, QuicKnobs}

ASSUME BuilderAssumption ==
    {None, "env", "none"} \cap Proxies = {} /\ Tried \subseteq Knobs

DefaultBackend(f) ==
    IF "native-tls" \notin f \/ "http3" \in f THEN "rustls" ELSE "native"

New(f) ==
    [error |-> FALSE, baseUrl |-> None,
     headers |-> [accept |-> "*/*", userAgent |-> "reqwest"],
     knobs |-> [k \in Knobs |-> "default"], cookies |-> None,
     middleware |-> <<>>, proxies |-> <<>>, envProxy |-> FALSE,
     timeout |-> 60, connectTimeout |-> None, readTimeout |-> None,
     version |-> "all", backend |-> DefaultBackend(f),
     hostnames |-> TRUE, certs |-> TRUE, certsOnly |-> FALSE, roots |-> {},
     crls |-> {}, identity |-> None, min |-> None, max |-> None,
     hickory |-> "hickory-dns" \in f, resolver |-> None,
     overrides |-> [d \in Domains |-> None], layers |-> <<>>]

(* url: "relative" is one that does not parse by itself.                   *)
BaseUrl(c, url) ==
    [c EXCEPT !.error = @ \/ url = "relative", !.baseUrl = url]

UserAgent(c, value) ==
    IF value = "invalid" THEN [c EXCEPT !.error = TRUE]
    ELSE [c EXCEPT !.headers.userAgent = value]
DefaultHeaders(c, headers) ==
    [c EXCEPT !.headers = [h \in DOMAIN @ |->
        IF h \in DOMAIN headers THEN headers[h] ELSE @[h]]]
Cookies(c, store) == [c EXCEPT !.cookies = store]
Middleware(c, m) == [c EXCEPT !.middleware = Append(@, m)]
Knob(c, k, v) == [c EXCEPT !.knobs[k] = v]

Proxy(c, p) == [c EXCEPT !.proxies = Append(@, p), !.envProxy = FALSE]
EnvConfigProxy(c) == [c EXCEPT !.envProxy = TRUE]
(* Defect: the proxies of the environment are left on.                     *)
NoProxyLeavesEnv(c) == [c EXCEPT !.proxies = <<>>]
NoProxy(c) == [c EXCEPT !.proxies = <<>>, !.envProxy = FALSE]

ConnectTimeout(c, t) == [c EXCEPT !.connectTimeout = t]
ReadTimeout(c, t) == [c EXCEPT !.readTimeout = t]
Version(c, pref) == [c EXCEPT !.version = pref]

CertsMerge(c, roots) == [c EXCEPT !.roots = @ \cup roots]
CertsOnly(c, roots) == [c EXCEPT !.roots = @ \cup roots, !.certsOnly = TRUE]
CrlsOnly(c, crls) == [c EXCEPT !.crls = @ \cup crls]
WithIdentity(c, kind) == [c EXCEPT !.identity = kind]
DangerHostnames(c, accept) == [c EXCEPT !.hostnames = ~accept]
DangerCerts(c, accept) == [c EXCEPT !.certs = ~accept]
VersionMin(c, v) == [c EXCEPT !.min = v]
VersionMax(c, v) == [c EXCEPT !.max = v]
Backend(c, b) == [c EXCEPT !.backend = b]

Hickory(c, on) == [c EXCEPT !.hickory = on]
Resolver(c, r) == [c EXCEPT !.resolver = r]
Override(c, d, addrs) == [c EXCEPT !.overrides[d] = addrs]
Layer(c, l) == [c EXCEPT !.layers = Append(@, l)]

(* --- ClientBuilder::build ---------------------------------------------- *)

SystemLast(c) == c.proxies \o IF c.envProxy THEN <<"system">> ELSE <<>>

(* Who answers for a domain: an override, the caller's resolver, or ours.  *)
DynResolver(c) ==
    LET ours == IF c.resolver # None THEN c.resolver
                ELSE IF c.hickory THEN "hickory" ELSE "gai"
    IN [d \in Domains |->
          IF c.overrides[d] # None THEN c.overrides[d] ELSE ours]

(* A verifier trusts the roots, those of the platform if builtin.          *)
Verifier(certs, hostnames, builtin, roots, crls) ==
    [certs |-> certs, hostnames |-> hostnames, builtin |-> builtin,
     roots |-> roots, crls |-> crls]
NoVerifier == Verifier(FALSE, FALSE, FALSE, {}, {})
IgnoreHostname(roots) == Verifier(TRUE, FALSE, FALSE, roots, {})
PlatformVerifier(roots) == Verifier(TRUE, TRUE, TRUE, roots, {})
WebPki(roots, crls) == Verifier(TRUE, TRUE, FALSE, roots, crls)
NativeVerifier(c) ==
    IF ~c.certs THEN NoVerifier
    ELSE Verifier(TRUE, c.hostnames, ~c.certsOnly, c.roots, {})
CallersVerifier == None

(* peer: what is true of the certificate a server shows.                   *)
VerifyServerCert(v, peer) ==
    \/ ~v.certs
    \/ /\ peer.root \in v.roots \/ (v.builtin /\ peer.root = "builtin")
       /\ v.hostnames => peer.named
       /\ peer.revoked \cap v.crls = {}

ToNativeTls(v) == v # 13
NativeTlsFails(c) ==
    \/ c.identity = "pem"
    \/ c.min # None /\ ~ToNativeTls(c.min)
    \/ c.max # None /\ ~ToNativeTls(c.max)

FromRustls == {12, 13}
TlsVersions(c) ==
    {v \in FromRustls : /\ c.min # None => v >= c.min
                        /\ c.max # None => v <= c.max}

(* None of these parses what it is given before it is used here.           *)
RustlsStoreFails(roots) == BadRoot \in roots
IdentityFails(c) == c.identity = "pkcs"

(* rustls wants a root to check a revocation list against.                 *)
WebPkiFails(roots, crls) == crls # {} /\ (roots = {} \/ BadCrl \in crls)

RustlsFails(c, luck) ==
    \/ TlsVersions(c) = {}
    \/ IdentityFails(c)
    \/ /\ c.certs
       /\ \/ RustlsStoreFails(c.roots)
          \/ ~c.certsOnly /\ (~c.hostnames \/ c.crls # {}
                             \/ "platform" \notin luck)
          \/ c.hostnames /\ c.certsOnly /\ WebPkiFails(c.roots, c.crls)

(* Defect: only the first of the two dangers is looked at.                 *)
RustlsVerifierMixesDangers(c) ==
    IF ~c.certs \/ ~c.hostnames THEN NoVerifier
    ELSE IF ~c.certsOnly THEN PlatformVerifier(c.roots)
    ELSE WebPki(c.roots, c.crls)

RustlsVerifier(c) ==
    IF ~c.certs THEN NoVerifier
    ELSE IF ~c.hostnames THEN IgnoreHostname(c.roots)
    ELSE IF ~c.certsOnly THEN PlatformVerifier(c.roots)
    ELSE WebPki(c.roots, c.crls)

AllAlpn(f) == IF "http2" \in f THEN {"h2", "http/1.1"} ELSE {"http/1.1"}
RustlsAlpn(f, c) ==
    CASE c.version = "h1" -> {"http/1.1"}
      [] c.version = "h2" -> {"h2"}
      [] c.version = "h3" -> {}
      [] c.version = "all" -> AllAlpn(f)
NativeAlpn(f, c) ==
    IF "native-tls-alpn" \notin f \/ "http3" \in f THEN {}
    ELSE CASE c.version = "h1" -> {"http/1.1"}
           [] c.version = "h2" -> {"h2"}
           [] c.version = "all" -> AllAlpn(f)

(* The callers that bring a backend of their own configure all of its TLS. *)
Tls(f, c) ==
    CASE c.backend = "native" ->
           [verifier |-> NativeVerifier(c), alpn |-> NativeAlpn(f, c)]
      [] c.backend = "rustls" ->
           [verifier |-> RustlsVerifier(c), alpn |-> RustlsAlpn(f, c)]
      [] OTHER -> [verifier |-> CallersVerifier, alpn |-> None]

(* build_h3_connector: an endpoint cannot always be opened.                *)
HasH3(f, c) == "http3" \in f /\ c.backend \in {"rustls", "built_rustls"}
H3Fails(f, c, luck) ==
    /\ HasH3(f, c)
    /\ \/ c.knobs["http3_max_idle_timeout"] = "too_long"
       \/ "endpoint" \notin luck /\ c.version = "h3"

Fails(f, c, luck) ==
    \/ c.error
    \/ c.backend = "unknown"
    \/ c.backend = "native" /\ NativeTlsFails(c)
    \/ c.backend = "rustls" /\ RustlsFails(c, luck)
    \/ H3Fails(f, c, luck)

(* The layers that a request goes through, from the outside, on its way to *)
(* hyper and to the h3 client.                                             *)
TcpLayers(c) ==
    <<c.knobs["request_logger"], [k \in Accepts |-> c.knobs[k]],
      [policy |-> c.knobs["redirect"], referer |-> c.knobs["referer"],
       httpsOnly |-> c.knobs["https_only"]],
      c.cookies, c.knobs["retry"]>>
(* Defect: a coding that the h3 client forgets to turn off.                *)
H3LayersForgetDeflate(c) ==
    [TcpLayers(c) EXCEPT ![2]["deflate"] = "default"]
H3Layers(c) ==
    <<c.knobs["request_logger"], [k \in Accepts |-> c.knobs[k]],
      [policy |-> c.knobs["redirect"], referer |-> c.knobs["referer"],
       httpsOnly |-> c.knobs["https_only"]],
      c.cookies, c.knobs["retry"]>>

NoH3Client == [alpn |-> {}]
H3Client(f, c, luck) ==
    IF ~HasH3(f, c) \/ "endpoint" \notin luck THEN NoH3Client
    ELSE [alpn |-> {"h3"}, verifier |-> Tls(f, c).verifier,
          resolve |-> DynResolver(c), layers |-> H3Layers(c)]
TcpClient(f, c) ==
    [alpn |-> Tls(f, c).alpn, verifier |-> Tls(f, c).verifier,
     resolve |-> DynResolver(c), layers |-> TcpLayers(c),
     h2Only |-> c.version = "h2", connectTimeout |-> c.connectTimeout,
     nets |-> c.layers]

Error == [failed |-> TRUE]

(* luck: which of the platform's verifier and the endpoint of QUIC there is *)
Client(f, c, luck) ==
    IF Fails(f, c, luck) THEN Error
    ELSE [failed |-> FALSE, tcp |-> TcpClient(f, c), h3 |-> H3Client(f, c, luck),
          proxies |-> SystemLast(c), headers |-> c.headers,
          baseUrl |-> c.baseUrl, timeout |-> c.timeout,
          readTimeout |-> c.readTimeout, middleware |-> c.middleware]

(* --- The blocking builder ---------------------------------------------- *)

DefaultTimeout == 30

NewBlocking(f) ==
    [inner |-> New(f), timeout |-> DefaultTimeout, baseUrl |-> None]

(* Its methods apply the async builder's to the one inside: c is the       *)
(* result.                                                                 *)
Inner == IF blocking = None THEN config ELSE blocking.inner
WithInner(c) ==
    IF blocking = None THEN None ELSE [blocking EXCEPT !.inner = c]

BlockingHeaders(c) == WithInner(c)
BlockingAccepts(c) == WithInner(c)
BlockingRules(c) == WithInner(c)
BlockingPool(c) == WithInner(c)
BlockingHttp(c) == WithInner(c)
BlockingQuic(c) == WithInner(c)
BlockingTcp(c) == WithInner(c)
BlockingCerts(c) == WithInner(c)
BlockingTls(c) == WithInner(c)
BlockingBackend(c) == WithInner(c)
BlockingDns(c) == WithInner(c)

(* Defect: only the async builder learns of the base URL.                  *)
BlockingBaseUrlInside(url) ==
    WithInner(BaseUrl(Inner, url))
BlockingBaseUrl(url) ==
    LET b == WithInner(BaseUrl(Inner, url))
    IN IF b = None THEN None ELSE [b EXCEPT !.baseUrl = url]

BlockingTimeout(t) ==
    IF blocking = None THEN None ELSE [blocking EXCEPT !.timeout = t]

(* None says nothing to the async builder, which has no way to unset it.   *)
BlockingConnectTimeout(t) ==
    IF t = None THEN blocking ELSE WithInner(ConnectTimeout(Inner, t))

(* From<async_impl::ClientBuilder>                                         *)
FromAsync(c) ==
    [inner |-> c, timeout |-> DefaultTimeout, baseUrl |-> c.baseUrl]

(* The client of the blocking builder runs the async one on its thread.    *)
Handle(f, b, luck) ==
    IF Client(f, b.inner, luck) = Error THEN Error
    ELSE [failed |-> FALSE, inner |-> Client(f, b.inner, luck), timeout |-> b.timeout,
          baseUrl |-> b.baseUrl]

(* --- Calls ------------------------------------------------------------- *)

Init ==
    /\ features \in Builds
    /\ config = New(features)
    /\ blocking \in {None, NewBlocking(features)}
    /\ client = None /\ handle = None /\ calls = 0
    /\ asked = <<>>

(* A call turns the async builder into c and the blocking one into b.      *)
Turn(c, b) ==
    /\ client = None /\ calls < MaxCalls
    /\ calls' = calls + 1
    /\ config' = c /\ blocking' = b
    /\ UNCHANGED <<features, client, handle>>

Call(c, b) == Turn(c, b) /\ UNCHANGED asked
CallOfProxies(c, b, what) == Turn(c, b) /\ asked' = Append(asked, what)

SetBaseUrl ==
    \E url \in {"absolute", "relative"} :
        Call(BaseUrl(config, url), BlockingBaseUrl(url))

SetUserAgent ==
    \E value \in {"app", "invalid", None} :
        LET F(c) == UserAgent(c, value)
        IN Call(F(config), BlockingHeaders(F(Inner)))

SetDefaultHeaders ==
    LET F(c) == DefaultHeaders(c, [userAgent |-> "header"])
    IN Call(F(config), BlockingHeaders(F(Inner)))

SetCookies ==
    \E store \in {None, "jar", "custom"} :
        LET F(c) == Cookies(c, store)
        IN Call(F(config), BlockingHeaders(F(Inner)))

(* The blocking builder has no way to set these.                           *)
AsyncOnly == {"http2_keep_alive_interval", "http2_keep_alive_timeout",
              "http2_keep_alive_while_idle", "tls_early_data",
              "windows_named_pipe"}

BlockingKnob(k, c) ==
    CASE k \in Accepts -> BlockingAccepts(c)
      [] k \in Rules -> BlockingRules(c)
      [] k \in PoolKnobs -> BlockingPool(c)
      [] k \in Http1Knobs \cup Http2Knobs -> BlockingHttp(c)
      [] k \in QuicKnobs -> BlockingQuic(c)
      [] k \in TcpKnobs \cup LocalKnobs -> BlockingTcp(c)
      [] k \in TlsKnobs -> BlockingTls(c)
      [] k \in HttpsKnobs -> BlockingBackend(c)

SetKnob ==
    \E k \in Tried, v \in {"off", "on", "too_long"} :
        LET F(c) == Knob(c, k, v)
        IN /\ v = "too_long" => k = "http3_max_idle_timeout"
           /\ k \in QuicKnobs => "http3" \in features
           /\ k \in Http2Knobs => "http2" \in features
           /\ k \in AsyncOnly => blocking = None
           /\ Call(F(config), BlockingKnob(k, F(Inner)))
   
PushMiddleware ==
    /\ blocking = None
    /\ Call(Middleware(config, "m"), blocking)

AddProxy ==
    \E p \in Proxies :
        LET F(c) == Proxy(c, p)
        IN CallOfProxies(F(config), BlockingRules(F(Inner)), p)

UseEnvProxies ==
    LET F(c) == EnvConfigProxy(c)
    IN CallOfProxies(F(config), BlockingRules(F(Inner)), "env")

UseNoProxy ==
    LET F(c) == NoProxy(c)
    IN CallOfProxies(F(config), BlockingRules(F(Inner)), "none")

(* The async builder cannot be told to have no timeout.                    *)
SetTimeout ==
    \E t \in {None, 10, 90} :
        /\ blocking = None => t # None
        /\ IF blocking = None THEN Call([config EXCEPT !.timeout = t], None)
           ELSE Call(config, BlockingTimeout(t))

SetConnectTimeout ==
    \E t \in {None, 5} :
        /\ blocking = None => t # None
        /\ Call(IF t = None THEN config ELSE ConnectTimeout(config, t),
                BlockingConnectTimeout(t))

SetReadTimeout ==
    /\ blocking = None
    /\ Call(ReadTimeout(config, 5), blocking)

SetVersion ==
    \E pref \in {"h1"} \cup {v \in {"h2"} : "http2" \in features}
                       \cup {v \in {"h3"} : "http3" \in features} :
        LET F(c) == Version(c, pref)
        IN Call(F(config), BlockingHttp(F(Inner)))

(* With native TLS a Certificate is parsed when it is made.                *)
AddCerts ==
    \E roots \in {{}} \cup {{r} : r \in Roots \cup
                    (IF "native-tls" \in features THEN {} ELSE {BadRoot})},
       only \in BOOLEAN :
        LET F(c) == IF only THEN CertsOnly(c, roots) ELSE CertsMerge(c, roots)
        IN Call(F(config), BlockingCerts(F(Inner)))

AddCrls ==
    \E l \in Crls \cup {BadCrl} :
        LET F(c) == CrlsOnly(c, {l})
        IN /\ "rustls" \in features
           /\ Call(F(config), BlockingCerts(F(Inner)))

SetIdentity ==
    \E kind \in {k \in {"pem"} : "rustls" \in features}
                \cup {k \in {"pkcs"} : "native-tls" \in features} :
        LET F(c) == WithIdentity(c, kind)
        IN Call(F(config), BlockingCerts(F(Inner)))

AcceptDanger ==
    \E accept \in BOOLEAN, of \in {"hostnames", "certs"} :
        LET F(c) == IF of = "certs" THEN DangerCerts(c, accept)
                    ELSE DangerHostnames(c, accept)
        IN Call(F(config), BlockingTls(F(Inner)))

SetTlsVersion ==
    \E v \in 11..13, min \in BOOLEAN :
        LET F(c) == IF min THEN VersionMin(c, v) ELSE VersionMax(c, v)
        IN Call(F(config), BlockingTls(F(Inner)))

SetBackend ==
    \E b \in {"unknown"}
             \cup {x \in {"native", "built_native"} : "native-tls" \in features}
             \cup {x \in {"rustls", "built_rustls"} : "rustls" \in features} :
        LET F(c) == Backend(c, b)
        IN Call(F(config), BlockingBackend(F(Inner)))

SetResolver ==
    \E d \in Domains, a \in Addrs, what \in {"override", "resolver", "hickory"} :
        LET F(c) == CASE what = "override" -> Override(c, d, a)
                      [] what = "resolver" -> Resolver(c, "custom")
                      [] what = "hickory" -> Hickory(c, FALSE)
        IN Call(F(config), BlockingDns(F(Inner)))

AddLayer ==
    LET F(c) == Layer(c, "layer")
    IN Call(F(config), BlockingDns(F(Inner)))

Convert ==
    /\ blocking = None
    /\ Call(config, FromAsync(config))

Build ==
    /\ client = None
    /\ \E luck \in SUBSET {"platform", "endpoint"} :
          /\ client' = Client(features, config, luck)
          /\ handle' = IF blocking = None THEN None
                       ELSE Handle(features, blocking, luck)
    /\ UNCHANGED <<features, config, blocking, calls, asked>>

Next ==
    \/ SetBaseUrl \/ SetUserAgent \/ SetDefaultHeaders \/ SetCookies
    \/ SetKnob \/ PushMiddleware \/ AddProxy \/ UseEnvProxies \/ UseNoProxy
    \/ SetTimeout \/ SetConnectTimeout \/ SetReadTimeout \/ SetVersion
    \/ AddCerts \/ AddCrls \/ SetIdentity \/ AcceptDanger \/ SetTlsVersion
    \/ SetBackend \/ SetResolver \/ AddLayer \/ Convert \/ Build

Spec == Init /\ [][Next]_vars

(* --- Properties -------------------------------------------------------- *)

Built == client \notin {None, Error}

(* What the caller asked for: unless it turned certificates off, a server  *)
(* shows one of a root that it gave or, if tls_certs_only was never called,*)
(* of the platform's, for the right name unless names are not looked at,   *)
(* and on none of the revocation lists.                                    *)
Peers == [root : Roots \cup {"builtin", "unknown"}, named : BOOLEAN,
          revoked : SUBSET Crls]
Valid(c, peer) ==
    /\ peer.root \in c.roots \/ (peer.root = "builtin" /\ ~c.certsOnly)
    /\ c.hostnames => peer.named
Allowed(c, peer) ==
    \/ ~c.certs
    \/ Valid(c, peer) /\ peer.revoked \cap c.crls = {}

(* The two ways in which a client is built without the lists it was given, *)
(* although it does check certificates: native TLS never sees them, and    *)
(* with the hostnames rustls stops to look at them too.                    *)
CrlsAreIgnored(c) == c.backend = "native" \/ ~c.hostnames

(* Every server that the caller asked to trust is trusted, and no other    *)
(* one, whichever of the verifiers of build and tls.rs is made of its      *)
(* calls; but the lists are left out where CrlsAreIgnored says so.         *)
TrustIsAsAsked ==
    Built /\ config.backend \in {"native", "rustls"} =>
        \A peer \in Peers :
            VerifyServerCert(client.tcp.verifier, peer)
                <=> \/ Allowed(config, peer)
                    \/ CrlsAreIgnored(config) /\ Valid(config, peer)

(* The doc of tls_crls_only: "If CRLs are added but `tls_certs_only()` is  *)
(* not called, the builder will return an error."  build() looks only if   *)
(* rustls is to check both certificates and hostnames.                     *)
CrlsNeedCertsOnly == Built /\ config.crls # {} => config.certsOnly

(* Whatever a server picks from the ALPN protocols it is offered, hyper     *)
(* speaks it and the caller's version preference allows it: hyper speaks    *)
(* HTTP/2 if it is told to, or if the connection negotiated it.  A request  *)
(* is treated alike over TCP and over HTTP/3: the same layers, trust and    *)
(* resolver; and what asks for HTTP/3 and rustls gets it.                   *)
Speaks(c, negotiated) ==
    IF c.h2Only \/ negotiated = "h2" THEN "h2" ELSE "http/1.1"
Allows(pref, protocol) ==
    CASE pref = "h1" -> protocol = "http/1.1"
      [] pref = "h2" -> protocol = "h2"
      [] OTHER -> TRUE
NegotiatesWhatItSpeaks ==
    config.backend \in {"native", "rustls"} =>
        \A p \in client.tcp.alpn :
            /\ Speaks(client.tcp, p) = p
            /\ Allows(config.version, p)
            /\ p = "h2" => "http2" \in features
TransportsAgree ==
    Built => /\ NegotiatesWhatItSpeaks
             /\ client.h3 # NoH3Client =>
                    /\ client.h3.layers = client.tcp.layers
                    /\ client.h3.verifier = client.tcp.verifier
                    /\ client.h3.resolve = client.tcp.resolve
             /\ config.version = "h3" /\ config.backend = "rustls" =>
                    client.h3 # NoH3Client

(* The calls of proxy that no later no_proxy undoes, and whether a call of  *)
(* use_env_proxies is still the last word.                                  *)
Standing == {k \in DOMAIN asked :
               /\ asked[k] \in Proxies
               /\ \A j \in k..Len(asked) : asked[j] # "none"}
EnvStands == \E k \in DOMAIN asked :
                /\ asked[k] = "env"
                /\ \A j \in k..Len(asked) :
                      asked[j] \notin Proxies \cup {"none"}
(* f says which call each of the proxies that were given is from.          *)
Lists(proxies, f) ==
    /\ \A k \in DOMAIN f : proxies[k] = asked[f[k]]
    /\ \A j, k \in DOMAIN f : j < k => f[j] < f[k]
    /\ \A n \in Standing : \E k \in DOMAIN f : f[k] = n
(* The proxies are those added since the last no_proxy, in the order they   *)
(* were added, and the environment's after them only if it was asked for    *)
(* since the last call of proxy or no_proxy.                                *)
ProxiesAreAsAsked ==
    LET len == Len(client.proxies)
        given == IF EnvStands THEN len - 1 ELSE len
    IN Built => /\ EnvStands => len > 0 /\ client.proxies[len] = "system"
                /\ \E f \in [1..given -> Standing] : Lists(client.proxies, f)

(* A blocking client is the async client of the same calls, and both know   *)
(* the same base URL, even if the builder was converted half way.           *)
BlockingAgrees ==
    blocking # None =>
        /\ blocking.inner = config
        /\ blocking.baseUrl = config.baseUrl
        /\ handle # None => IF handle = Error THEN client = Error
                            ELSE handle.inner = client

-----------------------------------------------------------------------------
(* The inductive invariant behind trust, transports and the blocking       *)
(* builder: a preference is for a protocol that is compiled in, the        *)
(* blocking builder is the other one with a timeout of its own, and what   *)
(* was built is of the present builder.                                    *)
Preferred ==
    /\ {"version", "baseUrl"} \subseteq DOMAIN config
    /\ config.version \in {"all", "h1", "h2", "h3"}
    /\ config.version = "h2" => "http2" \in features
    /\ config.version = "h3" => "http3" \in features
Follows ==
    blocking # None =>
        blocking = [inner |-> config, timeout |-> blocking.timeout,
                    baseUrl |-> config.baseUrl]
HandleOf ==
    handle # None => IF handle = Error THEN client = Error
                     ELSE handle.inner = client
BuiltOf ==
    Built => \E luck \in SUBSET {"platform", "endpoint"} :
                client = Client(features, config, luck)

(* ... and behind the proxies: those of the builder are those that stand.  *)
ProxiesFollow ==
    /\ {"proxies", "envProxy"} \subseteq DOMAIN config
    /\ config.proxies \in Seq(Proxies)
    /\ asked \in Seq(Proxies \cup {"env", "none"})
    /\ config.envProxy <=> EnvStands
    /\ \E f \in [1..Len(config.proxies) -> Standing] :
          Lists(config.proxies, f)

IInv == Preferred /\ Follows /\ HandleOf /\ BuiltOf

=============================================================================
