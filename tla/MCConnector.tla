----------------------------- MODULE MCConnector -----------------------------
(***************************************************************************)
(* Connector for TLC: an origin with http and https, one the proxies are   *)
(* told to leave alone, and a client for every route a connection can take *)
(* and every way the proxies of a client can be combined.                  *)
(***************************************************************************)
EXTENDS Connector, TLC

Url(scheme, host) == [scheme |-> scheme, host |-> host, port |-> None,
                      creds |-> None]

MCDests == {Url("http", "a"), Url("https", "a"), Url("http", "b")}

Plain == WithBasicAuth(NewProxy("http", {Url("http", "p")}), "u:p")
Secured == WithHeaders(WithHttpAuth(
               WithNoProxy(NewProxy("all", {Url("https", "s")}), {"b"}),
               "token"), "headers")
Socks4 == NewProxy("all", {Url("socks4", "k")})
Socks5h == WithBasicAuth(NewProxy("https", {Url("socks5h", "k")}), "u:p")
Fixed == WithNoProxy(WithBasicAuth(NewProxy("custom", {Url(None, "f")}), "c:c"),
                     {"b"})
Rotating == WithHeaders(NewProxy("custom", {None, Url("http", "p"),
                                            Url("https", "q")}), "headers")

Base == [backend |-> "rustls", h2 |-> TRUE, nodelay |-> FALSE,
         tlsInfo |-> TRUE, local |-> FALSE, proxies |-> <<>>,
         timeout |-> None, limit |-> 0]
With(proxies) == [Base EXCEPT !.proxies = proxies]

MCConfigs ==
    {With(ps) : ps \in {<<>>, <<Plain>>, <<Secured>>, <<Plain, Socks5h>>,
                        <<Socks4, Plain>>, <<Fixed>>, <<Rotating>>}}
    \cup {[With(ps) EXCEPT !.backend = "native"] :
            ps \in {<<>>, <<Secured>>, <<Socks5h>>}}
    \cup {[With(<<Secured>>) EXCEPT !.nodelay = TRUE, !.h2 = FALSE],
          [With(<<Secured>>) EXCEPT !.local = TRUE]}
    \cup {[With(ps) EXCEPT !.timeout = 2, !.limit = limit] :
            ps \in {<<>>, <<Secured>>}, limit \in {0, 1}}

Symmetry == Permutations(Requests)
=============================================================================
