--------------------------- MODULE MCClientBuilder ---------------------------
(***************************************************************************)
(* ClientBuilder for TLC: the ways to compile reqwest that build() tells   *)
(* apart, and a knob of each kind that a property looks at.                *)
(***************************************************************************)
EXTENDS ClientBuilder, TLC

MCBuilds == {{"native-tls"}, {"rustls", "http2", "http3"},
             {"rustls", "native-tls", "native-tls-alpn", "http2"},
             {"rustls", "native-tls", "native-tls-alpn", "http3", "http2",
              "hickory-dns"}}

MCTried == {"deflate", "redirect", "http2_keep_alive_interval",
            "http3_max_idle_timeout"}

Symmetry == Permutations(Proxies)
=============================================================================
