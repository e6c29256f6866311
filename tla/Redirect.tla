------------------------------ MODULE Redirect ------------------------------
(***************************************************************************)
(* Redirect chains of concurrent requests that share a cookie jar:         *)
(* TowerRedirectPolicy (redirect.rs) and CookieService (cookie.rs), driven *)
(* by tower-http's FollowRedirect (external), which is above them.         *)
(*                                                                         *)
(* A hop is one call of the stack below FollowRedirect; what the retries   *)
(* below do to it, and the deadline it carries, are in Retry and           *)
(* Deadlines.  Requests have no Cookie header of their own, and headers    *)
(* other than Cookie and Referer are left out.                             *)
(***************************************************************************)
EXTENDS Naturals, Sequences

CONSTANTS None,
          Requests,     \* requests of one client
          Urls,         \* records [scheme, host]
          Limit,        \* max of Policy::limited(max)
          SendReferer,  \* ClientBuilder::referer
          MaxHops       \* bound: redirects the server sends per request

Schemes == {"http", "https", "other"}
Hosts == {u.host : u \in Urls}

ASSUME RedirectAssumption ==
    /\ Urls \subseteq [scheme : Schemes, host : Hosts]
    /\ None \notin Urls
    /\ Limit \in Nat /\ MaxHops \in Nat
    /\ SendReferer \in BOOLEAN

(* PolicyKind; a custom policy may answer anything.                        *)
Policies == {"limit", "none", "custom"}

VARIABLES policy,     \* the client's redirect policy
          httpsOnly,  \* ClientBuilder::https_only
          jar,        \* the cookie store: the last cookie of each host
          pc,         \* where each request is
          chain       \* each request's FollowRedirect future, see Chains

config == <<policy, httpsOnly>>
vars == <<config, jar, pc, chain>>

Methods == {"GET", "HEAD", "POST"}

(* url, method, payload, referer and cookie are the hop's: payload tells   *)
(* whether it has the caller's, cookie is 0 if there is none.  body is the *)
(* BodyRepr: what may still be sent.  urls is TowerRedirectPolicy.urls.    *)
(* History: sent, the URLs the request was sent to; posted, the caller's   *)
(* payload; got, the last cookie it was given by each host.                *)
Chains == [url : Urls, method : Methods, payload : BOOLEAN,
           referer : Urls \cup {None}, cookie : Nat,
           body : {"none", "empty", "some"}, urls : Seq(Urls),
           sent : Seq(Urls), posted : BOOLEAN, got : [Hosts -> Nat]]

(* "ready": the request of a hop is made, and is sent at the next poll.    *)
Running == {"ready", "sent"}

TypeOK ==
    /\ policy \in Policies /\ httpsOnly \in BOOLEAN
    /\ jar \in [Hosts -> Nat]
    /\ pc \in [Requests -> {"new", "over"} \cup Running]
    /\ chain \in [Requests -> Chains \cup {None}]
    /\ \A r \in Requests :
          chain[r] \in IF pc[r] \in Running THEN Chains ELSE {None}

Init ==
    /\ policy \in Policies /\ httpsOnly \in BOOLEAN
    /\ jar = [h \in Hosts |-> 0]
    /\ pc = [r \in Requests |-> "new"]
    /\ chain = [r \in Requests |-> None]

-----------------------------------------------------------------------------
LastOf(s) == s[Len(s)]

(* make_referer                                                            *)
MakeReferer(next, previous) ==
    IF next.scheme = "http" /\ previous.scheme = "https" THEN None
    ELSE previous

(* TowerRedirectPolicy::on_request                                         *)
OnRequest(next, previous) ==
    IF SendReferer /\ previous # << >>
    THEN MakeReferer(next, LastOf(previous)) ELSE None

(* The caller has the response or an error, or has given up.               *)
Over(r) ==
    /\ pc' = [pc EXCEPT ![r] = "over"]
    /\ chain' = [chain EXCEPT ![r] = None]

(* What client and policy ask of any URL.                                  *)
Allowed(u) ==
    /\ u.scheme \in {"http", "https"}
    /\ httpsOnly => u.scheme = "https"

(* Client::execute_without_middleware.  The caller's body may be empty; if *)
(* it can be cloned, FollowRedirect keeps a clone.                         *)
Execute(r, u, m, full, clonable) ==
    /\ pc[r] = "new"
    /\ full => m = "POST"
    /\ ~full => clonable
    /\ IF Allowed(u)
       THEN /\ pc' = [pc EXCEPT ![r] = "ready"]
            /\ chain' = [chain EXCEPT ![r] =
                  [url |-> u, method |-> m, payload |-> full,
                   referer |-> OnRequest(u, << >>), cookie |-> 0,
                   body |-> IF clonable THEN "some" ELSE "none",
                   urls |-> << >>, sent |-> << >>, posted |-> full,
                   got |-> [h \in Hosts |-> 0]]]
       ELSE Over(r)
    /\ UNCHANGED <<config, jar>>

(* Defect: cookies are added once, above the redirects.                    *)
SendFirstCookies(r) ==
    /\ pc[r] = "ready"
    /\ pc' = [pc EXCEPT ![r] = "sent"]
    /\ chain' = [chain EXCEPT
            ![r].cookie = IF chain[r].sent = << >>
                          THEN jar[chain[r].url.host] ELSE @,
            ![r].sent = Append(@, chain[r].url)]
    /\ UNCHANGED <<config, jar>>

(* CookieService::call adds the jar's cookies and the hop is sent.         *)
Send(r) ==
    /\ pc[r] = "ready"
    /\ pc' = [pc EXCEPT ![r] = "sent"]
    /\ chain' = [chain EXCEPT ![r].cookie = jar[chain[r].url.host],
                              ![r].sent = Append(@, chain[r].url)]
    /\ UNCHANGED <<config, jar>>

(* CookieService's ResponseFuture stores what the response of a hop sets,  *)
(* before FollowRedirect sees the response.                                *)
StoreCookies(r, sets) ==
    jar' = IF sets THEN [jar EXCEPT ![chain[r].url.host] = @ + 1] ELSE jar

(* A response that is not a redirect, or has no usable Location, or that   *)
(* would need a body which is gone, is the caller's.                       *)
Responds(r, sets) ==
    /\ pc[r] = "sent"
    /\ StoreCookies(r, sets)
    /\ Over(r)
    /\ UNCHANGED config

(* FollowRedirect: what a redirect does to the method and the body.        *)
Redirects == {"found", "see_other", "temporary"}

BecomesGet(status, m) ==
    \/ status = "found" /\ m = "POST"
    \/ status = "see_other" /\ m # "HEAD"

BodyAfter(status, m, b) ==
    IF status = "see_other" \/ BecomesGet(status, m) THEN "empty" ELSE b

(* Defect: one redirect more is followed.                                  *)
AnswersOneMore(previous) ==
    IF policy = "limit" /\ Len(previous) <= Limit + 1
    THEN {"follow"} ELSE {"error"}

(* Policy::redirect: what the policy may answer, after previous.           *)
Answers(previous) ==
    CASE policy = "limit"  -> IF Len(previous) > Limit THEN {"error"}
                                                       ELSE {"follow"}
      [] policy = "none"   -> {"stop"}
      [] policy = "custom" -> {"follow", "stop", "error"}

(* Defect: urls remembers the URL that is followed, not the one it is from. *)
RememberNext(urls, url, next) == Append(urls, next)

(* urls once TowerRedirectPolicy::redirect has pushed onto it.             *)
Remember(urls, url, next) == Append(urls, url)

(* A redirect whose next hop has a body to send: the policy is asked, and  *)
(* the next URL is checked only if it says to follow.                      *)
Redirected(r, status, next, sets) ==
    LET c == chain[r]
        b == BodyAfter(status, c.method, c.body)
        previous == Remember(c.urls, c.url, next)
    IN  /\ pc[r] = "sent"
        /\ Len(c.sent) <= MaxHops
        /\ b # "none"
        /\ StoreCookies(r, sets)
        /\ \E answer \in Answers(previous) :
              IF answer = "follow" /\ Allowed(next)
              THEN /\ pc' = [pc EXCEPT ![r] = "ready"]
                   /\ chain' = [chain EXCEPT ![r] =
                        [c EXCEPT !.url = next,
                                  !.method = IF BecomesGet(status, @)
                                             THEN "GET" ELSE @,
                                  !.payload = @ /\ b = "some",
                                  !.referer = OnRequest(next, previous),
                                  !.body = b,
                                  !.urls = previous,
                                  !.got[c.url.host] = jar'[c.url.host]]]
              ELSE Over(r)
        /\ UNCHANGED config

(* The exchange fails, or the caller gives up.                             *)
Ends(r) ==
    /\ pc[r] \in Running
    /\ Over(r)
    /\ UNCHANGED <<config, jar>>

Quiescent ==
    /\ \A r \in Requests : pc[r] = "over"
    /\ UNCHANGED vars

Next ==
    \/ \E r \in Requests :
        \/ \E u \in Urls, m \in Methods, full, clonable \in BOOLEAN :
              Execute(r, u, m, full, clonable)
        \/ Send(r)
        \/ \E sets \in BOOLEAN : Responds(r, sets)
        \/ \E status \in Redirects, next \in Urls, sets \in BOOLEAN :
              Redirected(r, status, next, sets)
        \/ Ends(r)
    \/ Quiescent

Spec == Init /\ [][Next]_vars

-----------------------------------------------------------------------------
(* Properties.                                                             *)

(* Policy::limited(max) follows max redirects and not one more, in chains  *)
(* that run at the same time: the initial URL does not count.              *)
LimitIsKept ==
    policy = "limit" =>
        \A r \in Requests : pc[r] = "sent" => Len(chain[r].sent) <= Limit + 1

(* No custom policy and no chain, however long, leads to a scheme that is  *)
(* not supported, and none leaves https with https_only.                   *)
OnlyHttps ==
    \A r \in Requests : pc[r] = "sent" =>
        \A i \in 1..Len(chain[r].sent) :
            chain[r].sent[i].scheme \in
                IF httpsOnly THEN {"https"} ELSE {"http", "https"}

(* Together: no policy's answer takes a chain past what the client allows. *)
ChainIsAllowed == LimitIsKept /\ OnlyHttps

(* Attempt::previous() is "the list of previous URLs that have already     *)
(* been requested in this chain": all of them, in order, and none of       *)
(* another request's.                                                      *)
ChainIsRemembered ==
    \A r \in Requests :
        /\ pc[r] = "ready" => chain[r].sent = chain[r].urls
        /\ pc[r] = "sent" =>
              chain[r].sent = Append(chain[r].urls, chain[r].url)

(* A hop names the one before it, but never an https page to an http one.  *)
RefererIsPrevious ==
    \A r \in Requests :
        pc[r] = "sent" /\ chain[r].referer # None =>
            LET n == Len(chain[r].sent)
            IN  /\ n > 1
                /\ chain[r].referer = chain[r].sent[n - 1]
                /\ chain[r].url.scheme = "http" =>
                      chain[r].referer.scheme = "http"

(* A hop carries what the responses before it have set for its host, or    *)
(* what another request was given for it since.                            *)
CookiesAreFresh ==
    \A r \in Requests :
        pc[r] = "sent" => chain[r].cookie >= chain[r].got[chain[r].url.host]

(* However a chain mixes redirects, a hop that is a POST has the caller's  *)
(* payload, if there was one, and no other hop has it.                     *)
PayloadGoesWithPost ==
    \A r \in Requests :
        pc[r] \in Running =>
            chain[r].payload = (chain[r].posted /\ chain[r].method = "POST")

-----------------------------------------------------------------------------
(* The inductive invariant behind the safety properties.                   *)

(* The memory of a chain that runs, and what its next or current hop has.  *)
MemoryOf(r) ==
    LET c == chain[r]
    IN  /\ c.sent = IF pc[r] = "ready" THEN c.urls ELSE Append(c.urls, c.url)
        /\ policy = "limit" => Len(c.urls) <= Limit
        /\ Allowed(c.url)
        /\ \A i \in 1..Len(c.urls) : Allowed(c.urls[i])
        /\ c.referer # None =>
              /\ c.urls # << >>
              /\ c.referer = LastOf(c.urls)
              /\ c.url.scheme = "http" => c.referer.scheme # "https"
        /\ c.body = "empty" => c.method # "POST"
        /\ c.payload = (c.posted /\ c.method = "POST")

CookiesOf(r) ==
    LET c == chain[r]
    IN  /\ \A h \in Hosts : c.got[h] <= jar[h]
        /\ pc[r] = "sent" => c.got[c.url.host] <= c.cookie

IInv ==
    /\ TypeOK
    /\ \A r \in Requests : pc[r] \in Running => MemoryOf(r) /\ CookiesOf(r)
=============================================================================
