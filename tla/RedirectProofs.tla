--------------------------- MODULE RedirectProofs ---------------------------
(***************************************************************************)
(* Proofs about Redirect, for any requests, URLs and limit: the inductive  *)
(* invariant and the safety properties of redirect chains.                 *)
(***************************************************************************)
EXTENDS Redirect, TLAPS

(* Initially no chain runs.                                                *)
LEMMA IInvInitially == Init => IInv
  BY RedirectAssumption DEF Init, IInv, TypeOK, Running

(* A step that leaves a chain alone, and does not take cookies from the    *)
(* jar, keeps what the invariant says of it.                               *)
LEMMA OthersKeep ==
  ASSUME IInv, NEW q \in Requests, pc[q] \in Running,
         pc'[q] = pc[q], chain'[q] = chain[q], UNCHANGED config,
         \A h \in Hosts : jar[h] <= jar'[h], jar' \in [Hosts -> Nat]
  PROVE  MemoryOf(q)' /\ CookiesOf(q)'
<1>1. chain[q] \in Chains /\ jar \in [Hosts -> Nat]
  BY DEF IInv, TypeOK
<1>2. MemoryOf(q) /\ CookiesOf(q)
  BY DEF IInv
<1>3. MemoryOf(q)'
  BY <1>2 DEF MemoryOf, Allowed, config
<1>4. CookiesOf(q)'
  <2>1. ASSUME NEW h \in Hosts
        PROVE  chain[q].got[h] <= jar'[h]
    <3>1. chain[q].got[h] \in Nat /\ jar[h] \in Nat /\ jar'[h] \in Nat
      BY <1>1 DEF Chains
    <3>2. QED
      BY <1>2, <3>1 DEF CookiesOf
  <2>2. QED
    BY <1>2, <2>1 DEF CookiesOf
<1>5. QED
  BY <1>3, <1>4

(* A chain that is over is nobody's concern.                               *)
LEMMA OverPreserves ==
  ASSUME IInv, NEW r \in Requests, Over(r), UNCHANGED config,
         \A h \in Hosts : jar[h] <= jar'[h], jar' \in [Hosts -> Nat]
  PROVE  IInv'
<1>1. TypeOK'
  BY DEF IInv, TypeOK, Over, Running, config
<1>2. ASSUME NEW q \in Requests, pc'[q] \in Running
      PROVE  MemoryOf(q)' /\ CookiesOf(q)'
  <2>1. pc'[q] = pc[q] /\ chain'[q] = chain[q] /\ pc[q] \in Running
    BY <1>2 DEF IInv, TypeOK, Over, Running
  <2>2. QED
    BY <2>1, OthersKeep
<1>3. QED
  BY <1>1, <1>2 DEF IInv, Running

(* A step of one chain preserves the invariant if it does for that chain.  *)
LEMMA HopPreserves ==
  ASSUME IInv, NEW r \in Requests, NEW c \in Chains, NEW p \in Running,
         pc' = [pc EXCEPT ![r] = p], chain' = [chain EXCEPT ![r] = c],
         UNCHANGED config,
         \A h \in Hosts : jar[h] <= jar'[h], jar' \in [Hosts -> Nat],
         MemoryOf(r)', CookiesOf(r)'
  PROVE  IInv'
<1>1. TypeOK'
  BY DEF IInv, TypeOK, Running, config
<1>2. ASSUME NEW q \in Requests, pc'[q] \in Running
      PROVE  MemoryOf(q)' /\ CookiesOf(q)'
  <2>1. CASE q # r
    <3>1. pc'[q] = pc[q] /\ chain'[q] = chain[q]
      BY <2>1 DEF IInv, TypeOK
    <3>2. QED
      BY <1>2, <3>1, OthersKeep
  <2>2. QED
    BY <2>1
<1>3. QED
  BY <1>1, <1>2 DEF IInv, Running

(* A chain that starts remembers nothing.                                  *)
LEMMA ExecutePreserves ==
  ASSUME IInv, NEW r \in Requests, NEW u \in Urls, NEW m \in Methods,
         NEW full \in BOOLEAN, NEW clonable \in BOOLEAN,
         Execute(r, u, m, full, clonable)
  PROVE  IInv'
<1> USE RedirectAssumption DEF Execute
<1>1. /\ UNCHANGED config /\ UNCHANGED jar /\ jar \in [Hosts -> Nat]
      /\ jar' \in [Hosts -> Nat] /\ \A h \in Hosts : jar[h] <= jar'[h]
  BY DEF IInv, TypeOK
<1>2. CASE Allowed(u)
  <2> DEFINE c == [url |-> u, method |-> m, payload |-> full,
                   referer |-> OnRequest(u, << >>), cookie |-> 0,
                   body |-> IF clonable THEN "some" ELSE "none",
                   urls |-> << >>, sent |-> << >>, posted |-> full,
                   got |-> [h \in Hosts |-> 0]]
  <2>1. c \in Chains
    BY DEF Chains, OnRequest
  <2>2. chain' = [chain EXCEPT ![r] = c] /\ pc' = [pc EXCEPT ![r] = "ready"]
    BY <1>2
  <2>3. /\ c.sent = << >> /\ c.urls = << >> /\ c.referer = None /\ c.url = u
        /\ c.payload = full /\ c.posted = full /\ c.method = m
        /\ c.body # "empty" /\ c.got = [h \in Hosts |-> 0]
        /\ full => m = "POST"
    BY DEF OnRequest
  <2> HIDE DEF c
  <2>4. chain'[r] = c /\ pc'[r] = "ready"
    BY <2>2 DEF IInv, TypeOK
  <2>5. MemoryOf(r)' /\ CookiesOf(r)'
    BY <1>1, <1>2, <2>3, <2>4 DEF MemoryOf, CookiesOf, Allowed, config
  <2>6. QED
    BY <1>1, <2>1, <2>2, <2>5, HopPreserves DEF Running
<1>3. CASE ~Allowed(u)
  BY <1>1, <1>3, OverPreserves
<1>4. QED
  BY <1>2, <1>3

(* A hop that is sent is added to the URLs sent to, and has the jar's      *)
(* cookies.                                                                *)
LEMMA SendPreserves ==
  ASSUME IInv, NEW r \in Requests, Send(r)
  PROVE  IInv'
<1> DEFINE old == chain[r]
           c == [old EXCEPT !.cookie = jar[old.url.host],
                            !.sent = Append(@, old.url)]
<1>1. old \in Chains /\ MemoryOf(r) /\ CookiesOf(r) /\ pc[r] = "ready"
  BY DEF Send, IInv, TypeOK, Running
<1>2. old.url.host \in Hosts /\ jar \in [Hosts -> Nat]
  BY <1>1 DEF IInv, TypeOK, Chains, Hosts
<1>3. /\ chain' = [chain EXCEPT ![r] = c]
      /\ pc' = [pc EXCEPT ![r] = "sent"]
      /\ UNCHANGED config /\ UNCHANGED jar
  BY DEF Send, IInv, TypeOK
<1>4. c \in Chains
  <2>1. jar[old.url.host] \in Nat /\ Append(old.sent, old.url) \in Seq(Urls)
    BY <1>1, <1>2 DEF Chains
  <2>2. QED
    BY <1>1, <2>1 DEF Chains
<1>5. /\ c.sent = Append(old.urls, old.url) /\ c.cookie = jar[old.url.host]
      /\ c.url = old.url /\ c.urls = old.urls /\ c.referer = old.referer
      /\ c.body = old.body /\ c.method = old.method
      /\ c.payload = old.payload /\ c.posted = old.posted /\ c.got = old.got
  BY <1>1 DEF Chains, MemoryOf
<1> HIDE DEF c
<1>6. chain'[r] = c /\ pc'[r] = "sent"
  BY <1>3 DEF IInv, TypeOK
<1>7. MemoryOf(r)'
  <2>1. /\ policy' = policy
        /\ \A u : Allowed(u)' = Allowed(u)
    BY <1>3 DEF Allowed, config
  <2>2. /\ policy = "limit" => Len(old.urls) <= Limit
        /\ Allowed(old.url) /\ \A i \in 1..Len(old.urls) : Allowed(old.urls[i])
        /\ old.referer # None =>
              /\ old.urls # << >> /\ old.referer = LastOf(old.urls)
              /\ old.url.scheme = "http" => old.referer.scheme # "https"
        /\ old.body = "empty" => old.method # "POST"
        /\ old.payload = (old.posted /\ old.method = "POST")
    BY <1>1 DEF MemoryOf
  <2> HIDE DEF old
  <2>3. QED
    BY <1>5, <1>6, <2>1, <2>2 DEF MemoryOf
<1>8. CookiesOf(r)'
  BY <1>1, <1>2, <1>3, <1>5, <1>6 DEF CookiesOf
<1>9. jar' \in [Hosts -> Nat] /\ \A h \in Hosts : jar[h] <= jar'[h]
  BY <1>2, <1>3
<1>10. QED
  BY <1>3, <1>4, <1>7, <1>8, <1>9, HopPreserves DEF Running

(* Storing cookies makes no host's older.                                  *)
LEMMA StoreCookiesGrows ==
  ASSUME IInv, NEW r \in Requests, NEW sets \in BOOLEAN, StoreCookies(r, sets)
  PROVE  jar' \in [Hosts -> Nat] /\ \A h \in Hosts : jar[h] <= jar'[h]
<1>1. jar \in [Hosts -> Nat]
  BY DEF IInv, TypeOK
<1>2. jar' = jar \/ jar' = [jar EXCEPT ![chain[r].url.host] = @ + 1]
  BY DEF StoreCookies
<1>3. QED
  BY <1>1, <1>2

(* A redirect that is followed is remembered, and its next hop is allowed. *)
LEMMA RedirectedPreserves ==
  ASSUME IInv, NEW r \in Requests, NEW status \in Redirects, NEW next \in Urls,
         NEW sets \in BOOLEAN, Redirected(r, status, next, sets)
  PROVE  IInv'
<1> DEFINE old == chain[r]
           b == BodyAfter(status, old.method, old.body)
           previous == Remember(old.urls, old.url, next)
           c == [old EXCEPT !.url = next,
                            !.method = IF BecomesGet(status, @)
                                       THEN "GET" ELSE @,
                            !.payload = @ /\ b = "some",
                            !.referer = OnRequest(next, previous),
                            !.body = b,
                            !.urls = previous,
                            !.got[old.url.host] = jar'[old.url.host]]
<1>1. old \in Chains /\ MemoryOf(r) /\ CookiesOf(r) /\ pc[r] = "sent"
  BY DEF Redirected, IInv, TypeOK, Running
<1>2. /\ b # "none" /\ UNCHANGED config
      /\ jar' \in [Hosts -> Nat] /\ \A h \in Hosts : jar[h] <= jar'[h]
  BY StoreCookiesGrows DEF Redirected
<1>3. old.url \in Urls /\ old.url.host \in Hosts /\ jar \in [Hosts -> Nat]
  BY <1>1 DEF Chains, Hosts, IInv, TypeOK
<1>4. ASSUME NEW answer \in Answers(previous), answer = "follow",
             Allowed(next),
             pc' = [pc EXCEPT ![r] = "ready"],
             chain' = [chain EXCEPT ![r] = c]
      PROVE  IInv'
  <2>1. /\ previous \in Seq(Urls) /\ previous # << >>
        /\ previous = old.sent /\ LastOf(previous) = old.url
        /\ Len(previous) = Len(old.urls) + 1
        /\ \A i \in 1..Len(previous) : Allowed(previous[i])
    <3>1. old.urls \in Seq(Urls) /\ previous = Append(old.urls, old.url)
      BY <1>1 DEF Chains, Remember
    <3>2. \A i \in 1..Len(old.urls) : Allowed(old.urls[i])
      BY <1>1 DEF MemoryOf
    <3>3. Allowed(old.url) /\ old.sent = Append(old.urls, old.url)
      BY <1>1 DEF MemoryOf
    <3>4. QED
      BY <1>3, <3>1, <3>2, <3>3 DEF LastOf
  <2>2. policy = "limit" => Len(previous) <= Limit
    BY <1>4, <2>1, RedirectAssumption DEF Answers
  <2>3. /\ OnRequest(next, previous) \in {None, old.url}
        /\ OnRequest(next, previous) # None /\ next.scheme = "http" =>
              OnRequest(next, previous).scheme # "https"
    BY <2>1 DEF OnRequest, MakeReferer
  <2>4. b \in {"empty", "some"}
    BY <1>1, <1>2 DEF Chains, BodyAfter
  <2>5. c \in Chains
    BY ZenonT(40), <1>1, <1>2, <1>3, <2>1, <2>3, <2>4 DEF Chains, Methods
  <2>6. /\ c.url = next /\ c.urls = previous /\ c.sent = old.sent
        /\ c.referer = OnRequest(next, previous) /\ c.body = b
        /\ c.payload = (old.payload /\ b = "some") /\ c.posted = old.posted
        /\ c.method = IF BecomesGet(status, old.method) THEN "GET"
                                                        ELSE old.method
        /\ c.got = [old.got EXCEPT ![old.url.host] = jar'[old.url.host]]
    BY <1>1 DEF Chains
  <2>7. /\ b = "empty" => c.method # "POST"
        /\ c.payload = (c.posted /\ c.method = "POST")
    BY <1>1, <2>4, <2>6
    DEF Chains, Methods, Redirects, MemoryOf, BodyAfter, BecomesGet
  <2> HIDE DEF c, previous, b
  <2>8. chain'[r] = c /\ pc'[r] = "ready"
    BY <1>4 DEF IInv, TypeOK
  <2>9. MemoryOf(r)'
    BY <1>2, <1>4, <2>1, <2>2, <2>3, <2>6, <2>7, <2>8
    DEF MemoryOf, Allowed, config
  <2>10. CookiesOf(r)'
    <3>1. ASSUME NEW h \in Hosts
          PROVE  c.got[h] <= jar'[h]
      <4>1. old.got[h] \in Nat /\ jar[h] \in Nat /\ jar'[h] \in Nat
        BY <1>1, <1>2, <1>3 DEF Chains
      <4>2. old.got[h] <= jar[h]
        BY <1>1 DEF CookiesOf
      <4>3. c.got[h] = IF h = old.url.host THEN jar'[h] ELSE old.got[h]
        BY <1>1, <2>6 DEF Chains
      <4>4. QED
        BY <1>2, <4>1, <4>2, <4>3
    <3>2. QED
      BY <2>8, <3>1 DEF CookiesOf
  <2>11. QED
    BY <1>2, <1>4, <2>5, <2>9, <2>10, HopPreserves DEF Running
<1>5. CASE Over(r)
  BY <1>2, <1>5, OverPreserves
<1>6. QED
  BY <1>4, <1>5 DEF Redirected

(* Every step of a chain preserves the inductive invariant.                *)
LEMMA IInvPreserved == IInv /\ [Next]_vars => IInv'
<1> SUFFICES ASSUME IInv, [Next]_vars
             PROVE  IInv'
  OBVIOUS
<1>1. UNCHANGED jar =>
         jar' \in [Hosts -> Nat] /\ \A h \in Hosts : jar[h] <= jar'[h]
  BY DEF IInv, TypeOK
<1>2. ASSUME NEW r \in Requests, NEW sets \in BOOLEAN, Responds(r, sets)
      PROVE  IInv'
  BY <1>2, StoreCookiesGrows, OverPreserves DEF Responds
<1>3. ASSUME NEW r \in Requests, Ends(r)
      PROVE  IInv'
  BY <1>1, <1>3, OverPreserves DEF Ends
<1>4. CASE UNCHANGED vars
  BY <1>4 DEF IInv, TypeOK, MemoryOf, CookiesOf, Allowed, vars, config
<1>5. QED
  BY <1>2, <1>3, <1>4, ExecutePreserves, SendPreserves, RedirectedPreserves
  DEF Next, Quiescent

-----------------------------------------------------------------------------
(* The inductive invariant holds in every state of the chains.             *)
THEOREM RedirectInvariant == Spec => []IInv
  BY IInvInitially, IInvPreserved, PTL DEF Spec

(* Chains, the jar and the policy keep their types.                        *)
THEOREM TypeCorrect == Spec => []TypeOK
<1>1. IInv => TypeOK
  BY DEF IInv
<1>2. QED
  BY <1>1, RedirectInvariant, PTL

(* No chain has more than Limit redirects.                                 *)
THEOREM LimitHolds == Spec => []LimitIsKept
<1>1. IInv => LimitIsKept
  <2> SUFFICES ASSUME IInv, policy = "limit", NEW r \in Requests,
                      pc[r] = "sent"
               PROVE  Len(chain[r].sent) <= Limit + 1
    BY DEF LimitIsKept
  <2>1. chain[r].urls \in Seq(Urls) /\ chain[r].url \in Urls /\ MemoryOf(r)
    BY DEF IInv, TypeOK, Running, Chains
  <2>2. QED
    BY <2>1, RedirectAssumption DEF MemoryOf
<1>2. QED
  BY <1>1, RedirectInvariant, PTL

(* No chain ever leaves the schemes it is allowed.                         *)
THEOREM SchemesHold == Spec => []OnlyHttps
<1>1. IInv => OnlyHttps
  <2> SUFFICES ASSUME IInv, NEW r \in Requests, pc[r] = "sent",
                      NEW i \in 1..Len(chain[r].sent)
               PROVE  Allowed(chain[r].sent[i])
    BY DEF OnlyHttps, Allowed
  <2>1. chain[r].urls \in Seq(Urls) /\ chain[r].url \in Urls /\ MemoryOf(r)
    BY DEF IInv, TypeOK, Running, Chains
  <2>2. QED
    BY <2>1 DEF MemoryOf
<1>2. QED
  BY <1>1, RedirectInvariant, PTL

(* Whatever a policy answers, a chain stays within the limit and within    *)
(* the schemes the client allows.                                          *)
THEOREM ChainsAllowed == Spec => []ChainIsAllowed
<1>1. LimitIsKept /\ OnlyHttps => ChainIsAllowed
  BY DEF ChainIsAllowed
<1>2. QED
  BY <1>1, LimitHolds, SchemesHold, PTL

(* A chain remembers exactly the URLs it was sent to.                      *)
THEOREM MemoryHolds == Spec => []ChainIsRemembered
<1>1. IInv => ChainIsRemembered
  BY DEF IInv, Running, MemoryOf, ChainIsRemembered
<1>2. QED
  BY <1>1, RedirectInvariant, PTL

(* A referer is the hop before, and never an https URL on an http hop.     *)
THEOREM RefererHolds == Spec => []RefererIsPrevious
<1>1. IInv => RefererIsPrevious
  <2> SUFFICES ASSUME IInv, NEW r \in Requests, pc[r] = "sent",
                      chain[r].referer # None
               PROVE  LET n == Len(chain[r].sent)
                      IN  /\ n > 1
                          /\ chain[r].referer = chain[r].sent[n - 1]
                          /\ chain[r].url.scheme = "http" =>
                                chain[r].referer.scheme = "http"
    BY DEF RefererIsPrevious
  <2> DEFINE c == chain[r]
  <2>1. /\ c.urls \in Seq(Urls) /\ c.url \in Urls
        /\ c.sent = Append(c.urls, c.url) /\ c.urls # << >>
        /\ c.referer = c.urls[Len(c.urls)]
        /\ c.url.scheme = "http" => c.referer.scheme # "https"
        /\ \A i \in 1..Len(c.urls) : Allowed(c.urls[i])
    BY DEF IInv, TypeOK, Running, Chains, MemoryOf, LastOf
  <2>2. Len(c.urls) \in 1..Len(c.urls) /\ Len(c.sent) = Len(c.urls) + 1
    BY <2>1
  <2>3. c.referer.scheme \in {"http", "https"}
    BY <2>1, <2>2 DEF Allowed
  <2>4. QED
    BY <2>1, <2>2, <2>3
<1>2. QED
  BY <1>1, RedirectInvariant, PTL

(* A hop has the cookies that the responses before it have set.            *)
THEOREM CookiesHold == Spec => []CookiesAreFresh
<1>1. IInv => CookiesAreFresh
  <2> SUFFICES ASSUME IInv, NEW r \in Requests, pc[r] = "sent"
               PROVE  chain[r].cookie >= chain[r].got[chain[r].url.host]
    BY DEF CookiesAreFresh
  <2>1. /\ chain[r] \in Chains /\ CookiesOf(r)
        /\ chain[r].url.host \in Hosts
    BY DEF IInv, TypeOK, Running, Chains, Hosts
  <2>2. chain[r].cookie \in Nat /\ chain[r].got[chain[r].url.host] \in Nat
    BY <2>1 DEF Chains
  <2>3. QED
    BY <2>1, <2>2 DEF CookiesOf
<1>2. QED
  BY <1>1, RedirectInvariant, PTL

(* The caller's payload goes with the method it was given for.             *)
THEOREM PayloadHolds == Spec => []PayloadGoesWithPost
<1>1. IInv => PayloadGoesWithPost
  BY DEF IInv, MemoryOf, PayloadGoesWithPost
<1>2. QED
  BY <1>1, RedirectInvariant, PTL
=============================================================================
