# A TLA+ verification of reqwest

This project models `reqwest` (the Rust HTTP client in `src/`), checks it with
TLC on small instances and proves every safety property that is checked with
TLAPS for all instances. It covers what unit tests hardly reach:
interleavings of requests that share a pool, a map of budgets, a cookie jar or a
proxy; cancellation at every await; timers that race with answers; threads that
park, time out and join; bodies that fail while they are sent; and long sequences
of calls on builders that exist in two or three copies.

- [The system](#the-system)
- [What each module models](#what-each-module-models)
- [The runs](#the-runs)
- [The proofs](#the-proofs)
- [Where code and documentation disagree](#where-code-and-documentation-disagree)
- [What is not modelled](#what-is-not-modelled)
- [Plan](#plan)

`PROJECT.json` has, for every definition that stands for code, the lines it
stands for; for every property of a passing run, a defect of the code (the
operators commented `Defect:` in the modules) that breaks it; and the list of
hazards that the properties are aimed at.

## The system

A request is made by one of three builders, goes down a stack of services, and
its response comes back up:

    RequestBuilder (async, blocking, wasm)      Form -> Body
    blocking::Client  (a thread that parks; the async client runs on another)
      -> Client::execute -> middleware chain -> execute_without_middleware
           -> PendingRequest          total timeout, read timeout
                -> FollowRedirect     (tower-http) asks TowerRedirectPolicy
                     -> CookieService shared cookie store
                          -> Retry    (tower) asks retry::Policy, shared budgets
                               -> HyperService -> Connector -> proxies, TLS, layers
                                | H3Client -> pool -> H3Connector -> exchange
           <- Response                TotalTimeoutBody, ReadTimeoutBody
    wasm::Client -> fetch() of the browser      AbortGuard

| component | source | state | operations | what makes it hard |
|---|---|---|---|---|
| HTTP/3 pool | `async_impl/h3_client/pool.rs`, `mod.rs` | one mutex over `connecting` (key to watch sender) and `idle_conns`; a driver task per connection | `try_pool`, `connecting`, `new_connection`, `ConnectingLock::drop`, `ConnectingWaiter::receive`, `is_invalid` | lookup and lock are two critical sections; the leader of an attempt may fail or be dropped; connections die at any time and say so later |
| HTTP/3 exchange and connector | `h3_client/pool.rs:207-353`, `connect.rs` | a body task, a oneshot, the two halves of a stream; the addresses left to try | `connect`, `send_request`, `Incoming::poll_frame` | head, body task, peer and loss of the connection race |
| Retry policy | `retry.rs` | per call: `total_retry_cnt`, `application_retry_cnt`; shared: map of hosts to token budgets | `clone_request`, `retry`, `delay`, `Budgets::get`, deposit, withdraw | two checks of one limit; the map's mutex is released before a budget is used, and the map is emptied when full |
| Timeouts | `async_impl/client.rs`, `body.rs`, `response.rs`, `retry.rs`, `redirect.rs` | up to four `Sleep`s and the `Deadline` extension | `PendingRequest::poll`, `Policy::delay`, `on_request`, the timeout bodies | timers race with answers and with each other; a redirect makes a new request; polls may be late; reads may be abandoned |
| Redirects and cookies | `redirect.rs`, `cookie.rs` | per chain: `urls`, the body that may be resent; shared: the jar | `TowerRedirectPolicy::redirect`, `on_request`, `clone_body`, `CookieService::call` and its future | long chains that mix kinds of redirects, at the same time and with one jar |
| Connector, proxies | `connect.rs`, `proxy.rs`, `async_impl/client.rs` | hyper's pool of connections; otherwise none that lasts | `execute` (proxy headers), `call`, `connect_via_proxy`, `connect_with_maybe_proxy`, `with_timeout`, matchers | the proxy is chosen twice; each route has its own order of stages; timeouts and the caller's layers nest |
| Blocking client | `blocking/client.rs`, `wait.rs`, `body.rs` | a runtime thread, a channel, a oneshot per call, park tokens, shared handles | `new`, `execute_request`, `wait::timeout`, `send_future`, `forward`, `InnerClientHandle::drop` | lost wakeups, shutdown in any order, a timeout while the request runs on, a `Reader` that fails |
| Client builders, TLS, DNS | `async_impl/client.rs`, `blocking/client.rs`, `tls.rs`, `dns/` | the settings, the error of a bad one | some 200 setters, twice; `build` | order of calls; TCP and HTTP/3 stacks, and each TLS backend, are put together apart |
| Request builders | `async_impl/request.rs`, `blocking/request.rs`, `wasm/request.rs` | a request or an error | the setters, `try_clone`, `send` | three copies that should agree; headers that go stale |
| Bodies and forms | `blocking/body.rs`, `multipart.rs` of both | a Reader, a channel, computed headers | `send_future`, `buffer`, `compute_length`, `Reader::read`, `into_stream` | lengths that are announced before the bytes are read |
| wasm client | `wasm/` | the AbortGuard: a controller, a timer and its callback | `fetch`, `AbortGuard::timeout`, `drop`, `Response` | ownership of the guard decides whether a transfer lives |
| Middleware | `async_impl/middleware.rs` | an index into the chain | `Next::run` | a middleware may run the rest several times |
| The rest | logging, errors, URLs, helpers | | | formatting and conversions |

What makes each of them correct, and the line at which it could go wrong, is the
list of `hazards` in `PROJECT.json`.

## What each module models

Most modules are state machines with one action per operation or handler. A
request's future is always between two polls, or at an await, when another
action may happen; what a poll does without awaiting is one action, unless it
takes a mutex twice. The builders are operators on records, and the machine is
the caller who makes one call after another.

**SingleFlight** says what the HTTP/3 pool promises about connection attempts:
one attempt per key is in the air, who joins it gets its outcome, and a request
uses a connection that an attempt to its own key has landed.

**H3Pool** is the pool. `pc[r]` is the await (or the gap between two critical
sections) at which the future of `r` is: `missed` lies between `try_pool` and
`connecting`, `connected` between `connect` and the mutex of `new_connection`.
`connecting`, `idle` and `stale` are the maps of `PoolInner` and the idle
clocks; `sent` and `waiter` are the watch channels; `conn` is what became of a
connection and of the driver that reports it, so that "dead" and "known to be
dead" differ. The refinement mapping to SingleFlight is at the end of the
module. An exchange on a stream is one step that succeeds or fails.

**H3Exchange** opens that step up: the addresses that `H3Connector::connect`
tries, the task that `send_request` spawns for the body (`task`, `taken`), its
oneshot (`report`, `seen`), the `select!` between report and head, and
`Incoming`, the response's body, which looks at the report again. The peer may
stop reading with or without an error, answer early, send nothing, or vanish.

**Retry** is `retry::Policy` as tower's Retry service drives it, with the
`Budgets` map. `LookUpBudget`, `Deposit`, `CheckBudget` and `Withdraw` are
separate actions: the map has a mutex that is released before a budget is used,
and tower's TpsBudget (external) sums and compares its tokens first and subtracts
with a `fetch_add` of its own afterwards. Between the two a request is `granted`,
and others may compare too, so tokens are an integer that can fall below zero.
The map's budgets are numbered, so that one that was looked up survives a reset of
the map, as its `Arc` does. `Redirect`
stands for FollowRedirect, which makes a new call of the service for each hop.
Scope, classifier and the outcome of attempts are arbitrary. Two abstractions
matter: the budgets' rolling window is longer than a behaviour (no token
expires), and a delay is a step (its length is in Deadlines).

**Deadlines** is the clock of one request, from `execute_without_middleware` to
the end of its body. Time is a number; a timer is the time at which it fires.
The `Deadline` is taken a little before the `Sleep`s are created, so these are
two actions. `prompt` says whether the executor polls a woken task before the
next tick: properties that need it say so. Which timeouts a request has is
chosen in `Init`.

**Redirect** is the chain of hops of concurrent requests that share a cookie
jar. tower-http's FollowRedirect is external and modelled as redirect.rs and
cookie.rs use it: a hop is `Send` and then either `Responds` or `Redirected`.
The jar keeps how many cookies each host has set, so a cookie is as recent as
its number; a request has no `Cookie` header of its own; sensitive headers,
the deadline (in Deadlines) and the retries of a hop (in Retry) are left out.

**Connector** is how a request reaches its origin. A connection is the sequence
of stages it went through (`dial`, `socks`, `tls`, `connect`, `nodelay`), each with
what it was done with, so that a property can say who was spoken to through
what. `FirstOf` is a loop over the proxies that stops at the first answer; it has
several possible results because a custom function may answer differently each
time. `timer` and `age` count the ticks of the connect timeout and of the whole
stay in the connector, with the timeout outside or inside a limit of concurrent
connects as `ConnectorBuilder::build` nests them. hyper's pool is external.

**ClientBuilder** is both builders and what they build. A call changes the async
builder and, in the same step, the one inside its blocking twin; a setting that
is only passed on is a knob. What `build` makes is compared, not executed: a
verifier is the set of peers it accepts, ALPN is a list of protocols.

**Requests** makes the same calls on two of the three request builders in
lockstep and compares what they send. A payload is a name with a size.

**Bodies** is the sending of a body from the caller's thread: the multipart
`Reader` over its parts, `send_future` with its buffer, the channel and the
connection. A byte is the place it comes from, so that a lost, repeated or moved
one shows; `IntoStream` is what the async client sends for the same form.
**Delivery** is what it promises: the connection gets a prefix of the body in
order and takes it for complete only if it is.

**BlockingClient** is the calling threads, the runtime thread, the channel and
oneshots between them, the park tokens, the body that is fed chunk by chunk from
the calling thread, and the shutdown by the last holder of the handle. `Poll`,
`TimesOut` and `Parks` are the three steps of the loop in `wait::timeout`, so that an
answer may come between any two. User code (a redirect policy, a resolver, a
middleware) may panic, in a task or on the runtime thread.

**WasmFetch** is one fetch in the browser, from its options to the last chunk of
its body, with the `AbortGuard` that moves from the future to the response to
its stream. The event loop is one thread: a poll is one action.

MCH3Pool, MCRedirect, MCConnector, MCClientBuilder, MCRequests, MCBodies and
MCH3Exchange give constants and symmetry to TLC; modules named `...Proofs` have
the proofs.

## The runs

| run | what it asks | bounds, and why they are enough |
|---|---|---|
| `h3pool` | reuse, the refinement of SingleFlight, and that every request settles | 3 requests: a leader, a waiter and a latecomer; 2 keys, to interfere. `MCInit` leaves out initial states that only rename keys or requests |
| `h3exchange` | what the peer is told, that no report is lost in the race, and that a failed send ends the wait | bodies of up to 2 frames with every end; hosts with no address, one, and both families mixed; 2 chunks of response |
| `retry` | limits, budgets, the map of hosts, and that every call ends | 2 requests with a redirect each, so that both may compare before either subtracts; 2 hosts and room for 1, so the map is reset between a lookup and its use; a reserve of 1 and withdrawals of 2, which overdraw it; 2 retries tell "one left" from "none left"; no symmetry (unsound for liveness) |
| `deadlines` | deadlines and read timeouts, and that every wait ends | each timeout there or not, delays below, at and above them, 2 retries, 1 redirect, 2 frames, clock to 5 (beyond every timer) |
| `redirect` | limits, schemes, memory and cookies of chains | 2 chains of up to 2 redirects with limit 1, so the limit is reached and exceeded; an https, an http and an unsupported URL on 2 hosts |
| `connector` | who TLS reaches, socket options, the form and the credentials of a request, the bound on connecting | 2 requests, 1 redirect each, so a connection is reused for another request and another URL; a client for every route and every way two proxies combine; timeout 2 with and without a limit of 1 |
| `builder` | trust, ALPN, proxies, and whether the builders agree | all sequences of 3 calls in 4 ways to compile reqwest: undoing a call and redoing it takes three |
| `builder_crls` | the documentation of `tls_crls_only` (violated) | 2 calls |
| `requests` | errors, lengths, clones, and whether the builders agree | all sequences of 3 calls after the first: set, replace and clone |
| `bodies` | lengths, what arrives, what `send` says, and that it ends | forms of up to 2 parts of 6 kinds, readers shorter than, as long as and longer than they say; a buffer of 5, which parts straddle |
| `blocking` | shutdown, panics, answers against timeouts, bodies; that calls return, left calls are dropped and the join returns | 2 threads, 1 call each, 1 chunk: one uses while the other drops. `Creators` and `Streamers` say which thread may make the client and stream a body: the threads are otherwise alike, and two streaming bodies do not interact |
| `wasm_fetch` | the guard's life and that a fetch with a timeout ends | a body of 2 chunks, a timeout that is absent, fits, or does not fit setTimeout |

Deadlock is checked where the only states without a successor but themselves are
those in which everybody is done (`Quiescent`, `Done`, `Over`); `builder`,
`h3exchange` and `wasm_fetch` turn it off because a client that is built, an
exchange and a fetch that are over just stop, and their liveness properties say
that they get there.

**Fairness.** H3Pool and Retry assume that the runtime polls a future that can
go on and that an attempt ends one way or the other, as quinn and hyper see to;
nothing makes a caller cancel or a connection close. Deadlines assumes that time
passes and the executor polls; the server and the caller owe nothing. H3Exchange
assumes that woken futures are polled and that the spawned task runs; the peer
and the body owe nothing. Bodies assumes that the caller's thread runs, that a
read returns and that the connection ends by reading, dropping or aborting.
BlockingClient assumes that threads run and time passes; a server owes an
answer, and a connection reads the body, only where the call has no timeout
(where the inner client's own 60 seconds see to an end). WasmFetch assumes that the
event loop polls and that a timer that is set fires; the network owes nothing,
except to notice an abort.

## The proofs

TLC says that the properties hold on the instances above; TLAPS, that they hold
for every set of requests, hosts, keys, URLs, proxies, threads and calls, and every
limit, delay and length. Each proof follows one argument: an inductive invariant
`IInv`, defined at the end of the component's module and checked with TLC there
first, holds initially and is kept by every action, and implies the properties.
Action properties and the refinement are proved from the invariant, step by step.

The assumptions are the `ASSUME`s of the modules alone:

- numbers are naturals and MaxHosts is positive; Retry's requests are finitely
  many and there is one, since its bounds on the load and on the overdraft of a
  budget count them;
- Connector (`ConnectorAssumption`): requests are finitely many, URLs are http or
  https, and a configuration has the types of its fields, with proxies of the
  schemes that `Matcher` accepts; None is none of the values it is told from;
- Requests: the default headers have no Content-Length, which is left to the
  builders, and None is not a text, payload or size (`RequestsAssumption`);
- Bodies: the buffer has room, a body is a form of any parts or one reader, and
  None is not a length, a result, a read or a list of readers
  (`BodiesAssumption`);
- ClientBuilder: None, `"env"` and `"none"`, which the history has for the calls
  about proxies without one, are not proxies, and a knob that is tried is a knob
  (`BuilderAssumption`).

H3Pool, WasmFetch and ClientBuilder are reached by `INSTANCE` (as `P`, `W` and
`B`), where an assumption of theirs is a hypothesis of the theorems:
`None \notin Requests`, `MaxChunks \in Nat`, `Tried \subseteq B!Knobs`,
`{"env", "none"} \cap Proxies = {}`.

| module | what its invariant adds, and why it is needed | what follows |
|---|---|---|
| `H3Proofs` | how many frames were written wherever the task is (`Written`); which callers have a stream and whose length it announces (`HasStream`); what a report must have been caused by, and that who took an error has failed (`Reported`) | `FinishedIsWhole`, `FailureHasACause`, `ReportIsHeard` |
| `H3Proofs`, about H3Pool | a key has a sender exactly while one request holds its lock (`LockIsHeld`); a waiter's channel was made by the leader it waits for (`WaitedForLed`): without them a step of one request could disturb another's attempt | one attempt per key; the `unreachable!()` of `new_connection` is; no waiter is stranded; a failure is shared by exactly those who joined; everybody uses a connection to its own key; closed connections are not handed out; `ReuseIsStable`; the pool implements SingleFlight |
| `RetryProofs` | what the two counts and the clone say at each point of a call (`CountsOf`); a lookup returns a budget of the host and disturbs no other (lemma `GetBudgetKeeps`); what a host's budgets still hold, what was paid and what its calls may yet deposit balance (`RetriesAreCovered`), where the sum over the budgets is a tally that exists instead of a recursive sum; for every request that passed the comparison and has not subtracted yet there is still a withdrawal in the budget, or in what the others may overdraw it by (`OverdraftIsBounded`, over the finite set `Granted` of those requests): the bound on the tokens alone is kept by no subtraction | the last answer is not judged; `SharedLimit`; the map is bounded; everybody spends its own host's budget (`BudgetIsOwnHosts`); `TrackedHostKeepsBudget`; `OverdraftIsBounded`; `AmplificationBound` |
| `DeadlinesProofs` | nothing is under way past the deadline of its phase (`DeadlineFirst`); what a read's Sleep says of the last frame (`SleepOfRead`) | `EndsByTotalTimeout`, `ReadTimeoutMeansStalled`, `NothingAfterDeadline`; no retry delay is cut short by the total timeout, or lasts beyond it |
| `RedirectProofs` | the policy's memory is what was sent, and all of it allowed (`MemoryOf`); a chain's cookies are as recent as its own responses (`CookiesOf`) | `ChainIsAllowed`, `ChainIsRemembered`, `CookiesAreFresh`; referers; the payload goes with the hops that are still a POST |
| `BlockingProofs` | whoever holds a part of the handle has a thread at the other end (`HandleKeepsRuntime`); only a panic closes a oneshot that is waited for (`PanicsClose`); a sender that was dropped early has left an Abort (`EarlyEndAborts`); a call is queued once and has no outcome before its end (`QueuedOnce`, `Undecided`); who was parked when its answer came only polls from there on (`ParkedAreAnswered`) | `RuntimeOutlivesUsers`, `PanicsOnlyAfterPanic`, `AnswerBeatsTimeout`, `CompleteOrAborted` |
| `DeadlinesProofs`, about WasmFetch | an aborted signal has a cause (`SignalHasACause`) and nothing has begun before `fetch` (`NothingBegun`) | `GuardIsKept` |
| `ConnectorProofs` | what a connection has gone through and has still to do is, at every step, the plan of its route, or narrower where ALPN was not asked for after all (`PlansFit`): the property is about the whole wire, the step knows its next stage only; the proxy's part of the headers is that of whatever route this hop may take, or a redirect took the credentials away (`HeadersFit`); who waits for the limit has waited for those that are now behind it, a timeout each, and for the present one (`WaitIsBounded`, `Behind`): a bound on the age alone is kept by no step | `WireIsAsAsked`, `HeadersFitTheRoute`, `ConnectIsBounded` |
| `ConnectorProofs`, about ClientBuilder | a preferred version is compiled in (`Preferred`); the blocking builder is the async one with a timeout of its own (`Follows`); what was built is of the present builder (`HandleOf`, `BuiltOf`): then trust and transports are about one call of `build`, for each backend and verifier; the builder's proxies are those of the calls that no later `no_proxy` undoes (`Standing`), in their order, which a function from positions to calls says without filtering a sequence (`ProxiesFollow`) | `TrustIsAsAsked`, `TransportsAgree`, `ProxiesAreAsAsked`, `BlockingAgrees` |
| `RequestsProofs` | each request is well formed and has a Content-Length only of its body, unless a form was given up for another body (`Good`); the asynchronous builder's request and each other one's are alike as far as their calls so far make them (`Agree`, with what the history says: `Formed`, `Replaced`, `Labelled`): lengths and labels depend on calls long past, so the invariant has to keep what those calls were | `FirstErrorWins`, `LengthIsOfTheBody`, `CloneIsEqual`, `BuildersAgree` |
| `BodiesProofs` | the parts are begun in their order, each with its own header (`InOrder`); what was read is the body up to the present place, and the readers that are left lie end to end from there to the end of the part (`ReadsTheBody`, `Laid`, `Ending`): a read stops anywhere, also in the middle of a header, so that what was read says too little without what is left; a call reads into the room that its buffer has (`CallFits`); what was read is with the connection or in the channel (`Forwarded`); what the ends and the result say of each other (`Told`, `Buffers`) | `FormLengthIsExact`, `ResultIsTrue`, and Bodies implements Delivery |

Proved, and not checked by a run of its own (each is a part of an `IInv` or
follows from one): `NeverPanics`, `NoStrandedWaiter`, `ClientIsForKey`,
`FailureIsShared`, `LockIsHeld`, `ClosedOnlyFromAttempt`, `LastAttemptIsUnjudged`,
`HostsBounded`, `TrackedHostKeepsBudget`, `OverdraftIsBounded`, `SleepEndsInTime`, `NoTotalTimeoutAsleep`,
`RefererIsPrevious`, `PayloadGoesWithPost`, and the types, except H3Exchange's
(`Dialable` filters a sequence, of which the library's theorems say nothing that
the provers can use; no property needs the type).

Only model-checked: liveness (`EveryRequestSettles`, `EveryCallEnds`,
`WaitsEnd`, `EverythingEnds`, `EverySendEnds`, `ExchangeEnds`, `FetchEnds`), since
fairness is beyond the prover. Every safety property that a run checks is proved.

**Bodies** needs to know what a form comes to, whose bytes and length are
computed part by part (`Streamed`, `Lengths`), and the library's induction takes
a predicate, which the provers cannot instantiate. `BodiesProofs` inducts with
sets instead: a subset of `0..n` that has 0, and with each number the next, is
all of it (lemma `Induction`, from the well-foundedness of `<` on the naturals),
and a function that is given by its value at 0 and a step from each number to
the next exists (lemma `Recursion`). Both lengths then grow by the same amount
with every part, in the proof as in the loops of `compute_length` and
`part_stream`. TLC checked this invariant with the places in `Laid` computed from the
readers' lengths, since it cannot enumerate functions into the naturals.

## Where code and documentation disagree

One run shows a disagreement (`expect: violation`), `builder_crls`: the doc of
`tls_crls_only` says "If CRLs are added but `tls_certs_only()` is not called, the
builder will return an error" (client.rs:2025). `build` looks at this only where
rustls checks both certificates and hostnames (client.rs:767). With native TLS,
and after `tls_danger_accept_invalid_certs(true)`, a client is built.

Others were met while modelling. The models do what the code does, and the
properties leave these cases out or bound them by what the code does:

- Revocation lists are dropped in silence in two cases in which the client does
  check certificates (`CrlsAreIgnored`): the native backend never reads
  `config.crls` (client.rs:539-640; the doc says they "cannot work with the native
  verifier", not that they are ignored), and when only the hostnames are turned off,
  rustls is given an `IgnoreHostname` verifier that knows roots but no lists
  (client.rs:751-764, tls.rs:722-785), although `tls_certs_only` was called. There a
  server is trusted whose certificate the caller's list revokes. `Allowed` says what
  the caller asked for, lists included; `TrustIsAsAsked` excepts these two cases by
  name, and in them still asks for everything but revocation.
- `retry.rs:25` and `retry.rs:242`: the budget permits 20% extra requests, or the
  share given to `max_extra_load`. Requests that are withdrawing at the same time all
  compare before any of them subtracts, so that N requests may overdraw each budget
  by N-1 withdrawals (hence `Overdraft` in `AmplificationBound`).
- `pool.rs:98`: the connecting lock is "to ensure that we have only one HTTP3
  connection per host". It ensures one attempt at a time: a request that missed
  the pool just before a connection was pooled makes another (`ReuseIsStable`
  needs `~Racing`).
- `retry.rs:268`: `max_retries_per_request` is for each "logical (initial)
  request". The retry layer is below the redirects: each hop has that many.
- `retry.rs:101`: the policy avoids "sleeping longer than the request has left
  to live". It knows the total timeout, not the read timeout.
- `client.rs:1570`: the read timeout "resets after each successful read". Up to
  the response's head it is one `Sleep` for all attempts, delays and redirects
  (client.rs:2812). And a `ReadTimeoutBody` whose read was abandoned keeps its
  `Sleep`, so a later read may time out early (body.rs:343; hence `~abandoned` in
  `ReadTimeoutMeansStalled`).
- `connect.rs:148`: a connect timeout (client.rs:2572) is "for only the connect phase";
  waiting for a caller's layer to be ready is not timed when the layer is
  outside of it, hence the factor in `ConnectIsBounded`.
- `proxy.rs:348`: `no_proxy` adds exclusions to any proxy. `Custom::call`
  (proxy.rs:781) does not look at them; the headers of a proxy whose function
  changes its answer may be those of another proxy than the one that is used.
- `client.rs:1926`: with `unix_socket` proxies are ignored. The connector has none,
  but the client keeps its list for the headers (client.rs:2766): a request over
  the socket may carry Proxy-Authorization (hence `~config.local`).
- `blocking/client.rs:453`: "Pass `None` to disable timeout". The inner client
  keeps the async builder's 60 seconds (client.rs:332), also when the blocking
  timeout is longer.
- `blocking/client.rs:1606`: a Canceled error means that the event loop's
  thread panicked. A panic in a task of its own is caught by tokio, and looks
  the same to the caller while the loop runs on.
- `blocking/multipart.rs:366`: a read that is interrupted after an earlier part
  filled some of the buffer returns the error alone; `Body::buffer` reads on and
  has lost those bytes (body.rs:95; hence `~hiccup` in `ResultIsTrue`).
- `blocking/body.rs:290`: the reader of a sized body is not read beyond its size.
  The last read may be, by what the buffer has room for; hyper cuts it off.
- `request.rs:331`: a multipart form's Content-Length stays when the asynchronous
  builder is given another body (hence `Overridden` in `LengthIsOfTheBody`).
- HTTP/3: the parked body of a response is not woken by a send that fails; the
  send task is not aborted when the exchange is dropped; a panic in the caller's
  body is dropped with the task, and the response goes on; the trailers of a
  body are not sent; an unfinished send half is finished by quinn when it is
  dropped; an endpoint on `[::]` never dials IPv4.
- wasm: a timeout while a body is read is reported as a decode error
  (error.rs:118); a timeout beyond an i32 of milliseconds panics; a response to a
  no-cors fetch is opaque and its status 0 is refused.
- `client.rs:1235`, `wasm/client.rs:356`: "Sets the default headers for every
  request". The values are inserted one by one, so that of several for one name
  every client keeps the last; `DefaultHeaders` does so too.

## What is not modelled

- The values of backoff and Retry-After (`retry.rs:640-845`): delays are given.
- What a cookie matches (path, domain, expiry): the `cookie_store` crate. What a
  NO_PROXY pattern matches: a proxy has a set of hosts that it leaves alone.
- The text of headers, percent-encoding, JSON, certificates: names with a size.
- Middleware: `Next::run` keeps nothing between two calls; a middleware that runs
  the rest twice makes two requests, which the modules model as such.
- The reading of a response (`text`, `json`, `bytes_stream`, decompression): each
  is a loop over the body that Deadlines, H3Exchange and WasmFetch model.
- Upgrades, Windows pipes, logging, the `Debug` and `Display` of everything.
- hyper, h3, quinn, tower, tower-http, rustls, native-tls and the browser, except
  as the code here uses them.

## Plan

What the project does not have yet, in the order in which it would be added:

1. the composition of Retry with Redirect's jar, for the cookies of a retried hop
   (client.rs, cookie.rs:252), and of Deadlines with Connector's timer;
2. the values of `Backoff` and `Retry-After` as operators, against a reference.
