------------------------------ MODULE WasmFetch ------------------------------
(***************************************************************************)
(* The client for browsers, src/wasm: fetch (client.rs), the AbortGuard    *)
(* that cancels it (mod.rs) and the Response that keeps the guard          *)
(* (response.rs).                                                          *)
(*                                                                         *)
(* Everything runs on the one event loop, so what a poll does up to its    *)
(* next await is one action; between two polls the browser (external) may  *)
(* settle a promise or fire the timer, and the caller may drop what it     *)
(* holds.  Bodies are numbers of chunks.                                   *)
(***************************************************************************)
EXTENDS Naturals

CONSTANTS None,      \* no value
          MaxChunks  \* bound: chunks of a response's body

ASSUME FetchAssumption == MaxChunks \in Nat

VARIABLES timeout, \* the request's: None, or whether it fits setTimeout's i32
          cors,    \* the request's fetch mode
          caller,  \* where the caller's future, response or stream is
          error,   \* the Error the caller was given
          guard,   \* the AbortGuard: not made, held, or dropped
          timer,   \* the browser's timer, whose callback the guard owns
          signal,  \* the reason the AbortSignal was aborted with
          net,     \* the transfer, as the browser sees it
          head,    \* the promise of fetch()
          body,    \* chunks of the response's body that arrived
          taken    \* chunks the caller's stream yielded

vars == <<timeout, cors, caller, error, guard, timer, signal, net, head, body,
          taken>>

request == <<timeout, cors>>

browser == <<net, head, body>>

(* "drained": the stream has yielded its end or an error, and is kept.     *)
Callers == {"new", "fetching", "response", "reading", "streaming", "drained",
            "done", "failed", "dropped", "panicked"}

Over == {"done", "failed", "dropped", "panicked"}

TypeOK ==
    /\ timeout \in {None, "fits", "huge"} /\ cors \in BOOLEAN
    /\ caller \in Callers
    /\ error \in [kind : {"builder", "request", "decode", "status"},
                  timedOut : BOOLEAN] \cup {None}
    /\ guard \in {"none", "held", "dropped"}
    /\ timer \in {"none", "set", "fired", "cleared"}
    /\ signal \in {None, "TimedOut", "AbortError"}
    /\ net \in {"idle", "running", "complete", "broken", "aborted"}
    /\ head \in {"none", "pending", "resolved", "rejected"}
    /\ body \in 0..MaxChunks /\ taken \in 0..MaxChunks

Init ==
    /\ timeout \in {None, "fits", "huge"} /\ cors \in BOOLEAN
    /\ caller = "new" /\ error = None
    /\ guard = "none" /\ timer = "none" /\ signal = None
    /\ net = "idle" /\ head = "none" /\ body = 0 /\ taken = 0

Failure(kind, timedOut) == [kind |-> kind, timedOut |-> timedOut]

-----------------------------------------------------------------------------
(* The guard.                                                              *)

(* Drop for AbortGuard: abort, which an aborted signal ignores, and clear  *)
(* the timer.                                                              *)
DropGuard ==
    /\ guard' = "dropped"
    /\ signal' = IF signal = None THEN "AbortError" ELSE signal
    /\ timer' = IF timer = "set" THEN "cleared" ELSE timer

-----------------------------------------------------------------------------
(* fetch, up to its await.                                                 *)

(* A header or the body cannot be converted: there is no guard yet.        *)
ConversionFails ==
    /\ caller = "new"
    /\ caller' = "failed" /\ error' = Failure("builder", FALSE)
    /\ UNCHANGED <<request, guard, timer, signal, browser, taken>>

(* AbortGuard::timeout: more milliseconds than an i32 holds are a panic.   *)
TimeoutPanics ==
    /\ caller = "new" /\ timeout = "huge"
    /\ caller' = "panicked"
    /\ guard' = "held"
    /\ UNCHANGED <<request, error, timer, signal, browser, taken>>

(* The browser refuses the request: the guard is dropped, and with it the  *)
(* timer that has been set.                                                *)
RequestRefused ==
    /\ caller = "new" /\ timeout # "huge"
    /\ caller' = "failed" /\ error' = Failure("builder", FALSE)
    /\ guard' = "dropped"
    /\ signal' = "AbortError"
    /\ timer' = IF timeout = None THEN "none" ELSE "cleared"
    /\ UNCHANGED <<request, browser, taken>>

Fetch ==
    /\ caller = "new" /\ timeout # "huge"
    /\ caller' = "fetching"
    /\ guard' = "held"
    /\ timer' = IF timeout = None THEN "none" ELSE "set"
    /\ net' = "running" /\ head' = "pending"
    /\ UNCHANGED <<request, error, signal, body, taken>>

-----------------------------------------------------------------------------
(* The promise has settled and the future is polled.                       *)

FetchResolves ==
    /\ caller = "fetching" /\ head = "resolved"
    /\ caller' = "response"
    /\ UNCHANGED <<request, error, guard, timer, signal, browser, taken>>

(* A header that the http crate refuses: resp.body fails.                  *)
ResponseFails ==
    /\ caller = "fetching" /\ head = "resolved"
    /\ caller' = "failed" /\ error' = Failure("request", FALSE)
    /\ DropGuard
    /\ UNCHANGED <<request, browser, taken>>

(* The response of a request made without CORS may be opaque: it has no    *)
(* URL to parse, and expect_throw leaves the guard behind.                 *)
OpaqueThrows ==
    /\ caller = "fetching" /\ head = "resolved" /\ ~cors
    /\ caller' = "panicked"
    /\ UNCHANGED <<request, error, guard, timer, signal, browser, taken>>

(* The reason tells a timeout from other failures.                         *)
FetchRejected ==
    /\ caller = "fetching" /\ head = "rejected"
    /\ caller' = "failed"
    /\ error' = Failure("request", net = "aborted" /\ signal = "TimedOut")
    /\ DropGuard
    /\ UNCHANGED <<request, browser, taken>>

(* Response::error_for_status consumes a response that is an error.        *)
ErrorForStatus ==
    /\ caller = "response"
    /\ caller' = "failed" /\ error' = Failure("status", FALSE)
    /\ DropGuard
    /\ UNCHANGED <<request, browser, taken>>

(* Response::text, bytes or json asks for the whole body, and keeps the    *)
(* response until it has it.                                               *)
Read ==
    /\ caller = "response"
    /\ caller' = "reading"
    /\ UNCHANGED <<request, error, guard, timer, signal, browser, taken>>

ReadResolves ==
    /\ caller = "reading" /\ net = "complete"
    /\ caller' = "done"
    /\ DropGuard
    /\ UNCHANGED <<request, error, browser, taken>>

(* Whatever ended the body early is an error of decoding.                  *)
ReadRejected ==
    /\ caller = "reading" /\ net \in {"broken", "aborted"}
    /\ caller' = "failed" /\ error' = Failure("decode", FALSE)
    /\ DropGuard
    /\ UNCHANGED <<request, browser, taken>>

(* All of the body has come, but it is not the JSON that was expected.     *)
JsonFails ==
    /\ caller = "reading" /\ net = "complete"
    /\ caller' = "failed" /\ error' = Failure("decode", FALSE)
    /\ DropGuard
    /\ UNCHANGED <<request, browser, taken>>

(* Defect: the guard goes with the response, not with the stream.          *)
BytesStreamUnguarded ==
    /\ caller = "response"
    /\ caller' = "streaming"
    /\ DropGuard
    /\ UNCHANGED <<request, error, browser, taken>>

(* Response::bytes_stream moves the guard into the stream.                 *)
BytesStream ==
    /\ caller = "response"
    /\ caller' = "streaming"
    /\ UNCHANGED <<request, error, guard, timer, signal, browser, taken>>

(* ... unless there is no body at all.                                     *)
BytesStreamEmpty ==
    /\ caller = "response" /\ net = "complete" /\ body = 0
    /\ caller' = "done"
    /\ DropGuard
    /\ UNCHANGED <<request, error, browser, taken>>

StreamYields ==
    /\ caller = "streaming" /\ taken < body /\ net # "aborted"
    /\ taken' = taken + 1
    /\ UNCHANGED <<request, caller, error, guard, timer, signal, browser>>

StreamEnds ==
    /\ caller = "streaming" /\ taken = body /\ net = "complete"
    /\ caller' = "drained"
    /\ UNCHANGED <<request, error, guard, timer, signal, browser, taken>>

StreamFails ==
    /\ caller = "streaming" /\ net \in {"broken", "aborted"}
    /\ caller' = "drained" /\ error' = Failure("decode", FALSE)
    /\ UNCHANGED <<request, guard, timer, signal, browser, taken>>

(* The caller drops its future, response or stream.                        *)
Drop ==
    /\ caller \notin Over
    /\ caller' = "dropped"
    /\ IF guard = "held" THEN DropGuard ELSE UNCHANGED <<guard, timer, signal>>
    /\ UNCHANGED <<request, error, browser, taken>>

-----------------------------------------------------------------------------
(* The browser.                                                            *)

HeadArrives ==
    /\ net = "running" /\ head = "pending"
    /\ head' = "resolved"
    /\ UNCHANGED <<request, caller, error, guard, timer, signal, net, body,
                   taken>>

ChunkArrives ==
    /\ net = "running" /\ head = "resolved" /\ body < MaxChunks
    /\ body' = body + 1
    /\ UNCHANGED <<request, caller, error, guard, timer, signal, net, head,
                   taken>>

BodyEnds ==
    /\ net = "running" /\ head = "resolved"
    /\ net' = "complete"
    /\ UNCHANGED <<request, caller, error, guard, timer, signal, head, body,
                   taken>>

(* The transfer stops; the promise of a response not yet come is rejected. *)
Stops(how) ==
    /\ net = "running"
    /\ net' = how
    /\ head' = IF head = "pending" THEN "rejected" ELSE head
    /\ UNCHANGED <<request, caller, error, guard, timer, signal, body, taken>>

NetworkFails == Stops("broken")

(* Defect: the request is made without the guard's signal.                 *)
AbortedUnheard ==
    /\ signal # None /\ net = "running"
    /\ UNCHANGED vars

(* fetch() was given the guard's signal.                                   *)
Aborted == signal # None /\ Stops("aborted")

(* The callback that AbortGuard::timeout made.                             *)
TimerFires ==
    /\ timer = "set"
    /\ timer' = "fired"
    /\ signal' = IF signal = None THEN "TimedOut" ELSE signal
    /\ UNCHANGED <<request, caller, error, guard, browser, taken>>

-----------------------------------------------------------------------------
Poll == FetchResolves \/ ResponseFails \/ OpaqueThrows \/ FetchRejected
        \/ ReadResolves \/ ReadRejected \/ JsonFails
        \/ StreamYields \/ StreamEnds \/ StreamFails

Choose == ConversionFails \/ TimeoutPanics \/ RequestRefused \/ Fetch
          \/ ErrorForStatus \/ Read \/ BytesStream \/ BytesStreamEmpty \/ Drop

Network == HeadArrives \/ ChunkArrives \/ BodyEnds \/ NetworkFails

Next == Poll \/ Choose \/ Network \/ Aborted \/ TimerFires

Spec == Init /\ [][Next]_vars

(* The event loop runs what is ready: promises, timers that are due, and   *)
(* the abort of a signal.  No server owes an answer.                       *)
FairSpec == Spec /\ WF_vars(Poll) /\ WF_vars(Aborted) /\ WF_vars(TimerFires)

-----------------------------------------------------------------------------
(* Properties.                                                             *)

(* The timer never outlives the guard that owns its callback, whichever    *)
(* way the guard goes: a refused request, an error, a response that is     *)
(* read, dropped or turned into a stream.  A transfer is cancelled only by *)
(* its own timeout or by a caller who has let go of everything: no step    *)
(* from future to response to stream loses the guard on the way.           *)
TimerHasItsCallback == timer = "set" => guard = "held"
OnlyTimeoutOrCallerCancels ==
    net = "aborted" => (timer = "fired" \/ caller \in Over)
GuardIsKept == TimerHasItsCallback /\ OnlyTimeoutOrCallerCancels

(* With a timeout nobody waits for ever, before the response or in its     *)
(* body; and once the caller has let go the transfer stops.                *)
FetchEnds ==
    /\ (timeout = "fits" /\ caller \in {"fetching", "reading", "streaming"})
           ~> (caller \in Over \cup {"drained", "response"})
    /\ (guard = "dropped" /\ net = "running") ~> (net # "running")

-----------------------------------------------------------------------------
(* The inductive invariant behind GuardIsKept: an aborted signal has a     *)
(* cause too, and nothing has begun before fetch().                        *)
SignalHasACause == signal # None => (timer = "fired" \/ caller \in Over)

NothingBegun ==
    caller = "new" => timer = "none" /\ signal = None /\ net = "idle"

IInv == TypeOK /\ GuardIsKept /\ SignalHasACause /\ NothingBegun
=============================================================================
