------------------------------ MODULE Deadlines ------------------------------
(***************************************************************************)
(* The clock of one request: the total and the read timeout of             *)
(* PendingRequest (async_impl/client.rs), the retry delays that look at    *)
(* the request's Deadline (retry.rs), the deadline carried over redirects  *)
(* (redirect.rs), and the two timeout bodies of the response               *)
(* (async_impl/body.rs).                                                   *)
(*                                                                         *)
(* Time is a natural number.  A timer is the time at which it fires, or    *)
(* None.  If prompt, the executor polls a woken task before the next tick; *)
(* if not, a poll may be late by any time.                                 *)
(***************************************************************************)
EXTENDS Naturals

CONSTANTS None,
          TotalTimeouts,  \* what ClientBuilder::timeout may be, and None
          ReadTimeouts,   \* what ClientBuilder::read_timeout may be, and None
          Delays,         \* what backoff and Retry-After may ask for
          MaxRetries,     \* max_retries_per_request
          MaxHops,        \* bound: redirects the server sends
          MaxFrames,      \* bound: body frames the server sends
          MaxTime         \* bound: the clock stops, unless a timer is awaited

(* What the server may answer an attempt, and how a request may end.       *)
Answers == {"ok", "retryable", "redirect"}
Outcomes == {"total", "read", "complete", "dropped"}

ASSUME DeadlinesAssumption ==
    /\ None \notin Nat \cup Answers \cup Outcomes
    /\ TotalTimeouts \subseteq Nat \cup {None}
    /\ ReadTimeouts \subseteq Nat \cup {None}
    /\ Delays \subseteq Nat /\ MaxRetries \in Nat
    /\ MaxHops \in Nat /\ MaxFrames \in Nat /\ MaxTime \in Nat

VARIABLES totalTimeout, \* this request's total timeout, or None
          readTimeout,  \* ... and its read timeout
          prompt,     \* woken tasks are polled before the next tick
          now,
          phase,       \* where the request is, see Phases
          deadline,    \* the Deadline extension of the request in flight
          totalAt,     \* the total timeout's Sleep, then the body's
          readAt,      \* PendingRequest.read_timeout_fut
          wakeAt,      \* the retry Delay's Sleep
          answer,      \* what the server answered the attempt, not yet polled
          retries,     \* total_retry_cnt
          bodyReadAt,  \* ReadTimeoutBody.sleep
          buffered,    \* body frames that arrived and are not yet read
          closed,      \* the body's end has arrived
          outcome,     \* how the request ended, or None
          hops,        \* history: redirects followed
          frames,      \* history: body frames sent
          since,       \* history: when the wait for the server, or the body
                       \* read, that is under way began
          abandoned    \* history: a body read was dropped before it ended

timers == <<deadline, totalAt, readAt, wakeAt>>
body == <<bodyReadAt, buffered, closed, frames, abandoned>>
waits == <<answer, retries, hops, since>>
config == <<totalTimeout, readTimeout, prompt>>
vars == <<config, now, phase, timers, waits, body, outcome>>

(* "calling": between the service's call and the timers' creation; "idle": *)
(* the caller has the response and is not reading its body.                *)
Phases == {"new", "calling", "attempt", "sleeping", "idle", "reading", "ended"}

TypeOK ==
    /\ totalTimeout \in TotalTimeouts /\ readTimeout \in ReadTimeouts
    /\ prompt \in BOOLEAN
    /\ now \in Nat
    /\ phase \in Phases
    /\ {deadline, totalAt, readAt, wakeAt, bodyReadAt}
          \subseteq Nat \cup {None}
    /\ answer \in {None} \cup Answers
    /\ retries \in 0..MaxRetries
    /\ buffered \in 0..MaxFrames
    /\ closed \in BOOLEAN
    /\ outcome \in {None} \cup Outcomes
    /\ (phase = "sleeping") = (wakeAt # None)
    /\ hops \in 0..MaxHops /\ frames \in 0..MaxFrames
    /\ since \in Nat /\ abandoned \in BOOLEAN

Init ==
    /\ totalTimeout \in TotalTimeouts /\ readTimeout \in ReadTimeouts
    /\ prompt \in BOOLEAN
    /\ now = 0
    /\ phase = "new"
    /\ deadline = None /\ totalAt = None /\ readAt = None /\ wakeAt = None
    /\ answer = None
    /\ retries = 0
    /\ bodyReadAt = None
    /\ buffered = 0
    /\ closed = FALSE
    /\ outcome = None
    /\ hops = 0 /\ frames = 0 /\ since = 0 /\ abandoned = FALSE

-----------------------------------------------------------------------------
(* A timer armed now.                                                      *)
After(timeout) == IF timeout = None THEN None ELSE now + timeout

Fired(at) == at # None /\ now >= at

InFlight == phase \in {"attempt", "sleeping"}

(* execute_without_middleware: the deadline is taken, then the stack is    *)
(* called.                                                                 *)
Execute ==
    /\ phase = "new"
    /\ deadline' = After(totalTimeout)
    /\ phase' = "calling"
    /\ UNCHANGED <<config, body, waits, now, totalAt, readAt, wakeAt, outcome>>

(* ... and only then are the two Sleeps of the PendingRequest created.     *)
Arm ==
    /\ phase = "calling"
    /\ totalAt' = After(totalTimeout)
    /\ readAt' = After(readTimeout)
    /\ phase' = "attempt"
    /\ since' = now
    /\ UNCHANGED <<config, body, now, deadline, wakeAt, answer, retries,
                   outcome, hops>>

(* The server answers the attempt under way; nothing makes it.             *)
ServerAnswers ==
    /\ phase = "attempt"
    /\ answer = None
    /\ answer' \in {"ok", "retryable"}
                     \cup (IF hops < MaxHops THEN {"redirect"} ELSE {})
    /\ UNCHANGED <<config, body, timers, now, phase, retries, outcome, hops,
                   since>>

(* PendingRequest::poll looks at the two timers before the response.       *)
TimersQuiet == ~Fired(totalAt) /\ ~Fired(readAt)

(* Defect: the response is polled first, and a pending one returns early.  *)
TimesOutAnswered ==
    /\ phase = "attempt"
    /\ answer # None
    /\ ~TimersQuiet
    /\ outcome' = IF Fired(totalAt) THEN "total" ELSE "read"
    /\ phase' = "ended"
    /\ UNCHANGED <<config, body, timers, waits, now>>

TimesOut ==
    /\ InFlight
    /\ ~TimersQuiet
    /\ outcome' = IF Fired(totalAt) THEN "total" ELSE "read"
    /\ phase' = "ended"
    /\ wakeAt' = None
    /\ UNCHANGED <<config, body, waits, now, deadline, totalAt, readAt>>

(* Policy::delay: the wait must be over before the deadline; none at all   *)
(* always is.                                                              *)
Fits(delay) ==
    delay # 0 /\ deadline # None =>
        now <= deadline /\ delay < deadline - now

(* Defect: the total timeout ends with the head of the response.           *)
ReturnsUntimed ==
    /\ phase = "attempt"
    /\ TimersQuiet
    /\ \/ answer = "ok"
       \/ /\ answer = "retryable"
          /\ retries < MaxRetries => \E d \in Delays : ~Fits(d)
    /\ phase' = "idle"
    /\ totalAt' = None
    /\ readAt' = None
    /\ UNCHANGED <<config, body, waits, now, deadline, wakeAt, outcome>>

(* Defect: an answer that is at hand is taken whatever the timers say.     *)
ReturnsFirst ==
    /\ phase = "attempt"
    /\ answer = "ok"
    /\ phase' = "idle"
    /\ readAt' = None
    /\ UNCHANGED <<config, body, waits, now, deadline, totalAt, wakeAt,
                   outcome>>

(* PendingRequest::poll returns the response: a good one (or one that the  *)
(* retry budget does not pay for), or a retryable one that may not, or not *)
(* in time, be retried.  The total timeout goes with it; the read timeout  *)
(* starts afresh in the body.                                              *)
Returns ==
    /\ phase = "attempt"
    /\ TimersQuiet
    /\ \/ answer = "ok"
       \/ /\ answer = "retryable"
          /\ retries < MaxRetries => \E d \in Delays : ~Fits(d)
    /\ phase' = "idle"
    /\ readAt' = None
    /\ UNCHANGED <<config, body, waits, now, deadline, totalAt, wakeAt,
                   outcome>>

(* Policy::retry sleeps for the delay, or resends at once: a transient     *)
(* transport failure always does, whatever the deadline.                   *)
Retries ==
    /\ phase = "attempt"
    /\ TimersQuiet
    /\ answer = "retryable"
    /\ retries < MaxRetries
    /\ \E d \in Delays :
        /\ Fits(d)
        /\ wakeAt' = IF d = 0 THEN None ELSE now + d
        /\ phase' = IF d = 0 THEN "attempt" ELSE "sleeping"
    /\ retries' = retries + 1
    /\ answer' = None
    /\ since' = now
    /\ UNCHANGED <<config, body, now, deadline, totalAt, readAt, outcome,
                   hops>>

(* The Delay has elapsed: the next attempt is sent.                        *)
Wakes ==
    /\ phase = "sleeping"
    /\ TimersQuiet
    /\ Fired(wakeAt)
    /\ phase' = "attempt"
    /\ wakeAt' = None
    /\ since' = now
    /\ UNCHANGED <<config, body, now, deadline, totalAt, readAt, answer,
                   retries, outcome, hops>>

(* TowerRedirectPolicy::on_request gives the new request the deadline of   *)
(* the first; the call below it counts its retries from zero.              *)
Redirects ==
    /\ phase = "attempt"
    /\ TimersQuiet
    /\ answer = "redirect"
    /\ answer' = None
    /\ retries' = 0
    /\ hops' = hops + 1
    /\ since' = now
    /\ UNCHANGED <<config, body, timers, now, phase, outcome>>

(* The caller drops the request or the response.                           *)
Drops ==
    /\ phase # "ended"
    /\ phase' = "ended"
    /\ outcome' = "dropped"
    /\ wakeAt' = None
    /\ UNCHANGED <<config, body, waits, now, deadline, totalAt, readAt>>

-----------------------------------------------------------------------------
(* The response body.                                                      *)

ServerSends ==
    /\ phase \in {"idle", "reading"}
    /\ ~closed
    /\ \/ /\ frames < MaxFrames
          /\ buffered' = buffered + 1
          /\ frames' = frames + 1
          /\ UNCHANGED closed
       \/ /\ closed' = TRUE
          /\ UNCHANGED <<buffered, frames>>
    /\ UNCHANGED <<config, timers, waits, now, phase, bodyReadAt, abandoned,
                   outcome>>

(* The caller reads: the first poll starts the Sleep unless one is active. *)
StartsRead ==
    /\ phase = "idle"
    /\ phase' = "reading"
    /\ bodyReadAt' = IF bodyReadAt = None THEN After(readTimeout)
                                          ELSE bodyReadAt
    /\ since' = now
    /\ UNCHANGED <<config, timers, now, answer, retries, buffered, closed,
                   frames, abandoned, outcome, hops>>

BodyTimersQuiet == ~Fired(totalAt) /\ ~Fired(bodyReadAt)

(* TotalTimeoutBody, then ReadTimeoutBody: timers before frames.           *)
BodyTimesOut ==
    /\ phase = "reading"
    /\ ~BodyTimersQuiet
    /\ outcome' = IF Fired(totalAt) THEN "total" ELSE "read"
    /\ phase' = "ended"
    /\ UNCHANGED <<config, body, timers, waits, now>>

(* Defect: a ready frame leaves the Sleep running.                         *)
GetsFrameUnreset ==
    /\ phase = "reading"
    /\ BodyTimersQuiet
    /\ \/ /\ buffered > 0
          /\ buffered' = buffered - 1
          /\ phase' = "idle"
          /\ UNCHANGED outcome
       \/ /\ buffered = 0
          /\ closed
          /\ phase' = "ended"
          /\ outcome' = "complete"
          /\ UNCHANGED buffered
    /\ UNCHANGED <<config, timers, waits, now, bodyReadAt, closed, frames,
                   abandoned>>

(* A ready frame resets the read timeout; the end of the body ends it.     *)
GetsFrame ==
    /\ phase = "reading"
    /\ BodyTimersQuiet
    /\ \/ /\ buffered > 0
          /\ buffered' = buffered - 1
          /\ phase' = "idle"
          /\ UNCHANGED outcome
       \/ /\ buffered = 0
          /\ closed
          /\ phase' = "ended"
          /\ outcome' = "complete"
          /\ UNCHANGED buffered
    /\ bodyReadAt' = None
    /\ UNCHANGED <<config, timers, waits, now, closed, frames, abandoned>>

(* The caller drops the future of a read (chunk() in a select!) and keeps  *)
(* the response: the body keeps its Sleep.                                 *)
AbandonsRead ==
    /\ phase = "reading"
    /\ phase' = "idle"
    /\ abandoned' = TRUE
    /\ UNCHANGED <<config, timers, waits, now, bodyReadAt, buffered, closed,
                   frames, outcome>>

-----------------------------------------------------------------------------
Polls ==
    \/ Execute
    \/ Arm
    \/ TimesOut
    \/ Returns
    \/ Retries
    \/ Wakes
    \/ Redirects
    \/ BodyTimesOut
    \/ GetsFrame

(* Something has woken the task.                                           *)
Woken ==
    \/ phase = "calling"
    \/ InFlight /\ (~TimersQuiet \/ answer # None \/ Fired(wakeAt))
    \/ phase = "reading" /\ (~BodyTimersQuiet \/ buffered > 0 \/ closed)

(* The timers that the task is waiting for.                                *)
Armed ==
    IF InFlight THEN {totalAt, readAt, wakeAt} \ {None}
    ELSE IF phase = "reading" THEN {totalAt, bodyReadAt} \ {None}
    ELSE {}

Tick ==
    /\ now < MaxTime \/ \E at \in Armed : now < at
    /\ prompt => ~Woken
    /\ now' = now + 1
    /\ UNCHANGED <<config, body, timers, waits, phase, outcome>>

Over ==
    /\ phase = "ended"
    /\ UNCHANGED vars

Next ==
    \/ Polls
    \/ ServerAnswers
    \/ Drops
    \/ ServerSends
    \/ StartsRead
    \/ AbandonsRead
    \/ Tick
    \/ Over

Spec == Init /\ [][Next]_vars

(* Time passes and the executor polls.  The server and the caller owe      *)
(* nothing.                                                                *)
FairSpec == Spec /\ WF_vars(Polls) /\ WF_vars(Tick)

-----------------------------------------------------------------------------
(* Properties.                                                             *)

(* Every retry delay ends before the total timeout fires, whichever hop    *)
(* the request is at: "sleeping past the deadline would just turn a real   *)
(* response into a timeout error" (retry.rs:451).                          *)
SleepEndsInTime ==
    phase = "sleeping" /\ totalAt # None => wakeAt < totalAt

(* With prompt polls a request never runs out of its total timeout in the  *)
(* middle of a retry delay: it is not kept from the response that it has.  *)
NoTotalTimeoutAsleep ==
    [][prompt /\ phase = "sleeping" => outcome' # "total"]_vars

(* The caller gets a head or a frame.                                      *)
Delivers ==
    \/ InFlight /\ phase' = "idle"
    \/ buffered' < buffered

(* With a total timeout no head and no frame reaches the caller once the   *)
(* timeout has fired, however late the task is polled: an answer that      *)
(* raced with the timer loses, and the timer outlives the head.            *)
NothingAfterDeadline ==
    [][totalTimeout # None /\ Delivers => totalAt # None /\ now < totalAt]_vars

(* With prompt polls, attempts, delays, redirects and reads are all over   *)
(* by the total timeout; a read that begins later fails at once.           *)
EndsByTotalTimeout ==
    prompt /\ totalTimeout # None /\ (InFlight \/ phase = "reading") =>
        totalAt # None /\ (now <= totalAt \/ now = since)

(* With prompt polls a body read times out only if the server was silent   *)
(* for the whole read timeout, however long the caller paused before it;   *)
(* provided that the caller has waited its earlier reads out.              *)
ReadTimeoutMeansStalled ==
    prompt /\ outcome = "read" /\ bodyReadAt # None /\ ~abandoned =>
        now - since >= readTimeout

(* A request with a timeout comes to a response or an error even if the    *)
(* server never answers, and a read of its body too.                       *)
WaitsEnd ==
    LET Timed == totalTimeout # None \/ readTimeout # None
    IN  /\ Timed /\ InFlight ~> ~InFlight
        /\ Timed /\ phase = "reading" ~> phase # "reading"

-----------------------------------------------------------------------------
(* The inductive invariant behind the safety properties.                   *)

(* Once the Sleeps exist, the total timeout's fires no earlier than the    *)
(* deadline, which was taken first; each is there if the timeout is.       *)
DeadlineFirst ==
    /\ phase = "calling" /\ totalTimeout # None =>
          deadline # None /\ deadline <= now + totalTimeout
    /\ InFlight /\ totalTimeout # None =>
          totalAt # None /\ deadline # None /\ deadline <= totalAt
    /\ phase \in {"idle", "reading"} /\ totalTimeout # None => totalAt # None
    /\ phase # "ended" /\ totalTimeout = None => totalAt = None

(* The body's Sleep is that of the read under way, if it was never kept    *)
(* from an abandoned one.                                                  *)
SleepOfRead ==
    /\ phase \notin {"reading", "ended"} /\ ~abandoned => bodyReadAt = None
    /\ phase \in {"new", "calling"} \/ InFlight =>
          bodyReadAt = None /\ ~abandoned
    /\ phase = "reading" /\ ~abandoned /\ bodyReadAt # None =>
          readTimeout # None /\ bodyReadAt = since + readTimeout

(* A prompt executor does not let a delay be slept over.                   *)
WokenInTime == prompt /\ phase = "sleeping" => now <= wakeAt

IInv ==
    /\ TypeOK
    /\ since <= now
    /\ buffered <= frames
    /\ answer = "redirect" => hops < MaxHops
    /\ phase # "ended" => outcome = None
    /\ DeadlineFirst
    /\ SleepOfRead
    /\ WokenInTime
    /\ SleepEndsInTime
    /\ EndsByTotalTimeout
    /\ ReadTimeoutMeansStalled
=============================================================================
