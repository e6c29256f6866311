--------------------------- MODULE BlockingClient ---------------------------
(***************************************************************************)
(* The blocking client: blocking/client.rs, wait.rs and the streaming      *)
(* sender of body.rs.                                                      *)
(*                                                                         *)
(* A ClientHandle owns a thread that runs an async Client.  Threads that   *)
(* share the handle send it requests over a channel, each with a oneshot   *)
(* for the result, and park in wait::timeout() until it is filled; a       *)
(* streaming body is read by the calling thread and handed over chunk by   *)
(* chunk first.  The thread ends when the last holder of the handle, a     *)
(* Client or a Response, is dropped, and the drop waits for that.          *)
(***************************************************************************)
EXTENDS Naturals, Sequences

CONSTANTS Callers,     \* threads that share the client
          Creators,    \* those that may make it
          Streamers,   \* those that may send a streaming body
          MaxCalls,    \* bound: requests per caller
          MaxChunks    \* bound: chunks of a streaming body

ASSUME BlockingAssumption ==
    /\ Creators \subseteq Callers /\ Streamers \subseteq Callers
    /\ MaxCalls \in Nat /\ MaxChunks \in Nat

Calls == Callers \X (1..MaxCalls)

VARIABLES hasTimeout, \* the client's requests have a timeout
          mayPanic, \* user code that is run for a request may panic
          runtime,  \* the runtime thread
          queue,    \* requests sent to it and not received
          task,     \* the spawned forward() of each call
          slot,     \* the oneshot for the result of each call
          body,     \* the request body of each call, see Bodies
          pc,       \* where each thread is
          count,    \* calls made by each thread; the last is the current one
          handle,   \* threads that own a Client
          resp,     \* threads that own a Response
          token,    \* the park token of each thread
          expired,  \* the deadline of each thread's call has passed
          outcome,  \* history: how each call ended
          parked    \* history: calls answered while their thread was parked

config == <<hasTimeout, mayPanic>>
vars == <<config, runtime, queue, task, slot, body, pc, count, handle, resp,
          token, expired, outcome, parked>>

(* What a thread's own steps leave alone, and what other steps do.         *)
core == <<config, runtime, queue, task, slot, parked>>
owners == <<handle, resp>>
call == <<count, expired, outcome>>
caller == <<pc, owners, call>>

(* left: chunks still to be read from the Reader.  chan: what is in the    *)
(* channel.  tx: the caller still has the sending end.  rx: the connection *)
(* still reads.  end: how the connection saw the body end.                 *)
Bodies == [left : 0..MaxChunks, chan : {"none", "data", "abort"},
           tx : BOOLEAN, rx : BOOLEAN, end : {"none", "whole", "cut", "abort"}]

NoBody == [left |-> 0, chan |-> "none", tx |-> FALSE, rx |-> FALSE,
           end |-> "none"]

Waits == {"polling", "checking", "parked"}

TypeOK ==
    /\ hasTimeout \in BOOLEAN /\ mayPanic \in BOOLEAN
    /\ runtime \in {"none", "starting", "running", "failed", "exited",
                    "panicked"}
    /\ queue \in Seq(Calls)
    /\ task \in [Calls -> {"none", "queued", "running", "over"}]
    /\ slot \in [Calls -> {"empty", "response", "error", "closed"}]
    /\ body \in [Calls -> Bodies]
    /\ pc \in [Callers -> Waits \cup {"free", "creating", "joining"}]
    /\ count \in [Callers -> 0..MaxCalls]
    /\ handle \subseteq Callers /\ resp \subseteq Callers
    /\ token \in [Callers -> BOOLEAN]
    /\ expired \in [Callers -> BOOLEAN]
    /\ outcome \in [Calls -> {"none", "response", "error", "timeout",
                              "body error", "canceled", "dead"}]
    /\ parked \subseteq Calls

Init ==
    /\ hasTimeout \in BOOLEAN /\ mayPanic \in BOOLEAN
    /\ runtime = "none"
    /\ queue = << >>
    /\ task = [c \in Calls |-> "none"]
    /\ slot = [c \in Calls |-> "empty"]
    /\ body = [c \in Calls |-> NoBody]
    /\ pc = [p \in Callers |-> "free"]
    /\ count = [p \in Callers |-> 0]
    /\ handle = {} /\ resp = {}
    /\ token = [p \in Callers |-> FALSE]
    /\ expired = [p \in Callers |-> FALSE]
    /\ outcome = [c \in Calls |-> "none"]
    /\ parked = {}

Cur(p) == <<p, count[p]>>

(* A call whose thread still waits for it: its oneshot has a receiver.     *)
Listening(c) == pc[c[1]] \in Waits /\ c = Cur(c[1])

(* The future that the thread polls is still in body.send().               *)
Feeding(c) == body[c].tx

(* Defect: a Response does not keep the runtime thread alive.              *)
HoldersClients == handle

(* Who has an Arc of the InnerClientHandle.                                *)
Holders == handle \cup resp

-----------------------------------------------------------------------------
(* ClientHandle::new                                                       *)

New(p) ==
    /\ p \in Creators
    /\ runtime = "none"
    /\ pc' = [pc EXCEPT ![p] = "creating"]
    /\ runtime' = "starting"
    /\ UNCHANGED <<config, call, owners, queue, task, slot, body, token,
                   parked>>

(* The runtime and the async client are built, or one of them fails.       *)
Starts ==
    /\ runtime = "starting"
    /\ runtime' \in {"running", "failed"}
    /\ UNCHANGED <<config, caller, queue, task, slot, body, token, parked>>

Created(p) ==
    /\ pc[p] = "creating"
    /\ runtime # "starting"
    /\ handle' = IF runtime = "running" THEN handle \cup {p} ELSE handle
    /\ pc' = [pc EXCEPT ![p] = "free"]
    /\ UNCHANGED <<core, call, body, resp, token>>

(* A Client is cloned and given to another thread.                         *)
Clone(p, q) ==
    /\ p \in handle \ {q} /\ pc[p] = "free"
    /\ q \notin handle /\ pc[q] = "free"
    /\ handle' = handle \cup {q}
    /\ UNCHANGED <<core, call, body, pc, resp, token>>

-----------------------------------------------------------------------------
(* execute_request and wait::timeout, on the calling thread                *)

(* The request is sent; if the runtime thread is gone, expect() panics.    *)
Send(p) ==
    /\ pc[p] = "free" /\ p \in handle
    /\ count[p] < MaxCalls
    /\ LET c == <<p, count[p] + 1>>
       IN IF runtime = "running"
          THEN /\ queue' = Append(queue, c)
               /\ task' = [task EXCEPT ![c] = "queued"]
               /\ pc' = [pc EXCEPT ![p] = "polling"]
               /\ \/ UNCHANGED body
                  \/ p \in Streamers /\ \E n \in 0..MaxChunks :
                       body' = [body EXCEPT ![c].left = n, ![c].tx = TRUE,
                                            ![c].rx = TRUE]
               /\ UNCHANGED outcome
          ELSE /\ outcome' = [outcome EXCEPT ![c] = "dead"]
               /\ UNCHANGED <<queue, task, pc, body>>
    /\ count' = [count EXCEPT ![p] = @ + 1]
    /\ expired' = [expired EXCEPT ![p] = FALSE]
    /\ UNCHANGED <<config, owners, runtime, slot, token, parked>>

(* The call is over for its thread: the oneshot's receiver, and what is    *)
(* left of the body's sender, are dropped.                                 *)
Leave(p, how, newBody) ==
    /\ pc' = [pc EXCEPT ![p] = "free"]
    /\ outcome' = [outcome EXCEPT ![Cur(p)] = how]
    /\ body' = [body EXCEPT ![Cur(p)] = [newBody EXCEPT !.tx = FALSE]]
    /\ UNCHANGED <<core, count, handle, token, expired>>

(* The chunk sent last has not been taken.                                 *)
Busy(b) == b.chan = "data" /\ b.rx

(* send_future, one poll: the Reader is asked only when the channel is     *)
(* free; a chunk is then sent and waited for.  The Reader may be at its    *)
(* end, and sending fails if the connection does not want the body.        *)
Feed(p) ==
    LET c == Cur(p)
        b == body[c]
    IN  /\ pc[p] = "polling" /\ Feeding(c)
        /\ \/ /\ Busy(b)
              /\ pc' = [pc EXCEPT ![p] = "checking"]
              /\ UNCHANGED <<core, call, owners, body, token>>
           \/ /\ ~Busy(b) /\ b.left = 0
              /\ body' = [body EXCEPT ![c].tx = FALSE]
              /\ UNCHANGED <<caller, core, token>>
           \/ /\ ~Busy(b) /\ b.left > 0 /\ b.rx
              /\ body' = [body EXCEPT ![c].left = @ - 1, ![c].chan = "data"]
              /\ UNCHANGED <<caller, core, token>>
           \/ /\ b.left > 0 /\ ~b.rx
              /\ Leave(p, "body error", b)
              /\ UNCHANGED resp

(* Defect: the error of the Reader is returned, the body just ends.        *)
ReadFailsSilently(p) ==
    LET b == body[Cur(p)]
    IN  /\ pc[p] = "polling" /\ Feeding(Cur(p))
        /\ b.left > 0 /\ ~Busy(b)
        /\ Leave(p, "body error", b)
        /\ UNCHANGED resp

(* The Reader fails: the connection is told to abort.                      *)
ReadFails(p) ==
    LET b == body[Cur(p)]
    IN  /\ pc[p] = "polling" /\ Feeding(Cur(p))
        /\ b.left > 0 /\ ~Busy(b)
        /\ Leave(p, "body error",
                 [b EXCEPT !.chan = IF b.rx THEN "abort" ELSE @])
        /\ UNCHANGED resp

(* The oneshot is polled: a response (which holds the handle too), an      *)
(* error, nothing yet, or a sender that is gone: event_loop_panicked().    *)
Poll(p) ==
    LET c == Cur(p)
    IN  /\ pc[p] = "polling" /\ ~Feeding(c)
        /\ CASE slot[c] = "empty" ->
                  /\ pc' = [pc EXCEPT ![p] = "checking"]
                  /\ UNCHANGED <<core, call, owners, body, token>>
             [] slot[c] = "response" ->
                  /\ Leave(p, "response", body[c])
                  /\ resp' = resp \cup {p}
             [] slot[c] = "error" ->
                  Leave(p, "error", body[c]) /\ UNCHANGED resp
             [] slot[c] = "closed" ->
                  Leave(p, "canceled", body[c]) /\ UNCHANGED resp

(* Defect: the deadline is looked at before the future is polled.          *)
TimesOutUnpolled(p) ==
    /\ pc[p] \in {"polling", "checking"} /\ expired[p]
    /\ Leave(p, "timeout", body[Cur(p)])
    /\ UNCHANGED resp

TimesOut(p) ==
    /\ pc[p] = "checking" /\ expired[p]
    /\ Leave(p, "timeout", body[Cur(p)])
    /\ UNCHANGED resp

Parks(p) ==
    /\ pc[p] = "checking" /\ ~expired[p]
    /\ pc' = [pc EXCEPT ![p] = "parked"]
    /\ UNCHANGED <<core, call, owners, body, token>>

(* park_timeout() returns: unparked, or the time is over, ...              *)
Unparks(p) ==
    /\ pc[p] = "parked" /\ (token[p] \/ expired[p])
    /\ pc' = [pc EXCEPT ![p] = "polling"]
    /\ token' = [token EXCEPT ![p] = FALSE]
    /\ UNCHANGED <<core, call, owners, body>>

(* ... or spuriously.                                                      *)
SpuriouslyUnparks(p) ==
    /\ pc[p] = "parked"
    /\ pc' = [pc EXCEPT ![p] = "polling"]
    /\ UNCHANGED <<core, call, owners, body, token>>

(* The deadline that was set when the wait began passes.                   *)
Expires(p) ==
    /\ hasTimeout
    /\ pc[p] \in Waits /\ ~expired[p]
    /\ expired' = [expired EXCEPT ![p] = TRUE]
    /\ UNCHANGED <<core, owners, body, pc, count, token, outcome>>

-----------------------------------------------------------------------------
(* Drop for InnerClientHandle                                              *)

(* A Client or a Response is dropped.  The last one hangs up and joins.    *)
DropOne(p, clients, responses) ==
    /\ pc[p] = "free"
    /\ handle' = clients /\ resp' = responses
    /\ pc' = [pc EXCEPT ![p] = IF Holders' = {} THEN "joining" ELSE @]
    /\ UNCHANGED <<core, call, body, token>>

DropClient(p) == p \in handle /\ DropOne(p, handle \ {p}, resp)

DropResponse(p) == p \in resp /\ DropOne(p, handle, resp \ {p})

Joined(p) ==
    /\ pc[p] = "joining"
    /\ runtime \in {"exited", "panicked"}
    /\ pc' = [pc EXCEPT ![p] = "free"]
    /\ UNCHANGED <<core, call, owners, body, token>>

-----------------------------------------------------------------------------
(* The runtime thread                                                      *)

(* The thread of a call is woken if the future it polled last waits for    *)
(* this: the room in the body's channel, or the result.                    *)
Wake(calls, feeding) ==
    token' = [p \in Callers |->
        token[p] \/ /\ pc[p] \in {"checking", "parked"}
                    /\ Cur(p) \in calls
                    /\ Feeding(Cur(p)) = feeding]

Receive ==
    /\ runtime = "running"
    /\ queue # << >>
    /\ task' = [task EXCEPT ![Head(queue)] = "running"]
    /\ queue' = Tail(queue)
    /\ UNCHANGED <<config, caller, runtime, slot, body, token, parked>>

(* The future completes.  If nobody listens the value is dropped.          *)
Answer(c) ==
    /\ runtime = "running" /\ task[c] = "running"
    /\ slot' \in {[slot EXCEPT ![c] = v] : v \in {"response", "error"}}
    /\ task' = [task EXCEPT ![c] = "over"]
    /\ Wake({c}, FALSE)
    /\ parked' = IF Listening(c) /\ pc[c[1]] = "parked" /\ ~Feeding(c)
                 THEN parked \cup {c} ELSE parked
    /\ UNCHANGED <<config, caller, runtime, queue, body>>

(* Defect: forward() does not look whether the caller has left.            *)
CancelsNever(c) == FALSE /\ UNCHANGED vars

(* forward() sees that the caller has left, and drops the future.          *)
Cancels(c) ==
    /\ runtime = "running" /\ task[c] = "running"
    /\ ~Listening(c)
    /\ task' = [task EXCEPT ![c] = "over"]
    /\ UNCHANGED <<config, caller, runtime, queue, slot, body, token, parked>>

(* User code (a redirect policy, a resolver, a middleware) panics in the   *)
(* spawned task: tokio catches it, and the oneshot's sender is dropped.    *)
TaskPanics(c) ==
    /\ mayPanic
    /\ runtime = "running" /\ task[c] = "running"
    /\ task' = [task EXCEPT ![c] = "over"]
    /\ slot' = [slot EXCEPT ![c] = "closed"]
    /\ Wake({c}, FALSE)
    /\ UNCHANGED <<config, caller, runtime, queue, body, parked>>

Unanswered == {c \in Calls : task[c] \in {"queued", "running"}}

(* The thread ends: the channel, the tasks and the connections with it.    *)
Ends(how) ==
    /\ runtime' = how
    /\ queue' = << >>
    /\ task' = [c \in Calls |-> IF c \in Unanswered THEN "over" ELSE task[c]]
    /\ slot' = [c \in Calls |-> IF c \in Unanswered THEN "closed" ELSE slot[c]]
    /\ body' = [c \in Calls |-> [body[c] EXCEPT !.rx = FALSE]]
    /\ token' = [p \in Callers |->
                    token[p] \/ pc[p] \in {"checking", "parked"}]
    /\ UNCHANGED <<config, caller, parked>>

(* User code that execute() itself calls (a custom proxy) panics.          *)
ThreadPanics ==
    /\ mayPanic
    /\ runtime = "running" /\ queue # << >>
    /\ Ends("panicked")

(* Defect: the loop ends when there is nothing to do.                      *)
HangsUpIdle ==
    /\ runtime = "running" /\ queue = << >>
    /\ Unanswered = {}
    /\ Ends("exited")

(* recv() returns None: the sender is gone and the queue is empty.         *)
HangsUp ==
    /\ runtime = "running" /\ queue = << >>
    /\ Holders = {}
    /\ \A p \in Callers : pc[p] # "creating"
    /\ Ends("exited")

(* hyper (external) reads the body.                                        *)
Consume(c) ==
    /\ body[c].rx /\ body[c].chan # "none"
    /\ body' = [body EXCEPT ![c].chan = "none",
                            ![c].rx = body[c].chan = "data",
                            ![c].end = IF body[c].chan = "abort" THEN "abort"
                                                                 ELSE @]
    /\ Wake({c}, TRUE)
    /\ UNCHANGED <<caller, core>>

(* The channel is empty and has no sender any more: the body is complete,  *)
(* as far as hyper can see.                                                *)
SeeEnd(c) ==
    /\ body[c].rx /\ body[c].chan = "none" /\ ~body[c].tx
    /\ body' = [body EXCEPT ![c].rx = FALSE,
                            ![c].end =
                                IF body[c].left = 0 THEN "whole" ELSE "cut"]
    /\ UNCHANGED <<caller, core, token>>

(* hyper does not want the rest.                                           *)
Refuse(c) ==
    /\ body[c].rx
    /\ body' = [body EXCEPT ![c].rx = FALSE]
    /\ Wake({c}, TRUE)
    /\ UNCHANGED <<caller, core>>

-----------------------------------------------------------------------------
Step(p) ==
    \/ Created(p)
    \/ Feed(p)
    \/ Poll(p)
    \/ TimesOut(p)
    \/ Parks(p)
    \/ Unparks(p)
    \/ Joined(p)

Reads(c) == Consume(c) \/ SeeEnd(c)

Done ==
    /\ \A p \in Callers : pc[p] = "free"
    /\ UNCHANGED vars

Next ==
    \/ \E p \in Callers :
          \/ New(p)
          \/ Send(p)
          \/ Step(p)
          \/ ReadFails(p)
          \/ SpuriouslyUnparks(p)
          \/ Expires(p)
          \/ DropClient(p)
          \/ DropResponse(p)
    \/ \E p, q \in Callers : Clone(p, q)
    \/ Starts
    \/ Receive
    \/ ThreadPanics
    \/ HangsUp
    \/ \E c \in Calls :
          \/ Answer(c)
          \/ Cancels(c)
          \/ TaskPanics(c)
          \/ Reads(c)
          \/ Refuse(c)
    \/ Done

Spec == Init /\ [][Next]_vars

(* Threads that can run do, and so does time.  The server owes an answer   *)
(* only to a call without a timeout.                                       *)
FairSpec ==
    /\ Spec
    /\ \A p \in Callers : WF_vars(Step(p)) /\ WF_vars(Expires(p))
    /\ WF_vars(Starts \/ Receive \/ HangsUp)
    /\ \A c \in Calls : WF_vars(Cancels(c))
    /\ \A c \in Calls : WF_vars(~hasTimeout /\ (Answer(c) \/ Reads(c)))

-----------------------------------------------------------------------------
(* Properties.                                                             *)

(* The runtime outlives its users: while a thread has a Client, a Response *)
(* whose body it may still read, or a call under way, the runtime thread   *)
(* has not been shut down.                                                 *)
RuntimeOutlivesUsers ==
    runtime = "exited" =>
        \A p \in Callers :
            p \notin handle /\ p \notin resp /\ pc[p] \notin Waits

(* event_loop_panicked() and the two expect()s are reached only if user    *)
(* code has panicked: never through shutdown, timeouts or cancellation.    *)
PanicsOnlyAfterPanic ==
    ~mayPanic => \A c \in Calls : outcome[c] \notin {"canceled", "dead"}

(* An answer that came while the caller was parked is not lost to the      *)
(* timeout: the future is polled once more after the last park.            *)
AnswerBeatsTimeout ==
    \A c \in parked : outcome[c] # "timeout"

(* Without a timeout that cuts the caller short, the connection never      *)
(* takes a body for complete of which the Reader had more: a Reader that   *)
(* fails makes it abort.                                                   *)
CompleteOrAborted ==
    ~hasTimeout => \A c \in Calls : body[c].end # "cut"

(* A blocking call returns; one that the caller has left, timed out for    *)
(* instance, does not run on: its future is dropped and with it what it    *)
(* holds; and dropping the last Client or Response does not hang.          *)
EverythingEnds ==
    /\ \A p \in Callers : pc[p] \in Waits ~> pc[p] \notin Waits
    /\ \A c \in Calls :
          (task[c] = "running" /\ ~Listening(c)) ~> task[c] = "over"
    /\ \A p \in Callers : pc[p] = "joining" ~> pc[p] # "joining"

-----------------------------------------------------------------------------
(* The inductive invariant behind the safety properties.                   *)

(* Whoever has a part of the handle has a thread at the other end, which   *)
(* nobody has hung up on; and who waits for a call has a Client.           *)
HandleKeepsRuntime ==
    /\ Holders # {} => runtime \in {"running", "panicked"}
    /\ runtime = "exited" => \A p \in Callers : pc[p] # "creating"
    /\ \A p \in Callers :
          pc[p] \in Waits => p \in handle /\ count[p] \in 1..MaxCalls

(* Only a panic, or the end of the thread, closes a oneshot.               *)
PanicsClose ==
    ~mayPanic => /\ runtime # "panicked"
                 /\ runtime # "exited" => \A c \in Calls : slot[c] # "closed"

(* A sender that was dropped early, with a connection that still reads,    *)
(* has left an Abort in the channel.                                       *)
EndsWell(b) ==
    /\ b.end # "cut"
    /\ (b.rx /\ ~b.tx /\ b.left > 0) => b.chan = "abort"

EarlyEndAborts ==
    ~hasTimeout => /\ \A p \in Callers : ~expired[p]
                   /\ \A c \in Calls : EndsWell(body[c])

(* Each call is queued once, when it is made.                              *)
QueuedOnce ==
    /\ \A c \in Calls : c[2] > count[c[1]] => task[c] = "none"
    /\ \A i \in 1..Len(queue) : task[queue[i]] = "queued"
    /\ \A i, j \in 1..Len(queue) : i # j => queue[i] # queue[j]

(* A call has no outcome before its thread is done with it.                *)
Undecided ==
    \A c \in Calls :
        c[2] > count[c[1]] \/ Listening(c) => outcome[c] = "none"

(* A caller that was parked when its answer came only polls from there on. *)
Answered(c) ==
    /\ slot[c] \in {"response", "error"}
    /\ task[c] = "over"
    /\ ~body[c].tx
    /\ outcome[c] # "timeout"
    /\ Listening(c) => pc[c[1]] \in {"polling", "parked"}

ParkedAreAnswered == \A c \in parked : Answered(c)

IInv ==
    /\ TypeOK
    /\ HandleKeepsRuntime
    /\ PanicsClose /\ PanicsOnlyAfterPanic
    /\ EarlyEndAborts
    /\ QueuedOnce /\ Undecided
    /\ ParkedAreAnswered
=============================================================================
