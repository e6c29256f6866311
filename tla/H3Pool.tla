------------------------------- MODULE H3Pool -------------------------------
(***************************************************************************)
(* The HTTP/3 connection pool: src/async_impl/h3_client/pool.rs and its    *)
(* only user, H3Client::send_request in h3_client/mod.rs.                  *)
(*                                                                         *)
(* Each method of Pool takes the one mutex of PoolInner, so it is one      *)
(* action; between two methods, and at every await, other requests, the    *)
(* drivers of the connections and the clock may act.  A request is named   *)
(* by a member of Requests; it leads at most one attempt, so the watch     *)
(* channel and the connection that attempt makes bear its name.            *)
(***************************************************************************)

CONSTANTS Requests,        \* requests sent through the client
          Keys,            \* (Scheme, Authority) pairs
          None,            \* the absence of a request
          HasIdleTimeout   \* the pool was built with Some(timeout)

ASSUME PoolAssumption == None \notin Requests /\ HasIdleTimeout \in BOOLEAN

VARIABLES pc,          \* where each request's future is
          key,         \* the pool key each request asks for
          connecting,  \* PoolInner.connecting: whose watch::Sender k maps to
          sent,        \* the value of each watch channel: a connection or None
          waiter,      \* the channel each ConnectingWaiter is subscribed to
          client,      \* the connection behind each request's PoolClient
          conn,        \* what became of each connection and of its driver task
          idle,        \* PoolInner.idle_conns: the connection pooled for k
          stale        \* the pooled connection's idle_timeout has passed

vars == <<pc, key, connecting, sent, waiter, client, conn, idle, stale>>

(* "stranded": told that the attempt it waited for failed.                 *)
Settled == {"done", "failed", "stranded", "cancelled", "panicked"}
PCs == {"new", "start", "missed", "waiting", "connecting", "connected",
        "sending"} \cup Settled

(* "none": never made; "open": usable; "dead": closed, its driver has not  *)
(* said so yet; "reported": the driver sent its error on close_tx; "lost": *)
(* the driver task went away, and close_tx with it, without a word.        *)
ConnStates == {"none", "open", "dead", "reported", "lost"}

TypeOK ==
    /\ pc \in [Requests -> PCs]
    /\ key \in [Requests -> Keys]
    /\ connecting \in [Keys -> Requests \cup {None}]
    /\ sent \in [Requests -> Requests \cup {None}]
    /\ waiter \in [Requests -> Requests \cup {None}]
    /\ client \in [Requests -> Requests \cup {None}]
    /\ conn \in [Requests -> ConnStates]
    /\ idle \in [Keys -> Requests \cup {None}]
    /\ stale \in [Keys -> BOOLEAN]
    /\ \A r \in Requests :
        /\ pc[r] = "waiting" => waiter[r] \in Requests
        /\ pc[r] = "sending" => client[r] \in Requests

Init ==
    /\ pc = [r \in Requests |-> "new"]
    /\ key \in [Requests -> Keys]
    /\ connecting = [k \in Keys |-> None]
    /\ sent = [r \in Requests |-> None]
    /\ waiter = [r \in Requests |-> None]
    /\ client = [r \in Requests |-> None]
    /\ conn = [r \in Requests |-> "none"]
    /\ idle = [k \in Keys |-> None]
    /\ stale = [k \in Keys |-> FALSE]

-----------------------------------------------------------------------------
(* Requests.                                                               *)

(* H3Client::request: a URI that is neither https nor h3, or has no        *)
(* authority, is refused at once; otherwise the future is made.            *)
Request(r) ==
    /\ pc[r] = "new"
    /\ \E next \in {"start", "failed"} : pc' = [pc EXCEPT ![r] = next]
    /\ UNCHANGED <<key, connecting, sent, waiter, client, conn, idle, stale>>

(* PoolConnection::is_invalid: try_recv finds the driver's error, or finds *)
(* the sender gone.                                                        *)
IsInvalid(c) == conn[c] \in {"reported", "lost"}

(* Pool::try_pool finds a connection it accepts: PoolConnection::pool      *)
(* restarts its idle clock and clones the client.                          *)
TryPoolHit(r) ==
    LET k == key[r] IN
    /\ pc[r] = "start"
    /\ idle[k] # None
    /\ ~IsInvalid(idle[k])
    /\ ~stale[k]
    /\ stale' = [stale EXCEPT ![k] = FALSE]
    /\ client' = [client EXCEPT ![r] = idle[k]]
    /\ pc' = [pc EXCEPT ![r] = "sending"]
    /\ UNCHANGED <<key, connecting, sent, waiter, conn, idle>>

(* Defect: the idle time is compared the wrong way round.                  *)
TryPoolMissFresh(r) ==
    LET k == key[r] IN
    /\ pc[r] = "start"
    /\ idle[k] # None => IsInvalid(idle[k]) \/ ~stale[k]
    /\ idle' = [idle EXCEPT ![k] = None]
    /\ pc' = [pc EXCEPT ![r] = "missed"]
    /\ UNCHANGED <<key, connecting, sent, waiter, client, conn, stale>>

(* Pool::try_pool finds nothing, or removes what is closed or expired.     *)
TryPoolMiss(r) ==
    LET k == key[r] IN
    /\ pc[r] = "start"
    /\ \/ idle[k] = None
       \/ idle[k] # None /\ (IsInvalid(idle[k]) \/ stale[k])
    /\ idle' = [idle EXCEPT ![k] = None]
    /\ stale' = [stale EXCEPT ![k] = FALSE]
    /\ pc' = [pc EXCEPT ![r] = "missed"]
    /\ UNCHANGED <<key, connecting, sent, waiter, client, conn>>

(* Pool::connecting, an attempt in progress: subscribe to its channel.     *)
Subscribe(r) ==
    LET k == key[r] IN
    /\ pc[r] = "missed"
    /\ connecting[k] # None
    /\ waiter' = [waiter EXCEPT ![r] = connecting[k]]
    /\ pc' = [pc EXCEPT ![r] = "waiting"]
    /\ UNCHANGED <<key, connecting, sent, client, conn, idle, stale>>

(* Pool::connecting, none in progress: a new channel and the lock.         *)
Acquire(r) ==
    LET k == key[r] IN
    /\ pc[r] = "missed"
    /\ connecting[k] = None
    /\ connecting' = [connecting EXCEPT ![k] = r]
    /\ pc' = [pc EXCEPT ![r] = "connecting"]
    /\ UNCHANGED <<key, sent, waiter, client, conn, idle, stale>>

(* ConnectingWaiter::receive: wait_for sees a value, even after the sender *)
(* has gone.                                                               *)
WaiterReceives(r) ==
    /\ pc[r] = "waiting"
    /\ sent[waiter[r]] # None
    /\ client' = [client EXCEPT ![r] = sent[waiter[r]]]
    /\ pc' = [pc EXCEPT ![r] = "sending"]
    /\ UNCHANGED <<key, connecting, sent, waiter, conn, idle, stale>>

(* A channel's sender lives in the connecting map and nowhere else.        *)
SenderDropped(c) == \A k \in Keys : connecting[k] # c

(* Defect: a dropped sender is an error even if it has sent a value.       *)
WaiterFailsAnyway(r) ==
    /\ pc[r] = "waiting"
    /\ SenderDropped(waiter[r])
    /\ pc' = [pc EXCEPT ![r] = "stranded"]
    /\ UNCHANGED <<key, connecting, sent, waiter, client, conn, idle, stale>>

(* ConnectingWaiter::receive: the sender went away without a value.        *)
WaiterFails(r) ==
    /\ pc[r] = "waiting"
    /\ sent[waiter[r]] = None
    /\ SenderDropped(waiter[r])
    /\ pc' = [pc EXCEPT ![r] = "stranded"]
    /\ UNCHANGED <<key, connecting, sent, waiter, client, conn, idle, stale>>

(* Drop for ConnectingLock: whatever the key maps to is removed.           *)
DropLock(r) == connecting' = [connecting EXCEPT ![key[r]] = None]

(* Defect: a failed attempt keeps the lock.                                *)
ConnectFailsLocked(r) ==
    /\ pc[r] = "connecting"
    /\ pc' = [pc EXCEPT ![r] = "failed"]
    /\ UNCHANGED <<key, connecting, sent, waiter, client, conn, idle, stale>>

(* H3Connector::connect fails; the lock is dropped on the way out.         *)
ConnectFails(r) ==
    /\ pc[r] = "connecting"
    /\ DropLock(r)
    /\ pc' = [pc EXCEPT ![r] = "failed"]
    /\ UNCHANGED <<key, sent, waiter, client, conn, idle, stale>>

(* H3Connector::connect succeeds and new_connection spawns the driver,     *)
(* before it has the mutex: the connection may close from here on.         *)
Connects(r) ==
    /\ pc[r] = "connecting"
    /\ conn' = [conn EXCEPT ![r] = "open"]
    /\ pc' = [pc EXCEPT ![r] = "connected"]
    /\ UNCHANGED <<key, connecting, sent, waiter, client, idle, stale>>

(* Pool::new_connection under the mutex: forget the lock, take the sender  *)
(* out, hand the client to every waiter, and pool the connection, in place *)
(* of one that is already there.  Without a sender: unreachable!().        *)
NewConnection(r) ==
    LET k == key[r] IN
    /\ pc[r] = "connected"
    /\ IF connecting[k] = None
       THEN /\ pc' = [pc EXCEPT ![r] = "panicked"]
            /\ UNCHANGED <<connecting, sent, idle, stale, client>>
       ELSE /\ pc' = [pc EXCEPT ![r] = "sending"]
            /\ connecting' = [connecting EXCEPT ![k] = None]
            /\ sent' = [sent EXCEPT ![connecting[k]] = r]
            /\ idle' = [idle EXCEPT ![k] = r]
            /\ stale' = [stale EXCEPT ![k] = FALSE]
            /\ client' = [client EXCEPT ![r] = r]
    /\ UNCHANGED <<key, waiter, conn>>

(* PoolClient::send_request: the response head arrives.                    *)
Responds(r) ==
    /\ pc[r] = "sending"
    /\ conn[client[r]] = "open"
    /\ pc' = [pc EXCEPT ![r] = "done"]
    /\ UNCHANGED <<key, connecting, sent, waiter, client, conn, idle, stale>>

(* PoolClient::send_request: the stream, the body or the connection fails. *)
SendFails(r) ==
    /\ pc[r] = "sending"
    /\ pc' = [pc EXCEPT ![r] = "failed"]
    /\ UNCHANGED <<key, connecting, sent, waiter, client, conn, idle, stale>>

(* The caller drops the future (a timeout, a select!, a closed runtime):   *)
(* only before its first poll or at an await.  A dropped leader drops its  *)
(* lock; one that has connected is no longer at an await.                  *)
Cancel(r) ==
    /\ \/ /\ pc[r] \in {"start", "waiting", "sending"}
          /\ UNCHANGED connecting
       \/ pc[r] = "connecting" /\ DropLock(r)
    /\ pc' = [pc EXCEPT ![r] = "cancelled"]
    /\ UNCHANGED <<key, sent, waiter, client, conn, idle, stale>>

-----------------------------------------------------------------------------
(* The connections' driver tasks and the clock.                            *)

(* The peer or the transport closes the connection.                        *)
Closes(c) ==
    /\ conn[c] = "open"
    /\ conn' = [conn EXCEPT ![c] = "dead"]
    /\ UNCHANGED <<pc, key, connecting, sent, waiter, client, idle, stale>>

(* The driver's poll_close returns and its task sends the error.           *)
DriverReports(c) ==
    /\ conn[c] = "dead"
    /\ conn' = [conn EXCEPT ![c] = "reported"]
    /\ UNCHANGED <<pc, key, connecting, sent, waiter, client, idle, stale>>

(* The driver task is aborted or panics: close_tx is dropped unused.       *)
DriverLost(c) ==
    /\ conn[c] \in {"open", "dead"}
    /\ conn' = [conn EXCEPT ![c] = "lost"]
    /\ UNCHANGED <<pc, key, connecting, sent, waiter, client, idle, stale>>

(* More than the idle timeout has passed since the last PoolConnection     *)
(* ::pool; long-lived use of the clones does not count.                    *)
Expire(k) ==
    /\ HasIdleTimeout
    /\ idle[k] # None
    /\ ~stale[k]
    /\ stale' = [stale EXCEPT ![k] = TRUE]
    /\ UNCHANGED <<pc, key, connecting, sent, waiter, client, conn, idle>>

-----------------------------------------------------------------------------
(* What the runtime does for a request once it has been made: poll it.     *)
Poll(r) ==
    \/ TryPoolHit(r)
    \/ TryPoolMiss(r)
    \/ Subscribe(r)
    \/ Acquire(r)
    \/ WaiterReceives(r)
    \/ WaiterFails(r)
    \/ ConnectFails(r)
    \/ Connects(r)
    \/ NewConnection(r)
    \/ Responds(r)
    \/ SendFails(r)

Driver(c) == Closes(c) \/ DriverReports(c) \/ DriverLost(c)

(* Every request is over: the client may stay idle for ever.               *)
Quiescent ==
    /\ \A r \in Requests : pc[r] \in Settled
    /\ UNCHANGED vars

Next ==
    \/ \E r \in Requests : Request(r) \/ Poll(r) \/ Cancel(r)
    \/ \E c \in Requests : Driver(c)
    \/ \E k \in Keys : Expire(k)
    \/ Quiescent

Spec == Init /\ [][Next]_vars

(* The runtime polls every future that can make progress, and a connection *)
(* attempt and an exchange end one way or the other (quinn gives up on a   *)
(* silent peer).  Nothing makes a caller cancel or a connection close.     *)
Fairness == \A r \in Requests : WF_vars(Poll(r))

FairSpec == Spec /\ Fairness

-----------------------------------------------------------------------------
(* Properties.                                                             *)

Leading(r) == pc[r] \in {"connecting", "connected"}

(* The connecting map and the live ConnectingLocks agree: a key maps to    *)
(* r's sender exactly while r holds the lock for that key.  So there is    *)
(* one attempt per key at a time, a lock is never dropped on behalf of     *)
(* another holder, and no key is left locked with nobody connecting.       *)
LockIsHeld ==
    \A k \in Keys, r \in Requests :
        connecting[k] = r <=> Leading(r) /\ key[r] = k

(* new_connection's unreachable!("there should be one connecting lock at a *)
(* time") is unreachable; it would poison the mutex for every request.     *)
NeverPanics == \A r \in Requests : pc[r] # "panicked"

(* A waiter whose channel has neither a value nor a dropped sender waits   *)
(* for somebody who is still connecting to the waiter's own key.           *)
NoStrandedWaiter ==
    \A r \in Requests :
        LET w == waiter[r]
        IN  pc[r] = "waiting" /\ sent[w] = None /\ ~SenderDropped(w)
                => Leading(w) /\ key[w] = key[r]

(* Whatever way a request got its client (pool, its own attempt, another's *)
(* attempt), the connection was established, to the request's own key.     *)
ClientIsForKey ==
    \A r \in Requests :
        client[r] # None => key[client[r]] = key[r] /\ conn[client[r]] # "none"

(* A waiter is told "failed to establish connection" only of an attempt    *)
(* that was given up or failed without ever making a connection.           *)
FailureIsShared ==
    \A r \in Requests :
        pc[r] = "stranded" =>
            /\ waiter[r] # None
            /\ pc[waiter[r]] \in {"failed", "cancelled"}
            /\ conn[waiter[r]] = "none"

(* A connection known to be closed is not handed out by the pool: a        *)
(* request gets one only from the attempt it waited for, or made.          *)
ClosedOnlyFromAttempt ==
    [][\A r \in Requests :
        pc[r] = "start" /\ client'[r] # None =>
            conn[client'[r]] \notin {"reported", "lost"}]_vars

Usable(k) == idle[k] # None /\ ~IsInvalid(idle[k]) /\ ~stale[k]

(* Some request for k has missed the pool and has not yet given up or      *)
(* connected.                                                              *)
Racing(k) ==
    \E r \in Requests :
        key[r] = k /\ pc[r] \in {"missed", "connecting", "connected"}

(* While a usable connection is pooled and nobody is past try_pool for its *)
(* key, no request connects anew and the connection stays pooled.          *)
ReuseIsStable ==
    [][\A k \in Keys : Usable(k) /\ ~Racing(k) =>
            ~Racing(k)' /\ idle'[k] = idle[k]]_vars

(* Every request that is made ends, whoever else fails or is cancelled.    *)
EveryRequestSettles ==
    \A r \in Requests : pc[r] = "start" ~> pc[r] \in Settled

-----------------------------------------------------------------------------
(* The inductive invariant behind the safety properties.                   *)

(* What a request has, by where it is.                                     *)
HoldingsByPc ==
    \A r \in Requests :
        /\ pc[r] \in {"new", "start", "missed", "connecting"}
               => conn[r] = "none"
        /\ pc[r] = "connected" => conn[r] # "none"
        /\ pc[r] \in {"new", "start", "missed", "connecting", "connected"}
               => waiter[r] = None /\ client[r] = None
        /\ pc[r] = "waiting" => client[r] = None

(* A channel carries the connection of the attempt it was made for.        *)
SentIsOwn ==
    \A c \in Requests : sent[c] # None => sent[c] = c /\ conn[c] # "none"

(* A pooled connection is pooled under its own key, and was handed to      *)
(* whoever waited for it.                                                  *)
PooledUnderOwnKey ==
    \A k \in Keys :
        idle[k] # None =>
            /\ key[idle[k]] = k
            /\ conn[idle[k]] # "none"
            /\ sent[idle[k]] # None

(* Who was ever waited for led an attempt to the waiter's key; it is still *)
(* leading, or has sent its connection, or is over without one.            *)
WaitedForLed ==
    \A r \in Requests :
        waiter[r] # None =>
            LET c == waiter[r] IN
            /\ key[c] = key[r]
            /\ \/ Leading(c)
               \/ sent[c] # None
               \/ pc[c] \in {"failed", "cancelled"} /\ conn[c] = "none"

IInv ==
    /\ TypeOK
    /\ LockIsHeld
    /\ NeverPanics
    /\ HoldingsByPc
    /\ SentIsOwn
    /\ PooledUnderOwnKey
    /\ WaitedForLed
    /\ ClientIsForKey
    /\ FailureIsShared

-----------------------------------------------------------------------------
(* The pool implements SingleFlight.                                       *)

PhaseOf(r) ==
    CASE pc[r] \in {"new", "start", "missed"}  -> "idle"
      [] pc[r] \in {"connecting", "connected"} -> "leading"
      [] pc[r] = "waiting"                     -> "riding"
      [] pc[r] = "stranded"                    -> "stranded"
      [] OTHER                                 -> "over"

Flight == INSTANCE SingleFlight
            WITH phase  <- [r \in Requests |-> PhaseOf(r)],
                 leader <- connecting,
                 landed <- [r \in Requests |-> sent[r] # None],
                 ride   <- waiter,
                 got    <- client

(* Every step of the pool is a step of SingleFlight or leaves it alone.    *)
ImplementsSingleFlight == Flight!Spec
=============================================================================
