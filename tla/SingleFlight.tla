---------------------------- MODULE SingleFlight ----------------------------
(***************************************************************************)
(* What the HTTP/3 connection pool promises about connection attempts,     *)
(* without saying how: at most one attempt per key is in the air, every    *)
(* request that joins an attempt gets exactly that attempt's outcome, and  *)
(* a request only ever uses a connection that some attempt to its own key  *)
(* has landed.                                                             *)
(***************************************************************************)

CONSTANTS Requests,   \* requests; each leads at most one attempt
          Keys,       \* what connections are keyed by: (scheme, authority)
          None        \* the absence of a request

VARIABLES phase,      \* phase[r]: "idle", "leading", "riding", "over", or
                      \* "stranded": told that the attempt it joined failed
          key,        \* key[r]: the key r asks for
          leader,     \* leader[k]: who leads the attempt to k, or None
          landed,     \* landed[a]: attempt a produced a connection
          ride,       \* ride[r]: the attempt r joined, or None
          got         \* got[r]: the attempt whose connection r uses, or None

vars == <<phase, key, leader, landed, ride, got>>

Init ==
    /\ phase = [r \in Requests |-> "idle"]
    /\ key \in [Requests -> Keys]
    /\ leader = [k \in Keys |-> None]
    /\ landed = [r \in Requests |-> FALSE]
    /\ ride = [r \in Requests |-> None]
    /\ got = [r \in Requests |-> None]

(* r starts the attempt to its key: nobody else is trying.                 *)
Lead(r) ==
    /\ phase[r] = "idle"
    /\ leader[key[r]] = None
    /\ leader' = [leader EXCEPT ![key[r]] = r]
    /\ phase' = [phase EXCEPT ![r] = "leading"]
    /\ UNCHANGED <<key, landed, ride, got>>

(* r finds an attempt in the air and joins it.                             *)
Join(r) ==
    /\ phase[r] = "idle"
    /\ leader[key[r]] # None
    /\ ride' = [ride EXCEPT ![r] = leader[key[r]]]
    /\ phase' = [phase EXCEPT ![r] = "riding"]
    /\ UNCHANGED <<key, leader, landed, got>>

(* The attempt r leads lands; r is the first to use the connection.        *)
Land(r) ==
    /\ phase[r] = "leading"
    /\ leader' = [leader EXCEPT ![key[r]] = None]
    /\ landed' = [landed EXCEPT ![r] = TRUE]
    /\ got' = [got EXCEPT ![r] = r]
    /\ phase' = [phase EXCEPT ![r] = "over"]
    /\ UNCHANGED <<key, ride>>

(* The attempt r leads fails, or r gives up: nothing landed.               *)
Abort(r) ==
    /\ phase[r] = "leading"
    /\ leader' = [leader EXCEPT ![key[r]] = None]
    /\ phase' = [phase EXCEPT ![r] = "over"]
    /\ UNCHANGED <<key, landed, ride, got>>

(* A passenger gets the connection its own attempt landed.                 *)
Arrive(r) ==
    /\ phase[r] = "riding"
    /\ landed[ride[r]]
    /\ got' = [got EXCEPT ![r] = ride[r]]
    /\ phase' = [phase EXCEPT ![r] = "over"]
    /\ UNCHANGED <<key, leader, landed, ride>>

(* A passenger is told of a failure only when the attempt is over and has  *)
(* landed nothing.                                                         *)
Strand(r) ==
    /\ phase[r] = "riding"
    /\ phase[ride[r]] = "over"
    /\ ~landed[ride[r]]
    /\ phase' = [phase EXCEPT ![r] = "stranded"]
    /\ UNCHANGED <<key, leader, landed, ride, got>>

(* r uses a connection to its key that landed earlier.                     *)
Reuse(r, a) ==
    /\ phase[r] = "idle"
    /\ landed[a]
    /\ key[a] = key[r]
    /\ got' = [got EXCEPT ![r] = a]
    /\ phase' = [phase EXCEPT ![r] = "over"]
    /\ UNCHANGED <<key, leader, landed, ride>>

(* r is dropped by its caller, or rejected, while it holds nothing.        *)
Leave(r) ==
    /\ phase[r] \in {"idle", "riding"}
    /\ phase' = [phase EXCEPT ![r] = "over"]
    /\ UNCHANGED <<key, leader, landed, ride, got>>

Next ==
    \E r \in Requests :
        \/ Lead(r)
        \/ Join(r)
        \/ Land(r)
        \/ Abort(r)
        \/ Arrive(r)
        \/ Strand(r)
        \/ \E a \in Requests : Reuse(r, a)
        \/ Leave(r)

Spec == Init /\ [][Next]_vars
=============================================================================
