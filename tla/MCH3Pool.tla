------------------------------ MODULE MCH3Pool ------------------------------
(***************************************************************************)
(* H3Pool for TLC.                                                         *)
(*                                                                         *)
(* Requests and keys are interchangeable, but symmetry reduction would be  *)
(* unsound for liveness.  Which key a request has never changes, so it is  *)
(* enough to start from one assignment of keys out of those that only      *)
(* differ by a renaming: all requests to one key, or all but one.          *)
(***************************************************************************)
EXTENDS H3Pool, FiniteSets

ASSUME ThreeRequestsTwoKeys ==
    Cardinality(Requests) = 3 /\ Cardinality(Keys) = 2

MCInit ==
    /\ Init
    /\ LET r0 == CHOOSE r \in Requests : TRUE
           k0 == CHOOSE k \in Keys : TRUE
       IN  \A r \in Requests \ {r0} : key[r] = k0

MCSpec == MCInit /\ [][Next]_vars /\ Fairness
=============================================================================
