------------------------------- MODULE Delivery -------------------------------
(***************************************************************************)
(* What sending a body promises: the connection gets the bytes of the body *)
(* in order, and knows whether it got them all.                            *)
(***************************************************************************)
EXTENDS Naturals, Sequences

VARIABLES want, \* the body's bytes
          got,  \* those the connection has
          end   \* "open", "complete" or "broken", as the connection sees it

vars == <<want, got, end>>

Init == got = <<>> /\ end = "open"

(* The connection gets some of the bytes that come next.                   *)
Deliver ==
    /\ end = "open"
    /\ \E n \in (Len(got) + 1)..Len(want) : got' = SubSeq(want, 1, n)
    /\ UNCHANGED <<want, end>>

(* It takes the body to be complete only if it is.                         *)
Complete ==
    /\ end = "open" /\ got = want
    /\ end' = "complete"
    /\ UNCHANGED <<want, got>>

Break ==
    /\ end = "open"
    /\ end' = "broken"
    /\ UNCHANGED <<want, got>>

Next == Deliver \/ Complete \/ Break

Spec == Init /\ [][Next]_vars
=============================================================================
