----------------------------- MODULE MCRedirect -----------------------------
(***************************************************************************)
(* Redirect for TLC: two hosts, one with https and one without, and a URL  *)
(* no request may go to.  The requests are interchangeable.                *)
(***************************************************************************)
EXTENDS Redirect, TLC

MCUrls == {[scheme |-> "https", host |-> "a"],
           [scheme |-> "http",  host |-> "b"],
           [scheme |-> "other", host |-> "b"]}

Symmetry == Permutations(Requests)
=============================================================================
