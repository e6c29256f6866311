----------------------------- MODULE MCH3Exchange -----------------------------
(***************************************************************************)
(* H3Exchange for TLC: bodies of up to two frames of data, ending in every *)
(* way, and hosts with no address, one, or some of both families.          *)
(***************************************************************************)
EXTENDS H3Exchange

MCAddressLists == {<< >>, <<"v4">>, <<"v6", "v4", "v6">>}

MCBodySet ==
    {b \in [data : 0..2, trailers : BOOLEAN, exact : BOOLEAN,
            ends : {"end", "error", "panic", "never"}] :
        b.exact => ~b.trailers}
=============================================================================
