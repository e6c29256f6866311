------------------------------ MODULE MCRequests ------------------------------
(***************************************************************************)
(* Requests for TLC.                                                       *)
(***************************************************************************)
EXTENDS Requests

MCPairings == {{"async", "blocking"}, {"async", "wasm"}}

MCDefaults ==
    {NoHeaders,
     [NoHeaders EXCEPT !["authorization"] = <<Value("default", FALSE)>>],
     [NoHeaders EXCEPT !["misc"] = <<Value("d1", FALSE), Value("d2", FALSE)>>]}
=============================================================================
