-------------------------- MODULE MCEndpointHealth --------------------------
(***************************************************************************)
(* Small instances of the endpoint bookkeeping: one endpoint with the full *)
(* accounting, several endpoints with the accounting of one failure.       *)
(***************************************************************************)
EXTENDS EndpointHealth
=============================================================================
