------------------------ MODULE MCServerConnections ------------------------
(* Three clients in turn for two places, so that a place is used again.    *)
EXTENDS ServerConnections
=============================================================================
