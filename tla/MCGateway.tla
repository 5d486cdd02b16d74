----------------------------- MODULE MCGateway -----------------------------
(* Gateway for TLC: a success, one that only a passthrough endpoint takes  *)
(* for a success, and an error.                                            *)
EXTENDS Gateway

MCBackendStatuses == {200, 204, 429}

MCHookStatuses == {403}

=============================================================================
