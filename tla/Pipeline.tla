------------------------------ MODULE Pipeline ------------------------------
(***************************************************************************)
(* The words every part of the gateway shares (internal/pipeline): the     *)
(* protocols and the kinds of endpoint.                                    *)
(***************************************************************************)

Protocols == {"openai", "anthropic"}

EndpointKinds == {"chat", "completion", "embedding", "model_list"}

=============================================================================
