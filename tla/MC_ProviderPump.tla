--------------------------- MODULE MC_ProviderPump ---------------------------
(* ProviderPump with two client sessions, of which one made a request. *)
EXTENDS ProviderPump, TLC

CONSTANTS c1, x1

FromX1 == c1 :> x1
=============================================================================
