--------------------------- MODULE MC_Subscriptions ---------------------------
(* Subscriptions on small sets of sessions, uris and provider connections. *)
EXTENDS Subscriptions

\* Sessions, uris and connections are interchangeable in every property.
Symmetry == Permutations(Session) \union Permutations(Uri) \union Permutations(Sock)
=============================================================================
