-------------------------- MODULE MC_ChannelRegistry --------------------------
(* ChannelRegistry on small sets; the two ways ids are given to channels. *)
EXTENDS ChannelRegistry, TLC

CONSTANTS a, b, i1, i2

\* Ids minted by TokenProvider.generate: no two channel objects share one.
DistinctIds == a :> i1 @@ b :> i2

\* Ids derived from the token: a channel created again has the id it had before.
SameId == a :> i1 @@ b :> i1

OneId == a :> i1
=============================================================================
