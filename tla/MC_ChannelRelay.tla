--------------------------- MODULE MC_ChannelRelay ---------------------------
(* ChannelRelay on small sets of provider connections and requests. *)
EXTENDS ChannelRelay

\* Connections and requests are interchangeable in every safety property.
RelaySymmetry == Permutations(Sock) \union Permutations(Call)
=============================================================================
