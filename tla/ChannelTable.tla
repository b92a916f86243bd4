------------------------------ MODULE ChannelTable ------------------------------
(***************************************************************************)
(* What the registry of channels promises, with one table where the code   *)
(* keeps four indexes and an object per channel: an entry under each id in *)
(* use, with the channel and its two tokens; no token in two places; and a *)
(* token that finds the channel of its entry and no other.                 *)
(*                                                                         *)
(* ChannelRegistry implements this module (Table in ChannelRegistry).      *)
(***************************************************************************)
EXTENDS Naturals, FiniteSets

CONSTANTS Id, Chan, Token, MaxChannels

VARIABLE table  \* the entries

Init == table = {}

IdsInUse == {e.id : e \in table}

Taken(t) == \E e \in table : t \in {e.mcp, e.provider}

\* What a client's token finds, and what a provider's does.
ClientFinds(t, ch)   == \E e \in table : e.mcp = t /\ e.channel = ch
ProviderFinds(t, ch) == \E e \in table : e.provider = t /\ e.channel = ch

MayCreate(i, m, p) ==
  /\ i \notin IdsInUse /\ Cardinality(IdsInUse) < MaxChannels
  /\ m # p /\ ~Taken(m) /\ ~Taken(p)

Create(i, ch, m, p) ==
  /\ MayCreate(i, m, p)
  /\ \A e \in table : e.channel # ch
  /\ table' = table \union {[id |-> i, channel |-> ch, mcp |-> m, provider |-> p]}

Remove(i) == table' = {e \in table : e.id # i}

Next ==
  \/ \E i \in Id, ch \in Chan, m, p \in Token : Create(i, ch, m, p)
  \/ \E i \in Id : Remove(i)

Spec == Init /\ [][Next]_table
===============================================================================
