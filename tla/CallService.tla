---------------------------- MODULE CallService ----------------------------
(***************************************************************************)
(* What a channel promises to the MCP requests it relays, with no queues,  *)
(* locks, timers or futures: at most one provider serves the channel, a    *)
(* request is open with the provider of that moment only, it is answered   *)
(* while it is open or not at all, and it ends exactly once.               *)
(*                                                                         *)
(* ChannelRelay implements this module (Service in ChannelRelay).          *)
(***************************************************************************)
CONSTANTS
  Sock,       \* provider websockets
  Call,       \* MCP requests, one request id each
  NoSock      \* no provider

VARIABLES
  provider,   \* the websocket that serves the channel, or NoSock
  status      \* Call -> Status

vars == <<provider, status>>

\* "open" is in flight; "answered" and "lost" are decided but not yet reported
\* to the client; "leaving" was given up by a timer or by the client.
Undecided == {"open"}
Decided   == {"answered", "lost", "leaving"}
Ended     == {"returned", "refused", "offline", "replaced", "timeout",
              "mcp_client_cancelled"}
Status    == {"idle"} \union Undecided \union Decided \union Ended

Init ==
  /\ provider = NoSock
  /\ status = [c \in Call |-> "idle"]

\* A provider arrives or leaves: every open request is lost with the old one.
Switch(p) ==
  /\ p # provider
  /\ provider' = p
  /\ status' = [c \in Call |-> IF status[c] = "open" THEN "lost" ELSE status[c]]

\* The only way from one status of a request to the next.
Follows(from, to) ==
  \/ from = "idle"     /\ to = "refused"
  \/ from = "idle"     /\ to = "open"     /\ provider # NoSock
  \/ from = "open"     /\ to = "answered" /\ provider # NoSock
  \/ from = "open"     /\ to = "offline"
  \/ from = "answered" /\ to \in {"returned", "offline"}
  \/ from = "lost"     /\ to \in {"offline", "replaced"}
  \/ from \in {"open", "answered", "lost"} /\ to = "leaving"
  \/ from = "leaving"  /\ to \in {"timeout", "mcp_client_cancelled"}

Progress(c, to) ==
  /\ Follows(status[c], to)
  /\ status' = [status EXCEPT ![c] = to]
  /\ UNCHANGED provider

Next ==
  \/ \E p \in Sock \union {NoSock} : Switch(p)
  \/ \E c \in Call, to \in Status : Progress(c, to)

Spec == Init /\ [][Next]_vars
=============================================================================
