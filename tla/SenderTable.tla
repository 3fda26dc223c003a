----------------------------- MODULE SenderTable -----------------------------
(***************************************************************************)
(* What the discovery probe's connectionManager promises to its readers    *)
(* (the broadcast workers and the statistics loop), without connections,   *)
(* connector goroutines or locks: every peer is untracked, tracked without *)
(* a Bitswap sender, or tracked with exactly one live sender that nobody   *)
(* else has.  DiscoveryProbe implements this module.                       *)
(***************************************************************************)
CONSTANTS Peer,      \* peer IDs
          Sender,    \* Bitswap message senders
          NoSender,  \* the nil bitswapSender
          Untracked  \* the peer has no entry in connManager.peers

ASSUME TableAssumption ==
  /\ NoSender \notin Sender
  /\ Untracked \notin Sender \cup {NoSender}

VARIABLES slot,  \* the entry of each peer
          live   \* senders of the table that are not closed

tableVars == <<slot, live>>

TableTypeOK ==
  /\ slot \in [Peer -> Sender \cup {NoSender, Untracked}]
  /\ live \subseteq Sender

TableInit ==
  /\ slot = [p \in Peer |-> Untracked]
  /\ live = {}

\* A first connection: the entry starts without a sender.
Track(p) ==
  /\ slot[p] = Untracked
  /\ slot' = [slot EXCEPT ![p] = NoSender]
  /\ UNCHANGED live

\* A sender enters the table only where there is none, and only once.
Attach(p, s) ==
  /\ slot[p] = NoSender
  /\ s \notin live
  /\ slot' = [slot EXCEPT ![p] = s]
  /\ live' = live \cup {s}

\* The last connection is gone: entry and sender go in the same step.
Untrack(p) ==
  /\ slot[p] # Untracked
  /\ slot' = [slot EXCEPT ![p] = Untracked]
  /\ live' = live \ {slot[p]}

TableNext ==
  \E p \in Peer :
    \/ Track(p)
    \/ \E s \in Sender : Attach(p, s)
    \/ Untrack(p)

TableSpec == TableInit /\ [][TableNext]_tableVars
==============================================================================
