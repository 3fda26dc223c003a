------------------------------- MODULE LossyFeed -------------------------------
(***************************************************************************)
(* What RabbitMQPublisher promises for each topic: events are delivered in *)
(* the order in which they were accepted, each at most once, in batches of *)
(* at least MinSlice; a whole batch may be lost, the newest one to         *)
(* backpressure and the oldest one to a connection that fails.             *)
(***************************************************************************)
EXTENDS Naturals, Sequences

CONSTANTS Topic, MinSlice

VARIABLES pending,   \* per topic: accepted and not yet handled
          delivered, \* per topic: what the broker has got
          next       \* number of the next event

feedVars == <<pending, delivered, next>>

FeedInit ==
  /\ pending = [t \in Topic |-> <<>>]
  /\ delivered = [t \in Topic |-> <<>>]
  /\ next = 1

\* An event is accepted; with it the newest batch may be full and dropped.
Accept(t) ==
  /\ next' = next + 1
  /\ LET grown == Append(pending[t], next)
     IN \E n \in {0} \cup MinSlice..Len(grown) :
          pending' = [pending EXCEPT ![t] = SubSeq(grown, 1, Len(grown) - n)]
  /\ UNCHANGED delivered

\* The oldest batch is delivered or lost.
Settle(t) ==
  \E n \in MinSlice..Len(pending[t]) :
    /\ pending' = [pending EXCEPT ![t] = SubSeq(@, n + 1, Len(@))]
    /\ \/ delivered' = [delivered EXCEPT ![t] = @ \o SubSeq(pending[t], 1, n)]
       \/ UNCHANGED delivered
    /\ UNCHANGED next

FeedNext == \E t \in Topic : Accept(t) \/ Settle(t)

FeedSpec == FeedInit /\ [][FeedNext]_feedVars
===============================================================================
