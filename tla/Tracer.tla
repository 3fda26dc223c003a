-------------------------------- MODULE Tracer --------------------------------
(***************************************************************************)
(* BitswapTracer (metricplugin/tracer.go): handlers that Bitswap and the   *)
(* swarm call, and Shutdown.  They publish to the RabbitMQ publisher,      *)
(* which appears here as the LossyFeed that Publisher implements: a        *)
(* handler is blocked from the call of Publish* until its event is         *)
(* accepted.                                                               *)
(*                                                                         *)
(* The swarm notifies Disconnected of a connection only when Connected has *)
(* returned, and different connections, and messages, concurrently.        *)
(***************************************************************************)
EXTENDS LossyFeed, FiniteSets, SequencesExt

CONSTANTS Conn,    \* connections
          Message, \* incoming Bitswap messages
          Closer   \* callers of Shutdown

ASSUME TracerAssumption ==
  /\ Topic = {"bitswap_messages", "conn_events"}
  /\ MinSlice \in Nat \ {0}

VARIABLES
  closing,  \* wt.closing is closed
  stopped,  \* callers of Shutdown that have returned
  conn,     \* per connection: the last handler the swarm has called
  message,  \* program counter of MessageReceived for every message
  publishing, \* the events whose Publish* has not returned
  \* history, not in the code
  event,    \* what every accepted event is about
  late      \* messages received when closing was closed

tracerVars == <<closing, stopped, conn, message, publishing, event, late>>
vars       == <<feedVars, tracerVars>>

MessageState == {"new", "collecting", "publishing", "discarded"}
Event == {"received"} \X Message \cup {"connected", "disconnected"} \X Conn

TypeOK ==
  /\ closing \in BOOLEAN /\ stopped \subseteq Closer
  /\ conn \in [Conn -> {"new", "connected", "disconnected"}]
  /\ message \in [Message -> MessageState]
  /\ publishing \subseteq Event
  /\ event \in Seq(Event) /\ Len(event) = next - 1
  /\ late \subseteq Message

Init ==
  /\ FeedInit
  /\ closing = FALSE /\ stopped = {}
  /\ conn = [c \in Conn |-> "new"]
  /\ message = [m \in Message |-> "new"]
  /\ publishing = {}
  /\ event = <<>>
  /\ late = {}

-------------------------------------------------------------------------------
(* Faulty variants of definitions below, none part of Spec: with one in place *)
(* of the definition it is named after, TLC reports a property as violated.   *)

Verdict_Publish == "publishing"      \* MessageReceived ignores closing
Returned_AtOnce(e) == TRUE           \* go PublishConnectionEvent(...)

-------------------------------------------------------------------------------
(* The publisher and the broker *)

TopicOf(e) == IF e[1] = "received" THEN "bitswap_messages" ELSE "conn_events"

\* The packager takes the event from the unbuffered channel; Publish* returns.
Publish(e) ==
  /\ e \in publishing
  /\ Accept(TopicOf(e))
  /\ event' = Append(event, e)
  /\ publishing' = publishing \ {e}

Published(e) == Publish(e) /\ UNCHANGED <<closing, stopped, conn, message, late>>

FeedSettles ==
  /\ \E t \in Topic : Settle(t)
  /\ UNCHANGED tracerVars

-------------------------------------------------------------------------------
(* Handlers.  Connected and Disconnected do not look at closing. *)

Connected(c) ==
  /\ conn[c] = "new"
  /\ conn' = [conn EXCEPT ![c] = "connected"]
  /\ publishing' = publishing \cup {<<"connected", c>>}
  /\ UNCHANGED <<feedVars, closing, stopped, message, event, late>>

Returned(e) == e \notin publishing

Disconnected(c) ==
  /\ conn[c] = "connected" /\ Returned(<<"connected", c>>)
  /\ conn' = [conn EXCEPT ![c] = "disconnected"]
  /\ publishing' = publishing \cup {<<"disconnected", c>>}
  /\ UNCHANGED <<feedVars, closing, stopped, message, event, late>>

\* MessageReceived gathers addresses, blocks and presences ...
Receive(m) ==
  /\ message[m] = "new"
  /\ message' = [message EXCEPT ![m] = "collecting"]
  /\ late' = IF closing THEN late \cup {m} ELSE late
  /\ UNCHANGED <<feedVars, closing, stopped, conn, publishing, event>>

Verdict == IF closing THEN "discarded" ELSE "publishing"

\* ... looks at closing, and goes on to publish.
CheckClosing(m) ==
  /\ message[m] = "collecting"
  /\ message' = [message EXCEPT ![m] = Verdict]
  /\ publishing' = IF Verdict = "publishing" THEN publishing \cup {<<"received", m>>}
                                            ELSE publishing
  /\ UNCHANGED <<feedVars, closing, stopped, conn, event, late>>

\* Shutdown closes the channel, if nobody has, and waits for a WaitGroup to which
\* nothing is ever added.
Shutdown(k) ==
  /\ k \notin stopped
  /\ closing' = TRUE
  /\ stopped' = stopped \cup {k}
  /\ UNCHANGED <<feedVars, conn, message, publishing, event, late>>

Next ==
  \/ \E c \in Conn : Connected(c) \/ Disconnected(c)
  \/ \E m \in Message : Receive(m) \/ CheckClosing(m)
  \/ \E e \in publishing : Published(e)
  \/ \E k \in Closer : Shutdown(k)
  \/ FeedSettles

Spec == Init /\ [][Next]_vars

-------------------------------------------------------------------------------
(* Safety *)

Delivered(t) == [i \in DOMAIN delivered[t] |-> event[delivered[t][i]]]

\* What a consumer of the queue gets makes sense: each topic carries its own
\* events, no event is there twice, and a connection is never reported as opened
\* after it was reported as closed, although batches may be missing.
DeliveredMakesSense ==
  /\ \A t \in Topic : /\ IsInjective(Delivered(t))
                      /\ \A e \in ToSet(Delivered(t)) :
                         (t = "bitswap_messages") = (e[1] = "received")
  /\ LET events == Delivered("conn_events") IN
     \A i, j \in DOMAIN events :
       events[i][2] = events[j][2] /\ i < j
         => events[i][1] = "connected" /\ events[j][1] = "disconnected"

\* A message that arrives when the tracer is closing is never published, and one
\* that was received before is published at most once or discarded because of
\* closing, never lost on the way.
LateMessagesDiscarded ==
  \A m \in Message :
    /\ m \in late => <<"received", m>> \notin ToSet(event)
    /\ message[m] = "discarded" => closing /\ <<"received", m>> \notin ToSet(event)
    /\ message[m] = "publishing" => <<"received", m>> \in publishing \cup ToSet(event)

\* The type invariant, and what consumers may rely on.
TracerInv == TypeOK /\ LateMessagesDiscarded /\ DeliveredMakesSense
===============================================================================
