----------------------------- MODULE TracerProofs -----------------------------
(***************************************************************************)
(* Proofs about Tracer, for any sets of connections, messages and callers  *)
(* of Shutdown.                                                            *)
(***************************************************************************)
EXTENDS Tracer, LossyFeedProofs

-------------------------------------------------------------------------------
(* The tracer.  An event is Held from the call of Publish* on: first by the    *)
(* handler that is publishing it, then by the history.                         *)

Accepted(e) == \E i \in 1..Len(event) : event[i] = e
Held(e) == e \in publishing \/ Accepted(e)

History ==
  /\ closing \in BOOLEAN /\ stopped \subseteq Closer
  /\ event \in Seq(Event) /\ Len(event) = next - 1
  /\ publishing \subseteq Event
  /\ \A i, j \in 1..Len(event) : event[i] = event[j] => i = j
  /\ \A e \in publishing : ~Accepted(e)
  /\ \A t \in Topic : \A k \in Nat :
       Carries(t, k) => k \in 1..Len(event) /\ TopicOf(event[k]) = t

Connections ==
  /\ conn \in [Conn -> {"new", "connected", "disconnected"}]
  /\ \A c \in Conn :
       /\ conn[c] = "new" => ~Held(<<"connected", c>>)
       /\ conn[c] # "disconnected" => ~Held(<<"disconnected", c>>)
       /\ <<"connected", c>> \in publishing => ~Held(<<"disconnected", c>>)
       /\ \A i, j \in 1..Len(event) :
            event[i] = <<"connected", c>> /\ event[j] = <<"disconnected", c>> => i < j

Messages ==
  /\ message \in [Message -> MessageState] /\ late \subseteq Message
  /\ \A m \in Message :
       /\ Held(<<"received", m>>) <=> message[m] = "publishing"
       /\ message[m] = "discarded" => closing
       /\ m \in late => closing /\ message[m] \in {"collecting", "discarded"}

IInv == FeedInv /\ History /\ Connections /\ Messages

\* The initial states satisfy the inductive invariant.
LEMMA InitInvariant == Init => IInv
<1> SUFFICES ASSUME Init PROVE IInv
  OBVIOUS
<1>1. FeedInv /\ \A t \in Topic : \A k : ~Carries(t, k)
  BY InitFeed DEF Init
<1>2. event = <<>> /\ <<>> \in Seq(Event) /\ Len(<<>>) = 0
  BY EmptySeq DEF Init
<1>3. \A e : ~Accepted(e) /\ ~Held(e)
  BY <1>2 DEF Init, Accepted, Held
<1>4. next = 1
  BY DEF Init, FeedInit
<1>5. closing \in BOOLEAN
  BY DEF Init
<1>6. History
  BY <1>1, <1>2, <1>3, <1>4, <1>5 DEF Init, History
<1>7. Connections
  BY <1>2, <1>3 DEF Init, Connections
<1>8. Messages
  BY <1>3 DEF Init, Messages, MessageState
<1> QED
  BY <1>1, <1>6, <1>7, <1>8 DEF IInv

\* What is known of an event when Publish* returns.
LEMMA Publishes ==
  ASSUME IInv, NEW e \in publishing, Published(e)
  PROVE  /\ FeedInv' /\ History'
         /\ Len(event) \in Nat /\ Len(event') = Len(event) + 1
         /\ \A i \in 1..Len(event) : event'[i] = event[i]
         /\ event'[Len(event) + 1] = e
         /\ \A x : Held(x)' <=> Held(x)
         /\ publishing' = publishing \ {e}
<1> USE TracerAssumption
<1>1. FeedInv /\ History
  BY DEF IInv
<1>2. /\ event \in Seq(Event) /\ Len(event) = next - 1 /\ e \in Event
      /\ next \in Nat \ {0} /\ Len(event) \in Nat
  BY <1>1 DEF History, FeedInv
<1>3. TopicOf(e) \in Topic /\ Accept(TopicOf(e))
  BY DEF TopicOf, Publish, Published
<1>4. /\ FeedInv' /\ next' = next + 1
      /\ \A u \in Topic : \A k : Carries(u, k)' => Carries(u, k) \/ (u = TopicOf(e) /\ k = next)
  BY <1>1, <1>3, AcceptStep
<1>5. /\ event' \in Seq(Event) /\ Len(event') = Len(event) + 1
      /\ \A i \in 1..Len(event) : event'[i] = event[i]
      /\ event'[Len(event) + 1] = e
  BY <1>2, AppendProperties DEF Publish, Published
<1>6. publishing' = publishing \ {e}
  BY DEF Publish, Published
<1>7. \A i \in 1..Len(event') : i \in 1..Len(event) \/ i = Len(event) + 1
  BY <1>2, <1>5
<1>8. \A i \in 1..Len(event) : i \in 1..Len(event')
  BY <1>2, <1>5
<1>9. Len(event) + 1 \in 1..Len(event')
  BY <1>2, <1>5
<1>10. \A x : Accepted(x)' <=> Accepted(x) \/ x = e
  BY <1>5, <1>7, <1>8, <1>9 DEF Accepted
<1>11. \A x : Held(x)' <=> Held(x)
  BY <1>6, <1>10 DEF Held
<1>12. ~Accepted(e)
  BY <1>1 DEF History
<1>13. ASSUME NEW i \in 1..Len(event'), NEW j \in 1..Len(event'), event'[i] = event'[j]
       PROVE  i = j
  <2>1. \A k \in 1..Len(event) : event[k] # e
    BY <1>12 DEF Accepted
  <2>2. CASE i \in 1..Len(event) /\ j \in 1..Len(event)
    BY <1>1, <1>5, <1>13, <2>2 DEF History
  <2>3. CASE i \in 1..Len(event) /\ j = Len(event) + 1
    BY <1>5, <1>13, <2>1, <2>3
  <2>4. CASE j \in 1..Len(event) /\ i = Len(event) + 1
    BY <1>5, <1>13, <2>1, <2>4
  <2> QED
    BY <1>7, <2>2, <2>3, <2>4
<1>14. ASSUME NEW t \in Topic, NEW k \in Nat, Carries(t, k)'
       PROVE  k \in 1..Len(event') /\ TopicOf(event'[k]) = t
  <2>1. CASE Carries(t, k)
    <3>1. k \in 1..Len(event) /\ TopicOf(event[k]) = t
      BY <1>1, <2>1 DEF History
    <3> QED
      BY <1>5, <1>8, <3>1
  <2>2. CASE t = TopicOf(e) /\ k = next
    <3>1. k = Len(event) + 1
      BY <1>2, <2>2
    <3> QED
      BY <1>5, <1>9, <2>2, <3>1
  <2> QED
    BY <1>4, <1>14, <2>1, <2>2
<1>15. History'
  <2>1. closing' \in BOOLEAN /\ stopped' \subseteq Closer
    BY <1>1 DEF History, Published
  <2>2. Len(event') = next' - 1
    BY <1>2, <1>4, <1>5
  <2>3. publishing' \subseteq Event /\ \A x \in publishing' : ~Accepted(x)'
    BY <1>1, <1>6, <1>10 DEF History
  <2> QED
    BY <1>5, <1>13, <1>14, <2>1, <2>2, <2>3 DEF History, TopicOf
<1> QED
  BY <1>2, <1>4, <1>5, <1>6, <1>11, <1>15

\* A handler that starts to publish an event which nobody has held.
LEMMA Starts ==
  ASSUME IInv, UNCHANGED <<feedVars, closing, stopped, event>>,
         NEW e \in Event, ~Held(e), publishing' = publishing \cup {e}
  PROVE  /\ FeedInv' /\ History'
         /\ \A x : Held(x)' <=> Held(x) \/ x = e
<1>1. FeedInv /\ History
  BY DEF IInv
<1>2. FeedInv'
  BY <1>1 DEF FeedInv, feedVars
<1>3. \A x : Accepted(x)' <=> Accepted(x)
  BY DEF Accepted
<1>4. \A x : Held(x)' <=> Held(x) \/ x = e
  BY <1>3 DEF Held
<1>5. \A t, k : Carries(t, k)' <=> Carries(t, k)
  BY DEF Carries, feedVars
<1>6. publishing' \subseteq Event /\ \A x \in publishing' : ~Accepted(x)'
  BY <1>1, <1>3 DEF History, Held
<1>7. History'
  BY <1>1, <1>5, <1>6 DEF History, feedVars
<1> QED
  BY <1>2, <1>4, <1>7

\* A step that leaves the events alone.
LEMMA Keeps ==
  ASSUME IInv, UNCHANGED <<feedVars, publishing, event>>,
         closing' \in BOOLEAN, stopped' \subseteq Closer
  PROVE  /\ FeedInv' /\ History'
         /\ \A x : Held(x)' <=> Held(x)
<1>1. FeedInv /\ History
  BY DEF IInv
<1>2. FeedInv'
  BY <1>1 DEF FeedInv, feedVars
<1>3. \A x : Accepted(x)' <=> Accepted(x)
  BY DEF Accepted
<1>4. \A x : Held(x)' <=> Held(x)
  BY <1>3 DEF Held
<1>5. \A t, k : Carries(t, k)' <=> Carries(t, k)
  BY DEF Carries, feedVars
<1>6. History'
  BY <1>1, <1>3, <1>5 DEF History, feedVars
<1> QED
  BY <1>2, <1>4, <1>6

\* The three kinds of events are told apart.
LEMMA EventKinds ==
  /\ \A c \in Conn : <<"connected", c>> \in Event /\ <<"disconnected", c>> \in Event
  /\ \A m \in Message : <<"received", m>> \in Event
  /\ \A c, d : <<"connected", c>> # <<"disconnected", d>>
  /\ \A c, m : <<"connected", c>> # <<"received", m>> /\ <<"disconnected", c>> # <<"received", m>>
  /\ \A c, d : <<"connected", c>> = <<"connected", d>> => c = d
  /\ \A c, d : <<"disconnected", c>> = <<"disconnected", d>> => c = d
  /\ \A m, n : <<"received", m>> = <<"received", n>> => m = n
BY DEF Event

\* Every step keeps the inductive invariant.
LEMMA NextInvariant == IInv /\ [Next]_vars => IInv'
<1> SUFFICES ASSUME IInv, [Next]_vars PROVE IInv'
  OBVIOUS
<1> USE TracerAssumption
<1>0. /\ History /\ Connections /\ Messages
      /\ conn \in [Conn -> {"new", "connected", "disconnected"}]
      /\ message \in [Message -> MessageState]
      /\ late \subseteq Message /\ closing \in BOOLEAN /\ stopped \subseteq Closer
      /\ publishing \subseteq Event
  BY DEF IInv, History, Connections, Messages
\* The conjunct about the order of events, where no event is accepted.
<1>a. ASSUME UNCHANGED event, conn' \in [Conn -> {"new", "connected", "disconnected"}],
             \A c \in Conn :
               /\ conn'[c] = "new" => ~Held(<<"connected", c>>)'
               /\ conn'[c] # "disconnected" => ~Held(<<"disconnected", c>>)'
               /\ <<"connected", c>> \in publishing' => ~Held(<<"disconnected", c>>)'
      PROVE  Connections'
  BY <1>0, <1>a DEF Connections
<1>1. ASSUME NEW c \in Conn, Connected(c) PROVE IInv'
  <2> DEFINE e == <<"connected", c>>
  <2>1. /\ conn[c] = "new" /\ conn' = [conn EXCEPT ![c] = "connected"]
        /\ publishing' = publishing \cup {e}
        /\ UNCHANGED <<feedVars, closing, stopped, message, event, late>>
    BY <1>1 DEF Connected
  <2>2. ~Held(e) /\ ~Held(<<"disconnected", c>>)
    BY <1>0, <2>1 DEF Connections
  <2>3. e \in Event /\ /\ FeedInv' /\ History'
                       /\ \A x : Held(x)' <=> Held(x) \/ x = e
    BY <2>1, <2>2, Starts, EventKinds
  <2>4. conn' \in [Conn -> {"new", "connected", "disconnected"}]
    BY <1>0, <2>1
  <2>5. ASSUME NEW d \in Conn
        PROVE  /\ conn'[d] = "new" => ~Held(<<"connected", d>>)'
               /\ conn'[d] # "disconnected" => ~Held(<<"disconnected", d>>)'
               /\ <<"connected", d>> \in publishing' => ~Held(<<"disconnected", d>>)'
    <3>1. CASE d = c
      <4>1. ~Held(<<"disconnected", c>>)'
        BY <2>2, <2>3, EventKinds
      <4>2. conn'[c] = "connected"
        BY <1>0, <2>1
      <4> QED
        BY <3>1, <4>1, <4>2
    <3>2. CASE d # c
      <4>1. <<"connected", d>> # e /\ <<"disconnected", d>> # e /\ conn'[d] = conn[d]
        BY <1>0, <2>1, <3>2, EventKinds
      <4> QED
        BY <1>0, <2>1, <2>3, <4>1 DEF Connections
    <3> QED
      BY <3>1, <3>2
  <2>6. Messages'
    <3>1. \A m : <<"received", m>> # e
      BY EventKinds
    <3> QED
      BY <1>0, <2>1, <2>3, <3>1 DEF Messages
  <2> QED
    BY <1>a, <2>1, <2>3, <2>4, <2>5, <2>6 DEF IInv
<1>2. ASSUME NEW c \in Conn, Disconnected(c) PROVE IInv'
  <2> DEFINE e == <<"disconnected", c>>
  <2>1. /\ conn[c] = "connected" /\ <<"connected", c>> \notin publishing
        /\ conn' = [conn EXCEPT ![c] = "disconnected"]
        /\ publishing' = publishing \cup {e}
        /\ UNCHANGED <<feedVars, closing, stopped, message, event, late>>
    BY <1>2 DEF Disconnected, Returned
  <2>2. ~Held(e)
    BY <1>0, <2>1 DEF Connections
  <2>3. e \in Event /\ /\ FeedInv' /\ History'
                       /\ \A x : Held(x)' <=> Held(x) \/ x = e
    BY <2>1, <2>2, Starts, EventKinds
  <2>4. conn' \in [Conn -> {"new", "connected", "disconnected"}]
    BY <1>0, <2>1
  <2>5. ASSUME NEW d \in Conn
        PROVE  /\ conn'[d] = "new" => ~Held(<<"connected", d>>)'
               /\ conn'[d] # "disconnected" => ~Held(<<"disconnected", d>>)'
               /\ <<"connected", d>> \in publishing' => ~Held(<<"disconnected", d>>)'
    <3>1. CASE d = c
      <4>1. conn'[c] = "disconnected"
        BY <1>0, <2>1
      <4>2. <<"connected", c>> \notin publishing'
        BY <2>1, EventKinds
      <4> QED
        BY <3>1, <4>1, <4>2
    <3>2. CASE d # c
      <4>1. <<"connected", d>> # e /\ <<"disconnected", d>> # e /\ conn'[d] = conn[d]
        BY <1>0, <2>1, <3>2, EventKinds
      <4> QED
        BY <1>0, <2>1, <2>3, <4>1 DEF Connections
    <3> QED
      BY <3>1, <3>2
  <2>6. Messages'
    <3>1. \A m : <<"received", m>> # e
      BY EventKinds
    <3> QED
      BY <1>0, <2>1, <2>3, <3>1 DEF Messages
  <2> QED
    BY <1>a, <2>1, <2>3, <2>4, <2>5, <2>6 DEF IInv
<1>3. ASSUME NEW m \in Message, Receive(m) PROVE IInv'
  <2>1. /\ message[m] = "new" /\ message' = [message EXCEPT ![m] = "collecting"]
        /\ late' = IF closing THEN late \cup {m} ELSE late
        /\ UNCHANGED <<feedVars, closing, stopped, conn, publishing, event>>
    BY <1>3 DEF Receive
  <2>2. /\ FeedInv' /\ History' /\ \A x : Held(x)' <=> Held(x)
    BY <1>0, <2>1, Keeps
  <2>3. Connections'
    BY <1>0, <1>a, <2>1, <2>2 DEF Connections
  <2>4. message' \in [Message -> MessageState] /\ late' \subseteq Message
    BY <1>0, <2>1 DEF MessageState
  <2>5. ASSUME NEW n \in Message
        PROVE  /\ Held(<<"received", n>>)' <=> message'[n] = "publishing"
               /\ message'[n] = "discarded" => closing
               /\ n \in late' => closing /\ message'[n] \in {"collecting", "discarded"}
    BY <1>0, <2>1, <2>2 DEF Messages
  <2> QED
    BY <2>1, <2>2, <2>3, <2>4, <2>5 DEF IInv, Messages
<1>4. ASSUME NEW m \in Message, CheckClosing(m) PROVE IInv'
  <2> DEFINE e == <<"received", m>>
  <2>1. /\ message[m] = "collecting"
        /\ UNCHANGED <<feedVars, closing, stopped, conn, event, late>>
    BY <1>4 DEF CheckClosing
  <2>2. CASE closing
    <3>1. message' = [message EXCEPT ![m] = "discarded"] /\ UNCHANGED publishing
      BY <1>4, <2>2 DEF CheckClosing, Verdict
    <3>2. FeedInv' /\ History' /\ \A x : Held(x)' <=> Held(x)
      BY <1>0, <2>1, <3>1, Keeps
    <3>3. Connections'
      BY <1>0, <1>a, <2>1, <3>1, <3>2 DEF Connections
    <3>4. Messages'
      BY <1>0, <2>1, <2>2, <3>1, <3>2 DEF Messages, MessageState
    <3> QED
      BY <3>2, <3>3, <3>4 DEF IInv
  <2>3. CASE ~closing
    <3>1. message' = [message EXCEPT ![m] = "publishing"] /\ publishing' = publishing \cup {e}
      BY <1>4, <2>3 DEF CheckClosing, Verdict
    <3>2. ~Held(e)
      BY <1>0, <2>1 DEF Messages
    <3>3. e \in Event /\ FeedInv' /\ History' /\ \A x : Held(x)' <=> Held(x) \/ x = e
      BY <2>1, <3>1, <3>2, Starts, EventKinds
    <3>4. \A c : <<"connected", c>> # e /\ <<"disconnected", c>> # e
      BY EventKinds
    <3>5. Connections'
      BY <1>0, <1>a, <2>1, <3>1, <3>3, <3>4 DEF Connections
    <3>6. message' \in [Message -> MessageState]
      BY <1>0, <3>1 DEF MessageState
    <3>7. ASSUME NEW n \in Message
          PROVE  /\ Held(<<"received", n>>)' <=> message'[n] = "publishing"
                 /\ message'[n] = "discarded" => closing
                 /\ n \in late => closing /\ message'[n] \in {"collecting", "discarded"}
      <4>1. CASE n = m
        BY <1>0, <2>1, <2>3, <3>1, <3>3, <4>1 DEF Messages
      <4>2. CASE n # m
        <5>1. <<"received", n>> # e /\ message'[n] = message[n]
          BY <1>0, <3>1, <4>2, EventKinds
        <5> QED
          BY <1>0, <3>3, <5>1 DEF Messages
      <4> QED
        BY <4>1, <4>2
    <3>8. Messages'
      BY <1>0, <2>1, <3>6, <3>7 DEF Messages
    <3> QED
      BY <3>3, <3>5, <3>8 DEF IInv
  <2> QED
    BY <2>2, <2>3
<1>5. ASSUME NEW k \in Closer, Shutdown(k) PROVE IInv'
  <2>1. /\ closing' = TRUE /\ stopped' \subseteq Closer
        /\ UNCHANGED <<feedVars, conn, message, publishing, event, late>>
    BY <1>0, <1>5 DEF Shutdown
  <2>2. FeedInv' /\ History' /\ \A x : Held(x)' <=> Held(x)
    BY <2>1, Keeps
  <2>3. Connections'
    BY <1>0, <1>a, <2>1, <2>2 DEF Connections
  <2>4. Messages'
    BY <1>0, <2>1, <2>2 DEF Messages
  <2> QED
    BY <2>2, <2>3, <2>4 DEF IInv
<1>6. CASE UNCHANGED vars
  <2>1. UNCHANGED <<feedVars, closing, stopped, conn, message, publishing, event, late>>
    BY <1>6 DEF vars, tracerVars
  <2>2. FeedInv' /\ History' /\ \A x : Held(x)' <=> Held(x)
    BY <1>0, <2>1, Keeps
  <2>3. Connections' /\ Messages'
    BY <1>0, <1>a, <2>1, <2>2 DEF Connections, Messages
  <2> QED
    BY <2>2, <2>3 DEF IInv
<1>7. CASE FeedSettles
  <2>1. PICK t \in Topic : Settle(t)
    BY <1>7 DEF FeedSettles
  <2>2. /\ FeedInv' /\ UNCHANGED next
        /\ \A u \in Topic : \A k : Carries(u, k)' => Carries(u, k)
    BY <2>1, SettleStep DEF IInv
  <2>3. UNCHANGED <<closing, stopped, conn, message, publishing, event, late>>
    BY <1>7 DEF FeedSettles, tracerVars
  <2>4. (\A x : Accepted(x)' <=> Accepted(x)) /\ \A x : Held(x)' <=> Held(x)
    BY <2>3 DEF Accepted, Held
  <2>5. History'
    BY <1>0, <2>2, <2>3, <2>4 DEF History
  <2>6. Connections' /\ Messages'
    BY <1>0, <1>a, <2>3, <2>4 DEF Connections, Messages
  <2> QED
    BY <2>2, <2>5, <2>6 DEF IInv
<1>8. ASSUME NEW e \in publishing, Published(e) PROVE IInv'
  <2>1. /\ FeedInv' /\ History'
        /\ Len(event) \in Nat /\ Len(event') = Len(event) + 1
        /\ \A i \in 1..Len(event) : event'[i] = event[i]
        /\ event'[Len(event) + 1] = e
        /\ \A x : Held(x)' <=> Held(x)
        /\ publishing' = publishing \ {e}
    BY <1>8, Publishes
  <2>2. UNCHANGED <<closing, stopped, conn, message, late>>
    BY <1>8 DEF Published
  <2>3. Messages'
    BY <1>0, <2>1, <2>2 DEF Messages
  <2>4. ASSUME NEW c \in Conn, NEW i \in 1..Len(event'), NEW j \in 1..Len(event'),
               event'[i] = <<"connected", c>>, event'[j] = <<"disconnected", c>>
        PROVE  i < j
    <3>1. CASE i \in 1..Len(event) /\ j \in 1..Len(event)
      BY <1>0, <2>1, <2>4, <3>1 DEF Connections
    <3>2. CASE i \in 1..Len(event) /\ j = Len(event) + 1
      BY <2>1, <3>2
    <3>3. CASE i = Len(event) + 1 /\ j \in 1..Len(event)
      <4>1. e = <<"connected", c>> /\ event[j] = <<"disconnected", c>>
        BY <2>1, <2>4, <3>3
      <4>2. Held(<<"disconnected", c>>)
        BY <3>3, <4>1 DEF Held, Accepted
      <4> QED
        BY <1>0, <1>8, <4>1, <4>2 DEF Connections
    <3>4. CASE i = Len(event) + 1 /\ j = Len(event) + 1
      BY <2>1, <2>4, <3>4, EventKinds
    <3> QED
      BY <2>1, <3>1, <3>2, <3>3, <3>4
  <2>5. Connections'
    BY <1>0, <2>1, <2>2, <2>4 DEF Connections
  <2> QED
    BY <2>1, <2>3, <2>5 DEF IInv
<1> QED
  BY <1>1, <1>2, <1>3, <1>4, <1>5, <1>6, <1>7, <1>8 DEF Next

\* The inductive invariant holds in every behaviour.
LEMMA Invariance == Spec => []IInv
BY InitInvariant, NextInvariant, PTL DEF Spec

-------------------------------------------------------------------------------
(* What consumers may rely on *)

\* The inductive invariant contains what the runs check.
LEMMA InvariantImplies == IInv => TracerInv
<1> SUFFICES ASSUME IInv PROVE TracerInv
  OBVIOUS
<1> USE TracerAssumption
<1>1. FeedInv /\ History /\ Connections /\ Messages
  BY DEF IInv
<1>2. event \in Seq(Event) /\ ToSet(event) = {event[i] : i \in 1..Len(event)}
  BY <1>1 DEF History, ToSet
<1>3. \A e : e \in ToSet(event) <=> Accepted(e)
  BY <1>2 DEF Accepted
<1>4. TypeOK
  BY <1>1 DEF TypeOK, History, Connections, Messages
<1>5. LateMessagesDiscarded
  BY <1>1, <1>3 DEF LateMessagesDiscarded, Messages, Held
<1>6. ASSUME NEW t \in Topic
      PROVE  /\ DOMAIN delivered[t] = 1..Len(delivered[t])
             /\ \A i \in 1..Len(delivered[t]) :
                  /\ delivered[t][i] \in Nat /\ delivered[t][i] \in 1..Len(event)
                  /\ TopicOf(event[delivered[t][i]]) = t
             /\ Increasing(delivered[t])
  <2>1. delivered[t] \in Seq(Nat) /\ Increasing(delivered[t])
    BY <1>1 DEF FeedInv, Sorted
  <2>2. \A i \in 1..Len(delivered[t]) : delivered[t][i] \in Nat /\ Carries(t, delivered[t][i])
    BY <2>1 DEF Carries
  <2> QED
    BY <1>1, <2>1, <2>2 DEF History
<1>7. ASSUME NEW t \in Topic PROVE IsInjective(Delivered(t))
  <2> SUFFICES ASSUME NEW i \in 1..Len(delivered[t]), NEW j \in 1..Len(delivered[t]),
                      event[delivered[t][i]] = event[delivered[t][j]]
               PROVE  i = j
    BY <1>6 DEF IsInjective, Delivered
  <2>1. delivered[t][i] = delivered[t][j]
    BY <1>1, <1>6 DEF History
  <2>2. Len(delivered[t]) \in Nat
    BY <1>1 DEF FeedInv
  <2> QED
    BY <1>6, <2>1, <2>2 DEF Increasing
<1>8. ASSUME NEW t \in Topic, NEW e \in ToSet(Delivered(t))
      PROVE  (t = "bitswap_messages") = (e[1] = "received")
  <2>1. PICK i \in 1..Len(delivered[t]) : e = event[delivered[t][i]]
    BY <1>6, <1>8 DEF ToSet, Delivered
  <2>2. TopicOf(e) = t
    BY <1>6, <2>1
  <2> QED
    BY <2>2 DEF TopicOf
<1>9. ASSUME NEW i \in 1..Len(delivered["conn_events"]),
             NEW j \in 1..Len(delivered["conn_events"]),
             event[delivered["conn_events"][i]][2] = event[delivered["conn_events"][j]][2],
             i < j
      PROVE  /\ event[delivered["conn_events"][i]][1] = "connected"
             /\ event[delivered["conn_events"][j]][1] = "disconnected"
  <2> DEFINE k == delivered["conn_events"][i]
             l == delivered["conn_events"][j]
  <2>1. /\ k \in 1..Len(event) /\ TopicOf(event[k]) = "conn_events"
        /\ l \in 1..Len(event) /\ TopicOf(event[l]) = "conn_events"
        /\ k < l
    BY <1>6, <1>9 DEF Increasing
  <2>2. event[k] \in Event /\ event[l] \in Event
    BY <1>2, <2>1
  <2> HIDE DEF k, l
  <2>3. event[k][2] = event[l][2]
    BY <1>9 DEF k, l
  <2>4. PICK c \in Conn : event[k] \in {<<"connected", c>>, <<"disconnected", c>>}
    BY <2>1, <2>2 DEF Event, TopicOf
  <2>5. PICK d \in Conn : event[l] \in {<<"connected", d>>, <<"disconnected", d>>}
    BY <2>1, <2>2 DEF Event, TopicOf
  <2>6. c = d
    BY <2>3, <2>4, <2>5
  <2>7. event[k] # event[l]
    BY <1>1, <2>1 DEF History
  <2>8. ~(event[k] = <<"disconnected", c>> /\ event[l] = <<"connected", c>>)
    <3>1. k \in Int /\ l \in Int /\ ~(l < k)
      BY <2>1
    <3>2. event[l] = <<"connected", c>> /\ event[k] = <<"disconnected", c>> => l < k
      BY <1>1, <2>1, Zenon DEF Connections
    <3> QED
      BY <3>1, <3>2
  <2>9. event[k] = <<"connected", c>> /\ event[l] = <<"disconnected", c>>
    BY <2>4, <2>5, <2>6, <2>7, <2>8
  <2> QED
    BY <2>9 DEF k, l
<1>10. DeliveredMakesSense
  <2>1. DOMAIN Delivered("conn_events") = 1..Len(delivered["conn_events"])
    BY <1>6 DEF Delivered
  <2>2. \A i \in 1..Len(delivered["conn_events"]) :
          Delivered("conn_events")[i] = event[delivered["conn_events"][i]]
    BY <1>6 DEF Delivered
  <2> QED
    BY <1>7, <1>8, <1>9, <2>1, <2>2 DEF DeliveredMakesSense
<1> QED
  BY <1>4, <1>5, <1>10 DEF TracerInv

\* What is delivered makes sense, and messages that arrive while the tracer is
\* closing are not published.
THEOREM TracerCorrect == Spec => []TracerInv
BY Invariance, InvariantImplies, PTL

===============================================================================
