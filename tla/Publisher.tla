------------------------------- MODULE Publisher -------------------------------
(***************************************************************************)
(* RabbitMQPublisher (metricplugin/rabbitmq.go): callers that publish      *)
(* events, the packager, encoder, compressor and sender goroutines chained *)
(* by unbuffered channels, the connection to the broker, and Close.        *)
(*                                                                         *)
(* A goroutine that is not busy receives: a stage is modelled by the       *)
(* package it works on and, for encoder and compressor, the package it is  *)
(* blocked on sending.  Slices and byte buffers are shared memory: a       *)
(* package refers to an array or a buffer, and what it carries is what is  *)
(* stored there when it is read.  An event is its number in the order in   *)
(* which the packager received it.                                         *)
(***************************************************************************)
EXTENDS Integers, Sequences, FiniteSets, SequencesExt

CONSTANTS Caller,    \* goroutines that publish
          Closer,    \* goroutines that call Close
          Array,     \* arrays behind event slices
          Buffer,    \* byte buffers of the pool
          MinSlice, MaxSlice, \* minSliceSize and maxSliceSize
          MaxEvents, \* bound: events published in a behaviour
          None

Topic == {"bitswap_messages", "conn_events"}
\* events is history: what the packager put into the package.
EventPackage == [array : Array, len : Nat, topic : Topic, events : Seq(Nat)]
BinaryPackage == [buf : Buffer, numEvents : Nat, topic : Topic, events : Seq(Nat)]

ASSUME PublisherAssumption ==
  /\ MinSlice \in Nat \ {0} /\ MaxSlice \in Nat /\ MinSlice <= MaxSlice
  /\ MaxEvents \in Nat
  /\ \E a, b, c \in Array : a # b /\ b # c /\ c # a \* memory for another slice

ASSUME NoneAssumption == None \notin Topic \cup Closer \cup EventPackage \cup BinaryPackage

VARIABLES
  publishing, \* per caller: the topic of the event it is sending on msgOut, or None
  accepted,   \* events the packager has received
  slice,      \* the packager's two buffers: array and length
  cells,      \* content of the arrays
  encoding,   \* eventPackage in the encoder
  encoded,    \* binaryPackage the encoder is sending
  compressing, compressed, \* likewise for the compressor
  sending,    \* binaryPackage in sendLoop
  bytes,      \* events in every byte buffer
  pool,       \* the buffers the pool has
  conn,       \* sendLoop's connection: "open", "closed" or "nil"
  broker,     \* the broker accepts connections
  delivered,  \* per topic: the events the broker has got
  dropped, nonDropped, \* the two counters of processed events
  exited,     \* goroutines that have returned, their output channel closed
  msgClosed,  \* msgOut is closed
  closer,     \* program counter of every caller of Close
  closingLock, \* holder of closingLock
  process     \* "running", "exited" (log.Fatal) or "panicked"

packagerVars == <<accepted, slice, cells>>
stageVars    == <<encoding, encoded, compressing, compressed, sending>>
memoryVars   == <<bytes, pool>>
brokerVars   == <<conn, broker, delivered>>
countVars    == <<dropped, nonDropped>>
closeVars    == <<msgClosed, closer, closingLock>>
pipeVars     == <<packagerVars, stageVars, memoryVars>>
controlVars  == <<publishing, exited, closeVars, process>>
vars         == <<pipeVars, brokerVars, countVars, controlVars>>

TypeOK ==
  /\ publishing \in [Caller -> Topic \cup {None}]
  /\ accepted \in Nat /\ dropped \in Nat /\ nonDropped \in Nat
  /\ slice \in [Topic -> [array : Array, len : 0..MaxSlice]]
  /\ cells \in [Array -> Seq(Nat)]
  /\ encoding \in EventPackage \cup {None}
  /\ {encoded, compressing, compressed, sending} \subseteq BinaryPackage \cup {None}
  /\ bytes \in [Buffer -> Seq(Nat)]
  /\ pool \subseteq Buffer
  /\ conn \in {"open", "closed", "nil"} /\ broker \in BOOLEAN
  /\ delivered \in [Topic -> Seq(Nat)]
  /\ exited \subseteq {"packager", "encoder", "compressor", "sender"}
  /\ msgClosed \in BOOLEAN
  /\ closer \in [Closer -> {"idle", "waiting", "returned"}]
  /\ closingLock \in Closer \cup {None}
  /\ process \in {"running", "exited", "panicked"}

\* newRabbitMQPublisher returned: setup has succeeded.
Init ==
  /\ publishing = [p \in Caller |-> None]
  /\ accepted = 0
  /\ slice = CHOOSE s \in [Topic -> [array : Array, len : {0}]] :
                \A t, u \in Topic : t # u => s[t].array # s[u].array
  /\ cells = [a \in Array |-> <<>>]
  /\ encoding = None /\ encoded = None
  /\ compressing = None /\ compressed = None /\ sending = None
  /\ bytes = [b \in Buffer |-> <<>>]
  /\ pool = Buffer
  /\ conn = "open" /\ broker = TRUE
  /\ delivered = [t \in Topic |-> <<>>]
  /\ dropped = 0 /\ nonDropped = 0
  /\ exited = {}
  /\ msgClosed = FALSE
  /\ closer = [k \in Closer |-> "idle"]
  /\ closingLock = None
  /\ process = "running"

-------------------------------------------------------------------------------
(* Faulty variants of definitions below, none part of Spec: with one in place *)
(* of the definition it is named after, TLC reports a property as violated.   *)


AfterFlush_Truncates(s) == [s EXCEPT !.len = 0] \* as after a drop
AfterDrop_Keeps(s) == s              \* the slice is not truncated
PackagerDrops_Blocks(p) == FALSE     \* the packager waits for the encoder
PackagerExits_LeavesOpen == msgClosed /\ UNCHANGED vars \* no close(packetsOut)
BufferDone_Output(in, out) == out    \* the compressor releases its result
Drained_Not(stage) == TRUE           \* stages return when msgOut is closed
CountedDropped_Not == dropped        \* the error path does not count
Released_Not(b) == pool              \* and does not Put
HoldsLockWaiting_Not == FALSE        \* Close waits without closingLock

-------------------------------------------------------------------------------
(* Callers *)

\* Publish*: the event waits on the unbuffered msgOut.  "Attempting to send
\* messages after Close was called will result in a panic": callers do not.
Publish(p, t) ==
  /\ publishing[p] = None
  /\ ~msgClosed
  /\ accepted + Cardinality({q \in Caller : publishing[q] # None}) < MaxEvents
  /\ publishing' = [publishing EXCEPT ![p] = t]
  /\ UNCHANGED <<pipeVars, brokerVars, countVars, exited, closeVars, process>>

-------------------------------------------------------------------------------
(* Packager.  An append beyond the capacity of a slice moves it to a new      *)
(* array; that only ever separates slices, so the model appends in place.     *)

Stored(content, i, e) ==
  IF i <= Len(content) THEN [content EXCEPT ![i] = e] ELSE Append(content, e)

\* The packager receives p's event and appends it to the buffer of its topic.
Receives(p) ==
  /\ publishing[p] # None /\ "packager" \notin exited
  /\ publishing' = [publishing EXCEPT ![p] = None]
  /\ accepted' = accepted + 1
  /\ LET s == slice[publishing[p]]
     IN cells' = [cells EXCEPT ![s.array] = Stored(@, s.len + 1, accepted + 1)]
  /\ UNCHANGED <<encoded, compressing, compressed, sending, memoryVars,
                 brokerVars, nonDropped, exited, closeVars, process>>

InUse(a) ==
  \/ \E t \in Topic : slice[t].array = a
  \/ encoding # None /\ encoding.array = a

\* The slice that follows one which was flushed: make, an array nobody has.
AfterFlush(s) == [array |-> CHOOSE a \in Array : ~InUse(a), len |-> 0]
\* The slice that follows one which was dropped: [:0], the same array.
AfterDrop(s) == [s EXCEPT !.len = 0]

\* The buffer is large enough and the encoder is there to receive.
PackagerFlushes(p) ==
  LET t == publishing[p]
      s == [slice[t] EXCEPT !.len = @ + 1]
  IN
  /\ Receives(p)
  /\ s.len >= MinSlice
  /\ encoding = None /\ encoded = None
  /\ encoding' = [array |-> s.array, len |-> s.len, topic |-> t,
                  events |-> SubSeq(cells'[s.array], 1, s.len)]
  /\ slice' = [slice EXCEPT ![t] = AfterFlush(s)]
  /\ UNCHANGED dropped

\* The buffer is small, or the encoder is not ready: an idle one may not have
\* reached its receive when the select looks.
PackagerKeeps(p) ==
  LET t == publishing[p] IN
  /\ Receives(p)
  /\ slice[t].len + 1 < MaxSlice
  /\ slice' = [slice EXCEPT ![t].len = @ + 1]
  /\ UNCHANGED <<encoding, dropped>>

\* The buffer is at its maximum and the encoder is not ready.
PackagerDrops(p) ==
  LET t == publishing[p]
      s == [slice[t] EXCEPT !.len = @ + 1]
  IN
  /\ Receives(p)
  /\ s.len >= MaxSlice
  /\ dropped' = dropped + s.len
  /\ slice' = [slice EXCEPT ![t] = AfterDrop(s)]
  /\ UNCHANGED encoding

\* The range over msgIn ends; what is buffered stays where it is.
PackagerExits ==
  /\ msgClosed /\ "packager" \notin exited
  /\ exited' = exited \cup {"packager"}
  /\ UNCHANGED <<pipeVars, brokerVars, countVars, publishing, closeVars, process>>

-------------------------------------------------------------------------------
(* Encoder and compressor.  What the pool has belongs to anybody (the whole   *)
(* process uses the same pool), so Put forgets the content.  Which buffer Get *)
(* returns is of no consequence; Buffer has one for every place that needs it. *)

Get == CHOOSE b \in pool : TRUE

Encode ==
  LET b == Get IN
  /\ encoding # None /\ pool # {}
  /\ pool' = pool \ {b}
  /\ bytes' = [bytes EXCEPT ![b] = SubSeq(cells[encoding.array], 1, encoding.len)]
  /\ encoded' = [buf |-> b, numEvents |-> encoding.len, topic |-> encoding.topic,
                 events |-> encoding.events]
  /\ encoding' = None
  /\ UNCHANGED <<packagerVars, compressing, compressed, sending, brokerVars,
                 countVars, controlVars>>

HandToCompressor ==
  /\ encoded # None /\ compressing = None /\ compressed = None
  /\ compressing' = encoded
  /\ encoded' = None
  /\ UNCHANGED <<packagerVars, encoding, compressed, sending, memoryVars,
                 brokerVars, countVars, controlVars>>

\* Compress into a buffer of its own and Put the JSON buffer.
BufferDone(in, out) == in

Compress ==
  LET b    == Get
      done == BufferDone(compressing.buf, b)
  IN
  /\ compressing # None /\ pool # {}
  /\ pool' = (pool \ {b}) \cup {done}
  /\ bytes' = [bytes EXCEPT ![b] = bytes[compressing.buf], ![done] = <<>>]
  /\ compressed' = [compressing EXCEPT !.buf = b]
  /\ compressing' = None
  /\ UNCHANGED <<packagerVars, encoding, encoded, sending, brokerVars, countVars,
                 controlVars>>

HandToSender ==
  /\ compressed # None /\ sending = None
  /\ sending' = compressed
  /\ compressed' = None
  /\ UNCHANGED <<packagerVars, encoding, encoded, compressing, memoryVars,
                 brokerVars, countVars, controlVars>>

\* A stage returns, closing its output, when its input is closed and drained.
Feeder == [encoder |-> "packager", compressor |-> "encoder", sender |-> "compressor"]
Work == [encoder |-> {encoding, encoded}, compressor |-> {compressing, compressed},
         sender |-> {sending}]
Drained(stage) == Work[stage] = {None}

StageExits ==
  /\ \E stage \in DOMAIN Feeder \ exited :
       Feeder[stage] \in exited /\ Drained(stage) /\ exited' = exited \cup {stage}
  /\ UNCHANGED <<pipeVars, brokerVars, countVars, publishing, closeVars, process>>

-------------------------------------------------------------------------------
(* sendLoop *)

\* setup succeeds.  While it fails, sendLoop tries again.
Reconnect ==
  /\ sending # None /\ conn # "open"
  /\ broker
  /\ conn' = "open"
  /\ UNCHANGED <<pipeVars, broker, delivered, countVars, controlVars>>

\* The broker accepts the connection and refuses the exchange: log.Fatalf.
ReconnectFatal ==
  /\ sending # None /\ conn # "open"
  /\ broker
  /\ process' = "exited"
  /\ UNCHANGED <<pipeVars, brokerVars, countVars, publishing, exited, closeVars>>

\* The buffer goes back to the pool once PublishWithContext has returned.
Released(b) == pool \cup {b}
Settled ==
  /\ sending # None /\ conn = "open"
  /\ sending' = None
  /\ pool' = Released(sending.buf)
  /\ bytes' = [bytes EXCEPT ![sending.buf] = <<>>]
  /\ UNCHANGED <<packagerVars, encoding, encoded, compressing, compressed, broker,
                 controlVars>>

\* PublishWithContext reports success.  It does not wait for the broker: over a
\* connection that is about to break, the events may be lost all the same.
SendSucceeds ==
  /\ Settled
  /\ nonDropped' = nonDropped + sending.numEvents
  /\ \/ delivered' = [delivered EXCEPT ![sending.topic] = @ \o bytes[sending.buf]]
     \/ ~broker /\ UNCHANGED delivered
  /\ UNCHANGED <<conn, dropped>>

CountedDropped == dropped + sending.numEvents

SendFails ==
  /\ Settled
  /\ dropped' = CountedDropped
  /\ conn' = "nil"
  /\ UNCHANGED <<delivered, nonDropped>>

-------------------------------------------------------------------------------
(* The broker *)

ConnectionBreaks ==
  /\ conn = "open"
  /\ conn' = "closed"
  /\ UNCHANGED <<pipeVars, broker, delivered, countVars, controlVars>>

BrokerChanges ==
  /\ broker' = ~broker
  /\ UNCHANGED <<pipeVars, conn, delivered, countVars, controlVars>>

-------------------------------------------------------------------------------
(* Close *)

ClosedAlready == "sender" \in exited
HoldsLockWaiting == TRUE

\* The first Close closes msgOut and waits for sendLoop with closingLock held.
CloseStarts(k) ==
  /\ closer[k] = "idle" /\ closingLock = None
  /\ ~ClosedAlready
  /\ \A p \in Caller : publishing[p] = None
  /\ closer' = [closer EXCEPT ![k] = "waiting"]
  /\ closingLock' = IF HoldsLockWaiting THEN k ELSE None
  /\ process' = IF msgClosed THEN "panicked" ELSE process
  /\ msgClosed' = TRUE
  /\ UNCHANGED <<pipeVars, brokerVars, countVars, publishing, exited>>

CloseReturns(k) ==
  /\ \/ closer[k] = "waiting" /\ "sender" \in exited
     \/ closer[k] = "idle" /\ closingLock = None /\ ClosedAlready
  /\ closer' = [closer EXCEPT ![k] = "returned"]
  /\ closingLock' = IF closingLock = k THEN None ELSE closingLock
  /\ UNCHANGED <<pipeVars, brokerVars, countVars, publishing, exited, msgClosed,
                 process>>

-------------------------------------------------------------------------------
Running == process = "running"

CallerServed(p) == PackagerFlushes(p) \/ PackagerKeeps(p) \/ PackagerDrops(p)
EncoderStep == Encode \/ HandToCompressor
CompressorStep == Compress \/ HandToSender
SenderStep == SendSucceeds \/ SendFails
Connects == Reconnect \/ ReconnectFatal

Next ==
  /\ Running
  /\ \/ \E p \in Caller : (\E t \in Topic : Publish(p, t)) \/ CallerServed(p)
     \/ PackagerExits
     \/ EncoderStep \/ CompressorStep \/ StageExits
     \/ Connects \/ SenderStep
     \/ ConnectionBreaks \/ BrokerChanges
     \/ \E k \in Closer : CloseStarts(k) \/ CloseReturns(k)

Spec == Init /\ [][Next]_vars

(* Fairness.  Callers and the broker owe nothing.  The goroutines run; msgOut  *)
(* serves the callers blocked on it in FIFO order, so each of them is served.  *)
(* sendLoop retries every 100 ms: if the broker is up again and again, some    *)
(* attempt meets it, and if the connection is open again and again, some       *)
(* publishing is made on it.                                                   *)
Fairness ==
  /\ \A p \in Caller : WF_vars(Running /\ CallerServed(p))
  /\ WF_vars(Running /\ PackagerExits)
  /\ WF_vars(Running /\ EncoderStep) /\ WF_vars(Running /\ CompressorStep)
  /\ WF_vars(Running /\ StageExits)
  /\ SF_vars(Running /\ Connects) /\ SF_vars(Running /\ SenderStep)
  /\ \A k \in Closer : WF_vars(Running /\ CloseReturns(k))

FairSpec == Spec /\ Fairness

-------------------------------------------------------------------------------
(* Safety *)

Package == {pkg \in {encoded, compressing, compressed, sending} : pkg # None}

EventsOf(pkg) == IF pkg = None THEN 0 ELSE pkg.numEvents
Buffered == slice["bitswap_messages"].len + slice["conn_events"].len
InStages == (IF encoding = None THEN 0 ELSE encoding.len) + EventsOf(encoded)
            + EventsOf(compressing) + EventsOf(compressed) + EventsOf(sending)

\* Every event the packager has received is counted once, as dropped or as not
\* dropped, or is on its way: "The prometheus counter ... keeps track of this".
EventsAccounted == accepted = dropped + nonDropped + Buffered + InStages

\* Until it is handed to the broker library, a package refers to the very events
\* the packager put into it, whatever else is written to slices and buffers, and
\* the number that is counted for it is their number.
PayloadsIntact ==
  /\ \A pkg \in Package :
       bytes[pkg.buf] = pkg.events /\ pkg.numEvents = Len(pkg.events)
  /\ encoding # None =>
       /\ SubSeq(cells[encoding.array], 1, encoding.len) = encoding.events
       /\ encoding.len = Len(encoding.events)

\* Every byte buffer has exactly one owner, the pool or one package: none is
\* shared, released twice or lost.
BufferOwnership ==
  LET place == <<encoded, compressing, compressed, sending>>
      holding(b) == {i \in 1..4 : place[i] # None /\ place[i].buf = b}
  IN  \A b \in Buffer :
        Cardinality(holding(b)) = IF b \in pool THEN 0 ELSE 1

\* An array the packager appends to is not one the encoder reads.
SliceNotShared ==
  /\ \A t \in Topic : encoding # None => encoding.array # slice[t].array
  /\ slice["bitswap_messages"].array # slice["conn_events"].array

\* Both: no memory that one goroutine reads is written by another.
MemoryOwned == BufferOwnership /\ SliceNotShared

\* Close never closes msgOut a second time, however many callers it has.
NeverPanics == process # "panicked"

\* When a Close has returned, all goroutines have ended and every package was sent
\* or failed.  What the packager had buffered, less than a full slice of each
\* topic, stays behind: that, and nothing else, is neither published nor counted.
CloseDrains ==
  (\E k \in Closer : closer[k] = "returned") =>
    /\ exited = {"packager", "encoder", "compressor", "sender"}
    /\ InStages = 0
    /\ accepted = dropped + nonDropped + Buffered
    /\ \A t \in Topic : slice[t].len < MaxSlice

(* The publisher is a LossyFeed: what is pending on a topic is what its        *)
(* packages and its buffer hold, oldest first.                                 *)
Contents(pkg, t) ==
  IF pkg # None /\ pkg.topic = t THEN bytes[pkg.buf] ELSE <<>>
Pending(t) ==
  Contents(sending, t) \o Contents(compressed, t) \o Contents(compressing, t)
  \o Contents(encoded, t)
  \o (IF encoding # None /\ encoding.topic = t
      THEN SubSeq(cells[encoding.array], 1, encoding.len) ELSE <<>>)
  \o SubSeq(cells[slice[t].array], 1, slice[t].len)

Feed == INSTANCE LossyFeed WITH
          pending <- [t \in Topic |-> Pending(t)], next <- accepted + 1
ImplementsLossyFeed == Feed!FeedSpec

-------------------------------------------------------------------------------
(* Liveness, under FairSpec *)

\* "This will never block": a caller gets rid of its event even while the broker
\* is away for ever and the pipeline is full.
CallersNeverStall ==
  \A p \in Caller : publishing[p] # None ~> (publishing[p] = None \/ ~Running)

\* Close returns if the broker is reachable again and again.
CloseTerminates ==
  []<>broker =>
    \A k \in Closer : closer[k] = "waiting" ~> (closer[k] = "returned" \/ ~Running)

\* README: "This plugin pushes all messages it receives via Bitswap, as well as
\* connection events, to a RabbitMQ server", unless they are dropped.
EventsLeave ==
  []<>broker =>
    \A n \in 1..MaxEvents :
      accepted >= n ~> (dropped + nonDropped >= n \/ ~Running)
===============================================================================
