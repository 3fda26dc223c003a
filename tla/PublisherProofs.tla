--------------------------- MODULE PublisherProofs ---------------------------
(***************************************************************************)
(* Proofs about Publisher, for any sets of callers, closers and buffers,   *)
(* any memory that can hold another slice, and any sizes of slices.        *)
(***************************************************************************)
EXTENDS Publisher, SequenceTheorems, FiniteSetTheorems, TLAPS

\* The feed that the publisher implements, with the theorems about it.
Promise == INSTANCE LossyFeedProofs WITH
             pending <- [t \in Topic |-> Pending(t)], next <- accepted + 1

-------------------------------------------------------------------------------
(* Sequences of event numbers, and operators of the model *)

\* Two sequences of events, one after the other.
LEMMA EventsJoined ==
  ASSUME NEW s \in Seq(Nat), NEW u \in Seq(Nat)
  PROVE  /\ s \o u \in Seq(Nat)
         /\ Len(s \o u) = Len(s) + Len(u)
         /\ \A i \in 1..Len(s) : (s \o u)[i] = s[i]
         /\ \A i \in 1..Len(u) : (s \o u)[Len(s) + i] = u[i]
<1> DEFINE w == s \o u
<1>1. /\ w \in Seq(Nat)
      /\ Len(w) = Len(s) + Len(u)
      /\ \A i \in 1..Len(s) + Len(u) : w[i] = IF i <= Len(s) THEN s[i] ELSE u[i - Len(s)]
  BY ConcatProperties
<1> HIDE DEF w
<1>2. PICK m \in Nat, n \in Nat : m = Len(s) /\ n = Len(u)
  OBVIOUS
<1>3. \A i \in 1..m : w[i] = s[i]
  BY <1>1, <1>2
<1>4. ASSUME NEW i \in 1..n PROVE w[m + i] = u[i]
  <2>1. m + i \in 1..m + n /\ ~(m + i <= m) /\ (m + i) - m = i
    OBVIOUS
  <2> QED
    BY <1>1, <1>2, <2>1
<1> QED
  BY <1>1, <1>2, <1>3, <1>4 DEF w

\* Three sequences of events may be joined from either end.
LEMMA EventsRegrouped ==
  ASSUME NEW s \in Seq(Nat), NEW u \in Seq(Nat), NEW w \in Seq(Nat)
  PROVE  (s \o u) \o w = s \o (u \o w)
BY ConcatAssociative, SMTT(60)

\* A sequence of events, with one more.
LEMMA EventsGrown ==
  ASSUME NEW c \in Seq(Nat), NEW e \in Nat
  PROVE  /\ Append(c, e) \in Seq(Nat)
         /\ Len(Append(c, e)) = Len(c) + 1
         /\ Append(c, e)[Len(c) + 1] = e
         /\ \A i \in 1..Len(c) : Append(c, e)[i] = c[i]
         /\ Append(c, e) = c \o <<e>>
BY AppendProperties, AppendIsConcat

\* An event is appended: what was stored before it stays, and nothing shrinks.
LEMMA StoredProperties ==
  ASSUME NEW c \in Seq(Nat), NEW n \in Nat, n <= Len(c), NEW e \in Nat
  PROVE  /\ Stored(c, n + 1, e) \in Seq(Nat)
         /\ Len(Stored(c, n + 1, e)) >= n + 1
         /\ Len(Stored(c, n + 1, e)) >= Len(c)
         /\ Stored(c, n + 1, e)[n + 1] = e
         /\ \A i \in 1..n : Stored(c, n + 1, e)[i] = c[i]
<1>1. CASE n + 1 <= Len(c)
  <2> DEFINE d == [c EXCEPT ![n + 1] = e]
  <2>1. Stored(c, n + 1, e) = d
    BY <1>1 DEF Stored
  <2>2. /\ d \in Seq(Nat) /\ Len(d) = Len(c)
        /\ \A j \in 1..Len(c) : d[j] = IF j = n + 1 THEN e ELSE c[j]
    BY <1>1, ExceptSeq
  <2>3. Len(c) \in Nat
    OBVIOUS
  <2> HIDE DEF d
  <2>4. Len(d) >= n + 1 /\ d[n + 1] = e /\ \A i \in 1..n : d[i] = c[i]
    BY <1>1, <2>2, <2>3
  <2> QED
    BY <2>1, <2>2, <2>3, <2>4
<1>2. CASE n = Len(c)
  <2>1. Stored(c, n + 1, e) = Append(c, e)
    BY <1>2 DEF Stored
  <2> DEFINE d == Append(c, e)
  <2>2. /\ d \in Seq(Nat) /\ Len(d) = Len(c) + 1 /\ d[Len(c) + 1] = e
        /\ \A i \in 1..Len(c) : d[i] = c[i]
    BY EventsGrown
  <2>3. Len(c) \in Nat
    OBVIOUS
  <2> HIDE DEF d
  <2>4. Len(d) >= n + 1 /\ Len(d) >= Len(c) /\ d[n + 1] = e /\ \A i \in 1..n : d[i] = c[i]
    BY <1>2, <2>2, <2>3
  <2> QED
    BY <2>1, <2>2, <2>4 DEF d
<1> QED
  BY <1>1, <1>2

\* Memory for one more slice than the packager holds is there when a batch goes
\* to the encoder, which has none then.
LEMMA FreshArray ==
  ASSUME TypeOK, encoding = None, NEW s \in [array : Array, len : Nat]
  PROVE  /\ AfterFlush(s) \in [array : Array, len : {0}]
         /\ AfterFlush(s).len = 0
         /\ \A t \in Topic : AfterFlush(s).array # slice[t].array
<1>1. PICK a, b, c \in Array : a # b /\ b # c /\ c # a
  BY PublisherAssumption
<1>2. \E x \in Array : ~InUse(x)
  BY <1>1 DEF InUse, Topic
<1> DEFINE x == CHOOSE y \in Array : ~InUse(y)
<1>3. x \in Array /\ ~InUse(x)
  BY <1>2
<1> HIDE DEF x
<1>4. AfterFlush(s) = [array |-> x, len |-> 0]
  BY DEF AfterFlush, x
<1> QED
  BY <1>3, <1>4 DEF InUse

\* A flush, a delay and a drop in terms of the slice of the event's topic.
LEMMA Flushed ==
  ASSUME TypeOK, NEW p \in Caller, PackagerFlushes(p)
  PROVE  \E t \in Topic, a \in Array :
           /\ publishing[p] = t
           /\ slice[t].len + 1 >= MinSlice
           /\ encoding = None /\ encoded = None
           /\ encoding' = [array |-> slice[t].array, len |-> slice[t].len + 1, topic |-> t,
                           events |-> SubSeq(cells'[slice[t].array], 1, slice[t].len + 1)]
           /\ slice' = [slice EXCEPT ![t] = [array |-> a, len |-> 0]]
           /\ \A u \in Topic : a # slice[u].array
           /\ UNCHANGED dropped
<1>1. publishing[p] \in Topic
  BY DEF TypeOK, PackagerFlushes, Receives
<1>2. PICK t \in Topic : t = publishing[p]
  BY <1>1
<1> DEFINE s == [slice[t] EXCEPT !.len = @ + 1]
<1>3. slice[t] \in [array : Array, len : 0..MaxSlice] /\ MaxSlice \in Nat
  BY PublisherAssumption DEF TypeOK
<1>4. s.array = slice[t].array /\ s.len = slice[t].len + 1 /\ s \in [array : Array, len : Nat]
  BY <1>3
<1>5. AfterFlush(s).len = 0 /\ AfterFlush(s) \in [array : Array, len : {0}]
      /\ \A u \in Topic : AfterFlush(s).array # slice[u].array
  BY <1>4, FreshArray DEF PackagerFlushes
<1>6. AfterFlush(s) = [array |-> AfterFlush(s).array, len |-> 0]
  BY <1>5
<1>7. /\ s.len >= MinSlice /\ encoding = None /\ encoded = None
      /\ encoding' = [array |-> s.array, len |-> s.len, topic |-> t,
                      events |-> SubSeq(cells'[s.array], 1, s.len)]
      /\ slice' = [slice EXCEPT ![t] = AfterFlush(s)]
      /\ UNCHANGED dropped
  BY <1>2 DEF PackagerFlushes
<1> HIDE DEF s
<1> QED
  BY <1>2, <1>4, <1>5, <1>6, <1>7

\* A packager that keeps an event makes its slice one longer.
LEMMA Kept ==
  ASSUME TypeOK, NEW p \in Caller, PackagerKeeps(p)
  PROVE  \E t \in Topic :
           /\ publishing[p] = t
           /\ slice[t].len + 1 < MaxSlice
           /\ slice' = [slice EXCEPT ![t] = [array |-> slice[t].array, len |-> slice[t].len + 1]]
           /\ UNCHANGED <<encoding, dropped>>
<1>1. PICK t \in Topic : t = publishing[p]
  BY DEF TypeOK, PackagerKeeps, Receives
<1>2. slice[t] \in [array : Array, len : 0..MaxSlice] /\ MaxSlice \in Nat
  BY PublisherAssumption DEF TypeOK
<1>3. [slice[t] EXCEPT !.len = @ + 1] = [array |-> slice[t].array, len |-> slice[t].len + 1]
  BY <1>2
<1>4. slice' = [slice EXCEPT ![t] = [slice[t] EXCEPT !.len = @ + 1]]
  BY <1>1 DEF PackagerKeeps, TypeOK
<1> QED
  BY <1>1, <1>3, <1>4 DEF PackagerKeeps

\* A packager that drops empties its slice and counts what was in it.
LEMMA Dropped ==
  ASSUME TypeOK, NEW p \in Caller, PackagerDrops(p)
  PROVE  \E t \in Topic :
           /\ publishing[p] = t
           /\ slice[t].len + 1 >= MaxSlice
           /\ slice' = [slice EXCEPT ![t] = [array |-> slice[t].array, len |-> 0]]
           /\ dropped' = dropped + slice[t].len + 1
           /\ UNCHANGED encoding
<1>1. PICK t \in Topic : t = publishing[p]
  BY DEF TypeOK, PackagerDrops, Receives
<1> DEFINE s == [slice[t] EXCEPT !.len = @ + 1]
<1>2. slice[t] \in [array : Array, len : 0..MaxSlice] /\ MaxSlice \in Nat
  BY PublisherAssumption DEF TypeOK
<1>3. s.array = slice[t].array /\ s.len = slice[t].len + 1 /\ s \in [array : Array, len : Nat]
  BY <1>2
<1>4. \A r \in [array : Array, len : Nat] : AfterDrop(r) = [array |-> r.array, len |-> 0]
  BY DEF AfterDrop
<1>5. /\ s.len >= MaxSlice /\ dropped' = dropped + s.len
      /\ slice' = [slice EXCEPT ![t] = AfterDrop(s)]
      /\ UNCHANGED encoding
  BY <1>1 DEF PackagerDrops
<1> HIDE DEF s
<1>6. dropped \in Nat /\ slice[t].len \in Nat
  BY <1>2 DEF TypeOK
<1>7. slice[t].len + 1 >= MaxSlice /\ dropped' = dropped + slice[t].len + 1
  BY <1>3, <1>5, <1>6
<1>8. AfterDrop(s) = [array |-> slice[t].array, len |-> 0]
  BY <1>3, <1>4
<1> QED
  BY <1>1, <1>5, <1>7, <1>8

\* What all three have in common.
LEMMA Received ==
  ASSUME NEW p \in Caller, CallerServed(p)
  PROVE  /\ Receives(p)
         /\ UNCHANGED <<encoded, compressing, compressed, sending, memoryVars,
                        brokerVars, nonDropped, exited, closeVars, process>>
BY DEF CallerServed, PackagerFlushes, PackagerKeeps, PackagerDrops, Receives

\* A stage returns after the one before it, and with nothing left to do.
LEMMA StageExit ==
  ASSUME StageExits
  PROVE  /\ \/ /\ "packager" \in exited /\ encoding = None /\ encoded = None
               /\ exited' = exited \cup {"encoder"}
            \/ /\ "encoder" \in exited /\ compressing = None /\ compressed = None
               /\ exited' = exited \cup {"compressor"}
            \/ /\ "compressor" \in exited /\ sending = None
               /\ exited' = exited \cup {"sender"}
         /\ UNCHANGED <<pipeVars, brokerVars, countVars, publishing, closeVars, process>>
<1>1. PICK stage \in DOMAIN Feeder :
        Feeder[stage] \in exited /\ Drained(stage) /\ exited' = exited \cup {stage}
  BY DEF StageExits
<1>2. stage \in {"encoder", "compressor", "sender"}
  BY DEF Feeder
<1>3. CASE stage = "encoder"
  BY <1>1, <1>3 DEF Feeder, Drained, Work, StageExits
<1>4. CASE stage = "compressor"
  BY <1>1, <1>4 DEF Feeder, Drained, Work, StageExits
<1>5. CASE stage = "sender"
  BY <1>1, <1>5 DEF Feeder, Drained, Work, StageExits
<1> QED
  BY <1>2, <1>3, <1>4, <1>5

\* Encoder and compressor take some buffer that the pool has.
LEMMA Encodes ==
  ASSUME Encode
  PROVE  \E b \in pool :
           /\ encoding # None
           /\ pool' = pool \ {b}
           /\ bytes' = [bytes EXCEPT ![b] = SubSeq(cells[encoding.array], 1, encoding.len)]
           /\ encoded' = [buf |-> b, numEvents |-> encoding.len, topic |-> encoding.topic,
                          events |-> encoding.events]
           /\ encoding' = None
BY DEF Encode, Get

\* The compressor puts back the buffer it read and takes the one it filled.
LEMMA Compresses ==
  ASSUME TypeOK, Compress
  PROVE  \E b \in pool :
           /\ compressing # None
           /\ pool' = (pool \ {b}) \cup {compressing.buf}
           /\ bytes' = [bytes EXCEPT ![b] = bytes[compressing.buf], ![compressing.buf] = <<>>]
           /\ compressed' = [buf |-> b, numEvents |-> compressing.numEvents,
                             topic |-> compressing.topic, events |-> compressing.events]
           /\ compressing' = None
<1>1. PICK b \in pool : b = Get
  BY DEF Compress, Get
<1>2. compressing \in BinaryPackage
  BY DEF Compress, TypeOK
<1>3. [compressing EXCEPT !.buf = b] = [buf |-> b, numEvents |-> compressing.numEvents,
                                       topic |-> compressing.topic,
                                       events |-> compressing.events]
  BY <1>2 DEF BinaryPackage
<1> QED
  BY <1>1, <1>3 DEF Compress, BufferDone

-------------------------------------------------------------------------------
(* Type correctness, with what is known of the lengths of the contents *)

Filled ==
  /\ PayloadsIntact
  /\ encoding # None => encoding.len <= Len(cells[encoding.array])
  /\ \A t \in Topic : slice[t].len <= Len(cells[slice[t].array])

\* An append changes one array, and only behind what is in use of it.
LEMMA Appends ==
  ASSUME TypeOK, Filled, NEW p \in Caller, CallerServed(p)
  PROVE  \E t \in Topic, a \in Array, n \in Nat :
           /\ t = publishing[p] /\ a = slice[t].array /\ n = slice[t].len
           /\ n <= Len(cells[a])
           /\ cells'[a] \in Seq(Nat)
           /\ Len(cells'[a]) >= n + 1 /\ Len(cells'[a]) >= Len(cells[a])
           /\ cells'[a][n + 1] = accepted + 1
           /\ \A i \in 1..n : cells'[a][i] = cells[a][i]
           /\ \A b \in Array \ {a} : cells'[b] = cells[b]
<1>1. PICK t \in Topic : t = publishing[p]
  BY Received DEF Receives, TypeOK
<1>2. slice[t].array \in Array /\ slice[t].len \in 0..MaxSlice
  BY DEF TypeOK
<1>3. PICK a \in Array, n \in Nat : a = slice[t].array /\ n = slice[t].len
  BY <1>2, PublisherAssumption
<1>4. n <= Len(cells[a])
  BY <1>3 DEF Filled
<1>5. cells' = [cells EXCEPT ![a] = Stored(cells[a], n + 1, accepted + 1)]
  BY <1>1, <1>3, Received DEF Receives
<1>6. cells \in [Array -> Seq(Nat)] /\ accepted + 1 \in Nat
  BY DEF TypeOK
<1> DEFINE c == Stored(cells[a], n + 1, accepted + 1)
<1>7. cells[a] \in Seq(Nat)
  BY <1>6
<1>8. /\ c \in Seq(Nat) /\ Len(c) >= n + 1 /\ Len(c) >= Len(cells[a])
      /\ c[n + 1] = accepted + 1
      /\ \A i \in 1..n : c[i] = cells[a][i]
  BY <1>4, <1>6, <1>7, StoredProperties
<1>9. cells'[a] = c /\ \A b \in Array \ {a} : cells'[b] = cells[b]
  BY <1>5, <1>6
<1> HIDE DEF c
<1>10. /\ cells'[a] \in Seq(Nat)
       /\ Len(cells'[a]) >= n + 1 /\ Len(cells'[a]) >= Len(cells[a])
       /\ cells'[a][n + 1] = accepted + 1
       /\ \A i \in 1..n : cells'[a][i] = cells[a][i]
  BY <1>8, <1>9
<1> WITNESS t \in Topic, a \in Array, n \in Nat
<1> QED
  BY <1>1, <1>3, <1>4, <1>9, <1>10

\* The package that a flush hands to the encoder, and the slice that follows it.
LEMMA BatchFlushed ==
  ASSUME TypeOK, Filled, NEW p \in Caller, PackagerFlushes(p)
  PROVE  \E t \in Topic, a \in Array, c \in Array, n \in Nat :
           /\ t = publishing[p] /\ a = slice[t].array /\ n = slice[t].len
           /\ n + 1 >= MinSlice /\ n + 1 <= Len(cells'[a])
           /\ encoding = None /\ encoded = None
           /\ encoding' \in EventPackage /\ encoding' # None
           /\ encoding'.array = a /\ encoding'.len = n + 1 /\ encoding'.topic = t
           /\ encoding'.events = SubSeq(cells'[a], 1, n + 1)
           /\ Len(encoding'.events) = n + 1
           /\ slice' = [slice EXCEPT ![t] = [array |-> c, len |-> 0]]
           /\ \A u \in Topic : c # slice[u].array
           /\ UNCHANGED dropped
<1>1. PICK t \in Topic, c \in Array :
         /\ publishing[p] = t
         /\ slice[t].len + 1 >= MinSlice
         /\ encoding = None /\ encoded = None
         /\ encoding' = [array |-> slice[t].array, len |-> slice[t].len + 1, topic |-> t,
                         events |-> SubSeq(cells'[slice[t].array], 1, slice[t].len + 1)]
         /\ slice' = [slice EXCEPT ![t] = [array |-> c, len |-> 0]]
         /\ \A u \in Topic : c # slice[u].array
         /\ UNCHANGED dropped
  BY Flushed
<1>2. PICK a \in Array, n \in Nat :
         /\ a = slice[t].array /\ n = slice[t].len
         /\ cells'[a] \in Seq(Nat) /\ n + 1 <= Len(cells'[a])
  BY <1>1, Appends DEF CallerServed
<1> DEFINE e == SubSeq(cells'[a], 1, n + 1)
<1>3. e \in Seq(Nat) /\ Len(e) = n + 1
  BY <1>2, Promise!FirstNumbers
<1>4. encoding' = [array |-> a, len |-> n + 1, topic |-> t, events |-> e]
  BY <1>1, <1>2
<1> HIDE DEF e
<1>5. /\ encoding' \in EventPackage
      /\ encoding'.array = a /\ encoding'.len = n + 1 /\ encoding'.topic = t
      /\ encoding'.events = e
  BY <1>3, <1>4 DEF EventPackage
<1>6. encoding' # None
  BY <1>5, NoneAssumption
<1> WITNESS t \in Topic, a \in Array, c \in Array, n \in Nat
<1> QED
  BY <1>1, <1>2, <1>3, <1>5, <1>6 DEF e

\* At first every topic has an empty slice in an array of its own.
LEMMA InitSlice ==
  Init => /\ slice \in [Topic -> [array : Array, len : {0}]]
          /\ SliceNotShared
<1> SUFFICES ASSUME Init PROVE slice \in [Topic -> [array : Array, len : {0}]] /\ SliceNotShared
  OBVIOUS
<1> DEFINE Apart(s) == \A t, u \in Topic : t # u => s[t].array # s[u].array
<1>1. PICK a, b \in Array : a # b
  BY PublisherAssumption
<1> DEFINE w == [t \in Topic |-> [array |-> IF t = "conn_events" THEN a ELSE b, len |-> 0]]
<1>2. w \in [Topic -> [array : Array, len : {0}]] /\ Apart(w)
  BY <1>1 DEF Topic
<1>3. \E s \in [Topic -> [array : Array, len : {0}]] : Apart(s)
  BY <1>2
<1>4. slice = CHOOSE s \in [Topic -> [array : Array, len : {0}]] : Apart(s)
  BY DEF Init
<1>5. slice \in [Topic -> [array : Array, len : {0}]] /\ Apart(slice)
  BY <1>3, <1>4
<1> QED
  BY <1>5 DEF Init, SliceNotShared, Topic

\* The initial states are of their types.
LEMMA InitType == Init => TypeOK /\ Filled
<1> SUFFICES ASSUME Init PROVE TypeOK /\ Filled
  OBVIOUS
<1>1. slice \in [Topic -> [array : Array, len : 0..MaxSlice]]
  <2>1. \A t \in Topic : slice[t] \in [array : Array, len : {0}]
    BY InitSlice
  <2> QED
    BY <2>1, InitSlice, PublisherAssumption
<1>2. /\ cells \in [Array -> Seq(Nat)] /\ bytes \in [Buffer -> Seq(Nat)]
      /\ delivered \in [Topic -> Seq(Nat)]
  BY EmptySeq DEF Init
<1>3. publishing \in [Caller -> Topic \cup {None}] /\ closer \in [Closer -> {"idle", "waiting", "returned"}]
  BY DEF Init
<1>4. broker \in BOOLEAN /\ msgClosed \in BOOLEAN
  BY DEF Init
<1>5. TypeOK
  BY <1>1, <1>2, <1>3, <1>4 DEF Init, TypeOK
<1>6. Package = {}
  BY DEF Init, Package
<1>7. \A t \in Topic : slice[t].len = 0 /\ slice[t].array \in Array
  BY InitSlice
<1>8. \A a \in Array : Len(cells[a]) = 0
  BY EmptySeq DEF Init
<1> QED
  BY <1>5, <1>6, <1>7, <1>8 DEF Filled, PayloadsIntact, Init

\* Every step keeps the types.
LEMMA NextType == TypeOK /\ Filled /\ [Next]_vars => TypeOK'
<1> SUFFICES ASSUME TypeOK, Filled, [Next]_vars PROVE TypeOK'
  OBVIOUS
<1> USE PublisherAssumption, NoneAssumption
        DEF packagerVars, stageVars, memoryVars, brokerVars, countVars, closeVars, pipeVars,
            controlVars
<1>1. ASSUME NEW p \in Caller, NEW t \in Topic, Publish(p, t) PROVE TypeOK'
  BY <1>1 DEF Publish, TypeOK
<1>2. ASSUME NEW p \in Caller, CallerServed(p) PROVE TypeOK'
  <2>1. PICK t \in Topic : t = publishing[p]
    BY <1>2, Received DEF Receives, TypeOK
  <2>2. /\ slice[t] \in [array : Array, len : 0..MaxSlice]
        /\ slice \in [Topic -> [array : Array, len : 0..MaxSlice]]
        /\ slice[t].array \in Array /\ slice[t].len \in 0..MaxSlice
    BY DEF TypeOK
  <2>3. publishing' \in [Caller -> Topic \cup {None}] /\ accepted' \in Nat
    <3>1. publishing' = [publishing EXCEPT ![p] = None] /\ accepted' = accepted + 1
      BY <1>2, Received DEF Receives
    <3> QED
      BY <3>1 DEF TypeOK
  <2>4. cells' \in [Array -> Seq(Nat)]
    <3>1. cells' = [cells EXCEPT ![slice[t].array] =
                      Stored(cells[slice[t].array], slice[t].len + 1, accepted + 1)]
      BY <1>2, <2>1, Received DEF Receives
    <3>2. Stored(cells[slice[t].array], slice[t].len + 1, accepted + 1) \in Seq(Nat)
      BY <2>2, StoredProperties DEF TypeOK, Filled
    <3> QED
      BY <3>1, <3>2 DEF TypeOK
  <2>5. /\ slice' \in [Topic -> [array : Array, len : 0..MaxSlice]]
        /\ encoding' \in EventPackage \cup {None}
        /\ dropped' \in Nat
    <3>1. CASE PackagerFlushes(p)
      <4>1. PICK a \in Array :
              /\ encoding' \in EventPackage
              /\ slice' = [slice EXCEPT ![t] = [array |-> a, len |-> 0]]
              /\ UNCHANGED dropped
        BY <2>1, <3>1, BatchFlushed
      <4> QED
        BY <2>2, <4>1 DEF TypeOK
    <3>2. CASE PackagerKeeps(p)
      <4>1. /\ slice[t].len + 1 < MaxSlice
            /\ slice' = [slice EXCEPT ![t] = [array |-> slice[t].array, len |-> slice[t].len + 1]]
            /\ UNCHANGED <<encoding, dropped>>
        BY <2>1, <3>2, Kept
      <4> QED
        BY <2>2, <4>1 DEF TypeOK
    <3>3. CASE PackagerDrops(p)
      <4>1. /\ slice' = [slice EXCEPT ![t] = [array |-> slice[t].array, len |-> 0]]
            /\ dropped' = dropped + slice[t].len + 1
            /\ UNCHANGED encoding
        BY <2>1, <3>3, Dropped
      <4> QED
        BY <2>2, <4>1 DEF TypeOK
    <3> QED
      BY <1>2, <3>1, <3>2, <3>3 DEF CallerServed
  <2> QED
    BY <1>2, <2>3, <2>4, <2>5, Received DEF TypeOK
<1>3. CASE Encode
  <2>1. PICK b \in pool :
           /\ encoding # None
           /\ pool' = pool \ {b}
           /\ bytes' = [bytes EXCEPT ![b] = SubSeq(cells[encoding.array], 1, encoding.len)]
           /\ encoded' = [buf |-> b, numEvents |-> encoding.len, topic |-> encoding.topic,
                          events |-> encoding.events]
           /\ encoding' = None
    BY <1>3, Encodes
  <2>2. b \in Buffer /\ encoding \in EventPackage
    BY <2>1 DEF TypeOK
  <2>3. /\ encoding.array \in Array /\ encoding.len \in Nat /\ encoding.topic \in Topic
        /\ encoding.events \in Seq(Nat) /\ cells[encoding.array] \in Seq(Nat)
    BY <2>2 DEF EventPackage, TypeOK
  <2>4. SubSeq(cells[encoding.array], 1, encoding.len) \in Seq(Nat)
    BY <2>1, <2>3, Promise!FirstNumbers DEF Filled
  <2>5. bytes' \in [Buffer -> Seq(Nat)]
    BY <2>1, <2>4 DEF TypeOK
  <2>6. encoded' \in BinaryPackage
    BY <2>1, <2>2, <2>3 DEF BinaryPackage
  <2> QED
    <3>1. pool' \subseteq Buffer
      BY <2>1 DEF TypeOK
    <3>2. UNCHANGED <<publishing, accepted, dropped, nonDropped, slice, cells, compressing,
                      compressed, sending, conn, broker, delivered, exited, msgClosed,
                      closer, closingLock, process>>
      BY <1>3 DEF Encode
    <3>3. encoding' = None
      BY <2>1
    <3> QED
      BY <2>5, <2>6, <3>1, <3>2, <3>3 DEF TypeOK
<1>4. CASE Compress
  <2>1. PICK b \in pool :
           /\ compressing # None
           /\ pool' = (pool \ {b}) \cup {compressing.buf}
           /\ bytes' = [bytes EXCEPT ![b] = bytes[compressing.buf], ![compressing.buf] = <<>>]
           /\ compressed' = [buf |-> b, numEvents |-> compressing.numEvents,
                             topic |-> compressing.topic, events |-> compressing.events]
           /\ compressing' = None
    BY <1>4, Compresses
  <2>2. b \in Buffer /\ compressing \in BinaryPackage
    BY <2>1 DEF TypeOK
  <2>3. /\ compressing.buf \in Buffer /\ compressing.numEvents \in Nat
        /\ compressing.topic \in Topic /\ compressing.events \in Seq(Nat)
    BY <2>2 DEF BinaryPackage
  <2>4. bytes' \in [Buffer -> Seq(Nat)]
    BY <2>1, <2>2, <2>3, EmptySeq DEF TypeOK
  <2>5. compressed' \in BinaryPackage
    BY <2>1, <2>2, <2>3 DEF BinaryPackage
  <2> QED
    <3>1. pool' \subseteq Buffer
      BY <2>1, <2>3 DEF TypeOK
    <3>2. UNCHANGED <<publishing, accepted, dropped, nonDropped, slice, cells, encoding,
                      encoded, sending, conn, broker, delivered, exited, msgClosed, closer,
                      closingLock, process>>
      BY <1>4 DEF Compress
    <3>3. compressing' = None
      BY <2>1
    <3> QED
      BY <2>4, <2>5, <3>1, <3>2, <3>3 DEF TypeOK
<1>5. CASE HandToCompressor \/ HandToSender
  BY <1>5 DEF HandToCompressor, HandToSender, TypeOK
<1>6. CASE Connects \/ ConnectionBreaks \/ BrokerChanges
  <2>1. broker' \in BOOLEAN
    BY <1>6 DEF Connects, Reconnect, ReconnectFatal, ConnectionBreaks, BrokerChanges, TypeOK
  <2> QED
    BY <1>6, <2>1 DEF Connects, Reconnect, ReconnectFatal, ConnectionBreaks, BrokerChanges, TypeOK
<1>7. CASE SenderStep
  <2>1. Settled
    BY <1>7 DEF SenderStep, SendSucceeds, SendFails
  <2>2. sending \in BinaryPackage
    BY <2>1 DEF Settled, TypeOK
  <2>3. sending.buf \in Buffer /\ sending.numEvents \in Nat /\ sending.topic \in Topic
    BY <2>2 DEF BinaryPackage
  <2>4. bytes' \in [Buffer -> Seq(Nat)] /\ pool' \subseteq Buffer
    BY <2>1, <2>3, EmptySeq DEF Settled, Released, TypeOK
  <2>5. delivered' \in [Topic -> Seq(Nat)]
    <3>1. delivered[sending.topic] \o bytes[sending.buf] \in Seq(Nat)
      BY <2>3, ConcatProperties DEF TypeOK
    <3>2. \/ delivered' = [delivered EXCEPT
                            ![sending.topic] = delivered[sending.topic] \o bytes[sending.buf]]
          \/ delivered' = delivered
      BY <1>7 DEF SenderStep, SendSucceeds, SendFails
    <3> QED
      BY <3>1, <3>2 DEF TypeOK
  <2>6. dropped' \in Nat /\ nonDropped' \in Nat /\ conn' \in {"open", "closed", "nil"}
    <3>1. \/ nonDropped' = nonDropped + sending.numEvents /\ UNCHANGED <<conn, dropped>>
          \/ dropped' = dropped + sending.numEvents /\ conn' = "nil" /\ UNCHANGED nonDropped
      BY <1>7 DEF SenderStep, SendSucceeds, SendFails, CountedDropped
    <3>2. dropped \in Nat /\ nonDropped \in Nat /\ conn \in {"open", "closed", "nil"}
      BY DEF TypeOK
    <3> QED
      BY <2>3, <3>1, <3>2
  <2> QED
    BY <2>1, <2>4, <2>5, <2>6 DEF Settled, TypeOK
<1>8. CASE PackagerExits \/ StageExits
  <2>1. exited' \subseteq {"packager", "encoder", "compressor", "sender"}
    BY <1>8, StageExit DEF PackagerExits, TypeOK
  <2> QED
    BY <1>8, <2>1 DEF PackagerExits, StageExits, TypeOK
<1>9. ASSUME NEW k \in Closer, CloseStarts(k) PROVE TypeOK'
  BY <1>9 DEF CloseStarts, TypeOK
<1>10. ASSUME NEW k \in Closer, CloseReturns(k) PROVE TypeOK'
  BY <1>10 DEF CloseReturns, TypeOK
<1>11. CASE UNCHANGED vars
  BY <1>11 DEF vars, TypeOK
<1> QED
  BY <1>1, <1>2, <1>3, <1>4, <1>5, <1>6, <1>7, <1>8, <1>9, <1>10, <1>11
     DEF Next, EncoderStep, CompressorStep

-------------------------------------------------------------------------------
(* Who writes what *)

\* Slices, arrays and what goes to the encoder.
LEMMA SlicesUntouched ==
  ASSUME [Next]_vars, \A p \in Caller : ~CallerServed(p), ~Encode
  PROVE  UNCHANGED <<accepted, slice, cells, encoding>>
<1> USE DEF packagerVars, stageVars, memoryVars, brokerVars, countVars, closeVars, pipeVars,
            controlVars
<1>1. ASSUME NEW p \in Caller, NEW t \in Topic, Publish(p, t)
      PROVE  UNCHANGED <<accepted, slice, cells, encoding>>
  BY <1>1 DEF Publish
<1>2. ASSUME NEW k \in Closer, CloseStarts(k) \/ CloseReturns(k)
      PROVE  UNCHANGED <<accepted, slice, cells, encoding>>
  BY <1>2 DEF CloseStarts, CloseReturns
<1>3. CASE Compress \/ HandToCompressor \/ HandToSender \/ SenderStep
  BY <1>3 DEF Compress, HandToCompressor, HandToSender, SenderStep, SendSucceeds, SendFails,
              Settled
<1>4. CASE PackagerExits \/ StageExits \/ Connects \/ ConnectionBreaks \/ BrokerChanges
           \/ UNCHANGED vars
  BY <1>4 DEF PackagerExits, StageExits, Connects, Reconnect, ReconnectFatal,
              ConnectionBreaks, BrokerChanges, vars
<1> QED
  BY <1>1, <1>2, <1>3, <1>4 DEF Next, EncoderStep, CompressorStep

\* Byte buffers and the packages that carry them.
LEMMA PackagesUntouched ==
  ASSUME [Next]_vars, ~Encode, ~Compress, ~HandToCompressor, ~HandToSender, ~SenderStep
  PROVE  UNCHANGED <<encoded, compressing, compressed, sending, memoryVars, delivered>>
<1> USE DEF packagerVars, stageVars, memoryVars, brokerVars, countVars, closeVars, pipeVars,
            controlVars
<1>1. ASSUME NEW p \in Caller, CallerServed(p) \/ \E t \in Topic : Publish(p, t)
      PROVE  UNCHANGED <<encoded, compressing, compressed, sending, memoryVars, delivered>>
  BY <1>1, Received DEF Publish
<1>2. ASSUME NEW k \in Closer, CloseStarts(k) \/ CloseReturns(k)
      PROVE  UNCHANGED <<encoded, compressing, compressed, sending, memoryVars, delivered>>
  BY <1>2 DEF CloseStarts, CloseReturns
<1>3. CASE PackagerExits \/ StageExits \/ Connects \/ ConnectionBreaks \/ BrokerChanges
           \/ UNCHANGED vars
  BY <1>3 DEF PackagerExits, StageExits, Connects, Reconnect, ReconnectFatal,
              ConnectionBreaks, BrokerChanges, vars
<1> QED
  BY <1>1, <1>2, <1>3 DEF Next, EncoderStep, CompressorStep

-------------------------------------------------------------------------------
(* Memory *)

\* Every step keeps each topic's slice in an array of its own.
LEMMA NextSlices == TypeOK /\ SliceNotShared /\ [Next]_vars => SliceNotShared'
<1> SUFFICES ASSUME TypeOK, SliceNotShared, [Next]_vars PROVE SliceNotShared'
  OBVIOUS
<1> USE NoneAssumption
<1>0. slice \in [Topic -> [array : Array, len : 0..MaxSlice]]
  BY DEF TypeOK
<1>1. ASSUME UNCHANGED encoding, \A t \in Topic : slice'[t].array = slice[t].array
      PROVE  SliceNotShared'
  BY <1>1 DEF SliceNotShared, Topic
<1>2. ASSUME NEW p \in Caller, CallerServed(p) PROVE SliceNotShared'
  <2>1. CASE PackagerFlushes(p)
    <3>1. PICK t \in Topic, a \in Array :
            /\ encoding' = [array |-> slice[t].array, len |-> slice[t].len + 1, topic |-> t,
                            events |-> SubSeq(cells'[slice[t].array], 1, slice[t].len + 1)]
            /\ slice' = [slice EXCEPT ![t] = [array |-> a, len |-> 0]]
            /\ \A u \in Topic : a # slice[u].array
      BY <2>1, Flushed
    <3>2. encoding'.array = slice[t].array
      BY <3>1
    <3>3. slice'[t].array = a /\ \A u \in Topic \ {t} : slice'[u].array = slice[u].array
      BY <1>0, <3>1
    <3>4. \A u \in Topic \ {t} : slice[u].array # slice[t].array
      BY DEF SliceNotShared, Topic
    <3> QED
      BY <3>1, <3>2, <3>3, <3>4 DEF SliceNotShared, Topic
  <2>2. CASE PackagerKeeps(p)
    BY <1>0, <1>1, <2>2, Kept
  <2>3. CASE PackagerDrops(p)
    BY <1>0, <1>1, <2>3, Dropped
  <2> QED
    BY <1>2, <2>1, <2>2, <2>3 DEF CallerServed
<1>3. CASE Encode
  BY <1>3 DEF Encode, packagerVars, SliceNotShared
<1>4. CASE UNCHANGED <<accepted, slice, cells, encoding>>
  BY <1>1, <1>4
<1> QED
  BY <1>2, <1>3, <1>4, SlicesUntouched

\* Encoder and compressor work on a package or send one; no two packages have the
\* same buffer; the pool has all buffers that no package has.
Apart(p, q) == p # None /\ q # None => p.buf # q.buf

Owned ==
  /\ encoding = None \/ encoded = None
  /\ compressing = None \/ compressed = None
  /\ Apart(encoded, compressing) /\ Apart(encoded, compressed) /\ Apart(encoded, sending)
  /\ Apart(compressing, compressed) /\ Apart(compressing, sending)
  /\ Apart(compressed, sending)
  /\ \A pkg \in Package : pkg.buf \notin pool
  /\ \A b \in Buffer \ pool : \E pkg \in Package : pkg.buf = b

\* At first every byte buffer has one owner.
LEMMA InitOwned == Init => Owned
BY DEF Init, Owned, Apart, Package

\* What the steps of the stages move, and that it is nobody else's.
LEMMA EncodeMoves ==
  ASSUME TypeOK, Owned, Encode
  PROVE  \E b \in Buffer :
           /\ encoding \in EventPackage /\ encoding' = None
           /\ encoded = None /\ encoded' # None
           /\ encoded'.buf = b /\ encoded'.numEvents = encoding.len
           /\ encoded'.topic = encoding.topic /\ encoded'.events = encoding.events
           /\ b \in pool /\ pool' = pool \ {b}
           /\ \A pkg \in Package : pkg.buf # b
           /\ Package' = Package \cup {encoded'}
           /\ bytes' = [bytes EXCEPT ![b] = SubSeq(cells[encoding.array], 1, encoding.len)]
           /\ UNCHANGED <<compressing, compressed, sending, accepted, slice, cells, countVars>>
<1> USE NoneAssumption
<1>1. PICK b \in pool :
         /\ encoding # None
         /\ pool' = pool \ {b}
         /\ bytes' = [bytes EXCEPT ![b] = SubSeq(cells[encoding.array], 1, encoding.len)]
         /\ encoded' = [buf |-> b, numEvents |-> encoding.len, topic |-> encoding.topic,
                        events |-> encoding.events]
         /\ encoding' = None
  BY Encodes
<1>2. b \in Buffer /\ encoding \in EventPackage
  BY <1>1 DEF TypeOK
<1>3. encoded' \in BinaryPackage
  BY <1>1, <1>2 DEF EventPackage, BinaryPackage
<1>4. /\ encoded' # None /\ encoded'.buf = b /\ encoded'.numEvents = encoding.len
      /\ encoded'.topic = encoding.topic /\ encoded'.events = encoding.events
  BY <1>1, <1>3
<1>5. UNCHANGED <<compressing, compressed, sending, accepted, slice, cells, countVars>>
  BY DEF Encode, packagerVars
<1>6. encoded = None /\ \A pkg \in Package : pkg.buf # b
  BY <1>1 DEF Owned
<1>7. Package' = Package \cup {encoded'}
  BY <1>4, <1>5, <1>6 DEF Package
<1> QED
  BY <1>1, <1>2, <1>4, <1>5, <1>6, <1>7

\* The compressor takes one buffer of the pool and puts one back.
LEMMA CompressMoves ==
  ASSUME TypeOK, Owned, Compress
  PROVE  \E b \in Buffer :
           /\ compressing \in BinaryPackage /\ compressing' = None
           /\ compressed = None /\ compressed' # None
           /\ compressed'.buf = b /\ compressed'.numEvents = compressing.numEvents
           /\ compressed'.topic = compressing.topic
           /\ compressed'.events = compressing.events
           /\ b \in pool /\ b # compressing.buf
           /\ pool' = (pool \ {b}) \cup {compressing.buf}
           /\ encoded # None => encoded.buf \notin {b, compressing.buf}
           /\ sending # None => sending.buf \notin {b, compressing.buf}
           /\ bytes' = [bytes EXCEPT ![b] = bytes[compressing.buf], ![compressing.buf] = <<>>]
           /\ UNCHANGED <<encoding, encoded, sending, accepted, slice, cells, countVars>>
<1> USE NoneAssumption
<1>1. PICK b \in pool :
         /\ compressing # None
         /\ pool' = (pool \ {b}) \cup {compressing.buf}
         /\ bytes' = [bytes EXCEPT ![b] = bytes[compressing.buf], ![compressing.buf] = <<>>]
         /\ compressed' = [buf |-> b, numEvents |-> compressing.numEvents,
                           topic |-> compressing.topic, events |-> compressing.events]
         /\ compressing' = None
  BY Compresses
<1>2. compressing \in BinaryPackage /\ b \in Buffer
  BY <1>1 DEF TypeOK
<1>3. compressed' \in BinaryPackage
  BY <1>1, <1>2 DEF BinaryPackage
<1>4. /\ compressed' # None /\ compressed'.buf = b
      /\ compressed'.numEvents = compressing.numEvents
      /\ compressed'.topic = compressing.topic
      /\ compressed'.events = compressing.events
  BY <1>1, <1>3
<1>5. UNCHANGED <<encoding, encoded, sending, accepted, slice, cells, countVars>>
  BY DEF Compress, packagerVars
<1>6. /\ compressed = None /\ b # compressing.buf
      /\ encoded # None => encoded.buf \notin {b, compressing.buf}
      /\ sending # None => sending.buf \notin {b, compressing.buf}
  BY <1>1 DEF Owned, Apart, Package
<1> QED
  BY <1>1, <1>2, <1>4, <1>5, <1>6

\* The sender puts back the buffer it has published.
LEMMA SendMoves ==
  ASSUME TypeOK, Owned, SenderStep
  PROVE  /\ sending \in BinaryPackage /\ sending' = None
         /\ pool' = pool \cup {sending.buf}
         /\ bytes' = [bytes EXCEPT ![sending.buf] = <<>>]
         /\ \A pkg \in Package' : pkg \in Package /\ pkg.buf # sending.buf
         /\ \A pkg \in Package : pkg \in Package' \/ pkg = sending
         /\ UNCHANGED <<encoding, encoded, compressing, compressed, accepted, slice, cells>>
<1>1. /\ sending # None /\ sending' = None /\ pool' = pool \cup {sending.buf}
      /\ bytes' = [bytes EXCEPT ![sending.buf] = <<>>]
      /\ UNCHANGED <<encoding, encoded, compressing, compressed, accepted, slice, cells>>
  BY DEF SenderStep, SendSucceeds, SendFails, Settled, Released, packagerVars
<1>2. sending \in BinaryPackage
  BY <1>1 DEF TypeOK
<1>3. \A pkg \in Package' : pkg \in Package /\ pkg.buf # sending.buf
  BY <1>1 DEF Package, Owned, Apart
<1>4. \A pkg \in Package : pkg \in Package' \/ pkg = sending
  BY <1>1 DEF Package
<1> QED
  BY <1>1, <1>2, <1>3, <1>4

\* Every step keeps one owner for each byte buffer.
LEMMA NextOwned == TypeOK /\ Owned /\ [Next]_vars => Owned'
<1> SUFFICES ASSUME TypeOK, Owned, [Next]_vars PROVE Owned'
  OBVIOUS
<1> USE NoneAssumption DEF packagerVars, stageVars, memoryVars
<1>1. CASE Encode
  <2>1. PICK b \in Buffer :
           /\ encoding' = None
           /\ encoded = None /\ encoded' # None /\ encoded'.buf = b
           /\ b \in pool /\ pool' = pool \ {b}
           /\ \A pkg \in Package : pkg.buf # b
           /\ Package' = Package \cup {encoded'}
           /\ UNCHANGED <<compressing, compressed, sending>>
    BY <1>1, EncodeMoves
  <2>2. /\ \A pkg \in Package' : pkg.buf \notin pool'
        /\ \A d \in Buffer \ pool' : \E pkg \in Package' : pkg.buf = d
    BY <2>1 DEF Owned
  <2> QED
    BY <2>1, <2>2 DEF Owned, Apart, Package
<1>2. CASE Compress
  <2>1. PICK b \in Buffer :
           /\ compressing \in BinaryPackage /\ compressing' = None
           /\ compressed = None /\ compressed' # None /\ compressed'.buf = b
           /\ b \in pool /\ b # compressing.buf
           /\ pool' = (pool \ {b}) \cup {compressing.buf}
           /\ encoded # None => encoded.buf \notin {b, compressing.buf}
           /\ sending # None => sending.buf \notin {b, compressing.buf}
           /\ UNCHANGED <<encoding, encoded, sending>>
    BY <1>2, CompressMoves
  <2>2. \A pkg \in Package' : pkg.buf \notin pool'
    BY <2>1 DEF Owned, Package
  <2>3. ASSUME NEW d \in Buffer \ pool' PROVE \E pkg \in Package' : pkg.buf = d
    <3>1. CASE d = b
      BY <2>1, <3>1 DEF Package
    <3>2. CASE d # b
      <4>1. d \notin pool /\ d # compressing.buf
        BY <2>1, <2>3, <3>2
      <4>2. PICK pkg \in Package : pkg.buf = d
        BY <2>3, <4>1 DEF Owned
      <4>3. pkg \in {encoded, sending} /\ pkg # None
        BY <2>1, <4>1, <4>2 DEF Package
      <4> QED
        BY <2>1, <4>2, <4>3 DEF Package
    <3> QED
      BY <3>1, <3>2
  <2> QED
    BY <2>1, <2>2, <2>3 DEF Owned, Apart
<1>3. CASE HandToCompressor
  <2>1. /\ encoded # None /\ compressing = None /\ compressed = None
        /\ compressing' = encoded /\ encoded' = None
        /\ UNCHANGED <<encoding, compressed, sending, pool>>
    BY <1>3 DEF HandToCompressor
  <2>2. Package' = Package
    BY <2>1 DEF Package
  <2> QED
    BY <2>1, <2>2 DEF Owned, Apart
<1>4. CASE HandToSender
  <2>1. /\ compressed # None /\ sending = None
        /\ sending' = compressed /\ compressed' = None
        /\ UNCHANGED <<encoding, encoded, compressing, pool>>
    BY <1>4 DEF HandToSender
  <2>2. Package' = Package
    BY <2>1 DEF Package
  <2> QED
    BY <2>1, <2>2 DEF Owned, Apart
<1>5. CASE SenderStep
  BY <1>5, SendMoves DEF Owned, Apart
<1>6. ASSUME ~Encode, UNCHANGED <<encoded, compressing, compressed, sending, memoryVars>>
      PROVE  Owned'
  <2>1. Package' = Package
    BY <1>6 DEF Package
  <2>2. ASSUME NEW p \in Caller, CallerServed(p) PROVE encoding' = encoding \/ encoded = None
    BY <2>2, Flushed, Kept, Dropped DEF CallerServed
  <2>3. encoding' = encoding \/ encoded = None
    BY <1>6, <2>2, SlicesUntouched
  <2> QED
    BY <1>6, <2>1, <2>3 DEF Owned, Apart
<1> QED
  BY <1>1, <1>2, <1>3, <1>4, <1>5, <1>6, PackagesUntouched

-------------------------------------------------------------------------------
(* Contents *)

\* Every step keeps payloads intact, and the cells of every slice as many as its length.
LEMMA NextFilled ==
  TypeOK /\ TypeOK' /\ Filled /\ SliceNotShared /\ Owned /\ [Next]_vars => Filled'
<1> SUFFICES ASSUME TypeOK, TypeOK', Filled, SliceNotShared, Owned, [Next]_vars
             PROVE  Filled'
  OBVIOUS
<1> USE NoneAssumption DEF packagerVars, stageVars, memoryVars
<1>0. /\ slice \in [Topic -> [array : Array, len : 0..MaxSlice]]
      /\ bytes \in [Buffer -> Seq(Nat)]
  BY DEF TypeOK
<1> DEFINE Carries(pkg) == bytes[pkg.buf] = pkg.events /\ pkg.numEvents = Len(pkg.events)
           Carries1(pkg) == bytes'[pkg.buf] = pkg.events /\ pkg.numEvents = Len(pkg.events)
<1>1. ASSUME UNCHANGED <<slice, cells>>, encoding' \in {encoding, None},
             \A pkg \in Package' : Carries1(pkg)
      PROVE  Filled'
  BY <1>1 DEF Filled, PayloadsIntact
<1>2. ASSUME NEW p \in Caller, CallerServed(p) PROVE Filled'
  <2>1. PICK t \in Topic, a \in Array, n \in Nat :
           /\ t = publishing[p] /\ a = slice[t].array /\ n = slice[t].len
           /\ n <= Len(cells[a])
           /\ Len(cells'[a]) >= n + 1 /\ Len(cells'[a]) >= Len(cells[a])
           /\ \A b \in Array \ {a} : cells'[b] = cells[b]
    BY <1>2, Appends
  <2>2. \A pkg \in Package' : Carries1(pkg)
    BY <1>2, Received DEF Filled, PayloadsIntact, Package
  <2>3. \A b \in Array : /\ Len(cells[b]) \in Nat /\ Len(cells'[b]) \in Nat
                         /\ Len(cells'[b]) >= Len(cells[b])
    <3>1. \A b \in Array : Len(cells[b]) \in Nat /\ Len(cells'[b]) \in Nat
      BY DEF TypeOK
    <3> QED
      BY <2>1, <3>1
  <2>4. \A u \in Topic : /\ slice[u].array \in Array /\ slice[u].len \in Nat
                         /\ slice[u].len <= Len(cells[slice[u].array])
    BY <1>0, PublisherAssumption DEF Filled
  <2>5. encoding # None => encoding.array \in Array \ {a}
    BY <2>1 DEF TypeOK, EventPackage, SliceNotShared
  <2>6. ASSUME NEW c \in Array, NEW m \in Nat, m <= n + 1, m = 0 \/ c = a,
               slice'[t].array = c, slice'[t].len = m,
               \A u \in Topic \ {t} : slice'[u] = slice[u]
        PROVE  \A u \in Topic : slice'[u].len <= Len(cells'[slice'[u].array])
    <3>1. m <= Len(cells'[c])
      BY <2>1, <2>3, <2>6
    <3>2. \A u \in Topic : slice[u].len <= Len(cells'[slice[u].array])
      BY <2>3, <2>4
    <3> QED
      BY <2>6, <3>1, <3>2
  <2>7. CASE PackagerFlushes(p)
    <3>1. PICK c \in Array :
             /\ n + 1 <= Len(cells'[a]) /\ encoding'.array = a /\ encoding'.len = n + 1
             /\ encoding'.events = SubSeq(cells'[a], 1, n + 1)
             /\ Len(encoding'.events) = n + 1
             /\ slice' = [slice EXCEPT ![t] = [array |-> c, len |-> 0]]
      <4>1. PICK u \in Topic, d \in Array, c \in Array, m \in Nat :
               /\ u = publishing[p] /\ d = slice[u].array /\ m = slice[u].len
               /\ m + 1 <= Len(cells'[d]) /\ encoding'.array = d /\ encoding'.len = m + 1
               /\ encoding'.events = SubSeq(cells'[d], 1, m + 1)
               /\ Len(encoding'.events) = m + 1
               /\ slice' = [slice EXCEPT ![u] = [array |-> c, len |-> 0]]
        BY <2>7, BatchFlushed
      <4>2. u = t /\ d = a /\ m = n
        BY <2>1, <4>1
      <4> QED
        BY <4>1, <4>2
    <3>2. /\ slice'[t].array = c /\ slice'[t].len = 0
          /\ \A u \in Topic \ {t} : slice'[u] = slice[u]
      BY <1>0, <3>1
    <3>3. \A u \in Topic : slice'[u].len <= Len(cells'[slice'[u].array])
      BY <2>6, <3>2
    <3> QED
      BY <2>2, <3>1, <3>3 DEF Filled, PayloadsIntact
  <2>8. ASSUME encoding' = encoding
        PROVE  PayloadsIntact' /\ (encoding # None => encoding.len <= Len(cells'[encoding.array]))
    <3>1. encoding # None => cells'[encoding.array] = cells[encoding.array]
      BY <2>1, <2>5
    <3> QED
      BY <2>2, <2>8, <3>1 DEF Filled, PayloadsIntact
  <2>9. CASE PackagerKeeps(p)
    <3>1. /\ slice' = [slice EXCEPT ![t] = [array |-> a, len |-> n + 1]]
          /\ encoding' = encoding
      BY <2>1, <2>9, Kept
    <3>2. /\ slice'[t].array = a /\ slice'[t].len = n + 1
          /\ \A u \in Topic \ {t} : slice'[u] = slice[u]
      BY <1>0, <3>1
    <3>3. \A u \in Topic : slice'[u].len <= Len(cells'[slice'[u].array])
      BY <2>6, <3>2
    <3> QED
      BY <2>8, <3>1, <3>3 DEF Filled
  <2>10. CASE PackagerDrops(p)
    <3>1. /\ slice' = [slice EXCEPT ![t] = [array |-> a, len |-> 0]]
          /\ encoding' = encoding
      BY <2>1, <2>10, Dropped
    <3>2. /\ slice'[t].array = a /\ slice'[t].len = 0
          /\ \A u \in Topic \ {t} : slice'[u] = slice[u]
      BY <1>0, <3>1
    <3>3. \A u \in Topic : slice'[u].len <= Len(cells'[slice'[u].array])
      BY <2>6, <3>2
    <3> QED
      BY <2>8, <3>1, <3>3 DEF Filled
  <2> QED
    BY <1>2, <2>7, <2>9, <2>10 DEF CallerServed
<1>3. CASE Encode
  <2>1. PICK b \in Buffer :
           /\ encoding \in EventPackage /\ encoding' = None
           /\ encoded'.buf = b /\ encoded'.numEvents = encoding.len
           /\ encoded'.events = encoding.events
           /\ \A pkg \in Package : pkg.buf # b
           /\ Package' = Package \cup {encoded'}
           /\ bytes' = [bytes EXCEPT ![b] = SubSeq(cells[encoding.array], 1, encoding.len)]
           /\ UNCHANGED <<slice, cells>>
    BY <1>3, EncodeMoves
  <2>2. encoding # None
    BY <2>1
  <2>3. Carries1(encoded')
    <3>1. bytes'[b] = SubSeq(cells[encoding.array], 1, encoding.len)
      BY <1>0, <2>1
    <3> QED
      BY <2>1, <2>2, <3>1 DEF Filled, PayloadsIntact
  <2>4. \A pkg \in Package : Carries1(pkg)
    BY <1>0, <2>1 DEF Filled, PayloadsIntact
  <2> QED
    BY <1>1, <2>1, <2>3, <2>4
<1>4. CASE Compress
  <2>1. PICK b \in Buffer :
           /\ compressing \in BinaryPackage /\ compressing' = None
           /\ compressed = None /\ compressed' # None
           /\ compressed'.buf = b /\ compressed'.numEvents = compressing.numEvents
           /\ compressed'.events = compressing.events
           /\ b # compressing.buf
           /\ encoded # None => encoded.buf \notin {b, compressing.buf}
           /\ sending # None => sending.buf \notin {b, compressing.buf}
           /\ bytes' = [bytes EXCEPT ![b] = bytes[compressing.buf], ![compressing.buf] = <<>>]
           /\ UNCHANGED <<encoding, encoded, sending, slice, cells>>
    BY <1>4, CompressMoves
  <2>2. compressing.buf \in Buffer /\ compressing # None
    BY <2>1 DEF BinaryPackage
  <2>3. bytes'[b] = bytes[compressing.buf]
        /\ \A d \in Buffer \ {b, compressing.buf} : bytes'[d] = bytes[d]
    BY <1>0, <2>1, <2>2
  <2>4. Carries(compressing)
    BY <2>2 DEF Filled, PayloadsIntact, Package
  <2>5. \A pkg \in {encoded, sending} : pkg # None => pkg.buf \in Buffer /\ Carries(pkg)
    <3>1. \A pkg \in {encoded, sending} : pkg # None => pkg \in BinaryPackage /\ pkg \in Package
      BY DEF TypeOK, Package
    <3>2. \A pkg \in BinaryPackage : pkg.buf \in Buffer
      BY DEF BinaryPackage
    <3>3. \A pkg \in Package : Carries(pkg)
      BY DEF Filled, PayloadsIntact
    <3> QED
      BY <3>1, <3>2, <3>3
  <2>6. \A pkg \in Package' : pkg = compressed' \/ (pkg \in {encoded, sending} /\ pkg # None)
    BY <2>1 DEF Package
  <2>7. \A pkg \in Package' : Carries1(pkg)
    BY <2>1, <2>3, <2>4, <2>5, <2>6
  <2> QED
    BY <1>1, <2>1, <2>7
<1>5. CASE HandToCompressor \/ HandToSender
  <2>1. \A pkg \in Package' : pkg \in Package
    BY <1>5 DEF HandToCompressor, HandToSender, Package
  <2> QED
    BY <1>1, <1>5, <2>1 DEF HandToCompressor, HandToSender, Filled, PayloadsIntact
<1>6. CASE SenderStep
  <2>1. /\ \A pkg \in Package' : pkg \in Package /\ pkg.buf # sending.buf
        /\ bytes' = [bytes EXCEPT ![sending.buf] = <<>>]
        /\ UNCHANGED <<encoding, slice, cells>>
    BY <1>6, SendMoves
  <2>2. \A pkg \in Package' : Carries1(pkg)
    <3>1. \A pkg \in Package : pkg.buf \in Buffer
      BY DEF Package, TypeOK, BinaryPackage
    <3> QED
      BY <1>0, <2>1, <3>1 DEF Filled, PayloadsIntact
  <2> QED
    BY <1>1, <2>1, <2>2
<1>7. CASE UNCHANGED <<accepted, slice, cells, encoding, encoded, compressing, compressed,
                       sending, memoryVars>>
  BY <1>1, <1>7 DEF Filled, PayloadsIntact, Package
<1> QED
  BY <1>2, <1>3, <1>4, <1>5, <1>6, <1>7, SlicesUntouched, PackagesUntouched

-------------------------------------------------------------------------------
(* Batches and their accounts *)

Batches ==
  /\ \A pkg \in Package : pkg.numEvents >= MinSlice
  /\ encoding # None => encoding.len >= MinSlice
  /\ \A t \in Topic : slice[t].len < MaxSlice

\* At first there is no package and nothing is buffered.
LEMMA InitBatches == Init => Batches
<1>1. Init => \A t \in Topic : slice[t].len = 0
  BY InitSlice
<1> QED
  BY <1>1, PublisherAssumption DEF Init, Batches, Package

\* Every step keeps packages from being smaller than MinSlice and slices from being full.
LEMMA NextBatches == TypeOK /\ Filled /\ Owned /\ Batches /\ [Next]_vars => Batches'
<1> SUFFICES ASSUME TypeOK, Filled, Owned, Batches, [Next]_vars PROVE Batches'
  OBVIOUS
<1> USE NoneAssumption DEF packagerVars, stageVars, memoryVars
<1>1. ASSUME NEW p \in Caller, CallerServed(p) PROVE Batches'
  <2>1. Package' = Package
    BY <1>1, Received DEF Package
  <2>2. slice \in [Topic -> [array : Array, len : 0..MaxSlice]] /\ 0 < MaxSlice
    BY PublisherAssumption DEF TypeOK
  <2>3. ASSUME NEW t \in Topic, NEW r \in [array : Array, len : Nat], r.len < MaxSlice,
               slice' = [slice EXCEPT ![t] = r]
        PROVE  \A u \in Topic : slice'[u].len < MaxSlice
    BY <2>2, <2>3 DEF Batches
  <2>4. CASE PackagerFlushes(p)
    <3>1. PICK t \in Topic, c \in Array, n \in Nat :
             /\ n + 1 >= MinSlice /\ encoding'.len = n + 1
             /\ slice' = [slice EXCEPT ![t] = [array |-> c, len |-> 0]]
      BY <2>4, BatchFlushed
    <3>2. \A u \in Topic : slice'[u].len < MaxSlice
      BY <2>2, <2>3, <3>1
    <3> QED
      BY <2>1, <3>1, <3>2 DEF Batches
  <2>5. CASE PackagerKeeps(p)
    <3>1. PICK t \in Topic :
             /\ slice[t].len + 1 < MaxSlice
             /\ slice' = [slice EXCEPT ![t] = [array |-> slice[t].array, len |-> slice[t].len + 1]]
             /\ encoding' = encoding
      BY <2>5, Kept
    <3>2. slice[t].array \in Array /\ slice[t].len + 1 \in Nat
      BY <2>2, PublisherAssumption
    <3>3. \A u \in Topic : slice'[u].len < MaxSlice
      BY <2>3, <3>1, <3>2
    <3> QED
      BY <2>1, <3>1, <3>3 DEF Batches
  <2>6. CASE PackagerDrops(p)
    <3>1. PICK t \in Topic :
             /\ slice' = [slice EXCEPT ![t] = [array |-> slice[t].array, len |-> 0]]
             /\ encoding' = encoding
      BY <2>6, Dropped
    <3>2. \A u \in Topic : slice'[u].len < MaxSlice
      BY <2>2, <2>3, <3>1
    <3> QED
      BY <2>1, <3>1, <3>2 DEF Batches
  <2> QED
    BY <1>1, <2>4, <2>5, <2>6 DEF CallerServed
<1>2. CASE Encode
  BY <1>2, EncodeMoves DEF Batches
<1>3. CASE Compress
  <2>1. /\ compressing # None /\ compressed'.numEvents = compressing.numEvents
        /\ UNCHANGED <<encoding, encoded, sending, slice>> /\ compressing' = None
    BY <1>3, CompressMoves
  <2> QED
    BY <2>1 DEF Batches, Package
<1>4. CASE HandToCompressor \/ HandToSender
  BY <1>4 DEF HandToCompressor, HandToSender, Batches, Package
<1>5. CASE SenderStep
  BY <1>5, SendMoves DEF Batches
<1>6. CASE UNCHANGED <<accepted, slice, cells, encoding, encoded, compressing, compressed,
                       sending, memoryVars>>
  BY <1>6 DEF Batches, Package
<1> QED
  BY <1>1, <1>2, <1>3, <1>4, <1>5, <1>6, SlicesUntouched, PackagesUntouched

\* Only callers being served and the sender move events between the counters.
LEMMA CountsUntouched ==
  ASSUME [Next]_vars, ~SenderStep, \A p \in Caller : ~CallerServed(p)
  PROVE  UNCHANGED countVars
<1> USE DEF packagerVars, stageVars, memoryVars, brokerVars, countVars, closeVars, pipeVars,
            controlVars
<1>1. ASSUME NEW p \in Caller, \E t \in Topic : Publish(p, t) PROVE UNCHANGED countVars
  BY <1>1 DEF Publish
<1>2. ASSUME NEW k \in Closer, CloseStarts(k) \/ CloseReturns(k) PROVE UNCHANGED countVars
  BY <1>2 DEF CloseStarts, CloseReturns
<1>3. CASE Encode \/ Compress \/ HandToCompressor \/ HandToSender
  BY <1>3 DEF Encode, Compress, HandToCompressor, HandToSender
<1>4. CASE PackagerExits \/ StageExits \/ Connects \/ ConnectionBreaks \/ BrokerChanges
           \/ UNCHANGED vars
  BY <1>4 DEF PackagerExits, StageExits, Connects, Reconnect, ReconnectFatal,
              ConnectionBreaks, BrokerChanges, vars
<1> QED
  BY <1>1, <1>2, <1>3, <1>4 DEF Next, EncoderStep, CompressorStep

\* The numbers added up are natural numbers.
LEMMA NumbersType ==
  ASSUME TypeOK
  PROVE  /\ \A pkg \in {encoded, compressing, compressed, sending} : EventsOf(pkg) \in Nat
         /\ encoding # None => encoding.len \in Nat
         /\ slice["bitswap_messages"].len \in Nat /\ slice["conn_events"].len \in Nat
         /\ accepted \in Nat /\ dropped \in Nat /\ nonDropped \in Nat
<1>1. \A pkg \in {encoded, compressing, compressed, sending} : EventsOf(pkg) \in Nat
  BY DEF TypeOK, EventsOf, BinaryPackage
<1>2. encoding # None => encoding.len \in Nat
  BY DEF TypeOK, EventPackage
<1>3. slice["bitswap_messages"].len \in Nat /\ slice["conn_events"].len \in Nat
  BY PublisherAssumption DEF TypeOK, Topic
<1> QED
  BY <1>1, <1>2, <1>3 DEF TypeOK

\* At first nothing was accepted.
LEMMA InitAccounted == Init => EventsAccounted
<1> SUFFICES ASSUME Init PROVE EventsAccounted
  OBVIOUS
<1>1. slice["bitswap_messages"].len = 0 /\ slice["conn_events"].len = 0
  BY InitSlice DEF Topic
<1> QED
  BY <1>1 DEF Init, EventsAccounted, Buffered, InStages, EventsOf

\* Every step keeps each event accepted in one of the counters.
LEMMA NextAccounted ==
  TypeOK /\ Filled /\ Owned /\ EventsAccounted /\ [Next]_vars => EventsAccounted'
<1> SUFFICES ASSUME TypeOK, Filled, Owned, EventsAccounted, [Next]_vars PROVE EventsAccounted'
  OBVIOUS
<1> USE NoneAssumption, NumbersType
<1>1. ASSUME NEW p \in Caller, CallerServed(p) PROVE EventsAccounted'
  <2>1. /\ UNCHANGED <<encoded, compressing, compressed, sending, nonDropped>>
        /\ accepted' = accepted + 1
    BY <1>1, Received DEF Receives
  <2>2. slice \in [Topic -> [array : Array, len : 0..MaxSlice]]
    BY DEF TypeOK
  <2>3. CASE PackagerFlushes(p)
    <3>1. PICK t \in Topic, a \in Array :
             /\ encoding = None /\ encoding' # None /\ encoding'.len = slice[t].len + 1
             /\ slice' = [slice EXCEPT ![t] = [array |-> a, len |-> 0]]
             /\ UNCHANGED dropped
      BY <2>3, BatchFlushed
    <3>2. Buffered' = Buffered - slice[t].len
      BY <2>2, <3>1 DEF Buffered, Topic
    <3>3. InStages' = InStages + slice[t].len + 1
      BY <2>1, <3>1 DEF InStages, Topic
    <3>4. Buffered \in Int /\ InStages \in Int /\ slice[t].len \in Int
      BY DEF Buffered, InStages, Topic
    <3> QED
      BY <2>1, <3>1, <3>2, <3>3, <3>4 DEF EventsAccounted
  <2>4. CASE PackagerKeeps(p)
    <3>1. PICK t \in Topic :
             /\ slice' = [slice EXCEPT ![t] = [array |-> slice[t].array, len |-> slice[t].len + 1]]
             /\ UNCHANGED <<encoding, dropped>>
      BY <2>4, Kept
    <3>2. Buffered' = Buffered + 1
      BY <2>2, <3>1 DEF Buffered, Topic
    <3>3. InStages' = InStages
      BY <2>1, <3>1 DEF InStages
    <3>4. Buffered \in Int /\ InStages \in Int
      BY DEF Buffered, InStages
    <3> QED
      BY <2>1, <3>1, <3>2, <3>3, <3>4 DEF EventsAccounted
  <2>5. CASE PackagerDrops(p)
    <3>1. PICK t \in Topic :
             /\ slice' = [slice EXCEPT ![t] = [array |-> slice[t].array, len |-> 0]]
             /\ dropped' = dropped + slice[t].len + 1
             /\ UNCHANGED encoding
      BY <2>5, Dropped
    <3>2. Buffered' = Buffered - slice[t].len
      BY <2>2, <3>1 DEF Buffered, Topic
    <3>3. InStages' = InStages
      BY <2>1, <3>1 DEF InStages
    <3>4. Buffered \in Int /\ InStages \in Int /\ slice[t].len \in Int
      BY DEF Buffered, InStages, Topic
    <3> QED
      BY <2>1, <3>1, <3>2, <3>3, <3>4 DEF EventsAccounted
  <2> QED
    BY <1>1, <2>3, <2>4, <2>5 DEF CallerServed
<1>2. CASE Encode
  <2>1. /\ encoding # None /\ encoding' = None /\ encoded = None /\ encoded' # None
        /\ encoded'.numEvents = encoding.len
        /\ UNCHANGED <<compressing, compressed, sending, accepted, slice, countVars>>
    BY <1>2, EncodeMoves
  <2> QED
    BY <2>1 DEF EventsAccounted, Buffered, InStages, EventsOf, countVars
<1>3. CASE Compress
  <2>1. /\ compressing # None /\ compressing' = None /\ compressed = None /\ compressed' # None
        /\ compressed'.numEvents = compressing.numEvents
        /\ UNCHANGED <<encoding, encoded, sending, accepted, slice, countVars>>
    BY <1>3, CompressMoves
  <2> QED
    BY <2>1 DEF EventsAccounted, Buffered, InStages, EventsOf, countVars
<1>4. CASE HandToCompressor \/ HandToSender
  BY <1>4 DEF HandToCompressor, HandToSender, packagerVars, countVars, EventsAccounted,
              Buffered, InStages, EventsOf
<1>5. CASE SenderStep
  <2>1. /\ sending \in BinaryPackage /\ sending' = None
        /\ UNCHANGED <<encoding, encoded, compressing, compressed, accepted, slice>>
    BY <1>5, SendMoves
  <2>2. \/ nonDropped' = nonDropped + sending.numEvents /\ UNCHANGED dropped
        \/ dropped' = dropped + sending.numEvents /\ UNCHANGED nonDropped
    BY <1>5 DEF SenderStep, SendSucceeds, SendFails, CountedDropped
  <2> QED
    BY <2>1, <2>2 DEF EventsAccounted, Buffered, InStages, EventsOf
<1>6. CASE UNCHANGED <<accepted, slice, cells, encoding, encoded, compressing, compressed,
                       sending, countVars>>
  BY <1>6 DEF EventsAccounted, Buffered, InStages, EventsOf, countVars
<1> QED
  BY <1>1, <1>2, <1>3, <1>4, <1>5, <1>6, SlicesUntouched, PackagesUntouched, CountsUntouched

-------------------------------------------------------------------------------
(* Closing *)

Closing ==
  /\ "encoder" \in exited => "packager" \in exited /\ encoding = None /\ encoded = None
  /\ "compressor" \in exited => "encoder" \in exited /\ compressing = None /\ compressed = None
  /\ "sender" \in exited => "compressor" \in exited /\ sending = None
  /\ msgClosed => closingLock # None \/ "sender" \in exited
  /\ \A k \in Closer : closer[k] = "returned" => "sender" \in exited
  /\ NeverPanics

\* At first nothing is closed.
LEMMA InitClosing == Init => Closing
BY DEF Init, Closing, NeverPanics

\* Every step keeps the order in which Close ends the goroutines.
LEMMA NextClosing == TypeOK /\ Closing /\ [Next]_vars => Closing'
<1> SUFFICES ASSUME TypeOK, Closing, [Next]_vars PROVE Closing'
  OBVIOUS
<1> USE NoneAssumption
        DEF packagerVars, stageVars, memoryVars, brokerVars, countVars, closeVars, pipeVars,
            controlVars, Closing, NeverPanics
<1>1. ASSUME NEW p \in Caller, CallerServed(p) PROVE Closing'
  <2>1. /\ UNCHANGED <<encoded, compressing, compressed, sending, exited, msgClosed, closer,
                       closingLock, process>>
        /\ "packager" \notin exited
    BY <1>1, Received DEF Receives
  <2> QED
    BY <2>1
<1>2. CASE Encode \/ Compress \/ HandToCompressor \/ HandToSender
  BY <1>2 DEF Encode, Compress, HandToCompressor, HandToSender
<1>3. CASE SenderStep
  <2>1. /\ sending' = None
        /\ UNCHANGED <<encoding, encoded, compressing, compressed, exited, msgClosed, closer,
                       closingLock, process>>
    BY <1>3 DEF SenderStep, SendSucceeds, SendFails, Settled
  <2> QED
    BY <2>1
<1>4. CASE StageExits
  BY <1>4, StageExit
<1>5. CASE PackagerExits \/ Connects \/ ConnectionBreaks \/ BrokerChanges \/ UNCHANGED vars
  BY <1>5 DEF PackagerExits, Connects, Reconnect, ReconnectFatal, ConnectionBreaks,
              BrokerChanges, vars
<1>6. ASSUME NEW p \in Caller, NEW t \in Topic, Publish(p, t) PROVE Closing'
  BY <1>6 DEF Publish
<1>7. ASSUME NEW k \in Closer, CloseStarts(k) PROVE Closing'
  BY <1>7 DEF CloseStarts, ClosedAlready, HoldsLockWaiting, TypeOK
<1>8. ASSUME NEW k \in Closer, CloseReturns(k) PROVE Closing'
  BY <1>8 DEF CloseReturns, ClosedAlready, TypeOK
<1> QED
  BY <1>1, <1>2, <1>3, <1>4, <1>5, <1>6, <1>7, <1>8 DEF Next, EncoderStep, CompressorStep

-------------------------------------------------------------------------------
(* The inductive invariant and what follows from it *)

IInv ==
  /\ TypeOK /\ Filled
  /\ SliceNotShared /\ Owned
  /\ Batches /\ EventsAccounted
  /\ Closing

\* The initial states satisfy the inductive invariant.
LEMMA InitInvariant == Init => IInv
BY InitType, InitSlice, InitOwned, InitBatches, InitAccounted, InitClosing DEF IInv

\* Every step keeps the inductive invariant.
LEMMA NextInvariant == IInv /\ [Next]_vars => IInv'
BY NextType, NextFilled, NextSlices, NextOwned, NextBatches, NextAccounted, NextClosing
   DEF IInv

\* The inductive invariant holds in every behaviour.
LEMMA Invariance == Spec => []IInv
BY InitInvariant, NextInvariant, PTL DEF Spec

\* Every variable has its type; none of the buffers in use is longer than maxSliceSize.
THEOREM TypeCorrect == Spec => []TypeOK
BY Invariance, PTL DEF IInv

\* What a package refers to in slices and buffers is, until it is handed to the broker
\* library, what the packager put into it, and the number counted for it is theirs.
THEOREM PayloadsStayIntact == Spec => []PayloadsIntact
<1>1. IInv => PayloadsIntact
  BY DEF IInv, Filled
<1> QED
  BY <1>1, Invariance, PTL

\* Every event received is dropped, not dropped or on its way.
THEOREM NothingUncounted == Spec => []EventsAccounted
BY Invariance, PTL DEF IInv

\* A byte buffer is in the pool or with one package, and no two goroutines have
\* the same array.
THEOREM MemoryStaysOwned == Spec => []MemoryOwned
<1>1. ASSUME Owned, NEW b \in Buffer, b \in pool
      PROVE  \A pkg \in {encoded, compressing, compressed, sending} :
               ~(pkg # None /\ pkg.buf = b)
  BY <1>1 DEF Owned, Package
<1>2. Owned => BufferOwnership
  <2> SUFFICES ASSUME Owned PROVE BufferOwnership
    OBVIOUS
  <2> DEFINE place == <<encoded, compressing, compressed, sending>>
             holding(b) == {i \in 1..4 : place[i] # None /\ place[i].buf = b}
  <2>1. \A i \in 1..4 : place[i] \in {encoded, compressing, compressed, sending}
    OBVIOUS
  <2>2. ASSUME NEW b \in Buffer, b \in pool PROVE Cardinality(holding(b)) = 0
    <3>1. holding(b) = {}
      BY <1>1, <2>1, <2>2
    <3> QED
      BY <3>1, FS_EmptySet
  <2>3. ASSUME NEW b \in Buffer \ pool PROVE Cardinality(holding(b)) = 1
    <3>1. PICK pkg \in Package : pkg.buf = b
      BY <2>3 DEF Owned
    <3>2. PICK i \in 1..4 : place[i] = pkg /\ pkg # None
      <4>1. place[1] = encoded /\ place[2] = compressing /\ place[3] = compressed
            /\ place[4] = sending
        OBVIOUS
      <4> HIDE DEF place
      <4> QED
        BY <3>1, <4>1 DEF Package
    <3>3. \A j \in 1..4 : j # i => Apart(place[i], place[j])
      <4>1. /\ \A p, q : Apart(p, q) => Apart(q, p)
            /\ Apart(encoded, compressing) /\ Apart(encoded, compressed)
            /\ Apart(encoded, sending) /\ Apart(compressing, compressed)
            /\ Apart(compressing, sending) /\ Apart(compressed, sending)
        BY DEF Owned, Apart
      <4>2. place[1] = encoded /\ place[2] = compressing /\ place[3] = compressed
            /\ place[4] = sending
        OBVIOUS
      <4> HIDE DEF place
      <4> QED
        BY <4>1, <4>2
    <3>4. holding(b) = {i}
      BY <3>1, <3>2, <3>3 DEF Apart
    <3> QED
      BY <3>4, FS_Singleton
  <2> QED
    BY <2>2, <2>3 DEF BufferOwnership
<1>3. IInv => MemoryOwned
  BY <1>2 DEF IInv, MemoryOwned
<1> QED
  BY <1>3, Invariance, PTL

\* msgOut is closed once.
THEOREM NoPanic == Spec => []NeverPanics
<1>1. IInv => NeverPanics
  BY DEF IInv, Closing
<1> QED
  BY <1>1, Invariance, PTL

\* When a Close has returned, only what the packager had buffered is neither published
\* nor counted, less than maxSliceSize events of each topic.
THEOREM CloseLeavesOnlyBuffered == Spec => []CloseDrains
<1>1. ASSUME IInv, NEW k \in Closer, closer[k] = "returned"
      PROVE  /\ exited = {"packager", "encoder", "compressor", "sender"}
             /\ InStages = 0
             /\ accepted = dropped + nonDropped + Buffered
             /\ \A t \in Topic : slice[t].len < MaxSlice
  <2>1. /\ encoding = None /\ encoded = None /\ compressing = None /\ compressed = None
        /\ sending = None
        /\ {"packager", "encoder", "compressor", "sender"} \subseteq exited
    BY <1>1 DEF IInv, Closing
  <2>2. exited \subseteq {"packager", "encoder", "compressor", "sender"}
    BY <1>1 DEF IInv, TypeOK
  <2>3. InStages = 0
    BY <2>1 DEF InStages, EventsOf
  <2>4. dropped + nonDropped + Buffered \in Int
    BY <1>1, NumbersType DEF IInv, Buffered
  <2>5. accepted = dropped + nonDropped + Buffered
    BY <1>1, <2>3, <2>4 DEF IInv, EventsAccounted
  <2> QED
    BY <1>1, <2>1, <2>2, <2>3, <2>5 DEF IInv, Batches
<1>2. IInv => CloseDrains
  BY <1>1 DEF CloseDrains
<1> QED
  BY <1>2, Invariance, PTL

-------------------------------------------------------------------------------
(* The publisher implements LossyFeed: being received is Accept, with the      *)
(* newest batch lost when the packager drops it; being handed to the broker    *)
(* library is Settle; the stages between only move a batch on.                 *)

\* What is pending on a topic: the batches on their way, then the slice.
Batch(t) ==
  IF encoding # None /\ encoding.topic = t
  THEN SubSeq(cells[encoding.array], 1, encoding.len) ELSE <<>>
Ahead(t) ==
  Contents(sending, t) \o Contents(compressed, t) \o Contents(compressing, t)
  \o Contents(encoded, t) \o Batch(t)
Waiting(t) == SubSeq(cells[slice[t].array], 1, slice[t].len)

\* What is pending is what left the packager followed by what did not.
LEMMA PendingParts ==
  ASSUME NEW t \in Topic
  PROVE  /\ Pending(t) = Ahead(t) \o Waiting(t)
         /\ Pending(t)' = Ahead(t)' \o Waiting(t)'
BY DEF Pending, Ahead, Batch, Waiting

\* Both parts of what is pending are sequences of event numbers.
LEMMA PartsType ==
  ASSUME TypeOK, Filled, NEW t \in Topic
  PROVE  /\ \A pkg \in {sending, compressed, compressing, encoded} :
              Contents(pkg, t) \in Seq(Nat)
         /\ Batch(t) \in Seq(Nat)
         /\ Ahead(t) \in Seq(Nat)
         /\ Waiting(t) \in Seq(Nat) /\ Len(Waiting(t)) = slice[t].len
<1> USE NoneAssumption
<1>1. \A pkg \in {sending, compressed, compressing, encoded} : Contents(pkg, t) \in Seq(Nat)
  BY EmptySeq DEF TypeOK, BinaryPackage, Contents
<1>2. Batch(t) \in Seq(Nat)
  <2>1. CASE encoding # None /\ encoding.topic = t
    <3>1. /\ cells[encoding.array] \in Seq(Nat) /\ encoding.len \in Nat
          /\ encoding.len <= Len(cells[encoding.array])
      BY <2>1 DEF TypeOK, EventPackage, Filled, PayloadsIntact
    <3> QED
      BY <2>1, <3>1, Promise!FirstNumbers DEF Batch
  <2> QED
    BY <2>1, EmptySeq DEF Batch
<1>3. Ahead(t) \in Seq(Nat)
  BY <1>1, <1>2, ConcatProperties DEF Ahead
<1>4. /\ cells[slice[t].array] \in Seq(Nat) /\ slice[t].len \in Nat
      /\ slice[t].len <= Len(cells[slice[t].array])
  BY PublisherAssumption DEF TypeOK, Filled
<1>5. Waiting(t) \in Seq(Nat) /\ Len(Waiting(t)) = slice[t].len
  BY <1>4, Promise!FirstNumbers DEF Waiting
<1> QED
  BY <1>1, <1>2, <1>3, <1>5

\* What a concatenation is made of.
LEMMA Split ==
  ASSUME NEW s \in Seq(Nat), NEW u \in Seq(Nat)
  PROVE  /\ Len(s \o u) = Len(s) + Len(u)
         /\ SubSeq(s \o u, 1, Len(s)) = s
         /\ SubSeq(s \o u, Len(s) + 1, Len(s \o u)) = u
<1> DEFINE w == s \o u
<1>1. PICK m \in Nat, n \in Nat : m = Len(s) /\ n = Len(u)
  OBVIOUS
<1>2. /\ w \in Seq(Nat) /\ Len(w) = m + n
      /\ \A i \in 1..m : w[i] = s[i]
      /\ \A i \in 1..n : w[m + i] = u[i]
  BY <1>1, EventsJoined
<1> HIDE DEF w
<1>3. SubSeq(w, 1, m) = s
  <2> DEFINE v == SubSeq(w, 1, m)
  <2>1. m <= Len(w)
    BY <1>2
  <2>2. v \in Seq(Nat) /\ Len(v) = m /\ \A i \in 1..m : v[i] = w[i]
    BY <1>2, <2>1, Promise!FirstNumbers
  <2> HIDE DEF v
  <2>3. \A i \in 1..Len(v) : v[i] = s[i]
    BY <1>2, <2>2
  <2>4. v = s
    BY <1>1, <2>2, <2>3, SeqEqual, SMTT(30)
  <2> QED
    BY <2>4 DEF v
<1>4. SubSeq(w, m + 1, m + n) = u
  <2> DEFINE v == SubSeq(w, m + 1, m + n)
  <2>1. m <= Len(w)
    BY <1>2
  <2>2. /\ v \in Seq(Nat) /\ Len(v) = (m + n) - m
        /\ \A i \in 1..(m + n) - m : v[i] = w[m + i]
    BY <1>2, <2>1, Promise!LastNumbers
  <2> HIDE DEF v
  <2>3. Len(v) = n
    BY <2>2
  <2>4. ASSUME NEW i \in 1..n PROVE v[i] = u[i]
    <3>1. i \in 1..(m + n) - m
      OBVIOUS
    <3> QED
      BY <1>2, <2>2, <3>1
  <2>5. v = u
    BY <1>1, <2>2, <2>3, <2>4, SeqEqual, SMTT(30)
  <2> QED
    BY <2>5 DEF v
<1> QED
  BY <1>1, <1>2, <1>3, <1>4 DEF w

\* A stage that takes a batch on leaves what is pending as it is.
LEMMA StagesKeepPending ==
  ASSUME TypeOK, Filled, Owned, NEW t \in Topic,
         Encode \/ Compress \/ HandToCompressor \/ HandToSender
  PROVE  Pending(t)' = Pending(t)
<1> USE NoneAssumption
<1> DEFINE P1 == Contents(sending, t)
           P2 == Contents(compressed, t)
           P3 == Contents(compressing, t)
           P4 == Contents(encoded, t)
           P5 == Batch(t)
<1>0. /\ P1 \in Seq(Nat) /\ P2 \in Seq(Nat) /\ P3 \in Seq(Nat) /\ P4 \in Seq(Nat)
      /\ P5 \in Seq(Nat)
      /\ P1 \o P2 \in Seq(Nat) /\ P1 \o P2 \o P3 \in Seq(Nat)
  BY PartsType, ConcatProperties
<1>1. Ahead(t) = P1 \o P2 \o P3 \o P4 \o P5 /\ Ahead(t)' = P1' \o P2' \o P3' \o P4' \o P5'
  BY DEF Ahead
<1>2. UNCHANGED <<slice, cells>>
  BY DEF Encode, Compress, HandToCompressor, HandToSender, packagerVars
<1>3. Waiting(t)' = Waiting(t)
  BY <1>2 DEF Waiting
<1>b. bytes \in [Buffer -> Seq(Nat)]
  BY DEF TypeOK
<1>4. CASE Encode
  <2>1. PICK b \in Buffer :
           /\ encoding \in EventPackage /\ encoding' = None
           /\ encoded = None /\ encoded' # None
           /\ encoded'.buf = b /\ encoded'.topic = encoding.topic
           /\ \A pkg \in Package : pkg.buf # b
           /\ bytes' = [bytes EXCEPT ![b] = SubSeq(cells[encoding.array], 1, encoding.len)]
           /\ UNCHANGED <<compressing, compressed, sending>>
    BY <1>4, EncodeMoves
  <2>2. \A pkg \in {sending, compressed, compressing} :
           pkg # None => bytes'[pkg.buf] = bytes[pkg.buf]
    BY <1>b, <2>1 DEF Package, TypeOK, BinaryPackage
  <2>3. P1' = P1 /\ P2' = P2 /\ P3' = P3
    BY <2>1, <2>2 DEF Contents
  <2>4. P4 = <<>> /\ P5' = <<>> /\ P4' = P5
    BY <1>b, <2>1 DEF Contents, Batch
  <2> HIDE DEF P1, P2, P3, P4, P5
  <2>5. Ahead(t) = P1 \o P2 \o P3 \o P5 /\ P1 \o P2 \o P3 \o P5 \in Seq(Nat)
    BY <1>0, <1>1, <2>4, ConcatEmptySeq, ConcatProperties
  <2>6. Ahead(t)' = P1 \o P2 \o P3 \o P5
    BY <1>1, <2>3, <2>4, <2>5, ConcatEmptySeq
  <2> QED
    BY <1>3, <2>5, <2>6, PendingParts
<1>5. CASE Compress
  <2>1. PICK b \in Buffer :
           /\ compressing \in BinaryPackage /\ compressing' = None
           /\ compressed = None /\ compressed' # None
           /\ compressed'.buf = b /\ compressed'.topic = compressing.topic
           /\ b # compressing.buf
           /\ encoded # None => encoded.buf \notin {b, compressing.buf}
           /\ sending # None => sending.buf \notin {b, compressing.buf}
           /\ bytes' = [bytes EXCEPT ![b] = bytes[compressing.buf], ![compressing.buf] = <<>>]
           /\ UNCHANGED <<encoding, encoded, sending, cells>>
    BY <1>5, CompressMoves
  <2>2. compressing.buf \in Buffer /\ compressing # None
    BY <2>1 DEF BinaryPackage
  <2>3. bytes'[b] = bytes[compressing.buf]
        /\ \A d \in Buffer \ {b, compressing.buf} : bytes'[d] = bytes[d]
    BY <1>b, <2>1, <2>2
  <2>4. \A pkg \in {sending, encoded} : pkg # None => bytes'[pkg.buf] = bytes[pkg.buf]
    BY <2>1, <2>3 DEF TypeOK, BinaryPackage
  <2>5. P1' = P1 /\ P4' = P4 /\ P5' = P5
    BY <2>1, <2>4 DEF Contents, Batch
  <2>6. P2 = <<>> /\ P3' = <<>> /\ P2' = P3
    BY <2>1, <2>2, <2>3 DEF Contents
  <2> HIDE DEF P1, P2, P3, P4, P5
  <2>7. P1' \o P2' \o P3' = P1 \o P2 \o P3
    BY <1>0, <2>5, <2>6, ConcatEmptySeq, ConcatProperties
  <2> QED
    BY <1>1, <1>3, <2>5, <2>7, PendingParts
<1>6. CASE HandToCompressor
  <2>1. /\ encoded # None /\ compressing = None /\ compressing' = encoded /\ encoded' = None
        /\ UNCHANGED <<encoding, compressed, sending, bytes, cells>>
    BY <1>6 DEF HandToCompressor, packagerVars, memoryVars
  <2>2. P1' = P1 /\ P2' = P2 /\ P5' = P5
    BY <2>1 DEF Contents, Batch
  <2>3. P3 = <<>> /\ P4' = <<>> /\ P3' = P4
    BY <2>1 DEF Contents
  <2> HIDE DEF P1, P2, P3, P4, P5
  <2>4. P1' \o P2' \o P3' \o P4' = P1 \o P2 \o P3 \o P4
    BY <1>0, <2>2, <2>3, ConcatEmptySeq, ConcatProperties
  <2> QED
    BY <1>1, <1>3, <2>2, <2>4, PendingParts
<1>7. CASE HandToSender
  <2>1. /\ compressed # None /\ sending = None /\ sending' = compressed /\ compressed' = None
        /\ UNCHANGED <<encoding, encoded, compressing, bytes, cells>>
    BY <1>7 DEF HandToSender, packagerVars, memoryVars
  <2>2. P3' = P3 /\ P4' = P4 /\ P5' = P5
    BY <2>1 DEF Contents, Batch
  <2>3. P1 = <<>> /\ P2' = <<>> /\ P1' = P2
    BY <2>1 DEF Contents
  <2> HIDE DEF P1, P2, P3, P4, P5
  <2>4. P1' \o P2' = P1 \o P2
    BY <1>0, <2>3, ConcatEmptySeq
  <2> QED
    BY <1>1, <1>3, <2>2, <2>4, PendingParts
<1> QED
  BY <1>4, <1>5, <1>6, <1>7

\* An event is appended to what is pending on its topic; with it, the slice may
\* be dropped.
LEMMA CallerAccepts ==
  ASSUME IInv, NEW p \in Caller, CallerServed(p)
  PROVE  \E t \in Topic, n \in Nat :
           /\ n = 0 \/ (n >= MinSlice /\ n <= Len(Append(Pending(t), accepted + 1)))
           /\ Pending(t)' = LET grown == Append(Pending(t), accepted + 1)
                            IN  SubSeq(grown, 1, Len(grown) - n)
           /\ \A u \in Topic \ {t} : Pending(u)' = Pending(u)
           /\ accepted' = accepted + 1
           /\ UNCHANGED delivered
<1> USE NoneAssumption, PublisherAssumption
<1>0. TypeOK /\ Filled /\ SliceNotShared /\ Owned
  BY DEF IInv
<1>1. PICK t \in Topic, a \in Array, n \in Nat :
         /\ t = publishing[p] /\ a = slice[t].array /\ n = slice[t].len
         /\ n <= Len(cells[a])
         /\ cells'[a] \in Seq(Nat)
         /\ Len(cells'[a]) >= n + 1
         /\ cells'[a][n + 1] = accepted + 1
         /\ \A i \in 1..n : cells'[a][i] = cells[a][i]
         /\ \A b \in Array \ {a} : cells'[b] = cells[b]
  BY <1>0, Appends
<1>s. /\ t = publishing[p] /\ a = slice[t].array /\ n = slice[t].len
      /\ TypeOK
  BY <1>0, <1>1
<1>2. /\ UNCHANGED <<encoded, compressing, compressed, sending, bytes, delivered>>
      /\ accepted' = accepted + 1
  BY Received DEF Receives, memoryVars, brokerVars
<1>3. /\ slice \in [Topic -> [array : Array, len : 0..MaxSlice]]
      /\ accepted + 1 \in Nat /\ MinSlice \in Nat /\ MaxSlice \in Nat /\ MinSlice <= MaxSlice
  BY <1>0 DEF TypeOK
<1> DEFINE e == accepted + 1
           W == Waiting(t)
           A == Ahead(t)
           grown == Append(Pending(t), e)
\* The slice, grown by the event.
<1>4. /\ W \in Seq(Nat) /\ Len(W) = n /\ A \in Seq(Nat)
      /\ \A i \in 1..n : W[i] = cells[a][i]
  <2> DEFINE c == cells[a]
  <2>1. c \in Seq(Nat) /\ n <= Len(c)
    BY <1>0, <1>1 DEF TypeOK
  <2>2. W = SubSeq(c, 1, n)
    BY <1>1 DEF Waiting
  <2> HIDE DEF c, W
  <2>3. /\ SubSeq(c, 1, n) \in Seq(Nat) /\ Len(SubSeq(c, 1, n)) = n
        /\ \A i \in 1..n : SubSeq(c, 1, n)[i] = c[i]
    BY <2>1, Promise!FirstNumbers
  <2>4. /\ W \in Seq(Nat) /\ Len(W) = n
        /\ \A i \in 1..n : W[i] = cells[a][i]
    BY <2>2, <2>3 DEF c
  <2>5. A \in Seq(Nat)
    BY <1>0, PartsType
  <2> QED
    BY <2>4, <2>5
<1>5. SubSeq(cells'[a], 1, n + 1) = Append(W, e)
  <2> DEFINE c == cells'[a]
  <2>1. c \in Seq(Nat) /\ n + 1 \in Nat /\ n + 1 <= Len(c)
    <3>1. c \in Seq(Nat) /\ Len(c) >= n + 1
      BY <1>1
    <3> HIDE DEF c
    <3>2. Len(c) \in Nat
      BY <3>1
    <3> QED
      BY <3>1, <3>2
  <2> HIDE DEF c
  <2>2. /\ SubSeq(c, 1, n + 1) \in Seq(Nat) /\ Len(SubSeq(c, 1, n + 1)) = n + 1
        /\ \A i \in 1..n + 1 : SubSeq(c, 1, n + 1)[i] = c[i]
    BY <2>1, Promise!FirstNumbers
  <2>3. /\ Append(W, e) \in Seq(Nat) /\ Len(Append(W, e)) = n + 1
        /\ Append(W, e)[n + 1] = e /\ \A i \in 1..n : Append(W, e)[i] = W[i]
    BY <1>3, <1>4, EventsGrown
  <2>4. c[n + 1] = e /\ \A i \in 1..n : c[i] = W[i]
    BY <1>1, <1>4 DEF c
  <2>5. \A i \in 1..n + 1 : i \in 1..n \/ i = n + 1
    OBVIOUS
  <2>6. \A i \in 1..n + 1 : SubSeq(c, 1, n + 1)[i] = Append(W, e)[i]
    BY <2>2, <2>3, <2>4, <2>5
  <2>7. SubSeq(c, 1, n + 1) = Append(W, e)
    BY <2>2, <2>3, <2>6, SeqEqual
  <2> QED
    BY <2>7 DEF c
<1>6. grown = A \o Append(W, e) /\ grown \in Seq(Nat)
  <2>1. <<e>> \in Seq(Nat) /\ A \o W \in Seq(Nat)
    BY <1>3, <1>4, EventsJoined
  <2>2. Pending(t) = A \o W
    BY PendingParts
  <2>3. Append(A \o W, e) = (A \o W) \o <<e>> /\ Append(A \o W, e) \in Seq(Nat)
    BY <1>3, <2>1, EventsGrown
  <2>4. Append(W, e) = W \o <<e>>
    BY <1>3, <1>4, EventsGrown
  <2>5. (A \o W) \o <<e>> = A \o (W \o <<e>>)
    BY <1>4, <2>1, EventsRegrouped, SMTT(60)
  <2> QED
    BY <2>2, <2>3, <2>4, <2>5
\* Other topics have other arrays.
<1>7. \A u \in Topic : \A pkg \in {sending, compressed, compressing, encoded} :
         Contents(pkg, u)' = Contents(pkg, u)
  BY <1>2 DEF Contents
<1>8. encoding # None => /\ encoding.array \in Array /\ encoding.array # a
                         /\ cells'[encoding.array] = cells[encoding.array]
  BY <1>0, <1>1 DEF SliceNotShared, TypeOK, EventPackage
<1>9. ASSUME UNCHANGED encoding PROVE \A u \in Topic : Ahead(u)' = Ahead(u)
  <2>1. \A u \in Topic : Batch(u)' = Batch(u)
    BY <1>8, <1>9 DEF Batch
  <2> QED
    BY <1>2, <2>1 DEF Ahead, Contents
<1>10. ASSUME \A u \in Topic \ {t} : slice'[u] = slice[u],
              \A u \in Topic \ {t} : Ahead(u)' = Ahead(u)
       PROVE  \A u \in Topic \ {t} : Pending(u)' = Pending(u)
  <2>1. \A u \in Topic \ {t} : slice[u].array \in Array \ {a}
    BY <1>0, <1>1, <1>3 DEF SliceNotShared, Topic
  <2>2. ASSUME NEW u \in Topic \ {t} PROVE Waiting(u)' = Waiting(u)
    <3>1. slice'[u] = slice[u]
      BY <1>10, <2>2
    <3>2. cells'[slice[u].array] = cells[slice[u].array]
      BY <1>1, <2>1, <2>2
    <3> QED
      BY <3>1, <3>2 DEF Waiting
  <2> QED
    BY <1>10, <2>2, PendingParts
<1>11. SubSeq(grown, 1, Len(grown) - 0) = grown
  BY <1>6, SubSeqFull
<1> HIDE DEF grown
<1>12. CASE PackagerFlushes(p)
  <2>1. PICK c \in Array :
           /\ encoding = None /\ encoded = None /\ encoding' # None
           /\ encoding'.array = a /\ encoding'.len = n + 1 /\ encoding'.topic = t
           /\ slice' = [slice EXCEPT ![t] = [array |-> c, len |-> 0]]
    <3>1. PICK u \in Topic, d \in Array, c \in Array, m \in Nat :
             /\ u = publishing[p] /\ d = slice[u].array /\ m = slice[u].len
             /\ encoding = None /\ encoded = None /\ encoding' # None
             /\ encoding'.array = d /\ encoding'.len = m + 1 /\ encoding'.topic = u
             /\ slice' = [slice EXCEPT ![u] = [array |-> c, len |-> 0]]
      BY <1>0, <1>12, BatchFlushed
    <3>2. u = t /\ d = a /\ m = n
      BY <1>1, <1>s, <3>1
    <3> QED
      BY <3>1, <3>2
  <2>3. \A u \in Topic \ {t} : Batch(u) = <<>> /\ Batch(u)' = <<>>
    BY <2>1 DEF Batch
  <2>4. Batch(t) = <<>> /\ Batch(t)' = Append(W, e)
    BY <1>5, <2>1 DEF Batch
  <2>5. \A u \in Topic \ {t} : Ahead(u)' = Ahead(u)
    BY <1>2, <2>3 DEF Ahead, Contents
  <2>6. Waiting(t)' = <<>>
    <3>1. slice'[t].len = 0
      BY <1>3, <2>1
    <3> QED
      BY <3>1, SubSeqEmpty DEF Waiting
  <2>7. Pending(t)' = grown
    <3> DEFINE X == Contents(sending, t) \o Contents(compressed, t)
                    \o Contents(compressing, t) \o Contents(encoded, t)
    <3>1. X \in Seq(Nat)
      BY <1>0, PartsType, ConcatProperties
    <3>2. X' = X
      BY <1>2 DEF Contents
    <3>3. A = X \o Batch(t) /\ Ahead(t)' = X' \o Batch(t)'
      BY DEF Ahead
    <3> HIDE DEF X
    <3>4. A = X /\ Ahead(t)' = X \o Append(W, e)
      BY <2>4, <3>1, <3>2, <3>3, ConcatEmptySeq
    <3>5. Pending(t)' = grown \o <<>>
      BY <1>6, <2>6, <3>4, PendingParts
    <3> QED
      BY <1>6, <3>5, ConcatEmptySeq
  <2>8. \A u \in Topic \ {t} : Pending(u)' = Pending(u)
    BY <1>3, <1>10, <2>1, <2>5
  <2> WITNESS t \in Topic, 0 \in Nat
  <2> QED
    BY <1>2, <1>11, <2>7, <2>8 DEF grown
<1>13. CASE PackagerKeeps(p)
  <2>1. /\ slice' = [slice EXCEPT ![t] = [array |-> a, len |-> n + 1]]
        /\ UNCHANGED encoding
    BY <1>s, <1>13, Kept
  <2>2. /\ slice'[t].array = a /\ slice'[t].len = n + 1
        /\ \A u \in Topic \ {t} : slice'[u] = slice[u]
    BY <1>3, <2>1
  <2>3. Waiting(t)' = Append(W, e)
    BY <1>5, <2>2 DEF Waiting
  <2>4. Pending(t)' = grown
    BY <1>6, <1>9, <2>1, <2>3, PendingParts
  <2>5. \A u \in Topic \ {t} : Pending(u)' = Pending(u)
    BY <1>9, <1>10, <2>1, <2>2
  <2> WITNESS t \in Topic, 0 \in Nat
  <2> QED
    BY <1>2, <1>11, <2>4, <2>5 DEF grown
<1>14. CASE PackagerDrops(p)
  <2>1. /\ n + 1 >= MaxSlice
        /\ slice' = [slice EXCEPT ![t] = [array |-> a, len |-> 0]]
        /\ UNCHANGED encoding
    BY <1>s, <1>14, Dropped
  <2>2. /\ slice'[t].len = 0
        /\ \A u \in Topic \ {t} : slice'[u] = slice[u]
    BY <1>3, <2>1
  <2>3. Waiting(t)' = <<>>
    BY <2>2, SubSeqEmpty DEF Waiting
  <2>4. Pending(t)' = A
    BY <1>4, <1>9, <2>1, <2>3, PendingParts, ConcatEmptySeq
  <2>5. \A u \in Topic \ {t} : Pending(u)' = Pending(u)
    BY <1>9, <1>10, <2>1, <2>2
  <2>6. /\ Len(grown) = Len(A) + (n + 1)
        /\ SubSeq(grown, 1, Len(A)) = A
    <3>1. Append(W, e) \in Seq(Nat) /\ Len(Append(W, e)) = n + 1
      BY <1>3, <1>4, AppendProperties
    <3> QED
      BY <1>4, <1>6, <3>1, Split
  <2>7. /\ n + 1 >= MinSlice /\ n + 1 <= Len(grown)
        /\ Len(grown) - (n + 1) = Len(A)
    <3>1. Len(A) \in Nat
      BY <1>4
    <3> QED
      BY <1>3, <2>1, <2>6, <3>1
  <2> WITNESS t \in Topic, n + 1 \in Nat
  <2> QED
    BY <1>2, <2>4, <2>5, <2>6, <2>7 DEF grown
<1> QED
  BY <1>12, <1>13, <1>14 DEF CallerServed

\* The batch in front leaves, delivered or lost.
LEMMA SenderSettles ==
  ASSUME IInv, SenderStep
  PROVE  \E t \in Topic, n \in Nat :
           /\ n >= MinSlice /\ n <= Len(Pending(t))
           /\ Pending(t)' = SubSeq(Pending(t), n + 1, Len(Pending(t)))
           /\ \A u \in Topic \ {t} : Pending(u)' = Pending(u)
           /\ \/ delivered' = [delivered EXCEPT ![t] = delivered[t] \o SubSeq(Pending(t), 1, n)]
              \/ UNCHANGED delivered
           /\ UNCHANGED accepted
<1> USE NoneAssumption, PublisherAssumption
<1>0. TypeOK /\ Filled /\ Owned /\ Batches
  BY DEF IInv
<1>1. /\ sending \in BinaryPackage /\ sending' = None
      /\ bytes' = [bytes EXCEPT ![sending.buf] = <<>>]
      /\ UNCHANGED <<encoding, encoded, compressing, compressed, accepted, slice, cells>>
  BY <1>0, SendMoves
<1>2. PICK t \in Topic, b \in Buffer, n \in Nat :
         t = sending.topic /\ b = sending.buf /\ n = sending.numEvents
  BY <1>1 DEF BinaryPackage
<1>3. /\ bytes[b] \in Seq(Nat) /\ Len(bytes[b]) = n /\ n >= MinSlice
      /\ sending # None
  BY <1>0, <1>1, <1>2 DEF Batches, Filled, PayloadsIntact, Package, TypeOK
<1>4. \A pkg \in {encoded, compressing, compressed} :
         pkg # None => bytes'[pkg.buf] = bytes[pkg.buf]
  <2>1. \A pkg \in {encoded, compressing, compressed} :
           pkg # None => pkg.buf \in Buffer \ {b}
    BY <1>0, <1>2, <1>3 DEF Owned, Apart, TypeOK, BinaryPackage
  <2>2. bytes \in [Buffer -> Seq(Nat)]
    BY <1>0 DEF TypeOK
  <2> QED
    BY <1>1, <1>2, <2>1, <2>2
<1>5. \A u \in Topic : /\ Contents(encoded, u)' = Contents(encoded, u)
                       /\ Contents(compressing, u)' = Contents(compressing, u)
                       /\ Contents(compressed, u)' = Contents(compressed, u)
                       /\ Contents(sending, u)' = <<>>
                       /\ Batch(u)' = Batch(u) /\ Waiting(u)' = Waiting(u)
  BY <1>1, <1>4 DEF Contents, Batch, Waiting
<1>6. Contents(sending, t) = bytes[b] /\ \A u \in Topic \ {t} : Contents(sending, u) = <<>>
  BY <1>2, <1>3 DEF Contents
<1>7. \A u \in Topic \ {t} : Pending(u)' = Pending(u)
  BY <1>5, <1>6, PendingParts DEF Ahead
<1>8. Pending(t) = bytes[b] \o Pending(t)' /\ Pending(t)' \in Seq(Nat)
  <2> DEFINE B  == bytes[b]
             P2 == Contents(compressed, t)
             P3 == Contents(compressing, t)
             P4 == Contents(encoded, t)
             P5 == Batch(t)
             P6 == Waiting(t)
             Q3 == P2 \o P3
             Q4 == Q3 \o P4
             Q5 == Q4 \o P5
             Q6 == Q5 \o P6
  <2>1. Pending(t) = B \o P2 \o P3 \o P4 \o P5 \o P6
    BY <1>6, PendingParts DEF Ahead
  <2>2. Pending(t)' = <<>> \o P2 \o P3 \o P4 \o P5 \o P6
    BY <1>5, PendingParts DEF Ahead
  <2>3. B \in Seq(Nat)
    BY <1>3
  <2>4. P2 \in Seq(Nat)
    BY <1>0, PartsType
  <2>5. P3 \in Seq(Nat)
    BY <1>0, PartsType
  <2>6. P4 \in Seq(Nat)
    BY <1>0, PartsType
  <2>7. P5 \in Seq(Nat)
    BY <1>0, PartsType
  <2>8. P6 \in Seq(Nat)
    BY <1>0, PartsType
  <2>9. <<>> \o P2 \o P3 \o P4 \o P5 \o P6 = Q6
    BY <2>4, ConcatEmptySeq
  <2> HIDE DEF B, P2, P3, P4, P5, P6
  <2>10. Q3 \in Seq(Nat)
    BY <2>4, <2>5, EventsJoined
  <2>11. (B \o P2) \o P3 = B \o Q3
    BY <2>3, <2>4, <2>5, EventsRegrouped, SMTT(60)
  <2> HIDE DEF Q3
  <2>12. Q4 \in Seq(Nat)
    BY <2>10, <2>6, EventsJoined
  <2>13. (B \o Q3) \o P4 = B \o Q4
    BY <2>3, <2>10, <2>6, EventsRegrouped, SMTT(60)
  <2> HIDE DEF Q4
  <2>14. Q5 \in Seq(Nat)
    BY <2>12, <2>7, EventsJoined
  <2>15. (B \o Q4) \o P5 = B \o Q5
    BY <2>3, <2>12, <2>7, EventsRegrouped, SMTT(60)
  <2> HIDE DEF Q5
  <2>16. Q6 \in Seq(Nat)
    BY <2>14, <2>8, EventsJoined
  <2>17. (B \o Q5) \o P6 = B \o Q6
    BY <2>3, <2>14, <2>8, EventsRegrouped, SMTT(60)
  <2> HIDE DEF Q6
  <2>18. Pending(t) = B \o Q6 /\ Pending(t)' = Q6
    BY <2>1, <2>2, <2>9, <2>11, <2>13, <2>15, <2>17
  <2> QED
    BY <2>16, <2>18 DEF B
<1>9. /\ n <= Len(Pending(t))
      /\ SubSeq(Pending(t), 1, n) = bytes[b]
      /\ SubSeq(Pending(t), n + 1, Len(Pending(t))) = Pending(t)'
  <2>1. PICK r \in Seq(Nat) : r = Pending(t)'
    BY <1>8
  <2>2. Pending(t) = bytes[b] \o r
    BY <1>8, <2>1
  <2>3. Len(r) \in Nat
    OBVIOUS
  <2>4. PICK B \in Seq(Nat) : B = bytes[b]
    BY <1>3
  <2>5. /\ Len(B \o r) = n + Len(r)
        /\ SubSeq(B \o r, 1, n) = B
        /\ SubSeq(B \o r, n + 1, Len(B \o r)) = r
    BY <1>3, <2>4, Split
  <2>6. n <= n + Len(r)
    BY <2>3
  <2> QED
    BY <2>1, <2>2, <2>4, <2>5, <2>6
<1>10. \/ delivered' = [delivered EXCEPT ![t] = delivered[t] \o bytes[b]]
       \/ UNCHANGED delivered
  BY <1>2 DEF SenderStep, SendSucceeds, SendFails
<1> WITNESS t \in Topic, n \in Nat
<1> QED
  BY <1>1, <1>3, <1>7, <1>9, <1>10

\* Nothing else touches what is pending.
LEMMA OthersKeepPending ==
  ASSUME [Next]_vars, ~SenderStep, \A p \in Caller : ~CallerServed(p),
         ~Encode, ~Compress, ~HandToCompressor, ~HandToSender
  PROVE  (\A t \in Topic : Pending(t)' = Pending(t)) /\ UNCHANGED <<accepted, delivered>>
<1>1. UNCHANGED <<accepted, slice, cells, encoding, encoded, compressing, compressed, sending,
                  bytes, delivered>>
  BY SlicesUntouched, PackagesUntouched DEF memoryVars
<1> QED
  BY <1>1 DEF Pending, Contents

\* The initial states are those of LossyFeed.
LEMMA InitFeed == Init => Feed!FeedInit
<1> SUFFICES ASSUME Init PROVE Feed!FeedInit
  OBVIOUS
<1>1. \A t \in Topic : Waiting(t) = <<>>
  BY InitSlice, SubSeqEmpty DEF Waiting
<1>2. \A t \in Topic : Ahead(t) = <<>>
  BY ConcatEmptySeq, EmptySeq DEF Init, Ahead, Contents, Batch
<1>3. \A t \in Topic : Pending(t) = <<>>
  BY <1>1, <1>2, PendingParts, ConcatEmptySeq, EmptySeq
<1> QED
  BY <1>3 DEF Init, Feed!FeedInit

\* Every step is one of LossyFeed, or leaves its variables alone.
LEMMA NextFeed == IInv /\ [Next]_vars => [Feed!FeedNext]_(Feed!feedVars)
<1> SUFFICES ASSUME IInv, [Next]_vars PROVE [Feed!FeedNext]_(Feed!feedVars)
  OBVIOUS
<1> DEFINE P == [t \in Topic |-> Pending(t)]
<1>0. TypeOK /\ Filled /\ Owned
  BY DEF IInv
<1>1. ASSUME NEW p \in Caller, CallerServed(p) PROVE [Feed!FeedNext]_(Feed!feedVars)
  <2>1. PICK t \in Topic, n \in Nat :
           /\ n = 0 \/ (n >= MinSlice /\ n <= Len(Append(Pending(t), accepted + 1)))
           /\ Pending(t)' = LET grown == Append(Pending(t), accepted + 1)
                            IN  SubSeq(grown, 1, Len(grown) - n)
           /\ \A u \in Topic \ {t} : Pending(u)' = Pending(u)
           /\ accepted' = accepted + 1
           /\ UNCHANGED delivered
    BY <1>1, CallerAccepts
  <2> DEFINE grown == Append(P[t], accepted + 1)
  <2>2. n \in {0} \cup MinSlice..Len(grown)
    BY <2>1
  <2>3. P' = [P EXCEPT ![t] = SubSeq(grown, 1, Len(grown) - n)]
    BY <2>1
  <2>4. accepted' + 1 = (accepted + 1) + 1
    BY <2>1
  <2>5. Feed!Accept(t)
    BY <2>1, <2>2, <2>3, <2>4 DEF Feed!Accept
  <2> QED
    BY <2>5 DEF Feed!FeedNext
<1>2. CASE SenderStep
  <2>1. PICK t \in Topic, n \in Nat :
           /\ n >= MinSlice /\ n <= Len(Pending(t))
           /\ Pending(t)' = SubSeq(Pending(t), n + 1, Len(Pending(t)))
           /\ \A u \in Topic \ {t} : Pending(u)' = Pending(u)
           /\ \/ delivered' = [delivered EXCEPT ![t] = delivered[t] \o SubSeq(Pending(t), 1, n)]
              \/ UNCHANGED delivered
           /\ UNCHANGED accepted
    BY <1>2, SenderSettles
  <2>2. n \in MinSlice..Len(P[t])
    BY <2>1
  <2>3. P' = [P EXCEPT ![t] = SubSeq(P[t], n + 1, Len(P[t]))]
    BY <2>1
  <2>4. Feed!Settle(t)
    BY <2>1, <2>2, <2>3 DEF Feed!Settle
  <2> QED
    BY <2>4 DEF Feed!FeedNext
<1>3. CASE /\ \A t \in Topic : Pending(t)' = Pending(t)
           /\ UNCHANGED <<accepted, delivered>>
  BY <1>3 DEF Feed!feedVars
<1>4. CASE Encode \/ Compress \/ HandToCompressor \/ HandToSender
  <2>1. UNCHANGED <<accepted, delivered>>
    BY <1>4 DEF Encode, Compress, HandToCompressor, HandToSender, packagerVars, brokerVars
  <2> QED
    BY <1>0, <1>3, <1>4, <2>1, StagesKeepPending
<1> QED
  BY <1>1, <1>2, <1>3, <1>4, OthersKeepPending

\* The publisher is a lossy feed: on every topic the broker gets the events in the
\* order in which they were received, each at most once, in whole batches.
THEOREM PublisherRefinesFeed == Spec => ImplementsLossyFeed
<1>1. Spec => Feed!FeedInit /\ [][Feed!FeedNext]_(Feed!feedVars)
  BY InitFeed, NextFeed, Invariance, PTL DEF Spec
<1> QED
  BY <1>1 DEF ImplementsLossyFeed, Feed!FeedSpec

-------------------------------------------------------------------------------
(* What is proved of every LossyFeed holds of the publisher.                  *)

\* The broker gets no event twice, none on two topics, and the events of a topic in
\* the order in which the packager received them.
BrokerInOrder ==
  \A t \in Topic :
    /\ \A i, j \in 1..Len(delivered[t]) : i < j => delivered[t][i] < delivered[t][j]
    /\ \A i \in 1..Len(delivered[t]) :
         /\ delivered[t][i] \in 1..accepted
         /\ \A u \in Topic : \A j \in 1..Len(delivered[u]) :
              delivered[u][j] = delivered[t][i] => u = t

\* What has been delivered comes before all that is still on its way.
OldestFirst ==
  \A t \in Topic : \A i \in 1..Len(delivered[t]), j \in 1..Len(Pending(t)) :
    delivered[t][i] < Pending(t)[j]

\* The publisher behaves like a feed, and so keeps what every feed keeps.
LEMMA PublisherPromises == Spec => []Promise!FeedInv /\ []Promise!Once
<1>1. Feed!FeedSpec => Promise!FeedSpec
  BY DEF Feed!FeedSpec, Feed!FeedInit, Feed!FeedNext, Feed!feedVars, Feed!Accept, Feed!Settle,
         Promise!FeedSpec, Promise!FeedInit, Promise!FeedNext, Promise!feedVars,
         Promise!Accept, Promise!Settle
<1>2. MinSlice \in Nat
  BY PublisherAssumption
<1>3. Promise!FeedSpec => []Promise!FeedInv
  BY <1>2, Promise!FeedStaysInOrder
<1>4. Promise!FeedSpec => []Promise!Once
  BY <1>2, Promise!FeedAddsNothing
<1> QED
  BY <1>1, <1>3, <1>4, PublisherRefinesFeed, PTL DEF ImplementsLossyFeed

\* Whatever is dropped, and however often the broker goes away, what reaches it is in
\* order and without repetition.
THEOREM BrokerSeesOrder == Spec => []BrokerInOrder
<1>1. ASSUME TypeOK, Promise!FeedInv, Promise!Once PROVE BrokerInOrder
  <2>1. ASSUME NEW t \in Topic
        PROVE  \A i, j \in 1..Len(delivered[t]) : i < j => delivered[t][i] < delivered[t][j]
    BY <1>1 DEF Promise!FeedInv, Promise!Sorted, Promise!Increasing
  <2>2. ASSUME NEW t \in Topic, NEW i \in 1..Len(delivered[t])
        PROVE  Promise!Carries(t, delivered[t][i])
    BY DEF Promise!Carries
  <2>3. ASSUME NEW t \in Topic, NEW i \in 1..Len(delivered[t])
        PROVE  delivered[t][i] \in 1..accepted
    <3>1. delivered[t][i] \in 1..(accepted + 1) - 1
      BY <1>1, <2>2 DEF Promise!Once
    <3>2. accepted \in Nat /\ (accepted + 1) - 1 = accepted
      BY <1>1 DEF TypeOK
    <3> QED
      BY <3>1, <3>2
  <2>4. ASSUME NEW t \in Topic, NEW i \in 1..Len(delivered[t]),
               NEW u \in Topic, NEW j \in 1..Len(delivered[u]),
               delivered[u][j] = delivered[t][i]
        PROVE  u = t
    BY <1>1, <2>2, <2>4 DEF Promise!Once
  <2> QED
    BY <2>1, <2>3, <2>4 DEF BrokerInOrder
<1>2. IInv => TypeOK
  BY DEF IInv
<1> QED
  BY <1>1, <1>2, Invariance, PublisherPromises, PTL

\* Neither backpressure nor an outage makes an event overtake one of its topic.
THEOREM NothingOvertakes == Spec => []OldestFirst
<1>1. Promise!FeedInv => OldestFirst
  BY DEF Promise!FeedInv, Promise!Sorted, OldestFirst
<1> QED
  BY <1>1, PublisherPromises, PTL

===============================================================================
