------------------------------- MODULE Broadcast -------------------------------
(***************************************************************************)
(* One call of BitswapDiscoveryProbe.broadcast                             *)
(* (metricplugin/bitswap_discovery_probe.go): the caller feeds the tracked *)
(* peers to a pool of workers over an unbuffered channel, each worker      *)
(* sends a message to the peers it gets, a goroutine per peer sends the    *)
(* CANCEL that follows a WANT, and a collector gathers the results.  The   *)
(* table of senders changes below it all the time: this module extends the *)
(* SenderTable that DiscoveryProbe implements.                             *)
(*                                                                         *)
(* A message object is named by who allocates it: the worker that reuses   *)
(* it, or the peer whose cancel goroutine made it.  What SendMsg writes is *)
(* the content of the object when it is written, so a send has two ends.   *)
(***************************************************************************)
EXTENDS SenderTable, Integers, Sequences, FiniteSets, SequencesExt

CONSTANTS Worker,     \* the numGoroutines workers
          HaveSender, \* senders with SupportsHave()
          NoPeer,
          None        \* a nil *BroadcastWantStatus or *BroadcastCancelStatus

ASSUME BroadcastAssumption ==
  /\ Worker # {} /\ IsFiniteSet(Worker) /\ IsFiniteSet(Peer)
  /\ HaveSender \subseteq Sender
  /\ NoPeer \notin Peer
  /\ Worker \cap Peer = {}
  /\ None \notin {"have", "block", "cancel", "failed"}

Mode == {"want", "cancel", "wantCancel"}
Request == {"have", "block"}
Content == Request \cup {"cancel"}
Status == [request : Request \cup {"failed", None}, cancel : {"cancel", "failed", None}]

VARIABLES
  mode,        \* the arguments want and cancelAfter
  duplicates,  \* a CID occurs more than once in the argument cids
  caller,      \* program counter of broadcast
  peerIDs,     \* the peers left to feed
  workClosed,  \* workChan is closed
  resultsClosed, \* resultsChan is closed
  at,          \* program counter of every worker
  job,         \* the peer a worker is busy with
  jobSender,   \* the sender it read from the table for it
  status,      \* per peer: the broadcastStatus being built
  canceller,   \* program counter of the cancel goroutine of every peer
  cancelSender, \* the sender that goroutine captured
  message,     \* content of every message object
  wg,          \* broadcast's WaitGroup
  collecting,  \* the collector has not finished
  results,     \* per peer: the statuses collected
  crashed,     \* a goroutine has panicked, and with it the process
  \* history, not in the code
  kept,        \* peers of the snapshot that kept the sender they had in it
  wire         \* per peer: what has been sent to it successfully

requestVars == <<mode, duplicates>>
contextVars == <<tableVars, kept, requestVars, crashed>>
callerVars  == <<caller, peerIDs, workClosed, resultsClosed>>
workerVars  == <<at, job, jobSender>>
cancelVars  == <<canceller, cancelSender>>
sendVars    == <<status, message, wire>>
collectVars == <<collecting, results>>
vars == <<contextVars, callerVars, workerVars, cancelVars, sendVars, collectVars, wg>>

TypeOK ==
  /\ TableTypeOK
  /\ mode \in Mode /\ duplicates \in BOOLEAN /\ crashed \in BOOLEAN
  /\ caller \in {"idle", "feeding", "waiting", "collecting", "returned"}
  /\ peerIDs \subseteq Peer
  /\ workClosed \in BOOLEAN /\ resultsClosed \in BOOLEAN
  /\ at \in [Worker -> {"receiving", "looking", "sending", "reporting", "exited"}]
  /\ job \in [Worker -> Peer \cup {NoPeer}]
  /\ jobSender \in [Worker -> Sender \cup {NoSender}]
  /\ status \in [Peer -> Status]
  /\ canceller \in [Peer -> {"none", "sleeping", "sending", "reporting", "exited"}]
  /\ cancelSender \in [Peer -> Sender \cup {NoSender}]
  /\ message \in [Worker \cup Peer -> Content \cup {None}]
  /\ wg \in Int
  /\ collecting \in BOOLEAN
  /\ results \in [Peer -> Seq(Status)] /\ wire \in [Peer -> Seq(Content)]
  /\ kept \subseteq Peer

NoStatus == [request |-> None, cancel |-> None]

Init ==
  /\ TableInit
  /\ mode \in Mode /\ duplicates \in BOOLEAN
  /\ crashed = FALSE
  /\ caller = "idle"
  /\ peerIDs = {}
  /\ workClosed = FALSE /\ resultsClosed = FALSE
  /\ at = [w \in Worker |-> "exited"]
  /\ job = [w \in Worker |-> NoPeer]
  /\ jobSender = [w \in Worker |-> NoSender]
  /\ status = [p \in Peer |-> NoStatus]
  /\ canceller = [p \in Peer |-> "none"]
  /\ cancelSender = [p \in Peer |-> NoSender]
  /\ message = [m \in Worker \cup Peer |-> None]
  /\ wg = 0
  /\ collecting = FALSE
  /\ results = [p \in Peer |-> <<>>]
  /\ kept = {}
  /\ wire = [p \in Peer |-> <<>>]

-------------------------------------------------------------------------------
(* Faulty variants of definitions below, none part of Spec: with one in place *)
(* of the definition it is named after, TLC reports a property as violated.   *)

Reset_Not(m) == m                 \* msg.Reset(false) is missing
HandsOver_Never == FALSE          \* the cancelAfter argument is ignored
Accounted_Not == wg               \* wg.Add(1) is missing for the cancel goroutine
Accounted_Twice == wg + 2         \* or there twice
Recorded_AsRequest(st, outcome) == [st EXCEPT !.request = outcome]
CancelMessage_Reused(p) == CHOOSE w \in Worker : TRUE \* a worker's message
AllFed_Early == Cardinality(peerIDs) <= 1 \* the feeding loop stops one short
Fed_Not(p) == peerIDs             \* a peer is fed to several workers

-------------------------------------------------------------------------------
(* The table, changed by the probe's handlers and connectors (DiscoveryProbe) *)

\* A sender that enters the table is a new object: not one a goroutine of this
\* broadcast still refers to.
Referenced == Range(jobSender) \cup Range(cancelSender)

TableStep ==
  /\ TableNext
  /\ (live' \ live) \cap Referenced = {}
  /\ kept' = {p \in kept : slot'[p] = slot[p]}
  /\ UNCHANGED <<requestVars, crashed, callerVars, workerVars, cancelVars, sendVars,
                 collectVars, wg>>

-------------------------------------------------------------------------------
(* The caller *)

\* Copy the tracked peers under the lock, start collector and workers.
Start ==
  /\ caller = "idle"
  /\ caller' = "feeding"
  /\ peerIDs' = {p \in Peer : slot[p] # Untracked}
  /\ kept' = {p \in Peer : slot[p] \in Sender}
  /\ at' = [w \in Worker |-> "receiving"]
  /\ wg' = Cardinality(Worker)
  /\ collecting' = TRUE
  /\ UNCHANGED <<tableVars, requestVars, crashed, workClosed, resultsClosed, job, jobSender,
                 cancelVars, sendVars, results>>

\* The loop over the copied peers.
AllFed == peerIDs = {}
Fed(p) == peerIDs \ {p}

\* workChan <- id meets a worker at its range over workChan.
Feed(w, p) ==
  /\ caller = "feeding" /\ p \in peerIDs
  /\ at[w] = "receiving"
  /\ peerIDs' = Fed(p)
  /\ at' = [at EXCEPT ![w] = "looking"]
  /\ job' = [job EXCEPT ![w] = p]
  /\ UNCHANGED <<contextVars, caller, workClosed, resultsClosed, jobSender,
                 cancelVars, sendVars, collectVars, wg>>

CloseWork ==
  /\ caller = "feeding" /\ AllFed
  /\ workClosed' = TRUE
  /\ caller' = "waiting"
  /\ UNCHANGED <<contextVars, peerIDs, resultsClosed, workerVars, cancelVars,
                 sendVars, collectVars, wg>>

\* wg.Wait() returns; close(resultsChan).
CloseResults ==
  /\ caller = "waiting" /\ wg = 0
  /\ resultsClosed' = TRUE
  /\ caller' = "collecting"
  /\ UNCHANGED <<contextVars, peerIDs, workClosed, workerVars, cancelVars,
                 sendVars, collectVars, wg>>

\* The collector's range over resultsChan ends.
CollectorExits ==
  /\ collecting /\ resultsClosed
  /\ collecting' = FALSE
  /\ UNCHANGED <<contextVars, callerVars, workerVars, cancelVars, sendVars,
                 results, wg>>

Return ==
  /\ caller = "collecting" /\ ~collecting
  /\ caller' = "returned"
  /\ UNCHANGED <<contextVars, peerIDs, workClosed, resultsClosed, workerVars,
                 cancelVars, sendVars, collectVars, wg>>

-------------------------------------------------------------------------------
(* Workers *)

RequestType(s) == IF s \in HaveSender THEN "have" ELSE "block"

\* What a worker asks for over sender s: it fills its message with it before the
\* send and records it in the status after the send.
Asked(s) == IF mode = "cancel" THEN "cancel" ELSE RequestType(s)

\* What is left in a worker's message when it is to be filled again.
Reset(m) == None

\* AddEntry and Cancel return 0 for a CID the message has already, and
\* sendBitswapWant and sendBitswapCancel panic.
FillPanics(w) == duplicates \/ Reset(message[w]) # None

\* Read the sender under the lock, skip a peer that has none, and otherwise
\* fill the worker's message and enter SendMsg.  A worker's panic is not
\* recovered: recoverPanic of the HTTP server covers the caller's goroutine.
LookUp(w) ==
  LET p == job[w]
      s == slot[p]
  IN
  /\ at[w] = "looking"
  /\ \/ /\ s \notin Sender
        /\ at' = [at EXCEPT ![w] = "receiving"]
        /\ job' = [job EXCEPT ![w] = NoPeer]
        /\ UNCHANGED <<jobSender, message, crashed>>
     \/ /\ s \in Sender /\ FillPanics(w)
        /\ crashed' = TRUE
        /\ UNCHANGED <<workerVars, message>>
     \/ /\ s \in Sender /\ ~FillPanics(w)
        /\ at' = [at EXCEPT ![w] = "sending"]
        /\ jobSender' = [jobSender EXCEPT ![w] = s]
        /\ message' = [message EXCEPT ![w] = Asked(s)]
        /\ UNCHANGED <<job, crashed>>
  /\ UNCHANGED <<tableVars, kept, requestVars, callerVars, cancelVars, status, wire,
                 collectVars, wg>>

\* What is left to do once the worker's own message is out.
HandsOver == mode = "wantCancel"
Accounted == wg + 1
Recorded(st, outcome) == IF mode = "cancel" THEN [st EXCEPT !.cancel = outcome]
                                            ELSE [st EXCEPT !.request = outcome]

\* SendMsg returns: it wrote what the message holds by now, or it failed (a closed
\* sender may do either, it reconnects).  The status gets what was asked for, which
\* is not read from the message.  A WANT with a CANCEL to follow is handed over to a
\* new goroutine, accounted for before it starts.
Sent(w, ok) ==
  LET p == job[w] IN
  /\ at[w] = "sending"
  /\ wire' = IF ok THEN [wire EXCEPT ![p] = Append(@, message[w])] ELSE wire
  /\ status' = [status EXCEPT
                  ![p] = Recorded(@, IF ok THEN Asked(jobSender[w]) ELSE "failed")]
  /\ IF HandsOver
     THEN /\ wg' = Accounted
          /\ canceller' = [canceller EXCEPT ![p] = "sleeping"]
          /\ cancelSender' = [cancelSender EXCEPT ![p] = jobSender[w]]
          /\ at' = [at EXCEPT ![w] = "receiving"]
          /\ job' = [job EXCEPT ![w] = NoPeer]
          /\ jobSender' = [jobSender EXCEPT ![w] = NoSender]
     ELSE /\ at' = [at EXCEPT ![w] = "reporting"]
          /\ jobSender' = [jobSender EXCEPT ![w] = NoSender]
          /\ UNCHANGED <<job, cancelVars, wg>>
  /\ UNCHANGED <<contextVars, callerVars, message, collectVars>>

\* resultsChan <- status meets the collector, which appends it.
Report(w) ==
  /\ at[w] = "reporting" /\ collecting /\ ~resultsClosed
  /\ results' = [results EXCEPT ![job[w]] = Append(@, status[job[w]])]
  /\ at' = [at EXCEPT ![w] = "receiving"]
  /\ job' = [job EXCEPT ![w] = NoPeer]
  /\ UNCHANGED <<contextVars, callerVars, jobSender, cancelVars, sendVars,
                 collecting, wg>>

WorkerExits(w) ==
  /\ at[w] = "receiving" /\ workClosed
  /\ at' = [at EXCEPT ![w] = "exited"]
  /\ wg' = wg - 1
  /\ UNCHANGED <<contextVars, callerVars, job, jobSender, cancelVars, sendVars,
                 collectVars>>

-------------------------------------------------------------------------------
(* Cancel goroutines *)

\* The message object a cancel goroutine sends: bsmsg.New(false).
CancelMessage(p) == p

Wake(p) ==
  /\ canceller[p] = "sleeping"
  /\ canceller' = [canceller EXCEPT ![p] = "sending"]
  /\ message' = [message EXCEPT ![CancelMessage(p)] = "cancel"]
  /\ UNCHANGED <<contextVars, callerVars, workerVars, cancelSender, status, wire,
                 collectVars, wg>>

CancelSent(p, ok) ==
  LET sent == message[CancelMessage(p)] IN
  /\ canceller[p] = "sending"
  /\ wire' = IF ok THEN [wire EXCEPT ![p] = Append(@, sent)] ELSE wire
  /\ status' = [status EXCEPT ![p].cancel = IF ok THEN "cancel" ELSE "failed"]
  /\ canceller' = [canceller EXCEPT ![p] = "reporting"]
  /\ UNCHANGED <<contextVars, callerVars, workerVars, cancelSender, message,
                 collectVars, wg>>

\* The collector takes the result; the deferred wg.Done().
CancelReports(p) ==
  /\ canceller[p] = "reporting" /\ collecting /\ ~resultsClosed
  /\ results' = [results EXCEPT ![p] = Append(@, status[p])]
  /\ canceller' = [canceller EXCEPT ![p] = "exited"]
  /\ cancelSender' = [cancelSender EXCEPT ![p] = NoSender]
  /\ wg' = wg - 1
  /\ UNCHANGED <<contextVars, callerVars, workerVars, sendVars, collecting>>

-------------------------------------------------------------------------------
CallerStep == Start \/ CloseWork \/ CloseResults \/ Return
WorkerStep(w) ==
  \/ \E p \in Peer : Feed(w, p)
  \/ LookUp(w)
  \/ \E ok \in BOOLEAN : Sent(w, ok)
  \/ Report(w)
  \/ WorkerExits(w)
CancelStep(p) ==
  \/ Wake(p)
  \/ \E ok \in BOOLEAN : CancelSent(p, ok)
  \/ CancelReports(p)

Running == ~crashed

Crashed == crashed /\ UNCHANGED vars

Next ==
  \/ Running /\ TableStep
  \/ Running /\ CallerStep
  \/ Running /\ CollectorExits
  \/ Running /\ \E w \in Worker : WorkerStep(w)
  \/ Running /\ \E p \in Peer : CancelStep(p)
  \/ Crashed

Spec == Init /\ [][Next]_vars

(* Fairness.  Goroutines run, SendMsg returns (it has a 30 second context) and *)
(* the cancel delay ends.  The probe's table owes nothing.  A send over one of *)
(* the channels needs a partner that another goroutine may take: the runtime   *)
(* queues the waiters of a channel in FIFO order, so nobody is overtaken for   *)
(* ever, but no property needs more than weak fairness of each goroutine.      *)
Fairness ==
  /\ WF_vars(Running /\ (CloseWork \/ CloseResults \/ Return))
  /\ WF_vars(Running /\ CollectorExits)
  /\ \A w \in Worker : WF_vars(Running /\ WorkerStep(w))
  /\ \A p \in Peer : WF_vars(Running /\ CancelStep(p))

FairSpec == Spec /\ Fairness

-------------------------------------------------------------------------------
(* Safety *)

\* resultsChan is closed only when nobody will send on it any more: a late
\* send would panic the process.
NoSendOnClosedChannel ==
  resultsClosed =>
    /\ \A w \in Worker : at[w] = "exited"
    /\ \A p \in Peer : canceller[p] \in {"none", "exited"}

\* Every collected status has the parts that broadcastBitswapWant,
\* broadcastBitswapCancel and broadcastBitswapWantCancel dereference.
ResultsDereferenceable ==
  \A p \in Peer : \A r \in ToSet(results[p]) :
    /\ mode # "cancel" => r.request # None
    /\ mode # "want" => r.cancel # None

\* The results report exactly what was sent: at the end, what a peer received is
\* what its one result claims to have been sent to it, WANT first, and the
\* request type is the one its message carried.
SentPart(outcome) == IF outcome \in Content THEN <<outcome>> ELSE <<>>
Claimed(r) == SentPart(r.request) \o SentPart(r.cancel)
ResultsTellTruth ==
  caller = "returned" =>
    \A p \in Peer :
      \/ results[p] = <<>> /\ wire[p] = <<>>
      \/ Len(results[p]) = 1 /\ wire[p] = Claimed(results[p][1])

\* "BroadcastBitswapWant broadcasts ... to all connected peers that support
\* Bitswap": every peer that kept its sender from the snapshot to the end has a
\* result.
KeptPeersServed ==
  caller = "returned" => \A p \in kept : results[p] # <<>>

\* At most one goroutine of a broadcast is in SendMsg on a sender, and it is the
\* sender of no other peer's message: senders do not lock.
Using(s) ==
  {w \in Worker : at[w] = "sending" /\ jobSender[w] = s} \cup
  {p \in Peer : canceller[p] = "sending" /\ cancelSender[p] = s}
SenderNotShared == \A s \in Sender : Cardinality(Using(s)) <= 1

-------------------------------------------------------------------------------
(* Liveness, under FairSpec *)

\* A broadcast returns, whatever the table does and however the sends end.  The
\* one way out is a CID listed twice, which may end the process ("message already
\* contains an entry for this CID"); workers that fill one message again and again
\* never run into that otherwise.
BroadcastReturns ==
  caller = "feeding" ~> caller = "returned" \/ (crashed /\ duplicates)
===============================================================================
