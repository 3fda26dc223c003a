--------------------------- MODULE BroadcastProofs ---------------------------
(***************************************************************************)
(* Proofs about Broadcast, for any finite numbers of peers and workers and *)
(* any set of senders.                                                     *)
(***************************************************************************)
EXTENDS Broadcast, FiniteSetTheorems, SequenceTheorems, TLAPS

-------------------------------------------------------------------------------
(* Who does what for whom *)

Busy(w) == at[w] \in {"looking", "sending", "reporting"}

\* Who works for which peer: a peer is with the caller, with one worker, or with
\* its cancel goroutine, one after the other.
Assignment ==
  /\ \A w \in Worker : job[w] \in Peer <=> Busy(w)
  /\ \A v, w \in Worker : job[v] = job[w] /\ job[w] \in Peer => v = w
  /\ \A w \in Worker : job[w] \in Peer => job[w] \notin peerIDs /\ canceller[job[w]] = "none"
  /\ \A p \in peerIDs : canceller[p] = "none"
  /\ caller = "idle" => /\ \A w \in Worker : at[w] = "exited"
                        /\ \A p \in Peer : canceller[p] = "none"
  /\ caller # "feeding" => peerIDs = {}

\* A message object that is being sent holds what its sender is to write.
Filled ==
  /\ \A w \in Worker : at[w] = "sending" =>
       message[w] = Asked(jobSender[w])
  /\ \A p \in Peer : canceller[p] = "sending" => message[p] = "cancel"

-------------------------------------------------------------------------------
(* Type correctness *)

\* The initial states are of their types.
LEMMA InitType == Init => TypeOK
<1> SUFFICES ASSUME Init PROVE TypeOK
  OBVIOUS
<1>1. TableTypeOK
  BY DEF Init, TableInit, TableTypeOK
<1>2. /\ at \in [Worker -> {"receiving", "looking", "sending", "reporting", "exited"}]
      /\ job \in [Worker -> Peer \cup {NoPeer}]
      /\ jobSender \in [Worker -> Sender \cup {NoSender}]
  BY DEF Init
<1>3. /\ canceller \in [Peer -> {"none", "sleeping", "sending", "reporting", "exited"}]
      /\ cancelSender \in [Peer -> Sender \cup {NoSender}]
      /\ message \in [Worker \cup Peer -> Content \cup {None}]
  BY DEF Init
<1>4. status \in [Peer -> Status]
  BY DEF Init, NoStatus, Status
<1>5. results \in [Peer -> Seq(Status)] /\ wire \in [Peer -> Seq(Content)]
  BY EmptySeq DEF Init
<1>6. /\ mode \in Mode /\ duplicates \in BOOLEAN
      /\ caller \in {"idle", "feeding", "waiting", "collecting", "returned"}
      /\ peerIDs \subseteq Peer /\ kept \subseteq Peer
  BY DEF Init
<1>7. crashed \in BOOLEAN /\ workClosed \in BOOLEAN /\ resultsClosed \in BOOLEAN
  BY DEF Init
<1>8. collecting \in BOOLEAN
  BY DEF Init
<1>9. wg \in Int
  BY DEF Init
<1> QED
  BY <1>1, <1>2, <1>3, <1>4, <1>5, <1>6, <1>7, <1>8, <1>9 DEF TypeOK

\* The steps of the sender table keep its types.
LEMMA TableType == TableTypeOK /\ TableNext => TableTypeOK'
<1> SUFFICES ASSUME TableTypeOK, TableNext PROVE TableTypeOK'
  OBVIOUS
<1>1. ASSUME NEW p \in Peer, Track(p) PROVE TableTypeOK'
  BY <1>1 DEF TableTypeOK, Track
<1>2. ASSUME NEW p \in Peer, NEW s \in Sender, Attach(p, s) PROVE TableTypeOK'
  BY <1>2 DEF TableTypeOK, Attach
<1>3. ASSUME NEW p \in Peer, Untrack(p) PROVE TableTypeOK'
  BY <1>3 DEF TableTypeOK, Untrack
<1> QED
  BY <1>1, <1>2, <1>3 DEF TableNext

\* What the three outcomes of LookUp change.
LEMMA LookUpCases ==
  ASSUME NEW w \in Worker, LookUp(w)
  PROVE  /\ at[w] = "looking"
         /\ UNCHANGED <<tableVars, kept, requestVars, callerVars, cancelVars, status, wire,
                        collectVars, wg>>
         /\ \/ /\ slot[job[w]] \notin Sender
               /\ at' = [at EXCEPT ![w] = "receiving"]
               /\ job' = [job EXCEPT ![w] = NoPeer]
               /\ UNCHANGED <<jobSender, message, crashed>>
            \/ /\ duplicates /\ crashed' = TRUE
               /\ UNCHANGED <<workerVars, message>>
            \/ /\ slot[job[w]] \in Sender
               /\ at' = [at EXCEPT ![w] = "sending"]
               /\ jobSender' = [jobSender EXCEPT ![w] = slot[job[w]]]
               /\ message' = [message EXCEPT ![w] = Asked(slot[job[w]])]
               /\ UNCHANGED <<job, crashed>>
BY DEF LookUp, FillPanics, Reset

\* What a worker asks for is of the kind of its broadcast.
LEMMA AskedType ==
  \A s : Asked(s) \in IF mode = "cancel" THEN {"cancel"} ELSE Request
BY DEF Asked, RequestType, Request

\* What a worker records is a status, and leaves the other part of it alone.
LEMMA RecordedType ==
  ASSUME NEW st \in Status, mode \in Mode,
         NEW out \in IF mode = "cancel" THEN {"cancel", "failed"} ELSE Request \cup {"failed"}
  PROVE  /\ Recorded(st, out) \in Status
         /\ mode = "cancel" => /\ Recorded(st, out).request = st.request
                               /\ Recorded(st, out).cancel = out
         /\ mode # "cancel" => /\ Recorded(st, out).request = out
                               /\ Recorded(st, out).cancel = st.cancel
BY DEF Status, Recorded, Mode

Cancelled(st, out) == [st EXCEPT !.cancel = out]

\* What a worker of the CANCEL part records changes only that part.
LEMMA CancelledType ==
  ASSUME NEW st \in Status, NEW out \in {"cancel", "failed"}
  PROVE  /\ Cancelled(st, out) \in Status
         /\ Cancelled(st, out).request = st.request
         /\ Cancelled(st, out).cancel = out
BY DEF Status, Cancelled

\* Every step keeps the types.
LEMMA NextType == TypeOK /\ Assignment /\ Filled /\ [Next]_vars => TypeOK'
<1> SUFFICES ASSUME TypeOK, Assignment, Filled, [Next]_vars PROVE TypeOK'
  OBVIOUS
<1> USE BroadcastAssumption, TableAssumption
        DEF requestVars, contextVars, tableVars, callerVars, workerVars, cancelVars,
            sendVars, collectVars
<1>0. /\ at \in [Worker -> {"receiving", "looking", "sending", "reporting", "exited"}]
      /\ job \in [Worker -> Peer \cup {NoPeer}]
      /\ jobSender \in [Worker -> Sender \cup {NoSender}]
      /\ canceller \in [Peer -> {"none", "sleeping", "sending", "reporting", "exited"}]
      /\ cancelSender \in [Peer -> Sender \cup {NoSender}]
      /\ message \in [Worker \cup Peer -> Content \cup {None}]
  BY DEF TypeOK
<1>1. CASE TableStep
  BY <1>1, TableType DEF TypeOK, TableStep
<1>2. CASE Start
  BY <1>2, FS_CardinalityType DEF Start, TypeOK, TableTypeOK
<1>3. CASE CloseWork \/ CloseResults \/ Return \/ CollectorExits
  BY <1>3 DEF CloseWork, CloseResults, Return, CollectorExits, TypeOK, TableTypeOK
<1>4. ASSUME NEW w \in Worker, NEW p \in Peer, Feed(w, p) PROVE TypeOK'
  <2>1. at' \in [Worker -> {"receiving", "looking", "sending", "reporting", "exited"}]
    BY <1>0, <1>4 DEF Feed
  <2>2. job' \in [Worker -> Peer \cup {NoPeer}]
    BY <1>0, <1>4 DEF Feed
  <2>3. peerIDs' \subseteq Peer
    BY <1>4 DEF Feed, Fed, TypeOK
  <2>4. UNCHANGED <<tableVars, requestVars, crashed, caller, workClosed, resultsClosed,
                    jobSender, cancelVars, sendVars, collectVars, wg, kept>>
    BY <1>4 DEF Feed
  <2>5. TableTypeOK'
    BY <2>4 DEF TypeOK, TableTypeOK
  <2>6. UNCHANGED <<mode, duplicates, crashed, caller, workClosed, resultsClosed, jobSender,
                    status, canceller, cancelSender, message, wg, collecting, results, wire,
                    kept>>
    BY <2>4
  <2> QED
    BY <2>1, <2>2, <2>3, <2>5, <2>6 DEF TypeOK
<1>5. ASSUME NEW w \in Worker, LookUp(w) PROVE TypeOK'
  <2>1. at' \in [Worker -> {"receiving", "looking", "sending", "reporting", "exited"}]
    <3>1. \/ at' = at
          \/ \E pc \in {"receiving", "sending"} : at' = [at EXCEPT ![w] = pc]
      BY <1>5, LookUpCases
    <3> QED
      BY <1>0, <3>1
  <2>2. job' \in [Worker -> Peer \cup {NoPeer}]
    <3>1. job' = job \/ job' = [job EXCEPT ![w] = NoPeer]
      BY <1>5, LookUpCases
    <3> QED
      BY <1>0, <3>1
  <2>3. jobSender' \in [Worker -> Sender \cup {NoSender}]
    <3>1. \/ jobSender' = jobSender
          \/ \E s \in Sender : jobSender' = [jobSender EXCEPT ![w] = s]
      BY <1>5, LookUpCases
    <3> QED
      BY <1>0, <3>1
  <2>4. message' \in [Worker \cup Peer -> Content \cup {None}]
    <3>1. \/ message' = message
          \/ message' = [message EXCEPT ![w] = Asked(slot[job[w]])]
      BY <1>5, LookUpCases
    <3>2. Asked(slot[job[w]]) \in Content
      BY AskedType DEF Content
    <3> QED
      BY <1>0, <3>1, <3>2
  <2>5. crashed' \in BOOLEAN
    BY <1>5, LookUpCases, Zenon DEF TypeOK
  <2> QED
    BY <1>5, LookUpCases, <2>1, <2>2, <2>3, <2>4, <2>5 DEF TypeOK, TableTypeOK
<1>6. ASSUME NEW w \in Worker, NEW ok \in BOOLEAN, Sent(w, ok) PROVE TypeOK'
  <2> DEFINE p == job[w]
             out == IF ok THEN Asked(jobSender[w]) ELSE "failed"
  <2>1. p \in Peer
    BY <1>6 DEF Sent, Assignment, Busy, TypeOK
  <2>2. /\ message[w] = Asked(jobSender[w])
        /\ Asked(jobSender[w]) \in IF mode = "cancel" THEN {"cancel"} ELSE Request
    BY <1>6, AskedType DEF Sent, Filled
  <2>3. status' \in [Peer -> Status]
    <3>1. Recorded(status[p], out) \in Status
      BY <2>1, <2>2, RecordedType DEF TypeOK
    <3>2. status' = [status EXCEPT ![p] = Recorded(status[p], out)]
      BY <1>6 DEF Sent
    <3> QED
      BY <3>1, <3>2 DEF TypeOK
  <2>4. wire' \in [Peer -> Seq(Content)]
    <3>1. message[w] \in Content
      BY <2>2 DEF Content, Request
    <3> QED
      BY <1>6, <2>1, <3>1, AppendProperties DEF Sent, TypeOK
  <2>5. /\ at' \in [Worker -> {"receiving", "looking", "sending", "reporting", "exited"}]
        /\ job' \in [Worker -> Peer \cup {NoPeer}]
        /\ jobSender' \in [Worker -> Sender \cup {NoSender}]
    <3>1. \E pc \in {"receiving", "reporting"} : at' = [at EXCEPT ![w] = pc]
      BY <1>6 DEF Sent
    <3>2. job' = job \/ job' = [job EXCEPT ![w] = NoPeer]
      BY <1>6 DEF Sent
    <3>3. jobSender' = [jobSender EXCEPT ![w] = NoSender]
      BY <1>6 DEF Sent
    <3> QED
      BY <1>0, <3>1, <3>2, <3>3
  <2>6. /\ canceller' \in [Peer -> {"none", "sleeping", "sending", "reporting", "exited"}]
        /\ cancelSender' \in [Peer -> Sender \cup {NoSender}]
    <3>1. \/ UNCHANGED <<canceller, cancelSender>>
          \/ /\ canceller' = [canceller EXCEPT ![p] = "sleeping"]
             /\ cancelSender' = [cancelSender EXCEPT ![p] = jobSender[w]]
      BY <1>6 DEF Sent
    <3>2. jobSender[w] \in Sender \cup {NoSender}
      BY <1>0
    <3> QED
      BY <1>0, <3>1, <3>2
  <2>7. wg' \in Int
    BY <1>6 DEF Sent, Accounted, TypeOK
  <2> QED
    BY <1>6, <2>3, <2>4, <2>5, <2>6, <2>7 DEF Sent, TypeOK, TableTypeOK
<1>7. ASSUME NEW w \in Worker, Report(w) PROVE TypeOK'
  <2>1. job[w] \in Peer
    BY <1>7 DEF Report, Assignment, Busy, TypeOK
  <2>2. results' \in [Peer -> Seq(Status)]
    BY <1>7, <2>1, AppendProperties DEF Report, TypeOK
  <2> QED
    BY <1>7, <2>2 DEF Report, TypeOK, TableTypeOK
<1>8. ASSUME NEW w \in Worker, WorkerExits(w) PROVE TypeOK'
  BY <1>8 DEF WorkerExits, TypeOK, TableTypeOK
<1>9. ASSUME NEW p \in Peer, Wake(p) PROVE TypeOK'
  BY <1>9 DEF Wake, CancelMessage, Content, TypeOK, TableTypeOK
<1>10. ASSUME NEW p \in Peer, NEW ok \in BOOLEAN, CancelSent(p, ok) PROVE TypeOK'
  <2>1. message[p] = "cancel"
    BY <1>10 DEF CancelSent, Filled
  <2>2. wire' \in [Peer -> Seq(Content)]
    BY <1>10, <2>1, AppendProperties DEF CancelSent, CancelMessage, Content, TypeOK
  <2>3. status' \in [Peer -> Status]
    <3>1. status[p] \in Status
      BY DEF TypeOK
    <3>2. Cancelled(status[p], IF ok THEN "cancel" ELSE "failed") \in Status
      BY <3>1, CancelledType
    <3> QED
      BY <1>10, <3>2 DEF CancelSent, Cancelled, TypeOK
  <2> QED
    BY <1>10, <2>2, <2>3 DEF CancelSent, TypeOK, TableTypeOK
<1>11. ASSUME NEW p \in Peer, CancelReports(p) PROVE TypeOK'
  <2>1. results' \in [Peer -> Seq(Status)]
    BY <1>11, AppendProperties DEF CancelReports, TypeOK
  <2> QED
    BY <1>11, <2>1 DEF CancelReports, TypeOK, TableTypeOK
<1>12. CASE UNCHANGED vars
  BY <1>12 DEF vars, TypeOK, TableTypeOK
<1> QED
  BY <1>1, <1>2, <1>3, <1>4, <1>5, <1>6, <1>7, <1>8, <1>9, <1>10, <1>11, <1>12
     DEF Next, CallerStep, WorkerStep, CancelStep, Crashed

-------------------------------------------------------------------------------
(* A peer is with one of the three at a time, and messages are filled *)

\* At first nothing is assigned and nothing is being sent.
LEMMA InitAssignment == Init => Assignment /\ Filled
BY BroadcastAssumption DEF Init, Assignment, Busy, Filled

\* Every step keeps each requested peer with one worker at most.
LEMMA NextAssignment == TypeOK /\ Assignment /\ [Next]_vars => Assignment'
<1> SUFFICES ASSUME TypeOK, Assignment, [Next]_vars PROVE Assignment'
  OBVIOUS
<1> USE BroadcastAssumption
        DEF requestVars, contextVars, tableVars, callerVars, workerVars, cancelVars,
            sendVars, collectVars, Busy
<1>0. /\ at \in [Worker -> {"receiving", "looking", "sending", "reporting", "exited"}]
      /\ job \in [Worker -> Peer \cup {NoPeer}]
      /\ canceller \in [Peer -> {"none", "sleeping", "sending", "reporting", "exited"}]
  BY DEF TypeOK
<1>1. CASE UNCHANGED <<caller, peerIDs, at, job, canceller>>
  BY <1>1 DEF Assignment
<1>2. CASE Start
  BY <1>2 DEF Start, Assignment, TypeOK
<1>3. CASE CloseWork \/ CloseResults \/ Return
  BY <1>3 DEF CloseWork, AllFed, CloseResults, Return, Assignment
<1>4. ASSUME NEW w \in Worker, NEW p \in Peer, Feed(w, p) PROVE Assignment'
  BY <1>0, <1>4 DEF Feed, Fed, Assignment
<1>5. ASSUME NEW w \in Worker, LookUp(w) PROVE Assignment'
  <2>1. UNCHANGED <<caller, peerIDs, canceller>> /\ at[w] = "looking"
    BY <1>5, LookUpCases
  <2>2. CASE at' = [at EXCEPT ![w] = "receiving"] /\ job' = [job EXCEPT ![w] = NoPeer]
    BY <1>0, <2>1, <2>2 DEF Assignment
  <2>3. CASE at' = [at EXCEPT ![w] = "sending"] /\ UNCHANGED job
    BY <1>0, <2>1, <2>3 DEF Assignment
  <2> QED
    BY <1>1, <1>5, LookUpCases, <2>1, <2>2, <2>3
<1>6. ASSUME NEW w \in Worker, NEW ok \in BOOLEAN, Sent(w, ok) PROVE Assignment'
  <2>1. UNCHANGED <<caller, peerIDs>> /\ at[w] = "sending" /\ job[w] \in Peer
    BY <1>6 DEF Sent, Assignment
  <2>2. CASE HandsOver
    <3>1. /\ at' = [at EXCEPT ![w] = "receiving"] /\ job' = [job EXCEPT ![w] = NoPeer]
          /\ canceller' = [canceller EXCEPT ![job[w]] = "sleeping"]
      BY <1>6, <2>2 DEF Sent
    <3> QED
      BY <1>0, <2>1, <3>1 DEF Assignment
  <2>3. CASE ~HandsOver
    <3>1. at' = [at EXCEPT ![w] = "reporting"] /\ UNCHANGED <<job, canceller>>
      BY <1>6, <2>3 DEF Sent
    <3> QED
      BY <1>0, <2>1, <3>1 DEF Assignment
  <2> QED
    BY <2>2, <2>3
<1>7. ASSUME NEW w \in Worker, Report(w) \/ WorkerExits(w) PROVE Assignment'
  BY <1>0, <1>7 DEF Report, WorkerExits, Assignment
<1>8. ASSUME NEW p \in Peer,
             Wake(p) \/ (\E ok \in BOOLEAN : CancelSent(p, ok)) \/ CancelReports(p)
      PROVE Assignment'
  <2>1. UNCHANGED <<caller, peerIDs, at, job>>
    BY <1>8 DEF Wake, CancelSent, CancelReports
  <2>2. \A q \in Peer : canceller'[q] = "none" <=> canceller[q] = "none"
    BY <1>0, <1>8 DEF Wake, CancelSent, CancelReports
  <2> QED
    BY <1>0, <2>1, <2>2 DEF Assignment, TypeOK
<1>9. CASE TableStep \/ CollectorExits \/ UNCHANGED vars
  BY <1>1, <1>9 DEF TableStep, CollectorExits, vars
<1> QED
  BY <1>2, <1>3, <1>4, <1>5, <1>6, <1>7, <1>8, <1>9
     DEF Next, CallerStep, WorkerStep, CancelStep, Crashed

\* Every step keeps a message of the right kind with who sends one.
LEMMA NextFilled == TypeOK /\ Filled /\ [Next]_vars => Filled'
<1> SUFFICES ASSUME TypeOK, Filled, [Next]_vars PROVE Filled'
  OBVIOUS
<1> USE BroadcastAssumption
        DEF requestVars, contextVars, tableVars, callerVars, workerVars, cancelVars,
            sendVars, collectVars
<1>1. CASE UNCHANGED <<mode, at, jobSender, canceller, message>>
  BY <1>1 DEF Filled, Asked
<1>2. ASSUME NEW w \in Worker, LookUp(w) PROVE Filled'
  <2>1. /\ at \in [Worker -> {"receiving", "looking", "sending", "reporting", "exited"}]
        /\ message \in [Worker \cup Peer -> Content \cup {None}]
        /\ jobSender \in [Worker -> Sender \cup {NoSender}]
    BY DEF TypeOK
  <2>2. UNCHANGED <<mode, canceller>> /\ \A p \in Peer : message'[p] = message[p]
    BY <1>2, <2>1, LookUpCases
  <2>3. \A v \in Worker \ {w} :
          at'[v] = at[v] /\ message'[v] = message[v] /\ jobSender'[v] = jobSender[v]
    <3>1. at' = at \/ \E pc \in {"receiving", "sending"} : at' = [at EXCEPT ![w] = pc]
      BY <1>2, LookUpCases
    <3>2. message' = message \/ \E m : message' = [message EXCEPT ![w] = m]
      BY <1>2, LookUpCases
    <3>3. jobSender' = jobSender \/ \E s : jobSender' = [jobSender EXCEPT ![w] = s]
      BY <1>2, LookUpCases
    <3> QED
      BY <2>1, <3>1, <3>2, <3>3
  <2>4. at'[w] = "sending" => message'[w] = Asked(jobSender'[w])
    <3>1. \/ at' = [at EXCEPT ![w] = "receiving"]
          \/ at' = at /\ at[w] = "looking"
          \/ /\ message' = [message EXCEPT ![w] = Asked(slot[job[w]])]
             /\ jobSender' = [jobSender EXCEPT ![w] = slot[job[w]]]
      BY <1>2, LookUpCases
    <3> QED
      BY <2>1, <3>1
  <2>5. \A v \in Worker : at'[v] = "sending" => message'[v] = Asked(jobSender'[v])
    BY <2>3, <2>4 DEF Filled
  <2> QED
    BY <2>2, <2>5 DEF Filled, Asked
<1>3. ASSUME NEW p \in Peer, Wake(p) PROVE Filled'
  BY <1>3 DEF Wake, CancelMessage, Filled, Asked, TypeOK
<1>4. CASE Start
  BY <1>4 DEF Start, Filled, Asked, TypeOK
<1>5. ASSUME NEW w \in Worker,
             \/ \E p \in Peer : Feed(w, p)
             \/ \E ok \in BOOLEAN : Sent(w, ok)
             \/ Report(w) \/ WorkerExits(w)
      PROVE Filled'
  BY <1>5 DEF Feed, Sent, Report, WorkerExits, Filled, Asked, TypeOK
<1>6. ASSUME NEW p \in Peer, (\E ok \in BOOLEAN : CancelSent(p, ok)) \/ CancelReports(p)
      PROVE Filled'
  BY <1>6 DEF CancelSent, CancelReports, Filled, Asked, TypeOK
<1>7. CASE TableStep \/ CloseWork \/ CloseResults \/ Return \/ CollectorExits \/ UNCHANGED vars
  BY <1>1, <1>7 DEF TableStep, CloseWork, CloseResults, Return, CollectorExits, vars
<1> QED
  BY <1>2, <1>3, <1>4, <1>5, <1>6, <1>7
     DEF Next, CallerStep, WorkerStep, CancelStep, Crashed

-------------------------------------------------------------------------------
(* The WaitGroup *)

\* The WaitGroup counts the workers and the cancel goroutines that have not
\* returned, and nobody is left once resultsChan is closed.
ActiveWorkers == {w \in Worker : at[w] # "exited"}
ActiveCancels == {p \in Peer : canceller[p] \notin {"none", "exited"}}

Counted ==
  /\ wg = Cardinality(ActiveWorkers) + Cardinality(ActiveCancels)
  /\ resultsClosed <=> caller \in {"collecting", "returned"}
  /\ NoSendOnClosedChannel

\* The WaitGroups count finite sets.
LEMMA ActiveFinite ==
  ASSUME TypeOK
  PROVE  /\ IsFiniteSet(ActiveWorkers) /\ Cardinality(ActiveWorkers) \in Nat
         /\ IsFiniteSet(ActiveCancels) /\ Cardinality(ActiveCancels) \in Nat
BY BroadcastAssumption, FS_Subset, FS_CardinalityType DEF ActiveWorkers, ActiveCancels

\* At first the WaitGroups count no worker.
LEMMA InitCounted == Init => Counted
<1> SUFFICES ASSUME Init PROVE Counted
  OBVIOUS
<1>1. ActiveWorkers = {} /\ ActiveCancels = {}
  BY DEF Init, ActiveWorkers, ActiveCancels
<1> QED
  BY <1>1, FS_EmptySet DEF Init, Counted, NoSendOnClosedChannel

\* Every step keeps the WaitGroups equal to the workers that run.
LEMMA NextCounted == TypeOK /\ Assignment /\ Counted /\ [Next]_vars => Counted'
<1> SUFFICES ASSUME TypeOK, Assignment, Counted, [Next]_vars PROVE Counted'
  OBVIOUS
<1> USE BroadcastAssumption
        DEF requestVars, contextVars, tableVars, callerVars, workerVars, cancelVars,
            sendVars, collectVars
<1>1. ASSUME UNCHANGED <<caller, resultsClosed, wg>>,
             ActiveWorkers' = ActiveWorkers, ActiveCancels' = ActiveCancels
      PROVE Counted'
  <2>1. NoSendOnClosedChannel'
    BY <1>1 DEF Counted, NoSendOnClosedChannel, ActiveWorkers, ActiveCancels
  <2> QED
    BY <1>1, <2>1 DEF Counted
<1>2. CASE Start
  <2>1. ActiveWorkers' = Worker /\ ActiveCancels' = {}
    BY <1>2 DEF Start, Assignment, ActiveWorkers, ActiveCancels
  <2> QED
    BY <1>2, <2>1, FS_EmptySet, FS_CardinalityType DEF Start, Counted, NoSendOnClosedChannel
<1>3. CASE CloseWork \/ Return
  <2>1. ActiveWorkers' = ActiveWorkers /\ ActiveCancels' = ActiveCancels
    BY <1>3 DEF CloseWork, Return, ActiveWorkers, ActiveCancels
  <2> QED
    BY <1>3, <2>1 DEF CloseWork, Return, Counted, NoSendOnClosedChannel
<1>4. CASE CloseResults
  <2>1. ActiveWorkers' = ActiveWorkers /\ ActiveCancels' = ActiveCancels
    BY <1>4 DEF CloseResults, ActiveWorkers, ActiveCancels
  <2>2. Cardinality(ActiveWorkers) = 0 /\ Cardinality(ActiveCancels) = 0
    BY <1>4, ActiveFinite DEF CloseResults, Counted
  <2>3. ActiveWorkers = {} /\ ActiveCancels = {}
    BY <2>2, ActiveFinite, FS_EmptySet
  <2>4. NoSendOnClosedChannel'
    BY <1>4, <2>3 DEF CloseResults, NoSendOnClosedChannel, ActiveWorkers, ActiveCancels
  <2> QED
    BY <1>4, <2>1, <2>4 DEF CloseResults, Counted
<1>5. ASSUME NEW w \in Worker, NEW ok \in BOOLEAN, Sent(w, ok) PROVE Counted'
  <2>1. ActiveWorkers' = ActiveWorkers
    BY <1>5 DEF Sent, ActiveWorkers, TypeOK
  <2>2. CASE ~HandsOver
    BY <1>1, <1>5, <2>1, <2>2 DEF Sent, ActiveCancels
  <2>3. CASE HandsOver
    <3>1. job[w] \in Peer /\ job[w] \notin ActiveCancels
      BY <1>5 DEF Sent, Assignment, Busy, ActiveCancels
    <3>2. ActiveCancels' = ActiveCancels \cup {job[w]}
      BY <1>5, <2>3, <3>1 DEF Sent, ActiveCancels, TypeOK
    <3>3. Cardinality(ActiveCancels') = Cardinality(ActiveCancels) + 1
      BY <3>1, <3>2, ActiveFinite, FS_AddElement
    <3>4. wg' = Cardinality(ActiveWorkers') + Cardinality(ActiveCancels')
      BY <1>5, <2>1, <2>3, <3>3, ActiveFinite DEF Sent, Accounted, Counted
    <3> QED
      BY <1>5, <3>4 DEF Sent, Counted, NoSendOnClosedChannel
  <2> QED
    BY <2>2, <2>3
<1>6. ASSUME NEW w \in Worker, WorkerExits(w) PROVE Counted'
  <2>1. w \in ActiveWorkers /\ ActiveWorkers' = ActiveWorkers \ {w}
    BY <1>6 DEF WorkerExits, ActiveWorkers, TypeOK
  <2>2. ActiveCancels' = ActiveCancels
    BY <1>6 DEF WorkerExits, ActiveCancels
  <2>3. Cardinality(ActiveWorkers') = Cardinality(ActiveWorkers) - 1
    BY <2>1, ActiveFinite, FS_RemoveElement
  <2>4. wg' = Cardinality(ActiveWorkers') + Cardinality(ActiveCancels')
    BY <1>6, <2>2, <2>3, ActiveFinite DEF WorkerExits, Counted
  <2> QED
    BY <1>6, <2>4 DEF WorkerExits, Counted, NoSendOnClosedChannel
<1>7. ASSUME NEW p \in Peer, CancelReports(p) PROVE Counted'
  <2>1. p \in ActiveCancels /\ ActiveCancels' = ActiveCancels \ {p}
    BY <1>7 DEF CancelReports, ActiveCancels, TypeOK
  <2>2. ActiveWorkers' = ActiveWorkers
    BY <1>7 DEF CancelReports, ActiveWorkers
  <2>3. Cardinality(ActiveCancels') = Cardinality(ActiveCancels) - 1
    BY <2>1, ActiveFinite, FS_RemoveElement
  <2>4. wg' = Cardinality(ActiveWorkers') + Cardinality(ActiveCancels')
    BY <1>7, <2>2, <2>3, ActiveFinite DEF CancelReports, Counted
  <2> QED
    BY <1>7, <2>4 DEF CancelReports, Counted, NoSendOnClosedChannel
<1>8. ASSUME NEW w \in Worker, (\E p \in Peer : Feed(w, p)) \/ LookUp(w) \/ Report(w)
      PROVE Counted'
  <2>1. ActiveWorkers' = ActiveWorkers
    <3>1. \E pc \in {"receiving", "looking", "sending"} :
             at' = at \/ (at[w] # "exited" /\ at' = [at EXCEPT ![w] = pc])
      BY <1>8, LookUpCases DEF Feed, Report
    <3>2. at \in [Worker -> {"receiving", "looking", "sending", "reporting", "exited"}]
      BY DEF TypeOK
    <3> QED
      BY <3>1, <3>2 DEF ActiveWorkers
  <2> QED
    BY <1>1, <1>8, <2>1, LookUpCases DEF Feed, Report, ActiveCancels
<1>9. ASSUME NEW p \in Peer, Wake(p) \/ \E ok \in BOOLEAN : CancelSent(p, ok)
      PROVE Counted'
  <2>1. ActiveCancels' = ActiveCancels
    BY <1>9 DEF Wake, CancelSent, ActiveCancels, TypeOK
  <2> QED
    BY <1>1, <1>9, <2>1 DEF Wake, CancelSent, ActiveWorkers
<1>10. CASE TableStep \/ CollectorExits \/ UNCHANGED vars
  BY <1>1, <1>10 DEF TableStep, CollectorExits, vars, ActiveWorkers, ActiveCancels
<1> QED
  BY <1>2, <1>3, <1>4, <1>5, <1>6, <1>7, <1>8, <1>9, <1>10
     DEF Next, CallerStep, WorkerStep, CancelStep, Crashed

-------------------------------------------------------------------------------
(* The senders *)

\* A sender is in one slot of the table.
SlotsDistinct ==
  /\ \A p \in Peer : slot[p] \in Sender => slot[p] \in live
  /\ \A p, q \in Peer : slot[p] \in Sender /\ slot[q] = slot[p] => p = q

\* A sender that a goroutine refers to is in no slot but that of the goroutine's
\* peer, and no other goroutine refers to it.
ReferencesDistinct ==
  /\ \A w \in Worker : jobSender[w] \in Sender =>
       /\ at[w] = "sending"
       /\ \A q \in Peer : slot[q] = jobSender[w] => q = job[w]
  /\ \A p \in Peer : cancelSender[p] \in Sender =>
       /\ canceller[p] \notin {"none", "exited"}
       /\ \A q \in Peer : slot[q] = cancelSender[p] => q = p
  /\ \A v, w \in Worker : jobSender[v] = jobSender[w] /\ jobSender[w] \in Sender => v = w
  /\ \A p, q \in Peer : cancelSender[p] = cancelSender[q] /\ cancelSender[q] \in Sender => p = q
  /\ \A w \in Worker, p \in Peer : jobSender[w] = cancelSender[p] => jobSender[w] \notin Sender

\* At first no two peers share a sender.
LEMMA InitSenders == Init => SlotsDistinct /\ ReferencesDistinct
BY TableAssumption DEF Init, TableInit, SlotsDistinct, ReferencesDistinct

\* The steps of the sender table give no sender to two peers.
LEMMA TableDistinct == TableTypeOK /\ SlotsDistinct /\ TableNext => SlotsDistinct'
<1> SUFFICES ASSUME TableTypeOK, SlotsDistinct, TableNext PROVE SlotsDistinct'
  OBVIOUS
<1> USE TableAssumption
<1>1. ASSUME NEW p \in Peer, Track(p) PROVE SlotsDistinct'
  BY <1>1 DEF TableTypeOK, SlotsDistinct, Track
<1>2. ASSUME NEW p \in Peer, NEW s \in Sender, Attach(p, s) PROVE SlotsDistinct'
  BY <1>2 DEF TableTypeOK, SlotsDistinct, Attach
<1>3. ASSUME NEW p \in Peer, Untrack(p) PROVE SlotsDistinct'
  BY <1>3 DEF TableTypeOK, SlotsDistinct, Untrack
<1> QED
  BY <1>1, <1>2, <1>3 DEF TableNext

\* A step of the table puts at most one sender into it, which was not live.
LEMMA TableStepSlots ==
  ASSUME TableTypeOK, TableNext, NEW q \in Peer
  PROVE  \/ slot'[q] = slot[q]
         \/ slot'[q] \in {NoSender, Untracked}
         \/ slot'[q] \in live' \ live
BY DEF TableTypeOK, TableNext, Track, Attach, Untrack

\* Only TableStep changes the table.
LEMMA TableUntouched ==
  [Next]_vars => TableStep \/ UNCHANGED tableVars
<1> SUFFICES ASSUME [Next]_vars PROVE TableStep \/ UNCHANGED tableVars
  OBVIOUS
<1> USE DEF contextVars
<1>1. ASSUME NEW w \in Worker, WorkerStep(w) PROVE UNCHANGED tableVars
  BY <1>1 DEF WorkerStep, Feed, LookUp, Sent, Report, WorkerExits
<1>2. ASSUME NEW p \in Peer, CancelStep(p) PROVE UNCHANGED tableVars
  BY <1>2 DEF CancelStep, Wake, CancelSent, CancelReports
<1>3. CASE CallerStep \/ CollectorExits \/ UNCHANGED vars
  BY <1>3 DEF CallerStep, Start, CloseWork, CloseResults, Return, CollectorExits, vars
<1> QED
  BY <1>1, <1>2, <1>3 DEF Next, Crashed

\* Every step keeps the senders of the table distinct.
LEMMA NextSlots == TypeOK /\ SlotsDistinct /\ [Next]_vars => SlotsDistinct'
BY TableUntouched, TableDistinct DEF TypeOK, TableStep, SlotsDistinct, tableVars

\* Every step keeps the references copied from the table distinct.
LEMMA NextReferences ==
  TypeOK /\ Assignment /\ SlotsDistinct /\ ReferencesDistinct /\ [Next]_vars
    => ReferencesDistinct'
<1> SUFFICES ASSUME TypeOK, Assignment, SlotsDistinct, ReferencesDistinct, [Next]_vars
             PROVE  ReferencesDistinct'
  OBVIOUS
<1> USE BroadcastAssumption, TableAssumption
        DEF requestVars, contextVars, tableVars, callerVars, workerVars, cancelVars,
            sendVars, collectVars
<1>0. /\ at \in [Worker -> {"receiving", "looking", "sending", "reporting", "exited"}]
      /\ job \in [Worker -> Peer \cup {NoPeer}]
      /\ jobSender \in [Worker -> Sender \cup {NoSender}]
      /\ canceller \in [Peer -> {"none", "sleeping", "sending", "reporting", "exited"}]
      /\ cancelSender \in [Peer -> Sender \cup {NoSender}]
  BY DEF TypeOK
<1>1. CASE UNCHANGED <<slot, at, job, jobSender, canceller, cancelSender>>
  BY <1>1 DEF ReferencesDistinct
<1>2. CASE TableStep
  <2>1. UNCHANGED <<at, job, jobSender, canceller, cancelSender>>
    BY <1>2 DEF TableStep
  <2>2. ASSUME NEW s \in Sender, s \in Referenced, NEW q \in Peer, slot'[q] = s
        PROVE  slot[q] = s
    BY <1>2, <2>2, TableStepSlots DEF TableStep, TypeOK
  <2>3. /\ \A w \in Worker : jobSender[w] \in Referenced
        /\ \A p \in Peer : cancelSender[p] \in Referenced
    BY <1>0 DEF Referenced, Range
  <2> QED
    BY <2>1, <2>2, <2>3 DEF ReferencesDistinct
<1>3. CASE Start
  <2>1. \A w \in Worker : jobSender[w] \notin Sender
    BY <1>3 DEF Start, Assignment, ReferencesDistinct
  <2> QED
    BY <1>3, <2>1 DEF Start, ReferencesDistinct
<1>4. ASSUME NEW w \in Worker, NEW p \in Peer, Feed(w, p) PROVE ReferencesDistinct'
  BY <1>0, <1>4 DEF Feed, ReferencesDistinct
<1>5. ASSUME NEW w \in Worker, LookUp(w) PROVE ReferencesDistinct'
  <2>1. UNCHANGED <<slot, canceller, cancelSender>> /\ at[w] = "looking"
    BY <1>5, LookUpCases
  <2>2. CASE /\ at' = [at EXCEPT ![w] = "receiving"] /\ job' = [job EXCEPT ![w] = NoPeer]
             /\ UNCHANGED jobSender
    BY <1>0, <2>1, <2>2 DEF ReferencesDistinct
  <2>3. CASE /\ slot[job[w]] \in Sender
             /\ at' = [at EXCEPT ![w] = "sending"] /\ UNCHANGED job
             /\ jobSender' = [jobSender EXCEPT ![w] = slot[job[w]]]
    <3> DEFINE s == slot[job[w]]
    <3>1. job[w] \in Peer /\ canceller[job[w]] = "none"
      BY <2>1 DEF Assignment, Busy
    <3>2. \A q \in Peer : slot[q] = s => q = job[w]
      BY <2>3, <3>1 DEF SlotsDistinct
    <3>3. \A v \in Worker : jobSender[v] # s
      BY <2>1, <2>3, <3>1 DEF ReferencesDistinct, Assignment, Busy
    <3>4. \A p \in Peer : cancelSender[p] # s
      BY <2>3, <3>1 DEF ReferencesDistinct
    <3> HIDE DEF s
    <3>5. jobSender' = [jobSender EXCEPT ![w] = s]
      BY <2>3 DEF s
    <3> QED
      BY <1>0, <2>1, <2>3, <3>2, <3>3, <3>4, <3>5 DEF ReferencesDistinct
  <2> QED
    BY <1>1, <1>5, <2>1, <2>2, <2>3, LookUpCases
<1>6. ASSUME NEW w \in Worker, NEW ok \in BOOLEAN, Sent(w, ok) PROVE ReferencesDistinct'
  <2>1. UNCHANGED slot /\ at[w] = "sending" /\ job[w] \in Peer /\ canceller[job[w]] = "none"
    BY <1>6 DEF Sent, Assignment, Busy
  <2>2. CASE HandsOver
    <3>1. /\ at' = [at EXCEPT ![w] = "receiving"] /\ job' = [job EXCEPT ![w] = NoPeer]
          /\ jobSender' = [jobSender EXCEPT ![w] = NoSender]
          /\ canceller' = [canceller EXCEPT ![job[w]] = "sleeping"]
          /\ cancelSender' = [cancelSender EXCEPT ![job[w]] = jobSender[w]]
      BY <1>6, <2>2 DEF Sent
    <3> QED
      BY <1>0, <2>1, <3>1 DEF ReferencesDistinct
  <2>3. CASE ~HandsOver
    <3>1. /\ at' = [at EXCEPT ![w] = "reporting"]
          /\ jobSender' = [jobSender EXCEPT ![w] = NoSender]
          /\ UNCHANGED <<job, canceller, cancelSender>>
      BY <1>6, <2>3 DEF Sent
    <3> QED
      BY <1>0, <2>1, <3>1 DEF ReferencesDistinct
  <2> QED
    BY <2>2, <2>3
<1>7. ASSUME NEW w \in Worker, Report(w) \/ WorkerExits(w) PROVE ReferencesDistinct'
  BY <1>0, <1>7 DEF Report, WorkerExits, ReferencesDistinct
<1>8. ASSUME NEW p \in Peer, Wake(p) \/ \E ok \in BOOLEAN : CancelSent(p, ok)
      PROVE  ReferencesDistinct'
  BY <1>0, <1>8 DEF Wake, CancelSent, ReferencesDistinct
<1>9. ASSUME NEW p \in Peer, CancelReports(p) PROVE ReferencesDistinct'
  BY <1>0, <1>9 DEF CancelReports, ReferencesDistinct
<1>10. CASE CloseWork \/ CloseResults \/ Return \/ CollectorExits \/ UNCHANGED vars
  BY <1>1, <1>10 DEF CloseWork, CloseResults, Return, CollectorExits, vars
<1> QED
  BY <1>2, <1>3, <1>4, <1>5, <1>6, <1>7, <1>8, <1>9, <1>10
     DEF Next, CallerStep, WorkerStep, CancelStep, Crashed

-------------------------------------------------------------------------------
(* What is known of a peer at each stage of its request *)

Untouched(p) == status[p] = NoStatus /\ results[p] = <<>> /\ wire[p] = <<>>

Complete(p) ==
  /\ mode # "cancel" => status[p].request # None
  /\ mode # "want" => status[p].cancel # None
  /\ wire[p] = Claimed(status[p])

HalfDone(p) ==
  /\ mode = "wantCancel"
  /\ status[p].request # None /\ status[p].cancel = None
  /\ wire[p] = Claimed(status[p]) /\ results[p] = <<>>

NoneForgotten ==
  \A p \in Peer : \/ Untouched(p) \/ results[p] # <<>> \/ canceller[p] # "none"
                  \/ \E w \in Worker : at[w] = "reporting" /\ job[w] = p

Stages ==
  /\ caller = "idle" => \A p \in Peer : Untouched(p)
  /\ \A p \in peerIDs : Untouched(p)
  /\ \A w \in Worker : at[w] \in {"looking", "sending"} => Untouched(job[w])
  /\ \A w \in Worker : at[w] = "reporting" => Complete(job[w]) /\ results[job[w]] = <<>>
  /\ \A p \in Peer : canceller[p] \in {"sleeping", "sending"} => HalfDone(p)
  /\ \A p \in Peer : canceller[p] = "reporting" => Complete(p) /\ results[p] = <<>>
  /\ \A p \in Peer : canceller[p] = "exited" => results[p] # <<>>
  /\ \A p \in Peer : results[p] # <<>> => results[p] = <<status[p]>> /\ Complete(p)
  /\ NoneForgotten

\* At first nothing was sent.
LEMMA InitStages == Init => Stages
BY DEF NoneForgotten, Init, Stages, Untouched

\* What is sent of one part of a request is a sequence of contents.
LEMMA SentPartType ==
  SentPart(None) = <<>> /\ \A x : SentPart(x) \in Seq(Content)
<1>1. None \notin Content
  BY BroadcastAssumption DEF Content, Request
<1>2. ASSUME NEW x PROVE SentPart(x) \in Seq(Content)
  <2>1. CASE x \in Content
    BY <2>1 DEF SentPart
  <2>2. CASE x \notin Content
    BY <2>2, EmptySeq DEF SentPart
  <2> QED
    BY <2>1, <2>2
<1> QED
  BY <1>1, <1>2 DEF SentPart

\* SendMsg for a fresh request leaves a record that tells what was sent.
LEMMA RecordedFresh ==
  ASSUME NEW p \in Peer, TypeOK, Untouched(p), NEW ok \in BOOLEAN,
         NEW sent \in IF mode = "cancel" THEN {"cancel"} ELSE Request,
         wire' = IF ok THEN [wire EXCEPT ![p] = Append(@, sent)] ELSE wire,
         status' = [status EXCEPT ![p] = Recorded(@, IF ok THEN sent ELSE "failed")],
         UNCHANGED <<mode, results>>
  PROVE  IF mode = "wantCancel" THEN HalfDone(p)' ELSE Complete(p)'
<1> DEFINE out == IF ok THEN sent ELSE "failed"
<1> USE BroadcastAssumption
<1>1. /\ mode \in Mode /\ status[p] \in Status /\ wire[p] = <<>>
      /\ status[p].request = None /\ status[p].cancel = None
  BY DEF TypeOK, Untouched, NoStatus
<1>2. out # None /\ (out \in Content <=> ok)
  BY DEF Content, Request
<1>3. status'[p] = Recorded(status[p], out)
  BY DEF TypeOK
<1>4. wire'[p] = SentPart(out)
  BY <1>1, <1>2 DEF TypeOK, SentPart
<1>5. out \in IF mode = "cancel" THEN {"cancel", "failed"} ELSE Request \cup {"failed"}
  OBVIOUS
<1>6. SentPart(None) = <<>> /\ SentPart(out) \in Seq(Content)
  BY SentPartType
<1>7. CASE mode = "cancel"
  <2>1. status'[p].request = None /\ status'[p].cancel = out
    BY <1>1, <1>3, <1>5, <1>7, RecordedType
  <2> QED
    BY <1>2, <1>4, <1>6, <1>7, <2>1, ConcatEmptySeq DEF Complete, Claimed
<1>8. CASE mode # "cancel"
  <2>1. status'[p].request = out /\ status'[p].cancel = None
    BY <1>1, <1>3, <1>5, <1>8, RecordedType
  <2> QED
    BY <1>1, <1>2, <1>4, <1>6, <1>8, <2>1, ConcatEmptySeq
       DEF Complete, HalfDone, Claimed, Mode, Untouched
<1> QED
  BY <1>7, <1>8

\* And so does the CANCEL after it.
LEMMA RecordedCancel ==
  ASSUME NEW p \in Peer, TypeOK, HalfDone(p), NEW ok \in BOOLEAN,
         wire' = IF ok THEN [wire EXCEPT ![p] = Append(@, "cancel")] ELSE wire,
         status' = [status EXCEPT ![p].cancel = IF ok THEN "cancel" ELSE "failed"],
         UNCHANGED mode
  PROVE  Complete(p)'
<1> DEFINE out == IF ok THEN "cancel" ELSE "failed"
           first == SentPart(status[p].request)
<1> USE BroadcastAssumption
<1>1. status[p] \in Status /\ out \in {"cancel", "failed"} /\ out # None
  BY DEF TypeOK
<1>2. status'[p] = Cancelled(status[p], out)
  BY DEF TypeOK, Cancelled
<1>3. status'[p].request = status[p].request /\ status'[p].cancel = out
  BY <1>1, <1>2, CancelledType
<1>4. first \in Seq(Content) /\ SentPart(None) = <<>>
  BY SentPartType
<1>5. wire[p] = first
  BY <1>4, ConcatEmptySeq DEF HalfDone, Claimed
<1>6. wire'[p] = first \o SentPart(out)
  <2>1. CASE ok
    <3>1. wire'[p] = Append(first, "cancel")
      BY <1>5, <2>1 DEF TypeOK
    <3>2. SentPart(out) = <<"cancel">> /\ "cancel" \in Content
      BY <2>1 DEF SentPart, Content
    <3> QED
      BY <1>4, <3>1, <3>2, AppendIsConcat
  <2>2. CASE ~ok
    <3>1. SentPart(out) = <<>>
      BY <2>2 DEF SentPart, Content, Request
    <3> QED
      BY <1>4, <1>5, <2>2, <3>1, ConcatEmptySeq DEF TypeOK
  <2> QED
    BY <2>1, <2>2
<1> QED
  BY <1>1, <1>3, <1>6 DEF Complete, HalfDone, Claimed

\* Every step keeps status, messages and result of a peer in agreement with its stage.
LEMMA NextStages ==
  TypeOK /\ Assignment /\ Filled /\ Stages /\ [Next]_vars => Stages'
<1> SUFFICES ASSUME TypeOK, Assignment, Filled, Stages, [Next]_vars PROVE Stages'
  OBVIOUS
<1> USE BroadcastAssumption
        DEF requestVars, contextVars, tableVars, callerVars, workerVars, cancelVars,
            sendVars, collectVars
<1>0. /\ at \in [Worker -> {"receiving", "looking", "sending", "reporting", "exited"}]
      /\ job \in [Worker -> Peer \cup {NoPeer}]
      /\ canceller \in [Peer -> {"none", "sleeping", "sending", "reporting", "exited"}]
      /\ results \in [Peer -> Seq(Status)]
      /\ peerIDs \subseteq Peer
  BY DEF TypeOK
<1>1. ASSUME NEW p \in Peer, UNCHANGED <<mode, status[p], results[p], wire[p]>>
      PROVE  /\ Untouched(p)' <=> Untouched(p)
             /\ Complete(p)' <=> Complete(p)
             /\ HalfDone(p)' <=> HalfDone(p)
  BY <1>1 DEF Untouched, Complete, HalfDone
<1>2. CASE UNCHANGED <<caller, peerIDs, at, job, canceller, mode, status, results, wire>>
  BY <1>0, <1>1, <1>2 DEF Stages, NoneForgotten, Assignment, Busy
<1>3. CASE Start
  BY <1>0, <1>1, <1>3 DEF Start, Stages, NoneForgotten, Assignment, Untouched
<1>4. CASE CloseWork \/ CloseResults \/ Return
  <2>1. /\ UNCHANGED <<peerIDs, at, job, canceller, mode, status, results, wire>>
        /\ caller' # "idle"
    BY <1>4 DEF CloseWork, CloseResults, Return
  <2> QED
    BY <1>0, <1>1, <2>1 DEF Stages, NoneForgotten, Assignment, Busy
<1>5. ASSUME NEW w \in Worker, NEW p \in Peer, Feed(w, p) PROVE Stages'
  BY <1>0, <1>1, <1>5 DEF Feed, Fed, Stages, NoneForgotten, Assignment, Busy
<1>6. ASSUME NEW w \in Worker, LookUp(w) PROVE Stages'
  <2>1. /\ UNCHANGED <<caller, peerIDs, canceller, mode, status, results, wire>>
        /\ at[w] = "looking"
    BY <1>6, LookUpCases
  <2>2. CASE at' = [at EXCEPT ![w] = "receiving"] /\ job' = [job EXCEPT ![w] = NoPeer]
    BY <1>0, <1>1, <2>1, <2>2 DEF Stages, NoneForgotten, Assignment, Busy
  <2>3. CASE at' = [at EXCEPT ![w] = "sending"] /\ UNCHANGED job
    BY <1>0, <1>1, <2>1, <2>3 DEF Stages, NoneForgotten, Assignment, Busy
  <2> QED
    BY <1>2, <1>6, LookUpCases, <2>1, <2>2, <2>3
<1>7. ASSUME NEW w \in Worker, NEW ok \in BOOLEAN, Sent(w, ok) PROVE Stages'
  <2>0. PICK p \in Peer : p = job[w]
    BY <1>7 DEF Sent, Assignment, Busy
  <2>1. /\ UNCHANGED <<caller, peerIDs, mode, results>> /\ at[w] = "sending"
        /\ p \notin peerIDs /\ canceller[p] = "none"
        /\ \A v \in Worker : job[v] = p => v = w
        /\ Untouched(p)
        /\ caller # "idle"
    BY <1>7, <2>0 DEF Sent, Assignment, Busy, Stages
  <2>2. IF mode = "wantCancel" THEN HalfDone(p)' ELSE Complete(p)'
    <3> DEFINE asked == Asked(jobSender[w])
    <3>1. asked \in IF mode = "cancel" THEN {"cancel"} ELSE Request
      BY AskedType
    <3>2. message[w] = asked
      BY <2>1 DEF Filled
    <3>3. /\ wire' = IF ok THEN [wire EXCEPT ![p] = Append(@, asked)] ELSE wire
          /\ status' = [status EXCEPT ![p] = Recorded(@, IF ok THEN asked ELSE "failed")]
          /\ UNCHANGED <<mode, results>>
      BY <1>7, <2>0, <3>2 DEF Sent
    <3> HIDE DEF asked
    <3> QED
      BY <2>1, <3>1, <3>3, RecordedFresh
  <2>3. \A q \in Peer \ {p} : /\ Untouched(q)' <=> Untouched(q)
                              /\ Complete(q)' <=> Complete(q)
                              /\ HalfDone(q)' <=> HalfDone(q)
                              /\ UNCHANGED status[q]
    BY <1>1, <1>7, <2>0, <2>1 DEF Sent, TypeOK
  <2>4. CASE HandsOver
    <3>1. /\ at' = [at EXCEPT ![w] = "receiving"] /\ job' = [job EXCEPT ![w] = NoPeer]
          /\ canceller' = [canceller EXCEPT ![p] = "sleeping"]
      BY <1>7, <2>0, <2>4 DEF Sent
    <3>2. HalfDone(p)'
      BY <2>2, <2>4 DEF HandsOver
    <3>3. results[p] = <<>>
      BY <2>1 DEF Untouched
    <3>4. NoneForgotten'
      BY <1>0, <2>0, <2>1, <2>3, <3>1 DEF Stages, NoneForgotten
    <3> QED
      BY <1>0, <2>0, <2>1, <2>3, <3>1, <3>2, <3>3, <3>4 DEF Stages, Assignment, Busy
  <2>5. CASE ~HandsOver
    <3>1. at' = [at EXCEPT ![w] = "reporting"] /\ UNCHANGED <<job, canceller>>
      BY <1>7, <2>5 DEF Sent
    <3>2. Complete(p)'
      BY <2>2, <2>5 DEF HandsOver
    <3>3. results[p] = <<>>
      BY <2>1 DEF Untouched
    <3>4. NoneForgotten'
      BY <1>0, <2>0, <2>1, <2>3, <3>1 DEF Stages, NoneForgotten
    <3> QED
      BY <1>0, <2>0, <2>1, <2>3, <3>1, <3>2, <3>3, <3>4 DEF Stages, Assignment, Busy
  <2> QED
    BY <2>4, <2>5
<1>8. ASSUME NEW w \in Worker, Report(w) PROVE Stages'
  <2>0. PICK p \in Peer : p = job[w]
    BY <1>8 DEF Report, Assignment, Busy
  <2>1. /\ UNCHANGED <<caller, peerIDs, mode, canceller, status, wire>> /\ at[w] = "reporting"
        /\ p \notin peerIDs /\ canceller[p] = "none"
        /\ \A v \in Worker : job[v] = p => v = w
        /\ Complete(p) /\ results[p] = <<>>
        /\ caller # "idle"
    BY <1>8, <2>0 DEF Report, Assignment, Busy, Stages
  <2>2. results' = [results EXCEPT ![p] = <<status[p]>>]
    BY <1>0, <1>8, <2>0, <2>1 DEF Report
  <2>3. results'[p] = <<status'[p]>> /\ results'[p] # <<>> /\ Complete(p)'
    BY <1>0, <2>1, <2>2 DEF Complete
  <2>4. \A q \in Peer \ {p} : /\ Untouched(q)' <=> Untouched(q)
                              /\ Complete(q)' <=> Complete(q)
                              /\ HalfDone(q)' <=> HalfDone(q)
                              /\ UNCHANGED <<results[q], status[q]>>
    BY <1>0, <1>1, <2>1, <2>2
  <2>5. /\ at' = [at EXCEPT ![w] = "receiving"] /\ job' = [job EXCEPT ![w] = NoPeer]
    BY <1>8 DEF Report
  <2>6. NoneForgotten'
    <3> SUFFICES ASSUME NEW q \in Peer
                 PROVE  \/ Untouched(q)' \/ results'[q] # <<>> \/ canceller'[q] # "none"
                        \/ \E v \in Worker : at'[v] = "reporting" /\ job'[v] = q
      BY DEF NoneForgotten
    <3>1. CASE q = p
      BY <2>3, <3>1
    <3>2. CASE q # p
      <4>1. ASSUME NEW v \in Worker, at[v] = "reporting", job[v] = q
            PROVE  at'[v] = "reporting" /\ job'[v] = q
        BY <1>0, <2>0, <2>5, <3>2, <4>1
      <4> QED
        BY <2>1, <2>4, <3>2, <4>1 DEF Stages, NoneForgotten
    <3> QED
      BY <3>1, <3>2
  <2> QED
    BY <1>0, <2>0, <2>1, <2>3, <2>4, <2>5, <2>6 DEF Stages, Assignment, Busy
<1>9. ASSUME NEW w \in Worker, WorkerExits(w) PROVE Stages'
  BY <1>0, <1>1, <1>9 DEF WorkerExits, Stages, NoneForgotten, Assignment, Busy
<1>10. ASSUME NEW p \in Peer, Wake(p) PROVE Stages'
  BY <1>0, <1>1, <1>10 DEF Wake, Stages, NoneForgotten, Assignment, Busy
<1>11. ASSUME NEW p \in Peer, NEW ok \in BOOLEAN, CancelSent(p, ok) PROVE Stages'
  <2>1. /\ UNCHANGED <<caller, peerIDs, at, job, mode, results>> /\ canceller[p] = "sending"
        /\ p \notin peerIDs /\ caller # "idle"
        /\ \A v \in Worker : job[v] # p
        /\ HalfDone(p)
        /\ canceller' = [canceller EXCEPT ![p] = "reporting"]
    BY <1>11 DEF CancelSent, Stages, Assignment
  <2>2. Complete(p)'
    <3>1. message[p] = "cancel"
      BY <2>1 DEF Filled
    <3>2. /\ wire' = IF ok THEN [wire EXCEPT ![p] = Append(@, "cancel")] ELSE wire
          /\ status' = [status EXCEPT ![p].cancel = IF ok THEN "cancel" ELSE "failed"]
      BY <1>11, <3>1 DEF CancelSent, CancelMessage
    <3> QED
      BY <2>1, <3>2, RecordedCancel
  <2>3. \A q \in Peer \ {p} : /\ Untouched(q)' <=> Untouched(q)
                              /\ Complete(q)' <=> Complete(q)
                              /\ HalfDone(q)' <=> HalfDone(q)
                              /\ UNCHANGED status[q]
    BY <1>1, <1>11, <2>1 DEF CancelSent, TypeOK
  <2>4. results[p] = <<>>
    BY <2>1 DEF HalfDone
  <2>5. /\ canceller'[p] = "reporting"
        /\ \A q \in Peer \ {p} : canceller'[q] = canceller[q]
    BY <1>0, <2>1
  <2>6. \A v \in Worker :
           at'[v] \in {"looking", "sending", "reporting"} => job'[v] \in Peer \ {p}
    BY <2>1 DEF Assignment, Busy
  <2>7. /\ caller' = "idle" => \A q \in Peer : Untouched(q)'
        /\ \A q \in peerIDs' : Untouched(q)'
    BY <1>0, <2>1, <2>3 DEF Stages
  <2>8. \A v \in Worker :
           /\ at'[v] \in {"looking", "sending"} => Untouched(job[v])'
           /\ at'[v] = "reporting" => Complete(job[v])' /\ results'[job'[v]] = <<>>
    BY <2>1, <2>3, <2>6 DEF Stages
  <2>9. ASSUME NEW q \in Peer
        PROVE  /\ canceller'[q] \in {"sleeping", "sending"} => HalfDone(q)'
               /\ canceller'[q] = "reporting" => Complete(q)' /\ results'[q] = <<>>
               /\ canceller'[q] = "exited" => results'[q] # <<>>
               /\ results'[q] # <<>> => results'[q] = <<status'[q]>> /\ Complete(q)'
               /\ \/ Untouched(q)' \/ results'[q] # <<>> \/ canceller'[q] # "none"
                  \/ \E v \in Worker : at'[v] = "reporting" /\ job'[v] = q
    <3>1. CASE q = p
      BY <2>1, <2>2, <2>4, <2>5, <3>1
    <3>2. CASE q # p
      BY <2>1, <2>3, <2>5, <3>2 DEF Stages, NoneForgotten
    <3> QED
      BY <3>1, <3>2
  <2> QED
    BY <2>7, <2>8, <2>9 DEF Stages, NoneForgotten
<1>12. ASSUME NEW p \in Peer, CancelReports(p) PROVE Stages'
  <2>1. /\ UNCHANGED <<caller, peerIDs, at, job, mode, status, wire>>
        /\ canceller[p] = "reporting"
        /\ p \notin peerIDs /\ caller # "idle"
        /\ \A v \in Worker : job[v] # p
        /\ Complete(p) /\ results[p] = <<>>
        /\ canceller' = [canceller EXCEPT ![p] = "exited"]
    BY <1>12 DEF CancelReports, Stages, Assignment
  <2>2. results' = [results EXCEPT ![p] = <<status[p]>>]
    BY <1>0, <1>12, <2>1 DEF CancelReports
  <2>3. results'[p] = <<status'[p]>> /\ results'[p] # <<>> /\ Complete(p)'
    BY <1>0, <2>1, <2>2 DEF Complete
  <2>4. \A q \in Peer \ {p} : /\ Untouched(q)' <=> Untouched(q)
                              /\ Complete(q)' <=> Complete(q)
                              /\ HalfDone(q)' <=> HalfDone(q)
                              /\ UNCHANGED <<results[q], status[q]>>
    BY <1>0, <1>1, <2>1, <2>2
  <2>5. /\ canceller'[p] = "exited"
        /\ \A q \in Peer \ {p} : canceller'[q] = canceller[q]
    BY <1>0, <2>1
  <2>6. \A v \in Worker :
           at'[v] \in {"looking", "sending", "reporting"} => job'[v] \in Peer \ {p}
    BY <2>1 DEF Assignment, Busy
  <2>7. /\ caller' = "idle" => \A q \in Peer : Untouched(q)'
        /\ \A q \in peerIDs' : Untouched(q)'
    BY <1>0, <2>1, <2>4 DEF Stages
  <2>8. \A v \in Worker :
           /\ at'[v] \in {"looking", "sending"} => Untouched(job[v])'
           /\ at'[v] = "reporting" => Complete(job[v])' /\ results'[job'[v]] = <<>>
    BY <2>1, <2>4, <2>6 DEF Stages
  <2>9. ASSUME NEW q \in Peer
        PROVE  /\ canceller'[q] \in {"sleeping", "sending"} => HalfDone(q)'
               /\ canceller'[q] = "reporting" => Complete(q)' /\ results'[q] = <<>>
               /\ canceller'[q] = "exited" => results'[q] # <<>>
               /\ results'[q] # <<>> => results'[q] = <<status'[q]>> /\ Complete(q)'
               /\ \/ Untouched(q)' \/ results'[q] # <<>> \/ canceller'[q] # "none"
                  \/ \E v \in Worker : at'[v] = "reporting" /\ job'[v] = q
    <3>1. CASE q = p
      BY <2>3, <2>5, <3>1
    <3>2. CASE q # p
      BY <2>1, <2>4, <2>5, <3>2 DEF Stages, NoneForgotten
    <3> QED
      BY <3>1, <3>2
  <2> QED
    BY <2>7, <2>8, <2>9 DEF Stages, NoneForgotten
<1>13. CASE TableStep \/ CollectorExits \/ UNCHANGED vars
  BY <1>2, <1>13 DEF TableStep, CollectorExits, vars
<1> QED
  BY <1>3, <1>4, <1>5, <1>6, <1>7, <1>8, <1>9, <1>10, <1>11, <1>12, <1>13
     DEF Next, CallerStep, WorkerStep, CancelStep, Crashed

\* A peer that keeps its sender is on its way to a result.
Served ==
  /\ caller = "idle" => kept = {}
  /\ \A p \in kept :
       /\ slot[p] \in Sender
       /\ \/ p \in peerIDs \/ canceller[p] # "none" \/ results[p] # <<>>
          \/ \E w \in Worker : job[w] = p

\* At first no peer is known to stay.
LEMMA InitServed == Init => Served
BY DEF Init, Served

\* Every step keeps each peer that stayed in the queue, with a worker or with a result.
LEMMA NextServed == TypeOK /\ Assignment /\ Served /\ [Next]_vars => Served'
<1> SUFFICES ASSUME TypeOK, Assignment, Served, [Next]_vars PROVE Served'
  OBVIOUS
<1> USE BroadcastAssumption, TableAssumption
        DEF requestVars, contextVars, tableVars, callerVars, workerVars, cancelVars,
            sendVars, collectVars
<1>0. /\ at \in [Worker -> {"receiving", "looking", "sending", "reporting", "exited"}]
      /\ job \in [Worker -> Peer \cup {NoPeer}]
      /\ canceller \in [Peer -> {"none", "sleeping", "sending", "reporting", "exited"}]
      /\ results \in [Peer -> Seq(Status)] /\ status \in [Peer -> Status]
      /\ peerIDs \subseteq Peer /\ kept \subseteq Peer
  BY DEF TypeOK
<1>1. CASE UNCHANGED <<caller, kept, slot, peerIDs, job, canceller, results>>
  BY <1>1 DEF Served
<1>2. CASE TableStep
  BY <1>0, <1>2 DEF TableStep, Served
<1>3. CASE Start
  BY <1>0, <1>3 DEF Start, Served
<1>4. CASE CloseWork \/ CloseResults \/ Return
  BY <1>4 DEF CloseWork, CloseResults, Return, Served
<1>5. ASSUME NEW w \in Worker, NEW p \in Peer, Feed(w, p) PROVE Served'
  <2>1. /\ UNCHANGED <<kept, slot, canceller, results>> /\ caller = "feeding" /\ caller' = caller
        /\ peerIDs' = peerIDs \ {p}
        /\ job' = [job EXCEPT ![w] = p]
    BY <1>5 DEF Feed, Fed
  <2>2. job[w] \notin Peer
    BY <1>5 DEF Feed, Assignment, Busy
  <2>3. job'[w] = p /\ \A v \in Worker \ {w} : job'[v] = job[v]
    BY <1>0, <2>1
  <2> QED
    BY <1>0, <2>1, <2>2, <2>3 DEF Served
<1>6. ASSUME NEW w \in Worker, LookUp(w) PROVE Served'
  <2>1. UNCHANGED <<caller, kept, slot, peerIDs, canceller, results>> /\ at[w] = "looking"
    BY <1>6, LookUpCases
  <2>2. CASE slot[job[w]] \notin Sender /\ job' = [job EXCEPT ![w] = NoPeer]
    BY <1>0, <2>1, <2>2 DEF Served
  <2> QED
    BY <1>1, <1>6, <2>1, <2>2, LookUpCases
<1>7. ASSUME NEW w \in Worker, NEW ok \in BOOLEAN, Sent(w, ok) PROVE Served'
  <2>1. UNCHANGED <<caller, kept, slot, peerIDs, results>>
    BY <1>7 DEF Sent
  <2>2. CASE HandsOver
    <3>1. /\ job' = [job EXCEPT ![w] = NoPeer]
          /\ canceller' = [canceller EXCEPT ![job[w]] = "sleeping"]
      BY <1>7, <2>2 DEF Sent
    <3> QED
      BY <1>0, <2>1, <3>1 DEF Served
  <2>3. CASE ~HandsOver
    BY <1>1, <1>7, <2>1, <2>3 DEF Sent
  <2> QED
    BY <2>2, <2>3
<1>8. ASSUME NEW w \in Worker, Report(w) PROVE Served'
  <2>0. PICK p \in Peer : p = job[w]
    BY <1>8 DEF Report, Assignment, Busy
  <2>1. /\ UNCHANGED <<caller, kept, slot, peerIDs, canceller>>
        /\ job' = [job EXCEPT ![w] = NoPeer]
    BY <1>8 DEF Report
  <2>2. /\ results'[p] # <<>>
        /\ \A q \in Peer \ {p} : results'[q] = results[q]
    BY <1>0, <1>8, <2>0, AppendProperties DEF Report
  <2> QED
    BY <1>0, <2>0, <2>1, <2>2 DEF Served
<1>9. ASSUME NEW w \in Worker, WorkerExits(w) PROVE Served'
  BY <1>1, <1>9 DEF WorkerExits
<1>10. ASSUME NEW p \in Peer, Wake(p) \/ \E ok \in BOOLEAN : CancelSent(p, ok)
       PROVE  Served'
  BY <1>0, <1>10 DEF Wake, CancelSent, Served
<1>11. ASSUME NEW p \in Peer, CancelReports(p) PROVE Served'
  <2>1. /\ UNCHANGED <<caller, kept, slot, peerIDs, job>>
        /\ canceller' = [canceller EXCEPT ![p] = "exited"]
        /\ \A q \in Peer \ {p} : results'[q] = results[q]
    BY <1>0, <1>11 DEF CancelReports
  <2> QED
    BY <1>0, <2>1 DEF Served
<1>12. CASE CollectorExits \/ UNCHANGED vars
  BY <1>1, <1>12 DEF CollectorExits, vars
<1> QED
  BY <1>2, <1>3, <1>4, <1>5, <1>6, <1>7, <1>8, <1>9, <1>10, <1>11, <1>12
     DEF Next, CallerStep, WorkerStep, CancelStep, Crashed

-------------------------------------------------------------------------------
(* The inductive invariant and what follows from it *)

IInv ==
  /\ TypeOK /\ Assignment /\ Filled /\ Counted
  /\ SlotsDistinct /\ ReferencesDistinct
  /\ Stages /\ Served

\* The inductive invariant holds in every behaviour.
LEMMA Invariance == Spec => []IInv
<1>1. Init => IInv
  BY InitType, InitAssignment, InitCounted, InitSenders, InitStages, InitServed DEF IInv
<1>2. IInv /\ [Next]_vars => IInv'
  BY NextType, NextAssignment, NextFilled, NextCounted, NextSlots, NextReferences,
     NextStages, NextServed DEF IInv
<1> QED
  BY <1>1, <1>2, PTL DEF Spec

\* Every variable of a broadcast keeps its type; in particular the results are
\* statuses and nothing but a CANCEL or a request goes over the wire.
THEOREM TypeCorrect == Spec => []TypeOK
<1>1. IInv => TypeOK
  BY DEF IInv
<1> QED
  BY <1>1, Invariance, PTL

\* However many workers and peers there are, resultsChan is closed only when all
\* of them have sent their last result: wg.Add and wg.Done of broadcast balance.
THEOREM ClosedWhenDone == Spec => []NoSendOnClosedChannel
<1>1. IInv => NoSendOnClosedChannel
  BY DEF IInv, Counted
<1> QED
  BY <1>1, Invariance, PTL

\* The pointers that the callers of broadcast dereference are never nil.
THEOREM NoNilStatus == Spec => []ResultsDereferenceable
<1>1. IInv => ResultsDereferenceable
  <2> SUFFICES ASSUME IInv, NEW p \in Peer, NEW r \in ToSet(results[p])
               PROVE  /\ mode # "cancel" => r.request # None
                      /\ mode # "want" => r.cancel # None
    BY DEF ResultsDereferenceable
  <2>1. results[p] # <<>>
    BY DEF ToSet
  <2>2. results[p] = <<status[p]>> /\ Complete(p)
    BY <2>1 DEF IInv, Stages
  <2>3. r = status[p]
    BY <2>2 DEF ToSet
  <2> QED
    BY <2>2, <2>3 DEF Complete
<1> QED
  BY <1>1, Invariance, PTL

\* What a broadcast returns is what was sent: one result for a peer that was sent
\* something, naming the parts that reached the wire, none for the others.
THEOREM Truthful == Spec => []ResultsTellTruth
<1>1. IInv => ResultsTellTruth
  <2> SUFFICES ASSUME IInv, caller = "returned", NEW p \in Peer
               PROVE  \/ results[p] = <<>> /\ wire[p] = <<>>
                      \/ Len(results[p]) = 1 /\ wire[p] = Claimed(results[p][1])
    BY DEF ResultsTellTruth
  <2>1. /\ \A w \in Worker : at[w] = "exited"
        /\ canceller[p] \in {"none", "exited"}
    BY DEF IInv, Counted, NoSendOnClosedChannel
  <2>2. CASE results[p] # <<>>
    <3>1. results[p] = <<status[p]>> /\ wire[p] = Claimed(status[p])
      BY <2>2 DEF IInv, Stages, Complete
    <3> QED
      BY <3>1
  <2>3. CASE results[p] = <<>>
    BY <2>1, <2>3 DEF IInv, Stages, NoneForgotten, Untouched
  <2> QED
    BY <2>2, <2>3
<1> QED
  BY <1>1, Invariance, PTL

\* No peer that stays connected is left out of a broadcast, however the feeding
\* interleaves with the changes to the table.
THEOREM EveryoneServed == Spec => []KeptPeersServed
<1>1. IInv => KeptPeersServed
  <2> SUFFICES ASSUME IInv, caller = "returned", NEW p \in kept PROVE results[p] # <<>>
    BY DEF KeptPeersServed
  <2>1. p \in Peer /\ peerIDs = {}
    BY DEF IInv, TypeOK, Assignment
  <2>2. /\ \A w \in Worker : at[w] = "exited"
        /\ canceller[p] \in {"none", "exited"}
    BY <2>1 DEF IInv, Counted, NoSendOnClosedChannel
  <2>3. \A w \in Worker : job[w] # p
    BY <2>1, <2>2 DEF IInv, Assignment, Busy
  <2> QED
    BY <2>1, <2>2, <2>3 DEF IInv, Served, Stages
<1> QED
  BY <1>1, Invariance, PTL

\* Senders do not lock, and need not within one broadcast: no two goroutines are
\* in SendMsg on the same one, though peers come and go under them.
THEOREM SenderExclusive == Spec => []SenderNotShared
<1>1. IInv => SenderNotShared
  <2> SUFFICES ASSUME IInv, NEW s \in Sender PROVE Cardinality(Using(s)) <= 1
    BY DEF SenderNotShared
  <2>1. \A x, y \in Using(s) : x = y
    BY DEF Using, IInv, ReferencesDistinct
  <2>2. CASE Using(s) = {}
    BY <2>2, FS_EmptySet
  <2>3. CASE Using(s) # {}
    <3>1. PICK x \in Using(s) : TRUE
      BY <2>3
    <3>2. Using(s) = {x}
      BY <2>1, <3>1
    <3>3. Cardinality({x}) = 1
      BY FS_Singleton
    <3> QED
      BY <3>2, <3>3
  <2> QED
    BY <2>2, <2>3
<1> QED
  BY <1>1, Invariance, PTL

===============================================================================
