----------------------------- MODULE PluginProofs -----------------------------
(***************************************************************************)
(* Proofs about HttpServer, for any finite numbers of listeners and        *)
(* requests and any number of callers of Shutdown; and about Plugin: that  *)
(* to its clients it is an HttpServer, and what holds while it runs and    *)
(* when Close has returned.                                                *)
(***************************************************************************)
EXTENDS Plugin, FiniteSetTheorems, TLAPS

-------------------------------------------------------------------------------
(* The server: type correctness *)

\* A response has one of four status codes.
LEMMA StatusType == \A e \in Error \cup {None} : Status(e) \in {200, 400, 500, 503}
BY DEF Status, Code, Error

\* Waking those who wait in Shutdown keeps their types.
LEMMA WokenType ==
  ASSUME TypeOK, NEW n
  PROVE  Woken(n) \in [Stopper -> {"idle", "closing", "waiting", "woken", "returned", "skipped"}]
BY DEF TypeOK, Woken

\* The initial states are of their types.
LEMMA InitType == Init => TypeOK
<1> SUFFICES ASSUME Init PROVE TypeOK
  OBVIOUS
<1>1. stopper \in [Stopper -> {"idle", "closing", "waiting", "woken", "returned", "skipped"}]
  BY DEF Init, HttpInit
<1>2. request \in [Request -> {"none", "received", "admitted", "running", "handled", "answered"}]
  BY DEF Init, HttpInit
<1>3. input \in [Request -> Input \cup {None}] /\ failure \in [Request -> Error \cup {None}]
  BY DEF Init, HttpInit
<1>4. response \in [Request -> JSONResponse \cup {None}]
  BY DEF Init, HttpInit
<1>5. called \in [Request -> Outcome \cup {None}]
  BY DEF Init, HttpInit
<1>6. /\ server \in {"new", "failed", "bound", "serving"}
      /\ listeners \subseteq Listener /\ serving \subseteq Listener
      /\ closing \in BOOLEAN /\ probe \in BOOLEAN
  BY DEF Init, HttpInit
<1>7. /\ wg \in Int
      /\ process \in {"running", "panicked"}
      /\ late \subseteq Request /\ inWindow \subseteq Request
  BY DEF Init, HttpInit
<1> QED
  BY <1>1, <1>2, <1>3, <1>4, <1>5, <1>6, <1>7 DEF TypeOK

\* Every step keeps the types.
LEMMA NextType == TypeOK /\ [Next]_httpVars => TypeOK'
<1> SUFFICES ASSUME TypeOK, [Next]_httpVars PROVE TypeOK'
  OBVIOUS
<1> USE DEF serverVars, stopVars, requestVars
<1>1. CASE NewServer
  BY <1>1 DEF TypeOK, NewServer, Bind, BindFails, AllBound
<1>2. CASE (\E l \in Listener : Serve(l)) \/ StartServer
  BY <1>2 DEF TypeOK, Serve, StartServer
<1>3. ASSUME NEW l \in Listener, ServeReturns(l) PROVE TypeOK'
  <2>1. stopper' = Woken(wg') /\ wg' \in Int
    BY <1>3 DEF TypeOK, ServeReturns, Served
  <2> QED
    BY <1>3, <2>1, WokenType DEF TypeOK, ServeReturns
<1>4. ASSUME NEW r \in Request, NEW i \in Input, Receive(r, i) PROVE TypeOK'
  BY <1>4 DEF TypeOK, Receive
<1>5. ASSUME NEW r \in Request, CheckClosing(r) PROVE TypeOK'
  BY <1>5 DEF TypeOK, CheckClosing, Error, Code
<1>6. ASSUME NEW r \in Request, EnterWaitGroup(r) PROVE TypeOK'
  BY <1>6 DEF TypeOK, EnterWaitGroup, Accounted
<1>7. ASSUME NEW r \in Request, Handle(r) PROVE TypeOK'
  <2>1. stopper' = Woken(wg') /\ wg' \in Int
    BY <1>7 DEF TypeOK, Handle
  <2>2. /\ request' \in [Request -> {"none", "received", "admitted", "running", "handled", "answered"}]
        /\ failure' \in [Request -> Error \cup {None}]
        /\ called' \in [Request -> Outcome \cup {None}]
    BY <1>7 DEF TypeOK, Handle, Outcome, Translated, AfterPanic, Error, Code, ApiOutcome
  <2> QED
    BY <1>7, <2>1, <2>2, WokenType DEF TypeOK, Handle
<1>13. ASSUME NEW r \in Request, WorkerPanics(r) PROVE TypeOK'
  BY <1>13 DEF TypeOK, WorkerPanics, Outcome
<1>8. ASSUME NEW r \in Request, Respond(r) PROVE TypeOK'
  <2>1. failure[r] \in Error \cup {None}
    BY DEF TypeOK
  <2>2. [status |-> Status(failure[r]), result |-> failure[r] = None, error |-> failure[r]]
          \in JSONResponse
    BY <2>1, StatusType DEF JSONResponse
  <2> QED
    BY <1>8, <2>2 DEF TypeOK, Respond
<1>9. ASSUME NEW t \in Stopper, ShutdownStarts(t) PROVE TypeOK'
  BY <1>9 DEF TypeOK, ShutdownStarts
<1>10. ASSUME NEW t \in Stopper, NEW l \in Listener, ShutdownCloses(t, l) PROVE TypeOK'
  BY <1>10 DEF TypeOK, ShutdownCloses
<1>11. ASSUME NEW t \in Stopper, ShutdownWaits(t) \/ ShutdownReturns(t) PROVE TypeOK'
  BY <1>11 DEF TypeOK, ShutdownWaits, ShutdownReturns
<1>12. CASE UNCHANGED httpVars
  BY <1>12 DEF TypeOK, httpVars
<1> QED
  BY <1>1, <1>2, <1>3, <1>4, <1>5, <1>6, <1>7, <1>8, <1>9, <1>10, <1>11, <1>12, <1>13
     DEF Next, Serving, Handling, Stopping

\* Every variable of the server keeps its type.
THEOREM ServerTypeCorrect == Spec => []TypeOK
<1>1. QED
  BY InitType, NextType, PTL DEF Spec

-------------------------------------------------------------------------------
(* Requests *)

\* Only the steps of a request, in a process that runs, change what is known of it;
\* a server that closes goes on closing, and a process that ended is not revived.
LEMMA RequestSteps ==
  ASSUME TypeOK, [Next]_httpVars
  PROVE  /\ closing => closing'
         /\ process = "panicked" => process' = "panicked"
         /\ \/ /\ process = "running"
               /\ \E r \in Request : (\E i \in Input : Receive(r, i)) \/ Handling(r)
            \/ UNCHANGED requestVars
<1>1. CASE NewServer
  BY <1>1 DEF NewServer, Bind, BindFails, AllBound, stopVars
<1>2. CASE (\E l \in Listener : Serve(l)) \/ StartServer
  BY <1>2 DEF Serve, StartServer, stopVars
<1>3. CASE process = "running" /\ Serving
  BY <1>3 DEF Serving, ServeReturns, Receive, Handling, CheckClosing, EnterWaitGroup,
              Handle, WorkerPanics, Respond, stopVars
<1>4. ASSUME process = "running", NEW t \in Stopper, ShutdownStarts(t) \/ Stopping(t)
      PROVE  (closing => closing') /\ UNCHANGED requestVars
  BY <1>4 DEF ShutdownStarts, Stopping, ShutdownCloses, ShutdownWaits, ShutdownReturns,
              stopVars
<1>5. CASE UNCHANGED httpVars
  BY <1>5 DEF httpVars, stopVars
<1> QED
  BY <1>1, <1>2, <1>3, <1>4, <1>5 DEF Next

\* What makes LateRequestsRefused inductive: a late request stays in front of the
\* closing check or behind the handler, and neither an error nor an API call is
\* known of a request before it has left the handler, unless the call has ended
\* the process.
LateInv ==
  /\ \A r \in late : closing /\ request[r] \in {"received", "handled", "answered"}
  /\ \A r \in late : called[r] = None
  /\ \A r \in Request : failure[r] = "closing" => closing /\ called[r] = None
  /\ \A r \in Request : request[r] \notin {"handled", "answered"}
                         => failure[r] = None /\ called[r] \in {None, "workerPanic"}
  /\ \A r \in Request : called[r] = "workerPanic"
                         => process = "panicked" /\ request[r] = "running"

\* Every step keeps late requests from the API.
LEMMA LateStep == TypeOK /\ LateInv /\ [Next]_httpVars => LateInv'
<1> SUFFICES ASSUME TypeOK, LateInv, [Next]_httpVars PROVE LateInv'
  OBVIOUS
<1>0. (closing => closing') /\ (process = "panicked" => process' = "panicked")
  BY RequestSteps
<1>1. CASE UNCHANGED requestVars
  BY <1>0, <1>1 DEF LateInv, requestVars
<1>a. ASSUME process = "running" PROVE \A r \in Request : called[r] # "workerPanic"
  BY <1>a DEF LateInv
<1>2. ASSUME process = "running", NEW r \in Request, NEW i \in Input, Receive(r, i)
      PROVE  LateInv'
  BY <1>2, <1>a DEF TypeOK, LateInv, Receive, stopVars
<1>3. ASSUME process = "running", NEW r \in Request, CheckClosing(r) PROVE LateInv'
  BY <1>3, <1>a DEF TypeOK, LateInv, CheckClosing, SeesClosing, stopVars
<1>4. ASSUME process = "running", NEW r \in Request, EnterWaitGroup(r) PROVE LateInv'
  BY <1>4, <1>a DEF TypeOK, LateInv, EnterWaitGroup, stopVars
<1>5. ASSUME process = "running", NEW r \in Request, Handle(r) PROVE LateInv'
  <2>1. failure'[r] # "closing" /\ request'[r] = "handled"
    BY <1>5, HttpAssumption DEF TypeOK, Handle, Translated, AfterPanic
  <2>2. called'[r] # "workerPanic"
    BY <1>5, <1>a DEF TypeOK, Handle
  <2> QED
    BY <1>5, <1>a, <2>1, <2>2 DEF TypeOK, LateInv, Handle
<1>6. ASSUME process = "running", NEW r \in Request, WorkerPanics(r) PROVE LateInv'
  <2>1. request[r] = "running" /\ r \notin late /\ failure[r] = None
    BY <1>6 DEF LateInv, WorkerPanics
  <2> QED
    BY <1>6, <1>a, <2>1, HttpAssumption DEF TypeOK, LateInv, WorkerPanics
<1>7. ASSUME process = "running", NEW r \in Request, Respond(r) PROVE LateInv'
  BY <1>7, <1>a DEF TypeOK, LateInv, Respond, stopVars
<1> QED
  BY <1>1, <1>2, <1>3, <1>4, <1>5, <1>6, <1>7, RequestSteps DEF Handling

\* The invariant contains the property about late requests.
LEMMA LateImplies == TypeOK /\ LateInv => LateRequestsRefused
BY DEF TypeOK, LateInv, LateRequestsRefused

\* What makes AnswersTellTruth inductive: once a request has left the handler its
\* error says how the API call ended, and a response says what the error was.
ErrorTellsTruth(r) ==
  /\ (failure[r] = None) = (called[r] = "response")
  /\ (failure[r] = "internal") = (called[r] = "panic")
  /\ (failure[r] = "notEnabled") = (called[r] = "disabled")
  /\ failure[r] = "invalid" => input[r] = "malformed"
  /\ failure[r] = "closing" => closing

AnswerInv ==
  /\ \A r \in Request : request[r] \in {"handled", "answered"} => ErrorTellsTruth(r)
  /\ \A r \in Request : request[r] # "answered" => response[r] = None
  /\ \A r \in Request : response[r] # None =>
       response[r] = [status |-> Status(failure[r]),
                      result |-> failure[r] = None,
                      error  |-> failure[r]]

\* Every step keeps answers in agreement with their requests.
LEMMA AnswerStep == TypeOK /\ LateInv /\ AnswerInv /\ [Next]_httpVars => AnswerInv'
<1> SUFFICES ASSUME TypeOK, LateInv, AnswerInv, [Next]_httpVars PROVE AnswerInv'
  OBVIOUS
<1>0. closing => closing'
  BY RequestSteps
<1>1. CASE UNCHANGED requestVars
  BY <1>0, <1>1 DEF AnswerInv, ErrorTellsTruth, requestVars
<1>2. ASSUME NEW r \in Request, NEW i \in Input, Receive(r, i) PROVE AnswerInv'
  BY <1>2 DEF TypeOK, AnswerInv, ErrorTellsTruth, Receive, stopVars
<1>3. ASSUME NEW r \in Request, CheckClosing(r) PROVE AnswerInv'
  <2>1. request'[r] = "handled" => closing /\ failure'[r] = "closing" /\ called[r] = None
    BY <1>3 DEF TypeOK, LateInv, CheckClosing, SeesClosing
  <2>2. request'[r] = "handled" => ErrorTellsTruth(r)'
    BY <1>3, <2>1, HttpAssumption DEF ErrorTellsTruth, CheckClosing, stopVars
  <2> QED
    BY <1>3, <2>2 DEF TypeOK, AnswerInv, ErrorTellsTruth, CheckClosing, stopVars
<1>4. ASSUME NEW r \in Request, EnterWaitGroup(r) PROVE AnswerInv'
  BY <1>4 DEF TypeOK, AnswerInv, ErrorTellsTruth, EnterWaitGroup, stopVars
<1>5. ASSUME process = "running", NEW r \in Request, Handle(r) PROVE AnswerInv'
  <2>1. called[r] = None
    BY <1>5 DEF LateInv, Handle
  <2>2. ErrorTellsTruth(r)'
    BY <1>5, <2>1, HttpAssumption
       DEF TypeOK, ErrorTellsTruth, Handle, ApiOutcome, Translated
  <2>3. /\ \A q \in Request \ {r} : /\ request'[q] = request[q] /\ failure'[q] = failure[q]
                                   /\ called'[q] = called[q]
        /\ request[r] = "running" /\ UNCHANGED <<closing, input, response>>
    BY <1>5 DEF TypeOK, Handle
  <2> QED
    BY <2>2, <2>3 DEF AnswerInv, ErrorTellsTruth
<1>6. ASSUME NEW r \in Request, Respond(r) PROVE AnswerInv'
  BY <1>6 DEF TypeOK, AnswerInv, ErrorTellsTruth, Respond, stopVars
<1>7. ASSUME NEW r \in Request, WorkerPanics(r) PROVE AnswerInv'
  BY <1>7 DEF TypeOK, AnswerInv, ErrorTellsTruth, WorkerPanics
<1> QED
  BY <1>1, <1>2, <1>3, <1>4, <1>5, <1>6, <1>7, RequestSteps DEF Handling

\* The invariant contains the property about answers.
LEMMA AnswerImplies == TypeOK /\ AnswerInv => AnswersTellTruth
<1> SUFFICES ASSUME TypeOK, AnswerInv, NEW r \in Request, response[r] # None
             PROVE  LET a == response[r] IN
                      /\ a.result = (called[r] = "response") /\ a.result = (a.status = 200)
                      /\ (a.status = 500) = (called[r] = "panic")
                      /\ a.status = 400 => \/ input[r] = "malformed" /\ a.error = "invalid"
                                           \/ called[r] = "disabled" /\ a.error = "notEnabled"
                      /\ (a.status = 503) = (a.error = "closing")
                      /\ a.status = 503 => closing
  BY DEF AnswersTellTruth
<1>1. ErrorTellsTruth(r)
  BY DEF TypeOK, AnswerInv
<1>2. /\ response[r].status = Status(failure[r])
      /\ response[r].result = (failure[r] = None)
      /\ response[r].error = failure[r]
  <2>1. response[r] = [status |-> Status(failure[r]),
                       result |-> failure[r] = None,
                       error  |-> failure[r]]
    BY DEF AnswerInv
  <2>2. response[r].status = Status(failure[r])
    BY <2>1
  <2>3. response[r].result = (failure[r] = None)
    BY <2>1
  <2>4. response[r].error = failure[r]
    BY <2>1
  <2> QED
    BY <2>2, <2>3, <2>4
<1>3. failure[r] \in {"closing", "internal", "invalid", "notEnabled"} \cup {None}
  BY DEF TypeOK, Error, Code
<1>4. Status(failure[r]) = CASE failure[r] = None -> 200
                             [] failure[r] = "closing" -> 503
                             [] failure[r] = "internal" -> 500
                             [] failure[r] \in {"invalid", "notEnabled"} -> 400
  BY <1>3, HttpAssumption DEF Status, Code
<1> QED
  BY <1>1, <1>2, <1>3, <1>4, HttpAssumption DEF ErrorTellsTruth

\* At first there is no request and no answer.
LEMMA InitAnswers == Init => LateInv /\ AnswerInv
BY HttpAssumption DEF Init, HttpInit, LateInv, AnswerInv

\* A request that arrives after closing has begun never reaches the API.
THEOREM LateRefused == Spec => []LateRequestsRefused
BY InitAnswers, LateImplies, LateStep, ServerTypeCorrect, PTL DEF Spec

\* The status and the body of every response are those of what happened to its
\* request in the API, whatever the layers of decorators in between.
THEOREM AnswersTrue == Spec => []AnswersTellTruth
BY InitAnswers, AnswerImplies, LateStep, AnswerStep, ServerTypeCorrect, PTL DEF Spec

-------------------------------------------------------------------------------
(* The server: the WaitGroup and Shutdown *)

RunningRequests == {r \in Request : request[r] = "running"}

\* With WaitGroupExact, what the server waits for: no request comes before a
\* listener is served, and nobody shuts down what has not started.
CountInv ==
  /\ WaitGroupExact
  /\ server \notin {"bound", "serving"}
       => serving = {} /\ \A r \in Request : request[r] = "none"
  /\ server # "serving" => ~closing /\ \A t \in Stopper : stopper[t] = "idle"

\* The WaitGroup counts finite sets.
LEMMA RunningFinite == ASSUME TypeOK
                       PROVE  /\ IsFiniteSet(RunningRequests)
                              /\ Cardinality(RunningRequests) \in Nat
                              /\ IsFiniteSet(serving) /\ Cardinality(serving) \in Nat
BY HttpAssumption, FS_Subset, FS_CardinalityType DEF TypeOK, RunningRequests

\* At first the WaitGroup counts nothing.
LEMMA InitCounts == Init => CountInv
<1> SUFFICES ASSUME Init PROVE CountInv
  OBVIOUS
<1>1. RunningRequests = {} /\ serving = {} /\ wg = 0
  BY DEF Init, HttpInit, RunningRequests
<1>2. WaitGroupExact
  BY <1>1, FS_EmptySet DEF WaitGroupExact, RunningRequests
<1> QED
  BY <1>2 DEF Init, HttpInit, CountInv

\* Every step keeps the WaitGroup equal to what runs.
LEMMA CountStep == TypeOK /\ CountInv /\ [Next]_httpVars => CountInv'
<1> SUFFICES ASSUME TypeOK, CountInv, [Next]_httpVars PROVE CountInv'
  OBVIOUS
<1>0. wg = Cardinality(serving) + Cardinality(RunningRequests)
  BY DEF CountInv, WaitGroupExact, RunningRequests
<1>a. ASSUME wg' = Cardinality(serving') + Cardinality(RunningRequests')
      PROVE  WaitGroupExact'
  BY <1>a DEF WaitGroupExact, RunningRequests
<1> USE DEF serverVars, stopVars, requestVars
<1>1. CASE NewServer
  <2>1. UNCHANGED <<request, serving, wg, closing, stopper>> /\ server = "new"
    BY <1>1 DEF NewServer, Bind, BindFails, AllBound
  <2> QED
    BY <2>1 DEF CountInv, WaitGroupExact
<1>2. CASE StartServer
  BY <1>2 DEF CountInv, WaitGroupExact, StartServer
<1>9. ASSUME NEW l \in Listener, Serve(l) PROVE CountInv'
  <2>1. Cardinality(serving') = Cardinality(serving) + 1
    BY <1>9, RunningFinite, FS_AddElement DEF Serve
  <2>2. RunningRequests' = RunningRequests
    BY <1>9 DEF Serve, RunningRequests
  <2>3. WaitGroupExact'
    BY <1>0, <1>9, <1>a, <2>1, <2>2, RunningFinite DEF Serve
  <2> QED
    BY <1>9, <2>3 DEF CountInv, Serve
<1>3. ASSUME NEW l \in Listener, ServeReturns(l) PROVE CountInv'
  <2>1. Cardinality(serving') = Cardinality(serving) - 1
    BY <1>3, RunningFinite, FS_RemoveElement DEF ServeReturns
  <2>2. RunningRequests' = RunningRequests
    BY <1>3 DEF ServeReturns, RunningRequests
  <2>3. wg' = wg - 1
    BY <1>3 DEF ServeReturns, Served
  <2>4. WaitGroupExact'
    BY <1>0, <1>a, <2>1, <2>2, <2>3, RunningFinite
  <2>5. server \in {"bound", "serving"} /\ UNCHANGED <<server, closing>>
    BY <1>3 DEF CountInv, ServeReturns
  <2>6. stopper' = Woken(wg')
    BY <1>3 DEF ServeReturns
  <2> QED
    BY <2>4, <2>5, <2>6 DEF CountInv, Woken
<1>4. ASSUME NEW r \in Request,
             (\E i \in Input : Receive(r, i)) \/ CheckClosing(r) \/ Respond(r)
      PROVE  CountInv'
  <2>1. RunningRequests' = RunningRequests
    BY <1>4 DEF TypeOK, Receive, CheckClosing, Respond, RunningRequests
  <2>2. UNCHANGED <<wg, serving, server, closing, stopper>> /\ server \in {"bound", "serving"}
    BY <1>4 DEF CountInv, Receive, CheckClosing, Respond
  <2> QED
    BY <1>0, <1>a, <2>1, <2>2 DEF CountInv
<1>5. ASSUME NEW r \in Request, EnterWaitGroup(r) PROVE CountInv'
  <2>1. RunningRequests' = RunningRequests \cup {r} /\ r \notin RunningRequests
    BY <1>5 DEF TypeOK, EnterWaitGroup, RunningRequests
  <2>2. Cardinality(RunningRequests') = Cardinality(RunningRequests) + 1
    BY <2>1, RunningFinite, FS_AddElement
  <2>3. UNCHANGED <<serving, server, closing, stopper>> /\ server \in {"bound", "serving"}
        /\ wg' = wg + 1
    BY <1>5 DEF CountInv, EnterWaitGroup, Accounted
  <2> QED
    BY <1>0, <1>a, <2>2, <2>3, RunningFinite DEF CountInv
<1>6. ASSUME NEW r \in Request, Handle(r) PROVE CountInv'
  <2>1. RunningRequests' = RunningRequests \ {r} /\ r \in RunningRequests
    BY <1>6 DEF TypeOK, Handle, AfterPanic, RunningRequests
  <2>2. Cardinality(RunningRequests') = Cardinality(RunningRequests) - 1
    BY <2>1, RunningFinite, FS_RemoveElement
  <2>3. UNCHANGED <<serving, server, closing>> /\ server \in {"bound", "serving"}
        /\ wg' = wg - 1 /\ stopper' = Woken(wg')
    BY <1>6 DEF CountInv, Handle
  <2> QED
    BY <1>0, <1>a, <2>2, <2>3, RunningFinite DEF CountInv, Woken
<1>10. ASSUME NEW r \in Request, WorkerPanics(r) PROVE CountInv'
  BY <1>10 DEF CountInv, WaitGroupExact, WorkerPanics
<1>7. ASSUME NEW t \in Stopper, ShutdownStarts(t) \/ Stopping(t) PROVE CountInv'
  <2>1. UNCHANGED <<request, serving, server, wg>> /\ server = "serving"
    BY <1>7 DEF CountInv, ShutdownStarts, Stopping, ShutdownCloses, ShutdownWaits,
                ShutdownReturns
  <2> QED
    BY <2>1 DEF CountInv, WaitGroupExact
<1>8. CASE UNCHANGED httpVars
  BY <1>8 DEF CountInv, WaitGroupExact, httpVars
<1> QED
  BY <1>1, <1>2, <1>3, <1>4, <1>5, <1>6, <1>7, <1>8, <1>9, <1>10 DEF Next, Serving, Handling

\* The WaitGroup counts exactly the listener goroutines and the running requests.
THEOREM WaitGroupCounts == Spec => []WaitGroupExact
<1>1. CountInv => WaitGroupExact
  BY DEF CountInv
<1> QED
  BY <1>1, InitCounts, CountStep, ServerTypeCorrect, PTL DEF Spec

\* A caller of Shutdown that has returned stays so.
LEMMA ReturnedStays ==
  ASSUME TypeOK, [Next]_httpVars, NEW t \in Stopper, stopper[t] = "returned"
  PROVE  stopper'[t] = "returned"
<1> USE DEF TypeOK, serverVars, stopVars, requestVars
<1>1. CASE NewServer \/ (\E l \in Listener : Serve(l)) \/ StartServer
  BY <1>1 DEF NewServer, Bind, BindFails, AllBound, Serve, StartServer
<1>2. CASE Serving
  BY <1>2 DEF Serving, ServeReturns, Receive, Handling, CheckClosing, EnterWaitGroup,
              Handle, WorkerPanics, Respond, Woken
<1>3. ASSUME NEW u \in Stopper, ShutdownStarts(u) \/ Stopping(u)
      PROVE  stopper'[t] = "returned"
  BY <1>3 DEF ShutdownStarts, Stopping, ShutdownCloses, ShutdownWaits, ShutdownReturns
<1>4. CASE UNCHANGED httpVars
  BY <1>4 DEF httpVars
<1> QED
  BY <1>1, <1>2, <1>3, <1>4 DEF Next

\* What makes ShutdownDrains inductive: nobody gets past the check after closing, and
\* who waits has closed every listener.
DrainInv ==
  /\ closing => \A r \in Request : request[r] = "admitted" => r \in inWindow
  /\ ~closing => \A t \in Stopper : stopper[t] = "idle"
  /\ \A t \in Stopper : stopper[t] \in {"waiting", "woken"} => listeners = {}
  /\ ShutdownDrains

\* When the counter is zero nobody is left to wait for.
LEMMA ZeroMeansNobody ==
  ASSUME TypeOK, CountInv, wg = 0
  PROVE  serving = {} /\ \A r \in Request : request[r] # "running"
<1>1. Cardinality(serving) = 0 /\ Cardinality(RunningRequests) = 0
  BY RunningFinite DEF CountInv, WaitGroupExact, RunningRequests
<1>2. serving = {} /\ RunningRequests = {}
  BY <1>1, RunningFinite, FS_EmptySet
<1> QED
  BY <1>2 DEF RunningRequests

\* Every step keeps what a Shutdown that returned has waited for ended.
LEMMA DrainStep == TypeOK /\ CountInv /\ DrainInv /\ [Next]_httpVars => DrainInv'
<1> SUFFICES ASSUME TypeOK, CountInv, DrainInv, [Next]_httpVars PROVE DrainInv'
  OBVIOUS
<1> USE DEF serverVars, stopVars, requestVars
<1>1. CASE NewServer \/ (\E l \in Listener : Serve(l)) \/ StartServer
  <2>1. server # "serving" /\ UNCHANGED <<closing, stopper, inWindow, request>>
    BY <1>1 DEF NewServer, Bind, BindFails, AllBound, Serve, StartServer
  <2> QED
    BY <2>1 DEF CountInv, DrainInv, ShutdownDrains
<1>2. ASSUME NEW l \in Listener, ServeReturns(l) PROVE DrainInv'
  <2>1. stopper' = Woken(wg') /\ serving' \subseteq serving
    BY <1>2 DEF ServeReturns
  <2> QED
    BY <1>2, <2>1 DEF TypeOK, DrainInv, ShutdownDrains, ServeReturns, Woken
<1>3. ASSUME NEW r \in Request,
             (\E i \in Input : Receive(r, i)) \/ CheckClosing(r) \/ Respond(r)
      PROVE  DrainInv'
  BY <1>3 DEF TypeOK, DrainInv, ShutdownDrains, Receive, CheckClosing, SeesClosing, Respond
<1>4. ASSUME NEW r \in Request, EnterWaitGroup(r) \/ WorkerPanics(r) PROVE DrainInv'
  BY <1>4 DEF TypeOK, DrainInv, ShutdownDrains, EnterWaitGroup, WorkerPanics
<1>5. ASSUME NEW r \in Request, Handle(r) PROVE DrainInv'
  <2>1. stopper' = Woken(wg') /\ request'[r] = "handled"
    BY <1>5 DEF TypeOK, Handle, AfterPanic
  <2>2. \A q \in Request \ {r} : request'[q] = request[q]
    BY <1>5 DEF TypeOK, Handle
  <2>3. UNCHANGED <<listeners, serving, closing, inWindow>>
    BY <1>5 DEF Handle
  <2> QED
    BY <2>1, <2>2, <2>3 DEF TypeOK, DrainInv, ShutdownDrains, Woken
<1>6. ASSUME NEW t \in Stopper, ShutdownStarts(t) PROVE DrainInv'
  BY <1>6 DEF TypeOK, DrainInv, ShutdownDrains, ShutdownStarts
<1>7. ASSUME NEW t \in Stopper, NEW l \in Listener, ShutdownCloses(t, l) PROVE DrainInv'
  BY <1>7 DEF TypeOK, DrainInv, ShutdownDrains, ShutdownCloses
<1>8. ASSUME NEW t \in Stopper, ShutdownWaits(t) \/ ShutdownReturns(t) PROVE DrainInv'
  <2>1. closing /\ listeners = {} /\ UNCHANGED <<listeners, serving, closing, inWindow, request>>
    BY <1>8 DEF DrainInv, ShutdownWaits, ShutdownReturns
  <2>2. stopper'[t] = "returned" => wg = 0
    BY <1>8 DEF TypeOK, ShutdownWaits, ShutdownReturns
  <2>3. \A u \in Stopper \ {t} : stopper'[u] = stopper[u]
    BY <1>8 DEF TypeOK, ShutdownWaits, ShutdownReturns
  <2>4. stopper'[t] = "returned"
          => serving = {} /\ \A r \in Request : request[r] # "running"
    BY <2>2, ZeroMeansNobody
  <2> QED
    BY <2>1, <2>3, <2>4 DEF TypeOK, DrainInv, ShutdownDrains
<1>9. CASE UNCHANGED httpVars
  BY <1>9 DEF DrainInv, ShutdownDrains, httpVars
<1> QED
  BY <1>1, <1>2, <1>3, <1>4, <1>5, <1>6, <1>7, <1>8, <1>9
     DEF Next, Serving, Handling, Stopping

\* At first no Shutdown has returned.
LEMMA InitDrains == Init => DrainInv
BY DEF Init, HttpInit, DrainInv, ShutdownDrains

\* When Shutdown has returned the listeners are closed, their goroutines have ended,
\* and only requests that were between the check and the WaitGroup at closing may
\* still be in the API or reach it.
THEOREM ShutdownDrained == Spec => []ShutdownDrains
<1>1. DrainInv => ShutdownDrains
  BY DEF DrainInv
<1> QED
  BY <1>1, InitCounts, InitDrains, CountStep, DrainStep, ServerTypeCorrect, PTL DEF Spec

-------------------------------------------------------------------------------
(* The server in the plugin *)

\* A step of the plugin is a step of its server, or sets the probe of the API.
LEMMA ServerSteps ==
  ASSUME [PluginNext]_vars
  PROVE  \/ [Next]_httpVars
         \/ probe' = enabled /\ start = "initialised"
            /\ UNCHANGED <<serverVars, stopVars, requestVars, wg>>
<1>1. CASE PluginInitialised \/ InitFails \/ StartFails \/ StartLoop \/ ProbeStops \/ LoopExits
  BY <1>1 DEF PluginInitialised, InitFails, StartFails, StartLoop, ProbeStops, LoopExits
<1>2. CASE StartProbe
  BY <1>2 DEF StartProbe
<1>3. CASE process = "running" /\ (StartBinds \/ StartServes \/ StartReturns)
  BY <1>3 DEF StartBinds, StartServes, StartReturns, Next
<1>4. CASE process = "running" /\ Serving
  BY <1>4 DEF Next
<1>5. ASSUME NEW k \in Stopper, process = "running", CallClose(k) \/ Closing(k)
      PROVE  [Next]_httpVars
  BY <1>5 DEF CallClose, Closing, CloseStarts, CloseRepeats, CloseAsksProbe, CloseGoesOn,
              CloseServer, CloseReturns, Next
<1>6. CASE UNCHANGED vars
  BY <1>6 DEF vars
<1> QED
  BY <1>1, <1>2, <1>3, <1>4, <1>5, <1>6 DEF PluginNext, Start

ServerInv == TypeOK /\ CountInv /\ DrainInv /\ LateInv /\ AnswerInv

\* Every step of the plugin keeps the invariant of the HTTP server.
LEMMA ServerInvStep ==
  ServerInv /\ enabled \in BOOLEAN /\ [PluginNext]_vars => ServerInv'
<1> SUFFICES ASSUME ServerInv, enabled \in BOOLEAN, [PluginNext]_vars PROVE ServerInv'
  OBVIOUS
<1>1. CASE [Next]_httpVars
  BY <1>1, NextType, CountStep, DrainStep, LateStep, AnswerStep DEF ServerInv
<1>2. CASE /\ probe' = enabled
           /\ UNCHANGED <<serverVars, stopVars, requestVars, wg>>
  <2> USE DEF serverVars, stopVars, requestVars
  <2>1. TypeOK'
    BY <1>2 DEF ServerInv, TypeOK
  <2>2. CountInv' /\ DrainInv'
    BY <1>2 DEF ServerInv, CountInv, WaitGroupExact, DrainInv, ShutdownDrains
  <2>3. LateInv' /\ AnswerInv'
    BY <1>2 DEF ServerInv, LateInv, AnswerInv, ErrorTellsTruth
  <2> QED
    BY <2>1, <2>2, <2>3 DEF ServerInv
<1> QED
  BY <1>1, <1>2, ServerSteps

-------------------------------------------------------------------------------
(* The plugin around it *)

\* The initial states are of their types.
LEMMA PluginInitType == PluginInit => PluginTypeOK
<1> SUFFICES ASSUME PluginInit PROVE PluginTypeOK
  OBVIOUS
<1>1. Init
  BY DEF PluginInit, Init
<1>2. TypeOK
  BY <1>1, InitType
<1>3. closer \in [Stopper -> {"idle", "called", "probe", "server", "returned", "repeated"}]
  BY DEF PluginInit
<1> QED
  BY <1>2, <1>3, PluginAssumption DEF PluginInit, PluginTypeOK

\* What only the plugin's own steps change.
PluginOwn ==
  /\ enabled \in BOOLEAN /\ interval \in Int /\ cutOff \in Int /\ pluginClosing \in BOOLEAN
  /\ start \in {"new", "initialised", "probed", "binding", "started", "failed"}
  /\ discovery \in {"off", "running", "closing", "stopped"}
  /\ loop \in {"none", "running", "exited"}
  /\ closingLock \in Stopper \cup {None}
  /\ closer \in [Stopper -> {"idle", "called", "probe", "server", "returned", "repeated"}]

\* Every step keeps the types of the plugin's own variables.
LEMMA PluginOwnStep == PluginOwn /\ [PluginNext]_vars => PluginOwn'
<1> SUFFICES ASSUME PluginOwn, [PluginNext]_vars PROVE PluginOwn'
  OBVIOUS
<1> USE DEF PluginOwn, confVars, startVars, closeVars
<1>1. CASE PluginInitialised \/ InitFails
  BY <1>1 DEF PluginInitialised, InitFails, Normalised
<1>2. CASE StartFails \/ StartProbe \/ StartLoop \/ StartBinds \/ StartReturns
  BY <1>2 DEF StartFails, StartProbe, StartLoop, StartBinds, StartReturns
<1>3. CASE ProbeStops \/ LoopExits
  BY <1>3 DEF ProbeStops, LoopExits
<1>4. ASSUME NEW k \in Stopper, CallClose(k) \/ CloseStarts(k) \/ CloseRepeats(k)
      PROVE  PluginOwn'
  BY <1>4 DEF CallClose, CloseStarts, CloseRepeats
<1>5. ASSUME NEW k \in Stopper, CloseAsksProbe(k) \/ CloseGoesOn(k) \/ CloseReturns(k)
      PROVE  PluginOwn'
  BY <1>5 DEF CloseAsksProbe, CloseGoesOn, CloseReturns
<1>6. CASE UNCHANGED pluginVars
  BY <1>6 DEF pluginVars
<1> QED
  BY <1>1, <1>2, <1>3, <1>4, <1>5, <1>6
     DEF PluginNext, Start, StartServes, Closing, CloseServer, vars, pluginVars

\* Start goes through its steps before anybody can call Close, and the Close that
\* does the work leaves each part behind it ended.
LifeInv ==
  /\ start \in {"new", "initialised"} => discovery = "off"
  /\ start = "new" => loop = "none"
  /\ start \in {"initialised", "probed", "binding", "started"} => interval > 0 /\ cutOff > 0
  /\ start \in {"probed", "binding", "started"} /\ ~pluginClosing
       => discovery = IF enabled THEN "running" ELSE "off"
  /\ start = "started" => loop # "none"
  /\ start \in {"binding", "started"} /\ ~pluginClosing => loop = "running"
  /\ start # "started" => ~pluginClosing /\ \A k \in Stopper : closer[k] = "idle"
  /\ ~pluginClosing => \A k \in Stopper : closer[k] \in {"idle", "called"}
  /\ \A k \in Stopper : closer[k] \in {"server", "returned"}
                        => discovery \in {"off", "stopped"}
  /\ \A k \in Stopper : closer[k] = "returned" => loop = "exited"

\* Every step keeps the stages of Start and of Close in order.
LEMMA LifeStep == PluginOwn /\ LifeInv /\ [PluginNext]_vars => LifeInv'
<1> SUFFICES ASSUME PluginOwn, LifeInv, [PluginNext]_vars PROVE LifeInv'
  OBVIOUS
<1> USE DEF PluginOwn, LifeInv, confVars, startVars, closeVars
<1>1. CASE PluginInitialised
  BY <1>1 DEF PluginInitialised, Normalised
<1>2. CASE InitFails \/ StartFails
  BY <1>2 DEF InitFails, StartFails
<1>3. CASE StartProbe
  BY <1>3 DEF StartProbe
<1>4. CASE StartLoop
  BY <1>4 DEF StartLoop
<1>5. CASE StartBinds
  BY <1>5 DEF StartBinds, HttpMayStart
<1>6. CASE StartReturns
  BY <1>6 DEF StartReturns, HttpMayStart
<1>7. CASE ProbeStops
  BY <1>7 DEF ProbeStops
<1>8. CASE LoopExits
  BY <1>8 DEF LoopExits, LoopSeesClosing
<1>9. ASSUME NEW k \in Stopper, CallClose(k) PROVE LifeInv'
  BY <1>9 DEF CallClose
<1>10. ASSUME NEW k \in Stopper, CloseStarts(k) \/ CloseRepeats(k) PROVE LifeInv'
  BY <1>10 DEF CloseStarts, CloseRepeats
<1>11. ASSUME NEW k \in Stopper, CloseAsksProbe(k) \/ CloseGoesOn(k) PROVE LifeInv'
  BY <1>11 DEF CloseAsksProbe, CloseGoesOn, ProbeIsShutDown
<1>12. ASSUME NEW k \in Stopper, CloseReturns(k) PROVE LifeInv'
  BY <1>12 DEF CloseReturns, AllDone
<1>13. CASE UNCHANGED pluginVars
  BY <1>13 DEF pluginVars
<1> QED
  BY <1>1, <1>2, <1>3, <1>4, <1>5, <1>6, <1>7, <1>8, <1>9, <1>10, <1>11, <1>12, <1>13
     DEF PluginNext, Start, StartServes, Closing, CloseServer, vars, pluginVars

\* The two halves meet here: the server serves only for a plugin that has come as far
\* with the probe it was configured with, and who has returned from Close has
\* returned from the server's Shutdown.
JointInv ==
  /\ start \in {"probed", "binding", "started"} => probe = enabled
  /\ server \in {"bound", "serving"} => start \in {"binding", "started"}
  /\ \A k \in Stopper : closer[k] = "returned" => stopper[k] = "returned"

\* Every step keeps the plugin and its server in agreement.
LEMMA JointStep ==
  ServerInv /\ PluginOwn /\ JointInv /\ [PluginNext]_vars => JointInv'
<1> SUFFICES ASSUME ServerInv, PluginOwn, JointInv, [PluginNext]_vars PROVE JointInv'
  OBVIOUS
<1> USE DEF PluginOwn, JointInv, confVars, startVars, closeVars, pluginVars, httpVars,
            serverVars, stopVars, requestVars
<1>1. CASE PluginInitialised \/ InitFails \/ StartFails \/ StartProbe \/ StartLoop
  BY <1>1 DEF PluginInitialised, InitFails, StartFails, StartProbe, StartLoop
<1>2. CASE StartBinds
  BY <1>2 DEF StartBinds, HttpMayStart, NewServer, Bind, BindFails, AllBound
<1>3. CASE StartServes \/ StartReturns
  BY <1>3 DEF StartServes, StartReturns, HttpMayStart, Serve, StartServer
<1>4. CASE process = "running" /\ Serving /\ UNCHANGED pluginVars
  <2>1. \A k \in Stopper : stopper[k] = "returned" => stopper'[k] = "returned"
    BY <1>4, ReturnedStays DEF ServerInv, Next
  <2>2. UNCHANGED <<probe, server>>
    BY <1>4 DEF Serving, ServeReturns, Receive, Handling, CheckClosing, EnterWaitGroup,
                Handle, WorkerPanics, Respond
  <2> QED
    BY <1>4, <2>1, <2>2
<1>5. CASE ProbeStops \/ LoopExits
  BY <1>5 DEF ProbeStops, LoopExits
<1>6. ASSUME NEW k \in Stopper, CallClose(k) \/ CloseStarts(k) \/ CloseRepeats(k)
                                \/ CloseAsksProbe(k) \/ CloseGoesOn(k)
      PROVE  JointInv'
  BY <1>6 DEF CallClose, CloseStarts, CloseRepeats, CloseAsksProbe, CloseGoesOn
<1>7. ASSUME NEW k \in Stopper, process = "running", CloseServer(k) PROVE JointInv'
  <2>1. \A t \in Stopper : stopper[t] = "returned" => stopper'[t] = "returned"
    BY <1>7, ReturnedStays DEF ServerInv, CloseServer, Next
  <2>2. UNCHANGED <<probe, server>>
    BY <1>7 DEF CloseServer, ShutdownStarts, Stopping, ShutdownCloses, ShutdownWaits,
                ShutdownReturns
  <2> QED
    BY <1>7, <2>1, <2>2 DEF CloseServer
<1>8. ASSUME NEW k \in Stopper, CloseReturns(k) PROVE JointInv'
  BY <1>8 DEF CloseReturns
<1>9. CASE UNCHANGED vars
  BY <1>9 DEF vars
<1> QED
  BY <1>1, <1>2, <1>3, <1>4, <1>5, <1>6, <1>7, <1>8, <1>9
     DEF PluginNext, Start, Closing

-------------------------------------------------------------------------------
(* Theorems *)

PluginIInv == ServerInv /\ PluginOwn /\ LifeInv /\ JointInv

\* The inductive invariant holds in every behaviour.
LEMMA PluginInductive == PluginSpec => []PluginIInv
<1>1. PluginInit => PluginIInv
  <2> SUFFICES ASSUME PluginInit PROVE PluginIInv
    OBVIOUS
  <2>1. Init
    BY DEF PluginInit, Init
  <2>2. ServerInv
    BY <2>1, InitType, InitCounts, InitDrains, InitAnswers DEF ServerInv
  <2>3. PluginOwn
    BY PluginInitType DEF PluginTypeOK, PluginOwn
  <2>4. LifeInv /\ JointInv
    BY DEF PluginInit, HttpInit, LifeInv, JointInv
  <2> QED
    BY <2>2, <2>3, <2>4 DEF PluginIInv
<1>2. PluginIInv /\ [PluginNext]_vars => PluginIInv'
  <2> SUFFICES ASSUME PluginIInv, [PluginNext]_vars PROVE PluginIInv'
    OBVIOUS
  <2>1. enabled \in BOOLEAN
    BY DEF PluginIInv, PluginOwn
  <2> QED
    BY <2>1, ServerInvStep, PluginOwnStep, LifeStep, JointStep DEF PluginIInv
<1> QED
  BY <1>1, <1>2, PTL DEF PluginSpec

\* Types, the exact WaitGroup, and that what is configured runs until Close.
THEOREM PluginRuns == PluginSpec => []PluginInv
<1>1. PluginIInv => PluginInv
  BY DEF PluginIInv, ServerInv, PluginOwn, LifeInv, CountInv, PluginInv, PluginTypeOK,
         ConfiguredIsRunning
<1> QED
  BY <1>1, PluginInductive, PTL

\* When a Close has returned, the probe, the population of Prometheus and the
\* listeners have ended, and requests as far as Shutdown waits for them.
THEOREM PluginStops == PluginSpec => []CloseStopsAll
<1>1. PluginIInv => CloseStopsAll
  BY DEF PluginIInv, ServerInv, LifeInv, JointInv, DrainInv, CloseStopsAll
<1> QED
  BY <1>1, PluginInductive, PTL

\* In the plugin, too, no late request reaches the API ...
THEOREM PluginRefusesLate == PluginSpec => []LateRequestsRefused
<1>1. PluginIInv => LateRequestsRefused
  BY LateImplies DEF PluginIInv, ServerInv
<1> QED
  BY <1>1, PluginInductive, PTL

\* ... and a response says what happened to its request.
THEOREM PluginAnswersTruly == PluginSpec => []AnswersTellTruth
<1>1. PluginIInv => AnswersTellTruth
  BY AnswerImplies DEF PluginIInv, ServerInv
<1> QED
  BY <1>1, PluginInductive, PTL

\* A request runs only in a plugin that has started, so that the probe the
\* server's API sees is the configured one.
LEMMA PluginStep ==
  PluginIInv /\ [PluginNext]_vars => [Server!Next]_(Server!httpVars)
<1> SUFFICES ASSUME PluginIInv, [PluginNext]_vars
             PROVE  [Server!Next]_(Server!httpVars)
  OBVIOUS
<1> USE DEF Server!httpVars, Server!serverVars, Server!stopVars, Server!requestVars,
            httpVars, serverVars, stopVars, requestVars, confVars, startVars, pluginVars
<1>1. CASE PluginInitialised \/ InitFails \/ StartFails \/ StartProbe \/ StartLoop
  BY <1>1 DEF PluginInitialised, InitFails, StartFails, StartProbe, StartLoop
<1>2. CASE process = "running" /\ StartBinds
  <2>1. Server!NewServer
    BY <1>2 DEF StartBinds, NewServer, Bind, BindFails, AllBound, Server!NewServer,
                Server!Bind, Server!BindFails, Server!AllBound
  <2> QED
    BY <1>2, <2>1 DEF Server!Next
<1>3. CASE process = "running" /\ (StartServes \/ StartReturns)
  <2>1. (\E l \in Listener : Server!Serve(l)) \/ Server!StartServer
    BY <1>3 DEF StartServes, StartReturns, Serve, StartServer, Server!Serve,
                Server!StartServer
  <2> QED
    BY <1>3, <2>1 DEF Server!Next
<1>4. ASSUME process = "running", UNCHANGED pluginVars, NEW l \in Listener, ServeReturns(l)
      PROVE  Server!Next
  <2>1. Server!ServeReturns(l)
    BY <1>4 DEF ServeReturns, Server!ServeReturns, Served, Server!Served, Woken, Server!Woken
  <2> QED
    BY <1>4, <2>1 DEF Server!Next, Server!Serving
<1>5. ASSUME process = "running", UNCHANGED pluginVars, NEW r \in Request, Handle(r)
      PROVE  Server!Next
  <2>1. probe = enabled
    BY <1>5 DEF PluginIInv, ServerInv, CountInv, JointInv, Handle
  <2>2. Server!Handle(r)
    BY <1>5, <2>1 DEF Handle, Server!Handle, ApiOutcome, Server!ApiOutcome, Translated,
       Server!Translated, AfterPanic, Server!AfterPanic, Woken, Server!Woken
  <2> QED
    BY <1>5, <2>2 DEF Server!Next, Server!Serving, Server!Handling
<1>11. ASSUME process = "running", UNCHANGED pluginVars, NEW r \in Request, WorkerPanics(r)
       PROVE  Server!Next
  <2>1. probe = enabled
    BY <1>11 DEF PluginIInv, ServerInv, CountInv, JointInv, WorkerPanics
  <2>2. Server!WorkerPanics(r)
    BY <1>11, <2>1 DEF WorkerPanics, Server!WorkerPanics, ApiOutcome, Server!ApiOutcome
  <2> QED
    BY <1>11, <2>2 DEF Server!Next, Server!Serving, Server!Handling
<1>6. ASSUME process = "running", UNCHANGED pluginVars, NEW r \in Request,
             (\E i \in Input : Receive(r, i)) \/ CheckClosing(r) \/ EnterWaitGroup(r)
               \/ Respond(r)
      PROVE  Server!Next
  <2>1. (\E i \in Input : Server!Receive(r, i)) \/ Server!CheckClosing(r)
          \/ Server!EnterWaitGroup(r) \/ Server!Respond(r)
    BY <1>6 DEF Receive, CheckClosing, EnterWaitGroup, Respond, SeesClosing, Accounted,
       Status, Input, Code, Server!Receive, Server!CheckClosing, Server!EnterWaitGroup,
       Server!Respond, Server!SeesClosing, Server!Accounted, Server!Status, Server!Input,
       Server!Code
  <2> QED
    BY <1>6, <2>1 DEF Server!Next, Server!Serving, Server!Handling, Input, Server!Input
<1>7. ASSUME process = "running", NEW k \in Stopper, CloseServer(k) PROVE Server!Next
  <2>1. Server!ShutdownStarts(k) \/ Server!Stopping(k)
    BY <1>7 DEF CloseServer, ShutdownStarts, Stopping, ShutdownCloses, ShutdownWaits,
       ShutdownReturns, Server!ShutdownStarts, Server!Stopping, Server!ShutdownCloses,
       Server!ShutdownWaits, Server!ShutdownReturns
  <2> QED
    BY <1>7, <2>1 DEF Server!Next
<1>8. CASE ProbeStops \/ LoopExits
  BY <1>8 DEF ProbeStops, LoopExits
<1>9. ASSUME NEW k \in Stopper,
             \/ CallClose(k) \/ CloseStarts(k) \/ CloseRepeats(k)
             \/ CloseAsksProbe(k) \/ CloseGoesOn(k) \/ CloseReturns(k)
      PROVE  UNCHANGED Server!httpVars
  BY <1>9 DEF CallClose, CloseStarts, CloseRepeats, CloseAsksProbe, CloseGoesOn, CloseReturns
<1>10. CASE UNCHANGED vars
  BY <1>10 DEF vars
<1> QED
  BY <1>1, <1>2, <1>3, <1>4, <1>5, <1>6, <1>7, <1>8, <1>9, <1>10, <1>11
     DEF PluginNext, Start, Serving, Handling, Closing

\* To its clients the plugin is the HTTP server, with the configured probe.
THEOREM PluginRefinesServer == PluginSpec => ImplementsHttpServer
<1>1. PluginInit => Server!Init
  BY DEF PluginInit, HttpInit, Server!Init, Server!HttpInit
<1> QED
  BY <1>1, PluginInductive, PluginStep, PTL DEF PluginSpec, ImplementsHttpServer, Server!Spec

===============================================================================
