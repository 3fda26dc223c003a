------------------------------ MODULE HttpServer ------------------------------
(***************************************************************************)
(* The HTTP server of the plugin (metricplugin/http.go): binding of the    *)
(* listen addresses, one goroutine per listener, one per request with the  *)
(* decorators of buildHandler around the API call, and Shutdown.           *)
(*                                                                         *)
(* Closing a listener does not close the connections it has accepted: a    *)
(* request may arrive at any time once the server runs.  sync.WaitGroup is *)
(* modelled with the wake-up of Wait as a step of its own, because it      *)
(* panics when the group has been reused by then.                          *)
(***************************************************************************)
EXTENDS Integers, FiniteSets

CONSTANTS Listener, \* HTTPServerConfig.ListenAddresses
          Request,  \* requests of all clients
          Stopper,  \* callers of Shutdown
          None      \* a nil error, or no response yet

ASSUME HttpAssumption ==
  /\ IsFiniteSet(Listener) /\ IsFiniteSet(Request)
  /\ None \notin {"response", "panic", "workerPanic", "disabled"}
  /\ None \notin {"closing", "internal", "invalid", "notEnabled"}

\* The routes that cannot fail (ping, sample peer metadata), and the three
\* broadcasts with a list of CIDs, and with a body that cannot be decoded.
Input == {"query", "broadcast", "malformed"}

\* HTTP status codes of the presentable errors.
Code == [closing |-> 503, internal |-> 500, invalid |-> 400, notEnabled |-> 400]

Outcome == {"response", "panic", "workerPanic", "disabled"}

VARIABLES
  server,    \* "new", "failed", "bound" or "serving"
  listeners, \* the open listeners
  serving,   \* listeners whose http.Serve goroutine runs
  closing,   \* s.closing is closed
  wg,        \* s.wg
  stopper,   \* program counter of every caller of Shutdown
  probe,     \* the API has a discovery probe
  request,   \* program counter of every request goroutine
  input,     \* the route and body of the request
  failure,   \* the error the handler chain returned, or None
  response,  \* the JSONResponse written, or None
  process,   \* "running" or "panicked": a panic nobody recovers ends the process
  \* history, not in the code
  called,    \* per request: how its API call ended, or None if there was none
  late,      \* requests that arrived when closing was closed
  inWindow   \* requests past the closing check and not in the WaitGroup by then

serverVars  == <<server, listeners, serving>>
stopVars    == <<closing, stopper, inWindow, process>>
requestVars == <<request, input, failure, response, called, late>>
httpVars    == <<serverVars, stopVars, requestVars, wg, probe>>

Error == DOMAIN Code
JSONResponse ==
  [status : {200, 400, 500, 503}, result : BOOLEAN, error : Error \cup {None}]

TypeOK ==
  /\ server \in {"new", "failed", "bound", "serving"}
  /\ listeners \subseteq Listener /\ serving \subseteq Listener
  /\ closing \in BOOLEAN /\ probe \in BOOLEAN
  /\ wg \in Int
  /\ stopper \in [Stopper -> {"idle", "closing", "waiting", "woken", "returned", "skipped"}]
  /\ request \in [Request -> {"none", "received", "admitted", "running", "handled", "answered"}]
  /\ input \in [Request -> Input \cup {None}]
  /\ failure \in [Request -> Error \cup {None}]
  /\ response \in [Request -> JSONResponse \cup {None}]
  /\ process \in {"running", "panicked"}
  /\ called \in [Request -> Outcome \cup {None}]
  /\ late \subseteq Request /\ inWindow \subseteq Request

HttpInit ==
  /\ server = "new"
  /\ listeners = {} /\ serving = {}
  /\ closing = FALSE
  /\ wg = 0
  /\ stopper = [t \in Stopper |-> "idle"]
  /\ request = [r \in Request |-> "none"]
  /\ input = [r \in Request |-> None]
  /\ failure = [r \in Request |-> None]
  /\ response = [r \in Request |-> None]
  /\ process = "running"
  /\ called = [r \in Request |-> None]
  /\ late = {} /\ inWindow = {}

Init == HttpInit /\ probe \in BOOLEAN

-------------------------------------------------------------------------------
(* Faulty variants of definitions below, none part of Spec: with one in place *)
(* of the definition it is named after, TLC reports a property as violated.   *)

SeesClosing_Never == FALSE        \* the decorator does not look at closing
Accounted_Not == wg               \* wg.Add(1) is missing for a request
Accounted_Twice == wg + 2         \* or there twice
AfterPanic_Dies == "aborted"      \* net/http recovers, the client gets nothing
Translated_Not(e) == IF e = "disabled" THEN "internal" ELSE None \* no special case

-------------------------------------------------------------------------------
(* newHTTPServer and StartServer *)

Bind(l) ==
  /\ server = "new" /\ l \notin listeners
  /\ listeners' = listeners \cup {l}
  /\ UNCHANGED <<server, serving, stopVars, requestVars, wg, probe>>

\* No address is configured, or one cannot be bound: those bound stay open.
BindFails ==
  /\ server = "new" /\ (Listener = {} \/ listeners # Listener)
  /\ server' = "failed"
  /\ UNCHANGED <<listeners, serving, stopVars, requestVars, wg, probe>>

AllBound ==
  /\ server = "new" /\ Listener # {} /\ listeners = Listener
  /\ server' = "bound"
  /\ UNCHANGED <<listeners, serving, stopVars, requestVars, wg, probe>>

\* StartServer, one listener after the other: wg.Add(1), and a goroutine that
\* serves it.
Serve(l) ==
  /\ server = "bound" /\ l \in listeners \ serving
  /\ serving' = serving \cup {l}
  /\ wg' = wg + 1
  /\ UNCHANGED <<server, listeners, stopVars, requestVars, probe>>

StartServer ==
  /\ server = "bound" /\ serving = listeners
  /\ server' = "serving"
  /\ UNCHANGED <<listeners, serving, stopVars, requestVars, wg, probe>>

\* wg.Add(-1): the last one wakes everybody in wg.Wait().
Served(n) == n - 1
Woken(n) == [t \in Stopper |->
               IF n = 0 /\ stopper[t] = "waiting" THEN "woken" ELSE stopper[t]]

\* http.Serve returns once its listener is closed.
ServeReturns(l) ==
  /\ l \in serving /\ l \notin listeners
  /\ serving' = serving \ {l}
  /\ wg' = Served(wg)
  /\ stopper' = Woken(wg')
  /\ UNCHANGED <<server, listeners, closing, inWindow, process, requestVars, probe>>

-------------------------------------------------------------------------------
(* A request: jsonEncodeResponse(extractStatusCode(ensurePresentableError(    *)
(* ensureNotClosedAndWaitGroup(recoverPanic(f)))))                            *)

Receive(r, i) ==
  /\ server = "serving" \/ serving # {}
  /\ request[r] = "none"
  /\ request' = [request EXCEPT ![r] = "received"]
  /\ input' = [input EXCEPT ![r] = i]
  /\ late' = IF closing THEN late \cup {r} ELSE late
  /\ UNCHANGED <<serverVars, stopVars, failure, response, called, wg, probe>>

SeesClosing == closing

\* ensureNotClosedAndWaitGroup looks at closing ...
CheckClosing(r) ==
  /\ request[r] = "received"
  /\ IF SeesClosing
     THEN /\ request' = [request EXCEPT ![r] = "handled"]
          /\ failure' = [failure EXCEPT ![r] = "closing"]
     ELSE /\ request' = [request EXCEPT ![r] = "admitted"]
          /\ UNCHANGED failure
  /\ UNCHANGED <<serverVars, stopVars, input, response, called, late, wg, probe>>

Accounted == wg + 1

\* ... and adds the request to the WaitGroup afterwards.
EnterWaitGroup(r) ==
  /\ request[r] = "admitted"
  /\ request' = [request EXCEPT ![r] = "running"]
  /\ wg' = Accounted
  /\ UNCHANGED <<serverVars, stopVars, input, failure, response, called, late, probe>>

\* How the API call of a handler can end.  MetricExporterPlugin fails only for
\* want of a probe; what it calls in the node may panic.  A worker goroutine of
\* a broadcast panics if the list names a CID twice (Broadcast).
ApiOutcome(i) ==
  IF i # "broadcast" THEN {"response", "panic"}
  ELSE IF probe THEN {"response", "panic", "workerPanic"} ELSE {"disabled"}

\* The error of a call that did not panic, as the handlers translate it, and
\* where a request goes on after recoverPanic.
Translated(e) == IF e = "disabled" THEN "notEnabled" ELSE None
AfterPanic == "handled"

\* The handler runs, and the deferred wg.Done() ends it.
Handle(r) ==
  /\ request[r] = "running"
  /\ \/ /\ input[r] = "malformed"
        /\ failure' = [failure EXCEPT ![r] = "invalid"]
        /\ request' = [request EXCEPT ![r] = "handled"]
        /\ UNCHANGED called
     \/ /\ input[r] # "malformed"
        /\ \E out \in ApiOutcome(input[r]) \ {"workerPanic"} :
             /\ called' = [called EXCEPT ![r] = out]
             /\ failure' = [failure EXCEPT
                              ![r] = IF out = "panic" THEN "internal" ELSE Translated(out)]
             /\ request' = [request EXCEPT
                              ![r] = IF out = "panic" THEN AfterPanic ELSE "handled"]
  /\ wg' = wg - 1
  /\ stopper' = Woken(wg')
  /\ UNCHANGED <<serverVars, closing, inWindow, process, input, response, late, probe>>

\* recoverPanic guards the goroutine of the request, not those of a broadcast:
\* a panic in one of them ends the process.
WorkerPanics(r) ==
  /\ request[r] = "running"
  /\ "workerPanic" \in ApiOutcome(input[r])
  /\ called' = [called EXCEPT ![r] = "workerPanic"]
  /\ process' = "panicked"
  /\ UNCHANGED <<serverVars, closing, stopper, inWindow, request, input, failure,
                 response, late, wg, probe>>

Status(e) == IF e = None THEN 200 ELSE Code[e]

\* The response is written when the decorators below have returned.
Respond(r) ==
  /\ request[r] = "handled"
  /\ request' = [request EXCEPT ![r] = "answered"]
  /\ response' = [response EXCEPT
                    ![r] = [status |-> Status(failure[r]),
                            result |-> failure[r] = None,
                            error  |-> failure[r]]]
  /\ UNCHANGED <<serverVars, stopVars, input, failure, called, late, wg, probe>>

-------------------------------------------------------------------------------
(* Shutdown *)

\* Under closingLock: the first caller closes the channel, others return.
ShutdownStarts(t) ==
  /\ stopper[t] = "idle" /\ server = "serving"
  /\ stopper' = [stopper EXCEPT ![t] = IF closing THEN "skipped" ELSE "closing"]
  /\ closing' = TRUE
  /\ inWindow' = IF closing THEN inWindow ELSE {r \in Request : request[r] = "admitted"}
  /\ UNCHANGED <<serverVars, requestVars, process, wg, probe>>

ShutdownCloses(t, l) ==
  /\ stopper[t] = "closing" /\ l \in listeners
  /\ listeners' = listeners \ {l}
  /\ UNCHANGED <<server, serving, stopVars, requestVars, wg, probe>>

\* wg.Wait(): return at once, or sleep until a Done brings the counter to zero.
ShutdownWaits(t) ==
  /\ stopper[t] = "closing" /\ listeners = {}
  /\ stopper' = [stopper EXCEPT ![t] = IF wg = 0 THEN "returned" ELSE "waiting"]
  /\ UNCHANGED <<serverVars, requestVars, closing, inWindow, process, wg, probe>>

\* Wait goes on, and panics if the counter is not zero any more.
ShutdownReturns(t) ==
  /\ stopper[t] = "woken"
  /\ IF wg = 0
     THEN stopper' = [stopper EXCEPT ![t] = "returned"] /\ UNCHANGED process
     ELSE process' = "panicked" /\ UNCHANGED stopper
  /\ UNCHANGED <<serverVars, requestVars, closing, inWindow, wg, probe>>

-------------------------------------------------------------------------------
NewServer == (\E l \in Listener : Bind(l)) \/ BindFails \/ AllBound

Handling(r) ==
  CheckClosing(r) \/ EnterWaitGroup(r) \/ Handle(r) \/ WorkerPanics(r) \/ Respond(r)

Stopping(t) ==
  \/ \E l \in Listener : ShutdownCloses(t, l)
  \/ ShutdownWaits(t)
  \/ ShutdownReturns(t)

Serving ==
  \/ \E l \in Listener : ServeReturns(l)
  \/ \E r \in Request : (\E i \in Input : Receive(r, i)) \/ Handling(r)

Next ==
  /\ process = "running"
  /\ \/ NewServer
     \/ (\E l \in Listener : Serve(l)) \/ StartServer
     \/ Serving
     \/ \E t \in Stopper : ShutdownStarts(t) \/ Stopping(t)

Spec == Init /\ [][Next]_httpVars

(* Fairness: goroutines run and API calls return (BroadcastReturns); nobody    *)
(* has to send a request or to call Shutdown.                                  *)
Running(A) == process = "running" /\ A

ServingFairness ==
  /\ \A l \in Listener : WF_httpVars(Running(ServeReturns(l)))
  /\ \A r \in Request : WF_httpVars(Running(Handling(r)))

-------------------------------------------------------------------------------
(* Safety *)

\* The WaitGroup counts the listener goroutines and the requests that are
\* running, so that Wait neither misses one nor waits for ever.
WaitGroupExact ==
  wg = Cardinality(serving) + Cardinality({r \in Request : request[r] = "running"})

\* A request that arrives when the server has started to close never gets to
\* the API ("ErrServerClosing is returned when a request is made while the node
\* has started to shut down"), and nobody is told so whose call was made.
LateRequestsRefused ==
  \A r \in Request :
    /\ r \in late => request[r] \notin {"admitted", "running"} /\ called[r] = None
    /\ failure[r] = "closing" => closing /\ called[r] = None

\* What the client reads is what happened to its request: a result if and only
\* if the API call returned one, and otherwise the error with its status; a
\* request that panicked is answered all the same.
AnswersTellTruth ==
  \A r \in Request : response[r] # None =>
    LET a == response[r] IN
    /\ a.result = (called[r] = "response") /\ a.result = (a.status = 200)
    /\ (a.status = 500) = (called[r] = "panic")
    /\ a.status = 400 => \/ input[r] = "malformed" /\ a.error = "invalid"
                         \/ called[r] = "disabled" /\ a.error = "notEnabled"
    /\ (a.status = 503) = (a.error = "closing") /\ (a.status = 503 => closing)

\* When the Shutdown that closed the server has returned, no listener is open or
\* served, and no request is in the API or on its way to it except those that were
\* past the closing check and not in the WaitGroup when closing was closed.  Shutdown
\* does not "wait for currently in-flight requests to finish" as far as these are
\* concerned: they may be in the API after its return, but no others.
ShutdownDrains ==
  \A t \in Stopper : stopper[t] = "returned" =>
    /\ listeners = {} /\ serving = {}
    /\ \A r \in Request : request[r] \in {"admitted", "running"} => r \in inWindow

-------------------------------------------------------------------------------
(* Liveness, under ServingFairness *)

Panicked == process = "panicked"

\* Every request is answered, one that panics in its own goroutine or comes too late
\* as well, unless another panic ends the process: of a worker of a broadcast, or of
\* a WaitGroup that is used again too early.
RequestsAnswered ==
  \A r \in Request : request[r] = "received" ~> request[r] = "answered" \/ Panicked
===============================================================================
