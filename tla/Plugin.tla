-------------------------------- MODULE Plugin --------------------------------
(***************************************************************************)
(* The life cycle of MetricExporterPlugin (metricplugin/metric_export.go): *)
(* Init, Start with its failures, and Close by several callers, around the *)
(* HTTP server (HttpServer), the discovery probe, of which only running    *)
(* and Shutdown matter here (DiscoveryProbe), and the goroutine of         *)
(* populatePrometheus (Population).  A caller of Close is the Stopper of   *)
(* the server.                                                             *)
(***************************************************************************)
EXTENDS HttpServer

CONSTANTS Interval, \* what the configuration may say for PopulatePrometheusInterval
          CutOff    \* and for AgentVersionCutOff

ASSUME PluginAssumption ==
  Interval \subseteq Int /\ CutOff \subseteq Int /\ None \notin Stopper

VARIABLES
  enabled,   \* conf.EnableBitswapDiscoveryProbe
  interval,  \* conf.PopulatePrometheusInterval, in seconds
  cutOff,    \* conf.AgentVersionCutOff
  start,     \* program counter of Init and Start
  discovery, \* the discovery probe: "off", "running", "closing" or "stopped"
  loop,      \* populatePrometheus: "none", "running" or "exited"
  pluginClosing, \* mep.closing is closed
  closingLock,   \* who holds mep.closingLock between two steps, or None
  closer     \* program counter of every caller of Close

confVars   == <<enabled, interval, cutOff>>
startVars  == <<confVars, start>>
closeVars  == <<pluginClosing, closingLock, closer>>
pluginVars == <<startVars, closeVars, discovery, loop>>
vars       == <<httpVars, pluginVars>>

PluginTypeOK ==
  /\ TypeOK
  /\ enabled \in BOOLEAN /\ interval \in Int /\ cutOff \in Int /\ pluginClosing \in BOOLEAN
  /\ start \in {"new", "initialised", "probed", "binding", "started", "failed"}
  /\ discovery \in {"off", "running", "closing", "stopped"}
  /\ loop \in {"none", "running", "exited"}
  /\ closingLock \in Stopper \cup {None}
  /\ closer \in [Stopper -> {"idle", "called", "probe", "server", "returned", "repeated"}]

PluginInit ==
  /\ HttpInit /\ probe = FALSE
  /\ enabled \in BOOLEAN /\ interval \in Interval /\ cutOff \in CutOff
  /\ start = "new"
  /\ discovery = "off" /\ loop = "none"
  /\ pluginClosing = FALSE
  /\ closingLock = None
  /\ closer = [k \in Stopper |-> "idle"]

-------------------------------------------------------------------------------
(* Faulty variants of definitions below, none part of PluginSpec: with one in *)
(* place of the definition it is named after, TLC reports a property as       *)
(* violated.                                                                  *)

Normalised_NegativeOnly(n, default) == IF n < 0 THEN default ELSE n
HttpMayStart_Early == start \in {"initialised", "binding"} \* before the probe
AllDone_Not == TRUE                 \* mep.wg.Wait() is missing

-------------------------------------------------------------------------------
(* Init and Start *)

\* Init: numbers that are missing or make no sense are replaced.
Normalised(n, default) == IF n <= 0 THEN default ELSE n

PluginInitialised ==
  /\ start = "new"
  /\ start' = "initialised"
  /\ interval' = Normalised(interval, 10)
  /\ cutOff' = Normalised(cutOff, 20)
  /\ UNCHANGED <<httpVars, enabled, closeVars, discovery, loop>>

\* The configuration cannot be decoded, or there is no name for the monitor.
InitFails ==
  /\ start = "new"
  /\ start' = "failed"
  /\ UNCHANGED <<httpVars, confVars, closeVars, discovery, loop>>

\* The node has another Exchange than Bitswap, or one of another shape.
StartFails ==
  /\ start = "initialised"
  /\ start' = "failed"
  /\ UNCHANGED <<httpVars, confVars, closeVars, discovery, loop>>

StartProbe ==
  /\ start = "initialised"
  /\ start' = "probed"
  /\ discovery' = IF enabled THEN "running" ELSE "off"
  /\ probe' = enabled
  /\ UNCHANGED <<serverVars, stopVars, requestVars, wg, confVars, closeVars, loop>>

StartLoop ==
  /\ start = "probed"
  /\ start' = "binding"
  /\ loop' = IF interval # 0 THEN "running" ELSE "none"
  /\ UNCHANGED <<httpVars, confVars, closeVars, discovery>>

HttpMayStart == start = "binding"

\* newHTTPServer; Start returns its error and leaves everything else running.
StartBinds ==
  /\ HttpMayStart
  /\ NewServer
  /\ start' = IF server' = "failed" THEN "failed" ELSE start
  /\ UNCHANGED <<confVars, closeVars, discovery, loop>>

StartServes ==
  /\ HttpMayStart
  /\ \E l \in Listener : Serve(l)
  /\ UNCHANGED pluginVars

StartReturns ==
  /\ HttpMayStart
  /\ StartServer
  /\ start' = "started"
  /\ UNCHANGED <<confVars, closeVars, discovery, loop>>

-------------------------------------------------------------------------------
(* Close *)

CallClose(k) ==
  /\ start = "started" /\ closer[k] = "idle"
  /\ closer' = [closer EXCEPT ![k] = "called"]
  /\ UNCHANGED <<httpVars, startVars, pluginClosing, closingLock, discovery, loop>>

CloseStarts(k) ==
  /\ closer[k] = "called" /\ closingLock = None
  /\ ~pluginClosing
  /\ pluginClosing' = TRUE
  /\ closer' = [closer EXCEPT ![k] = "probe"]
  /\ UNCHANGED <<httpVars, startVars, closingLock, discovery, loop>>

\* "Already closed/closing, no-op": the return is in front of the Unlock.
CloseRepeats(k) ==
  /\ closer[k] = "called" /\ closingLock = None
  /\ pluginClosing
  /\ closingLock' = k
  /\ closer' = [closer EXCEPT ![k] = "repeated"]
  /\ UNCHANGED <<httpVars, startVars, pluginClosing, discovery, loop>>

\* bitswapDiscoveryProbe.Shutdown(), which returns when its goroutines have.
CloseAsksProbe(k) ==
  /\ closer[k] = "probe" /\ discovery = "running"
  /\ discovery' = "closing"
  /\ UNCHANGED <<httpVars, startVars, closeVars, loop>>

ProbeStops ==
  /\ discovery = "closing"
  /\ discovery' = "stopped"
  /\ UNCHANGED <<httpVars, startVars, closeVars, loop>>

ProbeIsShutDown == discovery \in {"off", "stopped"}

CloseGoesOn(k) ==
  /\ closer[k] = "probe" /\ ProbeIsShutDown
  /\ closer' = [closer EXCEPT ![k] = "server"]
  /\ UNCHANGED <<httpVars, startVars, pluginClosing, closingLock, discovery, loop>>

\* httpServer.Shutdown()
CloseServer(k) ==
  /\ closer[k] = "server"
  /\ ShutdownStarts(k) \/ Stopping(k)
  /\ UNCHANGED pluginVars

LoopSeesClosing == pluginClosing

\* populatePrometheus meets the closed channel, between two rounds.
LoopExits ==
  /\ loop = "running" /\ LoopSeesClosing
  /\ loop' = "exited"
  /\ UNCHANGED <<httpVars, startVars, closeVars, discovery>>

\* mep.wg is the one goroutine of populatePrometheus.
AllDone == loop # "running"

CloseReturns(k) ==
  /\ closer[k] = "server" /\ stopper[k] = "returned" /\ AllDone
  /\ closer' = [closer EXCEPT ![k] = "returned"]
  /\ UNCHANGED <<httpVars, startVars, pluginClosing, closingLock, discovery, loop>>

-------------------------------------------------------------------------------
Start ==
  \/ PluginInitialised \/ InitFails
  \/ StartFails \/ StartProbe \/ StartLoop \/ StartBinds \/ StartServes \/ StartReturns

Closing(k) ==
  \/ CloseStarts(k) \/ CloseRepeats(k)
  \/ CloseAsksProbe(k) \/ CloseGoesOn(k) \/ CloseServer(k) \/ CloseReturns(k)

PluginNext ==
  /\ process = "running"
  /\ \/ Start
     \/ Serving /\ UNCHANGED pluginVars
     \/ ProbeStops \/ LoopExits
     \/ \E k \in Stopper : CallClose(k) \/ Closing(k)

PluginSpec == PluginInit /\ [][PluginNext]_vars

(* Fairness: as for the server; a caller of Close that is not blocked goes on, *)
(* the probe's goroutines end (ShutdownTerminates of DiscoveryProbe), and a    *)
(* round of populatePrometheus ends.                                           *)
PluginFairSpec ==
  /\ PluginSpec
  /\ ServingFairness
  /\ WF_vars(Running(ProbeStops)) /\ WF_vars(Running(LoopExits))
  /\ \A k \in Stopper : WF_vars(Running(Closing(k)))

-------------------------------------------------------------------------------
(* Safety *)

\* While the plugin runs, what the configuration asks for runs: the probe if it
\* is enabled, and always the population of Prometheus, with an interval that
\* its ticker accepts and a cut-off that leaves it agent versions to show.
ConfiguredIsRunning ==
  start = "started" /\ ~pluginClosing =>
    /\ discovery = IF enabled THEN "running" ELSE "off"
    /\ loop = "running" /\ interval > 0 /\ cutOff > 0

\* The type invariant, and what has to hold of counters and loops all the time.
PluginInv == PluginTypeOK /\ WaitGroupExact /\ ConfiguredIsRunning

\* When the Close that does the work returns, the probe and the population of
\* Prometheus have ended, the listeners are closed, and all that may be left of the
\* plugin is requests that Shutdown leaves behind (ShutdownDrains).
CloseStopsAll ==
  /\ ShutdownDrains
  /\ \A k \in Stopper : closer[k] = "returned" =>
       /\ discovery \in {"off", "stopped"} /\ loop = "exited"
       /\ stopper[k] = "returned"

(* To its clients the plugin is an HTTP server whose API has a probe if one is *)
(* configured, from the first request on: Start has finished by then.          *)
Server == INSTANCE HttpServer WITH probe <- enabled
ImplementsHttpServer == Server!Spec

-------------------------------------------------------------------------------
(* Liveness, under PluginFairSpec *)

\* The first Close returns, whatever requests and other callers do.
FirstCloseReturns ==
  \A k \in Stopper : closer[k] = "probe" ~> closer[k] = "returned" \/ Panicked


\* Claimed by the code and not true: Close "is idempotent", so that every call
\* of it returns.
CloseIdempotent ==
  \A k \in Stopper :
    closer[k] = "called" ~> closer[k] \in {"returned", "repeated"} \/ Panicked
===============================================================================
