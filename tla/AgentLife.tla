----------------------------- MODULE AgentLife -----------------------------
(***************************************************************************)
(* The life of the agent's process: cmd/root.go, cmd/shutdown.go and       *)
(* update/update.go, with its auto-discovery and the login warning it puts *)
(* up and takes down.                                                      *)
(*                                                                         *)
(* Three goroutines may ask for shutdown: the one that waits for a signal  *)
(* with exit code 0, and with exit code 42 the main one and the one that   *)
(* looks for updates every six hours.  The first one carries it out.       *)
(* Meanwhile the others go on.  What the main goroutine and shutdown do to *)
(* the traffic statistics is NetStatic's.                                  *)
(***************************************************************************)
EXTENDS AutoDiscovery, LoginWarning

CONSTANTS
  MaxVersion,  \* bound: the last release
  NoOne

Callers == {"signal", "main", "updater"}

ASSUME LifeBounds == MaxVersion \in Nat /\ NoOne \notin Callers

VARIABLES
  main,      \* where the main goroutine is
  call,      \* where each caller of shutdown is: "none" until it has a reason
  once,      \* the caller that carries it out
  exitCode,  \* the highest code asked for
  chosen,    \* the code to exit with
  status,    \* "up", or how the process ended
  version,   \* the release that runs
  exe        \* the release of the executable

callVars == <<call, once, exitCode, chosen>>
lifeVars == <<main, callVars, status, version, exe>>
vars == <<lifeVars, discoveryVars, warningVars>>

\* The code a caller asks for.
Code(a) == IF a = "signal" THEN 0 ELSE 42

Fresh ==
  /\ main' = "warning"
  /\ call' = [a \in Callers |-> "none"]
  /\ once' = NoOne
  /\ exitCode' = 0 /\ chosen' = 0
  /\ status' = "up"

Init ==
  /\ main = "warning"
  /\ call = [a \in Callers |-> "none"]
  /\ once = NoOne
  /\ exitCode = 0 /\ chosen = 0
  /\ status = "up"
  /\ version = 0 /\ exe = 0
  /\ DiscoveryInit /\ WarningInit

(***************************************************************************)
(* RootCmd.RunE.                                                           *)
(***************************************************************************)

Main(from, to) == status = "up" /\ main = from /\ main' = to

\* A signal that has come by then suppresses the warning.
StartWarning ==
  /\ Main("warning", "discovery")
  /\ IF call["signal"] = "none" THEN StartSecurityWarning ELSE UNCHANGED warningVars
  /\ UNCHANGED <<callVars, status, version, exe, discoveryVars>>

\* A key for auto-discovery is given.
Discover ==
  /\ Main("discovery", "discovery")
  /\ HandleAutoDiscovery
  /\ UNCHANGED <<callVars, status, version, exe, warningVars>>

Discovered ==
  /\ Main("discovery", "update")
  /\ step = "done"
  /\ UNCHANGED <<callVars, status, version, exe, discoveryVars, warningVars>>

\* The deferred calls remove the warning and end the notification of signals, which
\* the goroutine that waits for them cannot tell from a signal.
DiscoveryFailed ==
  /\ Main("discovery", "returning")
  /\ step = "failed"
  /\ StopWarning
  /\ call' = [call EXCEPT !["signal"] = IF @ = "none" THEN "asking" ELSE @]
  /\ UNCHANGED <<once, exitCode, chosen, status, version, exe, discoveryVars>>

\* Execute: os.Exit(1).
ReturnWithError ==
  /\ status = "up" /\ main = "returning"
  /\ status' = "failed"
  /\ DiscoveryGone /\ WarningGone
  /\ UNCHANGED <<main, callVars, version, exe>>

\* Mutant: the error that asks for a restart is not recognised.
InstallsSilently(a) ==
  /\ exe < MaxVersion
  /\ exe' = exe + 1
  /\ UNCHANGED call

\* CheckAndUpdate replaces the executable and has caller a ask for a restart.
Installs(a) ==
  /\ exe < MaxVersion
  /\ exe' = exe + 1
  /\ call' = [call EXCEPT ![a] = "asking"]

\* The first look for an update: there is none, or it fails, or it is installed.
CheckForUpdate ==
  /\ \/ Main("update", "loop") /\ UNCHANGED <<call, exe>>
     \/ Main("update", "stopping") /\ Installs("main")
  /\ UNCHANGED <<once, exitCode, chosen, status, version, discoveryVars, warningVars>>

\* runScheduledUpdates, which ends with the first update it installs.
ScheduledUpdate ==
  /\ status = "up" /\ main = "loop" /\ call["updater"] = "none"
  /\ Installs("updater")
  /\ UNCHANGED <<main, once, exitCode, chosen, status, version, discoveryVars, warningVars>>

\* SIGTERM or an interrupt.
Signal ==
  /\ status = "up" /\ call["signal"] = "none"
  /\ call' = [call EXCEPT !["signal"] = "asking"]
  /\ UNCHANGED <<main, once, exitCode, chosen, status, version, exe, discoveryVars, warningVars>>

(***************************************************************************)
(* shutdownCoordinator.shutdown.                                           *)
(***************************************************************************)

\* Mutant: the last code counts.
AskLast(a) ==
  /\ status = "up" /\ call[a] = "asking"
  /\ a = "signal" => main # "warning"
  /\ exitCode' = Code(a)
  /\ call' = [call EXCEPT ![a] = "waiting"]
  /\ UNCHANGED <<main, once, chosen, status, version, exe, discoveryVars, warningVars>>

\* The highest code counts.  The goroutine that waits for signals is started after
\* the warning.
Ask(a) ==
  /\ status = "up" /\ call[a] = "asking"
  /\ a = "signal" => main # "warning"
  /\ exitCode' = IF Code(a) > exitCode THEN Code(a) ELSE exitCode
  /\ call' = [call EXCEPT ![a] = "waiting"]
  /\ UNCHANGED <<main, once, chosen, status, version, exe, discoveryVars, warningVars>>

\* The first one runs the function of once.Do, the others wait for it to return.
Enter(a) ==
  /\ status = "up" /\ call[a] = "waiting" /\ once = NoOne
  /\ once' = a
  /\ call' = [call EXCEPT ![a] = "warning"]
  /\ UNCHANGED <<main, exitCode, chosen, status, version, exe, discoveryVars, warningVars>>

RemoveWarning(a) ==
  /\ status = "up" /\ call[a] = "warning"
  /\ StopWarning
  /\ call' = [call EXCEPT ![a] = "statistics"]
  /\ UNCHANGED <<main, once, exitCode, chosen, status, version, exe, discoveryVars>>

\* An error is logged.
StopStatistics(a) ==
  /\ status = "up" /\ call[a] = "statistics"
  /\ call' = [call EXCEPT ![a] = "code"]
  /\ UNCHANGED <<main, once, exitCode, chosen, status, version, exe, discoveryVars, warningVars>>

ReadCode(a) ==
  /\ status = "up" /\ call[a] = "code"
  /\ chosen' = exitCode
  /\ call' = [call EXCEPT ![a] = "exit"]
  /\ UNCHANGED <<main, once, exitCode, status, version, exe, discoveryVars, warningVars>>

Exit(a) ==
  /\ status = "up" /\ call[a] = "exit"
  /\ status' = IF chosen = 0 THEN "stopped" ELSE "restart"
  /\ DiscoveryGone /\ WarningGone
  /\ UNCHANGED <<main, callVars, version, exe>>

Crash ==
  /\ status = "up"
  /\ status' = "failed"
  /\ DiscoveryGone /\ WarningGone
  /\ UNCHANGED <<main, callVars, version, exe>>

\* The service manager or an operator starts the executable.
Start ==
  /\ status # "up"
  /\ Fresh
  /\ version' = exe
  /\ UNCHANGED <<exe, discoveryVars, warningVars>>

(***************************************************************************)
(* The specification.                                                      *)
(***************************************************************************)

Shutdown(a) == Ask(a) \/ Enter(a) \/ RemoveWarning(a) \/ StopStatistics(a) \/ ReadCode(a) \/ Exit(a)

MainStep ==
  StartWarning \/ Discover \/ Discovered \/ DiscoveryFailed \/ ReturnWithError \/ CheckForUpdate

Edited == Edit /\ UNCHANGED <<lifeVars, discoveryVars>>

Next ==
  \/ MainStep \/ ScheduledUpdate \/ Signal
  \/ \E a \in Callers : Shutdown(a)
  \/ Edited \/ Crash \/ Start

\* The main goroutine and the callers of shutdown are scheduled, and the service
\* manager starts the agent again, unless its exit code was 0.
Fairness ==
  /\ WF_vars(MainStep)
  /\ \A a \in Callers : WF_vars(Shutdown(a))
  /\ WF_vars(status # "stopped" /\ Start)

Spec == Init /\ [][Next]_vars
FairSpec == Spec /\ Fairness

(***************************************************************************)
(* Properties.                                                             *)
(***************************************************************************)

\* Whoever carries the shutdown out, it asks for a restart if and only if an update
\* has called shutdown by the time the traffic history is saved and the code is read.
HighestCodeWins ==
  [][(\E a \in Callers : ReadCode(a)) =>
       (chosen' = 42 <=> \E a \in Callers : Code(a) = 42 /\ call[a] \notin {"none", "asking"})]_vars

\* An update that is installed takes effect, whoever installs it while whoever else
\* shuts the agent down, unless it ends with exit code 0.
UpdateTakesEffect == \A v \in 1 .. MaxVersion : exe = v ~> (version >= v \/ status = "stopped")
=============================================================================
