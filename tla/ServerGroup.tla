----------------------------- MODULE ServerGroup -----------------------------
(***************************************************************************)
(* Starting and stopping the HTTP servers: serverGroup.Start,                *)
(* server.Start and startServer of pkg/proxyhttp, and the signal handler of  *)
(* OAuthProxy.Start.                                                        *)
(*                                                                          *)
(* Three levels of errgroups are nested: the group, the servers of the       *)
(* group, and the listeners of a server, each of which has one goroutine     *)
(* that serves and one that shuts down.  A group's Wait returns when all its *)
(* goroutines have; its context is done when one of them has failed, or the  *)
(* context around it is done.                                                *)
(***************************************************************************)
EXTENDS Integers, FiniteSets

CONSTANTS
  Servers,
  Listeners,
  ServerOf,   \* the server of each listener
  NoError,
  MaxConns    \* bound on the open connections of a listener

ASSUME GroupAssumption ==
  /\ ServerOf \in [Listeners -> Servers]
  /\ NoError \notin Listeners
  /\ MaxConns \in Nat

VARIABLES
  signalled,  \* SIGINT or SIGTERM has arrived: the outermost context is cancelled
  serving,    \* listener -> where the goroutine in srv.Serve is
  stopping,   \* listener -> where the goroutine that calls srv.Shutdown is
  conns,      \* listener -> connections that are open
  failed,     \* listeners that have failed
  lerr,       \* listener -> first error of its group, named by the listener
  serr,       \* server -> first error of its group
  gerr,       \* first error of the group of servers
  lret, sret, gret  \* listeners, servers whose Start has returned, and the group's

vars == <<signalled, serving, stopping, conns, failed, lerr, serr, gerr, lret, sret, gret>>

Errors == Listeners \cup {NoError}

TypeOK ==
  /\ signalled \in BOOLEAN
  /\ serving \in [Listeners -> {"start", "accept", "returned"}]
  /\ stopping \in [Listeners -> {"wait", "shutdown", "returned"}]
  /\ conns \in [Listeners -> 0..MaxConns]
  /\ failed \subseteq Listeners
  /\ lerr \in [Listeners -> Errors] /\ serr \in [Servers -> Errors] /\ gerr \in Errors
  /\ lret \subseteq Listeners /\ sret \subseteq Servers /\ gret \in BOOLEAN

\* errgroup keeps the first error.
First(old, new) == IF old = NoError THEN new ELSE old

\* The contexts, from the outermost to the innermost.
GroupDone     == signalled \/ gerr # NoError
ServerDone(s) == GroupDone \/ serr[s] # NoError
Done(l)       == ServerDone(ServerOf[l]) \/ lerr[l] # NoError

-----------------------------------------------------------------------------
Init ==
  /\ signalled = FALSE
  /\ serving = [l \in Listeners |-> "start"]
  /\ stopping = [l \in Listeners |-> "wait"]
  /\ conns = [l \in Listeners |-> 0]
  /\ failed = {}
  /\ lerr = [l \in Listeners |-> NoError]
  /\ serr = [s \in Servers |-> NoError]
  /\ gerr = NoError
  /\ lret = {} /\ sret = {} /\ gret = FALSE

Signal ==
  /\ ~signalled
  /\ signalled' = TRUE
  /\ UNCHANGED <<serving, stopping, conns, failed, lerr, serr, gerr, lret, sret, gret>>

groupVars == <<signalled, serr, gerr, lret, sret, gret>>

\* srv.Serve begins; after Shutdown it returns ErrServerClosed at once.
Serve(l) ==
  /\ serving[l] = "start"
  /\ serving' = [serving EXCEPT ![l] = IF stopping[l] = "wait" THEN "accept" ELSE "returned"]
  /\ UNCHANGED <<stopping, conns, failed, lerr, groupVars>>

Accept(l) ==
  /\ serving[l] = "accept" /\ stopping[l] = "wait"
  /\ conns[l] < MaxConns
  /\ conns' = [conns EXCEPT ![l] = @ + 1]
  /\ UNCHANGED <<serving, stopping, failed, lerr, groupVars>>

\* A connection is closed, or becomes idle.
Finish(l) ==
  /\ conns[l] > 0
  /\ conns' = [conns EXCEPT ![l] = @ - 1]
  /\ UNCHANGED <<serving, stopping, failed, lerr, groupVars>>

\* The listener fails for good: Serve returns its error.
Fail(l) ==
  /\ serving[l] = "accept" /\ stopping[l] = "wait"
  /\ serving' = [serving EXCEPT ![l] = "returned"]
  /\ failed' = failed \cup {l}
  /\ lerr' = [lerr EXCEPT ![l] = First(@, l)]
  /\ UNCHANGED <<stopping, conns, groupVars>>

\* A bug to compare with: the end of Serve after Shutdown is an error too.
ClosedIsError(l) ==
  /\ serving[l] = "accept" /\ stopping[l] # "wait"
  /\ serving' = [serving EXCEPT ![l] = "returned"]
  /\ lerr' = [lerr EXCEPT ![l] = First(@, l)]
  /\ UNCHANGED <<stopping, conns, failed, groupVars>>

\* Serve returns ErrServerClosed after Shutdown, which is no error.
ServeReturns(l) ==
  /\ serving[l] = "accept" /\ stopping[l] # "wait"
  /\ serving' = [serving EXCEPT ![l] = "returned"]
  /\ UNCHANGED <<stopping, conns, failed, lerr, groupVars>>

\* A bug to compare with: the shutdown waits for a signal only.
ShutdownOnSignal(l) ==
  /\ stopping[l] = "wait" /\ signalled
  /\ stopping' = [stopping EXCEPT ![l] = "shutdown"]
  /\ UNCHANGED <<serving, conns, failed, lerr, groupVars>>

\* The listener's context is done: Shutdown closes the listener.
Shutdown(l) ==
  /\ stopping[l] = "wait" /\ Done(l)
  /\ stopping' = [stopping EXCEPT ![l] = "shutdown"]
  /\ UNCHANGED <<serving, conns, failed, lerr, groupVars>>

\* Shutdown, which has no deadline, returns when the last connection has ended,
\* with the error of closing the listener if there was one.
ShutdownReturns(l) ==
  /\ stopping[l] = "shutdown" /\ conns[l] = 0
  /\ stopping' = [stopping EXCEPT ![l] = "returned"]
  /\ \/ UNCHANGED <<failed, lerr>>
     \/ /\ failed' = failed \cup {l}
        /\ lerr' = [lerr EXCEPT ![l] = First(@, l)]
  /\ UNCHANGED <<serving, conns, groupVars>>

runVars == <<signalled, serving, stopping, conns, failed, lerr>>

\* startServer returns to the group of its server.
ListenerReturns(l) ==
  /\ l \notin lret
  /\ serving[l] = "returned" /\ stopping[l] = "returned"
  /\ lret' = lret \cup {l}
  /\ serr' = [serr EXCEPT ![ServerOf[l]] = First(@, lerr[l])]
  /\ UNCHANGED <<runVars, gerr, sret, gret>>

\* server.Start returns to the group of servers.
ServerReturns(s) ==
  /\ s \notin sret
  /\ \A l \in Listeners : ServerOf[l] = s => l \in lret
  /\ sret' = sret \cup {s}
  /\ gerr' = First(gerr, serr[s])
  /\ UNCHANGED <<runVars, serr, lret, gret>>

\* A bug to compare with: the group returns its first error at once.
ReturnOnError ==
  /\ ~gret /\ (gerr # NoError \/ sret = Servers)
  /\ gret' = TRUE
  /\ UNCHANGED <<runVars, lret, sret, serr, gerr>>

\* serverGroup.Start returns gerr.
GroupReturns ==
  /\ ~gret /\ sret = Servers
  /\ gret' = TRUE
  /\ UNCHANGED <<runVars, lret, sret, serr, gerr>>

\* The process has ended.
Ended == gret /\ UNCHANGED vars

Step(l) ==
  \/ Serve(l) \/ ServeReturns(l) \/ Shutdown(l) \/ ShutdownReturns(l) \/ ListenerReturns(l)

Next ==
  \/ Signal
  \/ \E l \in Listeners : Step(l) \/ Accept(l) \/ Finish(l) \/ Fail(l)
  \/ \E s \in Servers : ServerReturns(s)
  \/ GroupReturns
  \/ Ended

Spec == Init /\ [][Next]_vars

\* The goroutines go on, and connections end.  Nothing makes a connection end
\* in the code: Shutdown is given context.Background().
Fairness ==
  /\ \A l \in Listeners : WF_vars(Step(l)) /\ WF_vars(Finish(l) /\ stopping[l] # "wait")
  /\ \A s \in Servers : WF_vars(ServerReturns(s))
  /\ WF_vars(GroupReturns)

FairSpec == Spec /\ Fairness

-----------------------------------------------------------------------------
\* The process ends only when every request has been answered, also those of
\* the listeners that did not fail.
DrainedBeforeReturn ==
  gret => \A l \in Listeners : conns[l] = 0 /\ serving[l] = "returned"

\* The group returns an error exactly when something has failed: no error gets
\* lost on its way up, and stopping on a signal is not one.
ErrorReported == gret => (gerr # NoError) = (failed # {}) /\ gerr \in failed \cup {NoError}

\* A signal, or the failure of any listener, stops all of them.
StopsEventually == signalled \/ failed # {} ~> gret
=============================================================================
