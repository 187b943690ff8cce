-------------------------------- MODULE Serve --------------------------------
(***************************************************************************)
(* runServe (internal/cli/serve.go) from the moment it listens, with the   *)
(* goroutines net/http starts for requests and the index they share        *)
(* (typetown.Index, typetown.go).  Requests are lookups; a step of one is  *)
(* what it does between two looks at the index.                            *)
(*                                                                         *)
(* Time is modelled by Overdue: Shutdown's deadline passes only when every *)
(* request still running is one that is not over by then.                  *)
(***************************************************************************)
EXTENDS Integers, FiniteSets

CONSTANTS Request,
          Overdue       \* those not over five seconds after a stop has begun

ASSUME ServeAssumption == Overdue \subseteq Request

VARIABLES main,         \* where runServe is
          signalled,    \* SIGINT or SIGTERM has arrived
          serveErr,     \* srv.Serve has sent its error
          handle,       \* typetown.Index.ix is set
          files,        \* the mapped files and FSTs: "open", "closing", "closed"
          req           \* request -> how far it, or its connection, is

serveVars == <<main, signalled, serveErr, handle, files, req>>

InFlight(r) == req[r] \in {"started", "checked", "reading"}
Harmed == {"refused", "panicked", "faulted", "cut"}

ServeInit ==
  /\ main = "serving"
  /\ signalled = FALSE /\ serveErr = FALSE
  /\ handle = TRUE /\ files = "open"
  /\ req = [r \in Request |-> "none"]

-----------------------------------------------------------------------------
\* A request, in a goroutine of its own.
Listening == main = "serving" /\ ~serveErr

Step(r, s) ==
  req' = [req EXCEPT ![r] = s] /\ UNCHANGED <<main, signalled, serveErr, handle, files>>

\* Serve accepts a connection.
Connect(r) == Listening /\ req[r] = "none" /\ Step(r, "connected")

\* Its request has been read, be it after the stop.
Arrive(r) == main # "exited" /\ req[r] = "connected" /\ Step(r, "started")

\* A connection that stays silent is closed, by ReadHeaderTimeout or by Shutdown.
Drop(r) == main # "exited" /\ req[r] = "connected" /\ Step(r, "none")

\* Search: "typetown: index is closed", answered with a 500.
Check(r) ==
  /\ main # "exited" /\ req[r] = "started"
  /\ Step(r, IF handle THEN "checked" ELSE "refused")

\* Search reads x.ix again to call its Search.
Enter(r) ==
  /\ main # "exited" /\ req[r] = "checked"
  /\ Step(r, IF handle THEN "reading" ELSE "panicked")

\* The FSTs, the posting lists, the records.
Read(r) ==
  /\ main # "exited" /\ req[r] = "reading"
  /\ Step(r, IF files = "open" THEN "replied" ELSE "faulted")

-----------------------------------------------------------------------------
\* runServe.
Signal ==
  /\ main # "exited" /\ ~signalled /\ signalled' = TRUE
  /\ UNCHANGED <<main, serveErr, handle, files, req>>

\* Accept fails for good.
ServeFails ==
  /\ Listening /\ serveErr' = TRUE
  /\ UNCHANGED <<main, signalled, handle, files, req>>

Goto(m) == main' = m /\ UNCHANGED <<signalled, serveErr, handle, files, req>>

\* Mutant of OnSignal: runServe returns without a Shutdown.
OnSignalReturn == main = "serving" /\ signalled /\ Goto("returned")

\* select, either case when both are ready.
OnServeError == main = "serving" /\ serveErr /\ Goto("returned")
OnSignal == main = "serving" /\ signalled /\ Goto("shutdown")

\* What srv.Shutdown waits for: requests, and connections new enough to bring one.
Idle == \A r \in Request : ~InFlight(r) /\ req[r] # "connected"

ShutdownDone == main = "shutdown" /\ Idle /\ Goto("returned")

\* Mutant of Deadline: Shutdown waits for as long as it takes.
NoDeadline == FALSE /\ UNCHANGED serveVars

\* The context of Shutdown expires.  ReadHeaderTimeout is as long and began earlier, so
\* every connection made before the stop has brought its request or is gone.
Deadline ==
  /\ main = "shutdown" /\ ~Idle
  /\ \A r \in Request : req[r] # "connected" /\ (InFlight(r) => r \in Overdue)
  /\ Goto("returned")

\* The deferred ix.Close(): the files go one by one, then the handle.
CloseFiles ==
  /\ main = "returned" /\ files = "open" /\ files' = "closing"
  /\ UNCHANGED <<main, signalled, serveErr, handle, req>>
CloseIndex ==
  /\ main = "returned" /\ files = "closing"
  /\ files' = "closed" /\ handle' = FALSE
  /\ UNCHANGED <<main, signalled, serveErr, req>>

\* Mutant of Exit: goroutines outlive main.
ExitOfMain ==
  /\ main = "returned" /\ files = "closed"
  /\ main' = "exited"
  /\ UNCHANGED <<signalled, serveErr, handle, files, req>>

\* main returns; what is still running ends with the process.
Exit ==
  /\ main = "returned" /\ files = "closed"
  /\ main' = "exited"
  /\ req' = [r \in Request |-> IF InFlight(r) THEN "cut" ELSE req[r]]
  /\ UNCHANGED <<signalled, serveErr, handle, files>>

Done == main = "exited" /\ UNCHANGED serveVars

Serve == OnServeError \/ OnSignal \/ ShutdownDone \/ Deadline \/ CloseFiles \/ CloseIndex \/ Exit
Handle(r) == Check(r) \/ Enter(r) \/ Read(r)

ServeNext ==
  \/ Serve \/ Signal \/ ServeFails \/ Done
  \/ \E r \in Request : Connect(r) \/ Arrive(r) \/ Drop(r) \/ Handle(r)

ServeSpec == ServeInit /\ [][ServeNext]_serveVars

\* The runtime schedules every goroutine that can run, and the timers fire; a
\* request that is not overdue ends of itself.
FairServeSpec ==
  /\ ServeSpec
  /\ WF_serveVars(Serve)
  /\ \A r \in Request : WF_serveVars(Drop(r))
  /\ \A r \in Request \ Overdue : WF_serveVars(Handle(r))

-----------------------------------------------------------------------------
ServeTypeOK ==
  /\ main \in {"serving", "shutdown", "returned", "exited"}
  /\ signalled \in BOOLEAN /\ serveErr \in BOOLEAN /\ handle \in BOOLEAN
  /\ files \in {"open", "closing", "closed"}
  /\ req \in [Request -> {"none", "connected", "started", "checked", "reading", "replied"} \cup Harmed]
  /\ main = "exited" => \A r \in Request : ~InFlight(r)

\* "Ctrl-C or a container stop should finish in-flight requests rather than
\* cutting them off" (serve.go): unless serving failed, no request but one that
\* outlasts the deadline is refused, cut off or served from a closed index, also when it
\* comes after the stop on a connection made before.
OthersFinish ==
  ~serveErr => \A r \in Request \ Overdue : req[r] \notin Harmed

\* A stop ends the process, whatever requests are still running.
SignalExits == signalled ~> main = "exited"

\* "It must not be called while a Search is in flight" (typetown.go, Close), and
\* is not when a signal stops the server.
CloseWaitsForSearches ==
  files # "open" /\ ~serveErr => \A r \in Request : req[r] \notin {"checked", "reading"}
=============================================================================
