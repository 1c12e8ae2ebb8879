------------------------------ MODULE Processes -------------------------------
(***************************************************************************)
(* The HTTP servers as processes under systemd: the API (cmd/api), the app *)
(* gateway (cmd/app-gateway) and the notify socket of the SSH gateway      *)
(* (cmd/ssh-gateway; GatewayServer has its SSH side).  They start, serve,  *)
(* are told to stop and are started again as their units say.  The API     *)
(* does not handle signals; the app gateway calls http.Server.Shutdown and *)
(* waits for it; the notify server does so beside main, which closes the   *)
(* same listener.  One unit is looked at at a time.                        *)
(***************************************************************************)
EXTENDS FiniteSets

CONSTANTS
    Requests,
    Upgrades,   \* those that switch protocols (web sockets), which Shutdown does not wait for
    NoUnit

VARIABLES
    unit,       \* the program
    proc,       \* "down", "starting", "up", "stopping" (Shutdown waits), "stopped" (it returned)
    listener,   \* "none", "opening" (by a goroutine that has not come to it yet), "open", "closed"
    ctx,        \* "live", or "done": the signal came, or the server called stop
    exit,       \* how the last process ended: "none", "ok", "error" or "signal"
    asked,      \* the operator has stopped the unit
    req,        \* "none", "active", "upgraded", "answered" or "cut"
    late        \* history: Shutdown gave up waiting, or was not called

vars == <<unit, proc, listener, ctx, exit, asked, req, late>>

Units == {"api", "app-gateway", "ssh-gateway"}

\* Restart= of the units.
RestartAlways == {"api"}

NoRequests == [r \in Requests |-> "none"]
Active == {r \in Requests : req[r] = "active"}

TypeOK ==
    /\ unit \in Units \cup {NoUnit}
    /\ proc \in {"down", "starting", "up", "stopping", "stopped"}
    /\ listener \in {"none", "opening", "open", "closed"}
    /\ ctx \in {"live", "done"}
    /\ exit \in {"none", "ok", "error", "signal"}
    /\ asked \in BOOLEAN /\ late \in BOOLEAN
    /\ req \in [Requests -> {"none", "active", "upgraded", "answered", "cut"}]

Init ==
    /\ unit = NoUnit
    /\ proc = "down" /\ listener = "none" /\ ctx = "live" /\ exit = "none"
    /\ asked = FALSE /\ late = FALSE
    /\ req = NoRequests

\* The process is gone, and with it every connection.
Exit(status) ==
    /\ proc' = "down" /\ listener' = "closed"
    /\ exit' = status
    /\ req' = [r \in Requests |-> IF req[r] \in {"active", "upgraded"} THEN "cut" ELSE req[r]]

-----------------------------------------------------------------------------
(* Seeded faults. *)

\* Main returns as soon as the listener is closed.
ExitWithoutWaiting ==
    /\ proc = "stopping" /\ unit = "app-gateway"
    /\ Exit("ok")
    /\ UNCHANGED <<unit, ctx, asked, late>>

-----------------------------------------------------------------------------
(* Starting.                                                               *)

Fresh(u) ==
    /\ unit' = u
    /\ proc' = "starting" /\ listener' = "none" /\ ctx' = "live" /\ exit' = "none"
    /\ asked' = FALSE /\ late' = FALSE
    /\ req' = NoRequests

Start(u) == (unit = NoUnit \/ (proc = "down" /\ asked)) /\ Fresh(u)

\* systemd: a process that was not stopped by the operator is started again, always or
\* if it failed.
Restart ==
    /\ unit # NoUnit /\ proc = "down" /\ ~asked
    /\ unit \in RestartAlways \/ exit = "error"
    /\ Fresh(unit)

\* The configuration, OpenStack, the database, and for the SSH gateway the sockets and its
\* key: what fails first ends the process.
StartFails ==
    /\ proc = "starting"
    /\ Exit("error")
    /\ UNCHANGED <<unit, ctx, asked, late>>

\* The API calls ListenAndServe from main, ...
apiStarted ==
    /\ proc = "starting" /\ unit = "api"
    /\ proc' = "up" /\ listener' = "open"
    /\ UNCHANGED <<unit, ctx, exit, asked, req, late>>

\* ... the app gateway from a goroutine, ...
appGatewayStarted ==
    /\ proc = "starting" /\ unit = "app-gateway"
    /\ proc' = "up" /\ listener' = "opening"
    /\ UNCHANGED <<unit, ctx, exit, asked, req, late>>

\* ... and the SSH gateway has the socket before it starts the goroutine that serves it.
sshGatewayStarted ==
    /\ proc = "starting" /\ unit = "ssh-gateway"
    /\ proc' = "up" /\ listener' = "open"
    /\ UNCHANGED <<unit, ctx, exit, asked, req, late>>

\* ListenAndServe returns ErrServerClosed if Shutdown came first.
Listen ==
    /\ listener = "opening"
    /\ listener' = IF proc = "up" THEN "open" ELSE "closed"
    /\ UNCHANGED <<unit, proc, ctx, exit, asked, req, late>>

\* The address is taken, or the listener breaks: fatal for the API; the app gateway calls
\* stop and ends as after a signal, with exit status 0; the SSH gateway logs it and goes on
\* without its notify server.
ServeFails ==
    /\ proc = "up" /\ listener \in {"opening", "open"}
    /\ \/ unit = "api" /\ Exit("error") /\ UNCHANGED ctx
       \/ /\ unit = "app-gateway"
          /\ listener' = "closed" /\ ctx' = "done"
          /\ UNCHANGED <<proc, exit, req>>
       \/ unit = "ssh-gateway" /\ listener' = "closed" /\ UNCHANGED <<proc, ctx, exit, req>>
    /\ UNCHANGED <<unit, asked, late>>

-----------------------------------------------------------------------------
(* Serving.                                                                *)

Accept(r) ==
    /\ proc = "up" /\ listener = "open" /\ req[r] = "none"
    /\ req' = [req EXCEPT ![r] = "active"]
    /\ UNCHANGED <<unit, proc, listener, ctx, exit, asked, late>>

Answer(r) ==
    /\ proc \in {"up", "stopping", "stopped"} /\ req[r] \in {"active", "upgraded"}
    /\ req' = [req EXCEPT ![r] = "answered"]
    /\ UNCHANGED <<unit, proc, listener, ctx, exit, asked, late>>

\* The proxied application, or the console, takes the connection over.
Upgrade(r) ==
    /\ proc \in {"up", "stopping"} /\ req[r] = "active" /\ r \in Upgrades /\ unit # "ssh-gateway"
    /\ req' = [req EXCEPT ![r] = "upgraded"]
    /\ UNCHANGED <<unit, proc, listener, ctx, exit, asked, late>>

-----------------------------------------------------------------------------
(* Stopping.                                                               *)

\* SIGTERM by systemd.  Nothing in the API handles it, and before signal.NotifyContext
\* nothing does in the gateways.
Signal ==
    /\ proc # "down" /\ ~asked
    /\ asked' = TRUE
    /\ IF unit = "api" \/ proc = "starting"
       THEN Exit("signal") /\ late' = TRUE /\ UNCHANGED ctx
       ELSE ctx' = "done" /\ UNCHANGED <<proc, listener, exit, req, late>>
    /\ UNCHANGED unit

\* A panic outside the handlers, or SIGKILL.
Dies ==
    /\ proc # "down"
    /\ Exit("error") /\ late' = TRUE
    /\ UNCHANGED <<unit, ctx, asked>>

\* Main of the app gateway, or runNotifyServer, sees the context and calls Shutdown, which
\* closes the listener.
ShutdownBegins ==
    /\ proc = "up" /\ ctx = "done"
    /\ unit = "ssh-gateway" => listener = "open"
    /\ proc' = "stopping"
    /\ listener' = IF listener = "opening" THEN "opening" ELSE "closed"
    /\ UNCHANGED <<unit, ctx, exit, asked, req, late>>

\* runNotifyServer takes the error of Serve instead: main has closed the listener, or Serve
\* had failed before.  It returns without Shutdown.
NotifyServeReturns ==
    /\ proc = "up" /\ unit = "ssh-gateway" /\ ctx = "done"
    /\ proc' = "stopped" /\ listener' = "closed" /\ late' = TRUE
    /\ UNCHANGED <<unit, ctx, exit, asked, req>>

\* Shutdown returns once no request is active, or when its time is up.
ShutdownReturns ==
    /\ proc = "stopping"
    /\ Active = {}
    /\ IF unit = "app-gateway" THEN Exit("ok")
       ELSE proc' = "stopped" /\ UNCHANGED <<listener, exit, req>>
    /\ UNCHANGED <<unit, ctx, asked, late>>

ShutdownExpires ==
    /\ proc = "stopping"
    /\ late' = TRUE
    /\ IF unit = "app-gateway" THEN Exit("ok")
       ELSE proc' = "stopped" /\ UNCHANGED <<listener, exit, req>>
    /\ UNCHANGED <<unit, ctx, asked>>

\* The SSH gateway ends when its SSH side has drained too, or after 30 seconds.
GatewayExits ==
    /\ proc = "stopped"
    /\ Exit("ok")
    /\ UNCHANGED <<unit, ctx, asked, late>>

-----------------------------------------------------------------------------

Started == apiStarted \/ appGatewayStarted \/ sshGatewayStarted

Stopping ==
    \/ ShutdownBegins \/ NotifyServeReturns
    \/ ShutdownReturns \/ ShutdownExpires \/ GatewayExits

Next ==
    \/ (\E u \in Units : Start(u)) \/ Restart \/ StartFails \/ Started
    \/ Listen \/ ServeFails
    \/ \E r \in Requests : Accept(r) \/ Answer(r) \/ Upgrade(r)
    \/ Signal \/ Dies \/ Stopping

\* What fails at a start is repaired in time; requests need not end.
Fairness == WF_vars(Restart) /\ SF_vars(Started) /\ WF_vars(Stopping)

Spec == Init /\ [][Next]_vars /\ Fairness

-----------------------------------------------------------------------------
(* Properties.                                                             *)

\* A gateway that ends in good order has answered what it accepted, except connections
\* that were taken over; only the expiry of the wait, the race of main with runNotifyServer
\* for the listener (ssh-gateway/main.go:111) and the API's missing handler of signals cut
\* a request off.
CleanStop ==
    /\ TypeOK
    /\ \A r \in Requests : req[r] = "cut" /\ exit = "ok" => late \/ r \in Upgrades
    /\ exit = "ok" => ctx = "done"

\* What a process that runs can rely on: nothing is cut off before it ends, only the
\* connections of Upgrades were taken over, and one that has stopped waiting for requests
\* was told to stop and has none, or did not wait to the end.
Orderly ==
    /\ \A r \in Requests : req[r] = "upgraded" => r \in Upgrades
    /\ proc # "down" => exit = "none" /\ \A r \in Requests : req[r] # "cut"
    /\ proc \in {"stopping", "stopped"} => ctx = "done"
    /\ proc = "stopped" => late \/ Active = {}

ProcessInv == CleanStop /\ Orderly

\* A process that is told to stop ends although requests do not (app-gateway/main.go:83);
\* and one that failed is up again.  An app gateway that could not listen has not failed
\* for systemd: it stays down (app-gateway/main.go:76).
StopsAndStarts ==
    /\ asked ~> proc = "down"
    /\ (proc = "down" /\ ~asked /\ exit = "error") ~> (proc = "up" \/ asked)
=============================================================================
