----------------------------- MODULE ProxyServer -----------------------------
(***************************************************************************)
(* ns-proxy: the accept loop with its connection slots, and the graceful   *)
(* shutdown of the process.  Serve takes connections from the listener and *)
(* either starts a handler, which holds a slot, or hangs up.  On a signal  *)
(* main closes the listener and calls Shutdown, which waits for Serve and  *)
(* for the handlers, but no longer than the grace period.                  *)
(*                                                                         *)
(* A handler gives up its slot, its count in activeConns and its place in  *)
(* the wait group in three steps, so the three counters differ for a       *)
(* moment; Serve holds a connection that no counter knows of between       *)
(* Accept and the select.                                                  *)
(***************************************************************************)
EXTENDS Naturals, FiniteSets

CONSTANTS
    Conns,      \* the connections clients make
    MaxConns    \* RCP_NS_PROXY_MAX_CONNS, the number of slots

ASSUME ProxyServerAssumption == MaxConns \in Nat \ {0} /\ IsFiniteSet(Conns)

VARIABLES
    conn,         \* per connection: see States
    clientOpen,   \* the connections whose client or destination has not hung up
    listener,     \* "open" or "closed"
    serve,        \* Serve: "accepting", "sleeping", "waiting" or "returned"
    tempDelay,    \* its back-off, in ms
    sem,          \* slots taken
    activeConns, totalDials, deniedDials,
    shutdown,     \* Shutdown: "idle", "serveDone", "polling", "draining", "nil" or "expired"
    main          \* "running", "signalled", "closed", "joining" or "exited"

vars == <<conn, clientOpen, listener, serve, tempDelay, sem, activeConns, totalDials,
          deniedDials, shutdown, main>>

\* "held": accepted and in Serve's hands.  "serving" holds a slot; "counted" has
\* returned it, "added" is also out of activeConns and only in the wait group.
States == {"none", "queued", "held", "serving", "counted", "added", "done", "denied"}

In(ss) == {c \in Conns : conn[c] \in ss}

\* The wait group counts the handlers that have not called Done.
WaitGroupIsZero == In({"serving", "counted", "added"}) = {}

TypeOK ==
    /\ conn \in [Conns -> States]
    /\ clientOpen \subseteq Conns
    /\ listener \in {"open", "closed"}
    /\ serve \in {"accepting", "sleeping", "waiting", "returned"}
    /\ tempDelay \in {0, 10, 20, 40, 80, 160, 320, 640, 1000}
    /\ sem \in 0 .. MaxConns
    /\ activeConns \in Nat /\ totalDials \in Nat /\ deniedDials \in Nat
    /\ shutdown \in {"idle", "serveDone", "polling", "draining", "nil", "expired"}
    /\ main \in {"running", "signalled", "closed", "joining", "exited"}

Init ==
    /\ conn = [c \in Conns |-> "none"]
    /\ clientOpen = {}
    /\ listener = "open"
    /\ serve = "accepting" /\ tempDelay = 0
    /\ sem = 0 /\ activeConns = 0 /\ totalDials = 0 /\ deniedDials = 0
    /\ shutdown = "idle"
    /\ main = "running"

-----------------------------------------------------------------------------
(* Seeded faults: what the definitions below would be with a plausible bug. *)

StartWithoutSlot(c) ==
    /\ conn[c] = "held"
    /\ conn' = [conn EXCEPT ![c] = "serving"]
    /\ sem' = IF sem < MaxConns THEN sem + 1 ELSE sem
    /\ activeConns' = activeConns + 1 /\ totalDials' = totalDials + 1
    /\ UNCHANGED <<clientOpen, listener, serve, tempDelay, deniedDials, shutdown, main>>

ShutdownWithoutServeDone ==
    /\ main # "exited" /\ shutdown = "serveDone"
    /\ shutdown' = "polling"
    /\ UNCHANGED <<conn, clientOpen, listener, serve, tempDelay, sem, activeConns, totalDials,
                   deniedDials, main>>

-----------------------------------------------------------------------------
(* The clients *)

Connect(c) ==
    /\ main # "exited" /\ listener = "open" /\ conn[c] = "none"
    /\ conn' = [conn EXCEPT ![c] = "queued"]
    /\ clientOpen' = clientOpen \cup {c}
    /\ UNCHANGED <<listener, serve, tempDelay, sem, activeConns, totalDials, deniedDials,
                   shutdown, main>>

\* A client, or the destination it talks to, hangs up or fails.
HangUp(c) ==
    /\ c \in clientOpen
    /\ clientOpen' = clientOpen \ {c}
    /\ UNCHANGED <<conn, listener, serve, tempDelay, sem, activeConns, totalDials, deniedDials,
                   shutdown, main>>

-----------------------------------------------------------------------------
(* Serve *)

NextDelay(d) == IF d = 0 THEN 10 ELSE IF 2 * d > 1000 THEN 1000 ELSE 2 * d

Accept(c) ==
    /\ main # "exited" /\ serve = "accepting" /\ listener = "open" /\ In({"held"}) = {}
    /\ conn[c] = "queued"
    /\ conn' = [conn EXCEPT ![c] = "held"]
    /\ tempDelay' = 0
    /\ UNCHANGED <<clientOpen, listener, serve, sem, activeConns, totalDials, deniedDials,
                   shutdown, main>>

AcceptFails ==
    /\ main # "exited" /\ serve = "accepting" /\ listener = "open" /\ In({"held"}) = {}
    /\ tempDelay' = NextDelay(tempDelay)
    /\ serve' = "sleeping"
    /\ UNCHANGED <<conn, clientOpen, listener, sem, activeConns, totalDials, deniedDials,
                   shutdown, main>>

Wake ==
    /\ main # "exited" /\ serve = "sleeping"
    /\ serve' = "accepting"
    /\ UNCHANGED <<conn, clientOpen, listener, tempDelay, sem, activeConns, totalDials,
                   deniedDials, shutdown, main>>

\* The select: a free slot, or none.
Start(c) ==
    /\ main # "exited" /\ conn[c] = "held" /\ sem < MaxConns
    /\ sem' = sem + 1
    /\ totalDials' = totalDials + 1
    /\ activeConns' = activeConns + 1
    /\ conn' = [conn EXCEPT ![c] = "serving"]
    /\ UNCHANGED <<clientOpen, listener, serve, tempDelay, deniedDials, shutdown, main>>

Deny(c) ==
    /\ main # "exited" /\ conn[c] = "held" /\ sem = MaxConns
    /\ deniedDials' = deniedDials + 1
    /\ conn' = [conn EXCEPT ![c] = "denied"]
    /\ UNCHANGED <<clientOpen, listener, serve, tempDelay, sem, activeConns, totalDials,
                   shutdown, main>>

\* Accept reports net.ErrClosed: connections still queued are lost with the listener.
AcceptClosed ==
    /\ main # "exited" /\ serve = "accepting" /\ listener = "closed" /\ In({"held"}) = {}
    /\ serve' = "waiting"
    /\ UNCHANGED <<conn, clientOpen, listener, tempDelay, sem, activeConns, totalDials,
                   deniedDials, shutdown, main>>

\* wg.Wait returns; the deferred call closes serveDone.
ServeReturns ==
    /\ main # "exited" /\ serve = "waiting" /\ WaitGroupIsZero
    /\ serve' = "returned"
    /\ UNCHANGED <<conn, clientOpen, listener, tempDelay, sem, activeConns, totalDials,
                   deniedDials, shutdown, main>>

-----------------------------------------------------------------------------
(* A handler: ServeConn returns, then the deferred calls in their order *)

ReleaseSlot(c) ==
    /\ main # "exited" /\ conn[c] = "serving" /\ c \notin clientOpen
    /\ conn' = [conn EXCEPT ![c] = "counted"]
    /\ sem' = sem - 1
    /\ UNCHANGED <<clientOpen, listener, serve, tempDelay, activeConns, totalDials, deniedDials,
                   shutdown, main>>

ReleaseCount(c) ==
    /\ main # "exited" /\ conn[c] = "counted"
    /\ conn' = [conn EXCEPT ![c] = "added"]
    /\ activeConns' = activeConns - 1
    /\ UNCHANGED <<clientOpen, listener, serve, tempDelay, sem, totalDials, deniedDials,
                   shutdown, main>>

HandlerDone(c) ==
    /\ main # "exited" /\ conn[c] = "added"
    /\ conn' = [conn EXCEPT ![c] = "done"]
    /\ UNCHANGED <<clientOpen, listener, serve, tempDelay, sem, activeConns, totalDials,
                   deniedDials, shutdown, main>>

-----------------------------------------------------------------------------
(* main and Shutdown *)

Signal ==
    /\ main = "running"
    /\ main' = "signalled"
    /\ UNCHANGED <<conn, clientOpen, listener, serve, tempDelay, sem, activeConns, totalDials,
                   deniedDials, shutdown>>

\* ln.Close, then Shutdown is called with a context that expires.
CloseListener ==
    /\ main = "signalled"
    /\ listener' = "closed"
    /\ shutdown' = "serveDone"
    /\ main' = "closed"
    /\ UNCHANGED <<conn, clientOpen, serve, tempDelay, sem, activeConns, totalDials, deniedDials>>

ServeDoneSeen ==
    /\ main # "exited" /\ shutdown = "serveDone" /\ serve = "returned"
    /\ shutdown' = "polling"
    /\ UNCHANGED <<conn, clientOpen, listener, serve, tempDelay, sem, activeConns, totalDials,
                   deniedDials, main>>

PollsZero ==
    /\ main # "exited" /\ shutdown = "polling" /\ activeConns = 0
    /\ shutdown' = "draining"
    /\ UNCHANGED <<conn, clientOpen, listener, serve, tempDelay, sem, activeConns, totalDials,
                   deniedDials, main>>

ShutdownReturns ==
    /\ main # "exited" /\ shutdown = "draining" /\ WaitGroupIsZero
    /\ shutdown' = "nil"
    /\ UNCHANGED <<conn, clientOpen, listener, serve, tempDelay, sem, activeConns, totalDials,
                   deniedDials, main>>

\* The grace period is over while Shutdown waits in one of its selects.
GraceExpires ==
    /\ main # "exited" /\ shutdown \in {"serveDone", "polling"}
    /\ shutdown' = "expired"
    /\ UNCHANGED <<conn, clientOpen, listener, serve, tempDelay, sem, activeConns, totalDials,
                   deniedDials, main>>

Join ==
    /\ main = "closed" /\ shutdown \in {"nil", "expired"}
    /\ main' = "joining"
    /\ UNCHANGED <<conn, clientOpen, listener, serve, tempDelay, sem, activeConns, totalDials,
                   deniedDials, shutdown>>

\* Serve's result, or two seconds.
Exit ==
    /\ main = "joining"
    /\ main' = "exited"
    /\ UNCHANGED <<conn, clientOpen, listener, serve, tempDelay, sem, activeConns, totalDials,
                   deniedDials, shutdown>>

\* stopSignals has restored the default handler: a second signal kills the process.
SecondSignal ==
    /\ main \in {"closed", "joining"}
    /\ main' = "exited"
    /\ UNCHANGED <<conn, clientOpen, listener, serve, tempDelay, sem, activeConns, totalDials,
                   deniedDials, shutdown>>

-----------------------------------------------------------------------------

Serve ==
    \/ Wake \/ AcceptClosed \/ ServeReturns
    \/ \E c \in Conns : Accept(c) \/ Start(c) \/ Deny(c)

Handler(c) == ReleaseSlot(c) \/ ReleaseCount(c) \/ HandlerDone(c)

Shutdown == ServeDoneSeen \/ PollsZero \/ ShutdownReturns \/ GraceExpires

Main == CloseListener \/ Join \/ Exit

Next ==
    \/ \E c \in Conns : Connect(c) \/ HangUp(c) \/ Handler(c)
    \/ Serve \/ AcceptFails \/ Shutdown \/ Main \/ Signal \/ SecondSignal

\* The goroutines of the process run (Shutdown runs on main's) and the timers fire.
\* Nobody has to connect, hang up or send a signal, and Accept need not fail.
Fairness ==
    /\ WF_vars(Serve) /\ WF_vars(Shutdown \/ Main)
    /\ \A c \in Conns : WF_vars(Handler(c))

Spec == Init /\ [][Next]_vars /\ Fairness

-----------------------------------------------------------------------------
(* Properties *)

\* "drained gracefully" (main.go) is true: when Shutdown returns nil, Serve is
\* over, no connection is in anybody's hands and every counter is back at zero.
\* A connection accepted just before the listener closed is waited for too.
GracefulDrain ==
    shutdown = "nil" =>
        /\ serve = "returned"
        /\ In({"held", "serving", "counted", "added"}) = {}
        /\ sem = 0 /\ activeConns = 0

\* The slots bound the connections being served, although a slot is taken again
\* before its last holder is out of the other counters; and each counter
\* agrees with the connections it counts.
CountersAgree ==
    /\ sem = Cardinality(In({"serving"})) /\ sem <= MaxConns
    /\ activeConns = Cardinality(In({"serving", "counted"}))
    /\ totalDials = Cardinality(In({"serving", "counted", "added", "done"}))
    /\ deniedDials = Cardinality(In({"denied"}))

\* A signal ends the process, whatever clients that never hang up do.
SignalEndsProcess == main = "signalled" ~> main = "exited"

\* A slot comes back when its client has hung up, not only at the shutdown.
SlotReturned ==
    \A c \in Conns :
        (conn[c] = "serving" /\ c \notin clientOpen) ~> (conn[c] = "done" \/ main = "exited")

\* Who still holds what while the process goes down: Serve has one connection in its
\* hands at most and leaves its loop without one, it returns when no handler is left,
\* and Shutdown reads the counters only after that.
DrainOrder ==
    /\ \A c, d \in In({"held"}) : c = d
    /\ In({"held"}) # {} => serve = "accepting"
    /\ serve \in {"waiting", "returned"} => listener = "closed"
    /\ serve = "returned" => WaitGroupIsZero
    /\ shutdown \in {"polling", "draining", "nil"} => serve = "returned"

\* The slots, the counters and the connections agree, and the shutdown keeps its order.
ServerInv == TypeOK /\ CountersAgree /\ DrainOrder

\* The process ends after a signal, and until then slots come back.
ServerMovesOn == SignalEndsProcess /\ SlotReturned
=============================================================================
