--------------------------- MODULE ConsoleLiveness ---------------------------
(***************************************************************************)
(* How a web console ends (internal/domain/access/console_liveness.go and  *)
(* the relay loop of handler.go, relayConsole).  A shell on the VM is      *)
(* relayed to a browser by three io.Copy pumps; a watcher checks on every  *)
(* tick of its ticker that the console is not past its lifetime, not idle  *)
(* and that the VM and the browser answer a probe.  Whichever ends first   *)
(* cancels a shared context with its reason, and the relay then closes the *)
(* session, waits for it and closes the browser's transport, which must    *)
(* get every goroutine out of the call it is blocked in.                   *)
(*                                                                         *)
(* The clock counts keepalive intervals.  A check takes at most one probe  *)
(* timeout (10 s), less than an interval (30 s), so the ticker does not    *)
(* fire again while one is under way.                                      *)
(***************************************************************************)
EXTENDS Naturals

CONSTANTS
    IdleTimeout,    \* webConsoleIdleTimeout, in intervals
    MaxLifetime     \* webConsoleMaxLifetime, in intervals

ConsoleLivenessAssumption == IdleTimeout \in Nat \ {0} /\ MaxLifetime \in Nat \ {0}

VARIABLES
    clock,          \* intervals since the console started
    lastActive,     \* consoleLiveness.lastActive
    ticked,         \* ticker.C holds a tick
    watch,          \* watchConsole: where its goroutine is
    ctx,            \* "live", or the cause the context was cancelled with
    vm,             \* the VM's side of the SSH connection
    peer,           \* the browser
    pumps,          \* the io.Copy goroutines that still run
    stuffed,        \* the input pump is blocked writing to the shell's stdin
    relay,          \* relayConsole: where it is
    outcome         \* the error it returned

vars == <<clock, lastActive, ticked, watch, ctx, vm, peer, pumps, stuffed, relay, outcome>>

Verdicts == {"lifetime", "idle", "probe"}

TypeOK ==
    /\ clock \in Nat /\ lastActive \in 0..clock
    /\ ticked \in BOOLEAN
    /\ watch \in {"off", "waiting", "probeVM", "probePeer", "stopped"}
    /\ ctx \in {"live", "canceled"} \cup Verdicts
    /\ vm \in {"up", "silent", "exited", "broken"}
    /\ peer \in {"up", "silent", "gone"}
    /\ pumps \subseteq {"stdout", "stderr", "stdin"}
    /\ stuffed \in BOOLEAN
    /\ relay \in {"idle", "select", "waiting", "closing", "returned"}
    /\ outcome \in {"none", "wait"} \cup Verdicts

Init ==
    /\ clock = 0 /\ lastActive = 0 /\ ticked = FALSE
    /\ watch = "off" /\ ctx = "live"
    /\ vm = "up" /\ peer = "up"
    /\ pumps = {} /\ stuffed = FALSE
    /\ relay = "idle" /\ outcome = "none"

\* context.CancelCauseFunc: the first cause stays.
Cancel(cause) == ctx' = IF ctx = "live" THEN cause ELSE ctx

\* The shell runs: newConsoleLiveness, watchConsole and the pumps start.
Start ==
    /\ relay = "idle"
    /\ relay' = "select"
    /\ watch' = "waiting"
    /\ pumps' = {"stdout", "stderr", "stdin"}
    /\ UNCHANGED <<clock, lastActive, ticked, ctx, vm, peer, stuffed, outcome>>

-----------------------------------------------------------------------------
(* The VM and the browser. *)

\* The shell exits, the connection breaks, or the VM stops answering without
\* closing it (a hung sshd) and perhaps comes back.
VMChanges ==
    /\ relay # "idle"
    /\ \/ vm = "up" /\ vm' \in {"exited", "broken", "silent"}
       \/ vm = "silent" /\ vm' \in {"up", "broken"}
       \/ vm = "exited" /\ vm' = "broken"
    /\ UNCHANGED <<clock, lastActive, ticked, watch, ctx, peer, pumps, stuffed, relay, outcome>>

\* The browser leaves, or stops answering; a flush that times out then closes
\* its connection.
PeerChanges ==
    /\ relay # "idle"
    /\ \/ peer = "up" /\ peer' \in {"gone", "silent"}
       \/ peer = "silent" /\ peer' = "gone"
    /\ UNCHANGED <<clock, lastActive, ticked, watch, ctx, vm, pumps, stuffed, relay, outcome>>

Tick ==
    /\ watch = "waiting" /\ ~ticked
    /\ clock' = clock + 1
    /\ ticked' = TRUE
    /\ UNCHANGED <<lastActive, watch, ctx, vm, peer, pumps, stuffed, relay, outcome>>

-----------------------------------------------------------------------------
(* The pumps.  trackedConsole stamps every successful read and write. *)

Touch == lastActive' = clock

\* A pump's io.Copy returned: its deferred cancel gives no cause.
PumpEnds(p) ==
    /\ pumps' = pumps \ {p}
    /\ Cancel("canceled")

\* The browser typed; the shell's window may be full, which blocks the pump.
Input ==
    /\ "stdin" \in pumps /\ ~stuffed
    /\ peer = "up" /\ relay # "returned"
    /\ Touch
    /\ stuffed' = TRUE
    /\ UNCHANGED <<clock, ticked, watch, ctx, vm, peer, pumps, relay, outcome>>

InputTaken ==
    /\ stuffed /\ vm = "up"
    /\ stuffed' = FALSE
    /\ UNCHANGED <<clock, lastActive, ticked, watch, ctx, vm, peer, pumps, relay, outcome>>

\* The session is over for a pump that reads from or writes to it.
SessionOver == vm \in {"exited", "broken"} \/ relay \in {"closing", "returned"}

InputEnds ==
    /\ "stdin" \in pumps
    /\ IF stuffed THEN SessionOver ELSE peer = "gone" \/ relay = "returned"
    /\ stuffed' = FALSE
    /\ PumpEnds("stdin")
    /\ UNCHANGED <<clock, lastActive, ticked, watch, vm, peer, relay, outcome>>

\* Output is stamped once it is in the console's buffer, whether or not the
\* browser still takes it.
Output ==
    /\ pumps \ {"stdin"} # {}
    /\ vm = "up" /\ relay \in {"select", "waiting"}
    /\ Touch
    /\ UNCHANGED <<clock, ticked, watch, ctx, vm, peer, pumps, stuffed, relay, outcome>>

\* A flush to the browser failed: the console refuses the next output.
OutputRefused(p) ==
    /\ p \in pumps
    /\ vm = "up" /\ peer = "gone"
    /\ PumpEnds(p)
    /\ UNCHANGED <<clock, lastActive, ticked, watch, vm, peer, stuffed, relay, outcome>>

OutputEnds(p) ==
    /\ p \in pumps /\ SessionOver
    /\ PumpEnds(p)
    /\ UNCHANGED <<clock, lastActive, ticked, watch, vm, peer, stuffed, relay, outcome>>

-----------------------------------------------------------------------------
(* watchConsole *)

\* Seeded fault: the watcher only logs its verdict and returns.
VerdictOnlyLogged(cause) == watch' = "stopped" /\ ctx' = ctx

Verdict(cause) == watch' = "stopped" /\ Cancel(cause)

WatchStops ==
    /\ watch = "waiting" /\ ctx # "live"
    /\ watch' = "stopped"
    /\ UNCHANGED <<clock, lastActive, ticked, ctx, vm, peer, pumps, stuffed, relay, outcome>>

Expired == clock >= MaxLifetime
Idle == clock - lastActive >= IdleTimeout

\* A tick: check looks at the clock first and then runs the probes in order.
Check ==
    /\ watch = "waiting" /\ ticked
    /\ ticked' = FALSE
    /\ \/ Expired /\ Verdict("lifetime")
       \/ ~Expired /\ Idle /\ Verdict("idle")
       \/ ~Expired /\ ~Idle /\ watch' = "probeVM" /\ ctx' = ctx
    /\ UNCHANGED <<clock, lastActive, vm, peer, pumps, stuffed, relay, outcome>>

\* The probe's own context ends with the relay's.
ProbeFails == ctx # "live" /\ Verdict("probe")

\* sshKeepaliveProbe: a silent VM is given up on at the probe timeout.
ProbeVM ==
    /\ watch = "probeVM"
    /\ \/ vm \in {"up", "exited"} /\ watch' = "probePeer" /\ ctx' = ctx
       \/ vm \in {"silent", "broken"} /\ Verdict("probe")
       \/ ProbeFails
    /\ UNCHANGED <<clock, lastActive, ticked, vm, peer, pumps, stuffed, relay, outcome>>

\* Ping: the pong is seen only while the input pump reads from the browser.
ProbePeer ==
    /\ watch = "probePeer"
    /\ LET answers == peer = "up" /\ "stdin" \in pumps /\ ~stuffed
       IN \/ answers /\ watch' = "waiting" /\ ctx' = ctx
          \/ ~answers /\ Verdict("probe")
          \/ ProbeFails
    /\ UNCHANGED <<clock, lastActive, ticked, vm, peer, pumps, stuffed, relay, outcome>>

-----------------------------------------------------------------------------
(* relayConsole from the select on *)

\* sess.Wait returns once the shell has exited or the connection broke, and
\* after sess.Close once the VM answers it.
SelectWait ==
    /\ relay = "select" /\ vm \in {"exited", "broken"}
    /\ relay' = "closing"
    /\ outcome' = "wait"
    /\ UNCHANGED <<clock, lastActive, ticked, watch, ctx, vm, peer, pumps, stuffed>>

SelectDone ==
    /\ relay = "select" /\ ctx # "live"
    /\ relay' = "waiting"
    /\ UNCHANGED <<clock, lastActive, ticked, watch, ctx, vm, peer, pumps, stuffed, outcome>>

WaitReturns ==
    /\ relay = "waiting" /\ vm # "silent"
    /\ relay' = "closing"
    /\ outcome' = IF ctx \in Verdicts THEN ctx ELSE "wait"
    /\ UNCHANGED <<clock, lastActive, ticked, watch, ctx, vm, peer, pumps, stuffed>>

\* client.Close, the key is deleted, and the deferred calls close the session,
\* the SSH connection and the context.
Return ==
    /\ relay = "closing"
    /\ relay' = "returned"
    /\ Cancel("canceled")
    /\ UNCHANGED <<clock, lastActive, ticked, watch, vm, peer, pumps, stuffed, outcome>>

-----------------------------------------------------------------------------

Pumps ==
    \/ InputEnds
    \/ \E p \in {"stdout", "stderr"} : OutputRefused(p) \/ OutputEnds(p)
Watcher == WatchStops \/ Check \/ ProbeVM \/ ProbePeer
Relay == SelectWait \/ SelectDone \/ WaitReturns \/ Return

Next ==
    \/ Start \/ VMChanges \/ PeerChanges \/ Tick
    \/ Input \/ InputTaken \/ Output
    \/ Pumps \/ Watcher \/ Relay

\* Goroutines are scheduled, the ticker fires and a VM that answers does so; each pump
\* ends once.  Nothing makes the browser or the shell do anything.
Fairness ==
    /\ WF_vars(Tick \/ Watcher) /\ WF_vars(Relay)
    /\ WF_vars(InputEnds \/ \E p \in {"stdout", "stderr"} : OutputEnds(p))

Spec == Init /\ [][Next]_vars /\ Fairness

-----------------------------------------------------------------------------

\* Between two checks a console whose context is live is within its lifetime and its
\* idle time (console_liveness.go:58), and the watcher's reason is lost only if the
\* shell had ended by itself (handler.go:402).
WithinLimits ==
    /\ (watch = "waiting" /\ ~ticked /\ ctx = "live") =>
           clock < MaxLifetime /\ clock - lastActive < IdleTimeout
    /\ (relay \in {"closing", "returned"} /\ ctx \in Verdicts) =>
           outcome = ctx \/ vm \in {"exited", "broken"}

\* Before the start no time has passed; a check that is under way has found the clock within
\* the limits, and so it stays until the next tick; and while the relay waits after the
\* context has ended, or has done so, the cause is settled.
Underway ==
    /\ relay = "idle" => clock = 0 /\ watch = "off"
    /\ watch \in {"probeVM", "probePeer"} \/ (watch = "waiting" /\ ~ticked) =>
           clock < MaxLifetime /\ clock - lastActive < IdleTimeout
    /\ relay = "waiting" => ctx # "live"
    /\ relay \in {"closing", "returned"} =>
           vm \in {"exited", "broken"} \/ ctx \in {outcome, "canceled"}

ConsoleInv == TypeOK /\ WithinLimits /\ Underway

\* Whatever the shell and the browser do, a console ends, at the latest at its
\* lifetime (handler.go:396), and takes its pumps and its watcher with it
\* (handler.go:407) - as long as the VM answers.
ConsoleEnds ==
    /\ (relay # "idle") ~> (relay = "returned" \/ vm = "silent")
    /\ (relay = "returned") ~> (pumps = {} /\ watch = "stopped")

\* The watcher's verdict tears the console down: "decides when an interactive console
\* must be torn down: idle too long, alive past the absolute cap, or a liveness probe
\* failing" (console_liveness.go:30).
VerdictTearsDown == (ctx \in Verdicts) ~> (relay = "returned")
=============================================================================
