---------------------------- MODULE GatewayServer ----------------------------
(***************************************************************************)
(* The SSH gateway's server: the accept loop with its slots, a connection  *)
(* from handshake to end, its session from the first request to the relay, *)
(* and the shutdown of the process.                                        *)
(*                                                                         *)
(* All that a client sends goes through one reader per connection, the mux *)
(* of the SSH library, which hands requests of the session to a channel of *)
(* ChanSize places.  While nobody takes requests from a full channel the   *)
(* mux is blocked, and neither input nor the end of the connection gets    *)
(* through.  Who takes the requests changes over the session: first the    *)
(* pump, up to the shell request, then nobody, then the relay or           *)
(* drainRequests.  Waiting for the VM differs too: registering a key,      *)
(* dialling and the handshake have time limits, setting up its shell and   *)
(* writing to it have none.                                                *)
(*                                                                         *)
(* A connection has at most one session.  How long Serve sleeps after a    *)
(* failing Accept is left out, and so are the counters of Stats.           *)
(***************************************************************************)
EXTENDS Naturals, Sequences, FiniteSets

CONSTANTS
    Conns,        \* the connections clients make
    Members,      \* those whose client can log in
    MaxConns,     \* the number of slots
    ChanSize,     \* places in the channel of requests
    Users         \* how many users of the VM the gateway may try

GatewayServerAssumption ==
    /\ IsFiniteSet(Conns) /\ Members \subseteq Conns
    /\ MaxConns \in Nat /\ ChanSize \in Nat /\ Users \in Nat

VARIABLES
    conn,         \* per connection: see ConnStates
    clientOpen,   \* the connections that neither the client nor the gateway has closed
    queue,        \* requests handed over by the mux; the last of ChanSize + 1 blocks it
    reader,       \* who takes the requests
    sess,         \* where handleSession is
    tries,        \* invalid selections in the menu; users of the VM that failed
    key,          \* ephemeral keys registered for the session: see Keys
    listener, serve,
    sem,          \* slots taken
    main          \* "running", "signalled", "closing", "drained" or "forced"

vars == <<conn, clientOpen, queue, reader, sess, tries, key,
          listener, serve, sem, main>>

\* "held": accepted, in Serve's hands.  "closing": the handshake has failed or the
\* mux has ended.  "released": out of its slot, but not out of the wait group.
ConnStates == {"none", "queued", "held", "handshake", "open", "closing", "released", "done", "denied"}

\* "queued": the pump has passed the shell request on and returned; "late": so it
\* has, but handleSession no longer waits for it.
Readers == {"none", "pump", "queued", "late", "relay", "drain"}

\* "inner": a key is registered, the VM is dialled.  "setup": in pipeSession before
\* it forwards.  "stuffed": in pipeSession, in a Write to a VM that takes nothing.
SessStates == {"none", "wait", "lookup", "menu", "dial", "inner", "setup", "relay",
               "stuffed", "cleanup", "ended"}

\* "own": handleSession has still to delete it.  "left": a call for it failed and
\* nobody will try again.
Keys == {"own", "left"}

TypeOK ==
    /\ conn \in [Conns -> ConnStates]
    /\ clientOpen \subseteq Conns
    /\ queue \in [Conns -> Seq({"shell", "other"})]
    /\ \A c \in Conns : Len(queue[c]) <= ChanSize + 1
    /\ reader \in [Conns -> Readers]
    /\ sess \in [Conns -> SessStates]
    /\ tries \in [Conns -> Nat]
    /\ key \in [Conns -> SUBSET Keys]
    /\ listener \in {"open", "closed"}
    /\ serve \in {"accepting", "sleeping", "waiting", "returned"}
    /\ sem \in 0 .. MaxConns
    /\ main \in {"running", "signalled", "closing", "drained", "forced"}

Init ==
    /\ conn = [c \in Conns |-> "none"]
    /\ clientOpen = {}
    /\ queue = [c \in Conns |-> <<>>]
    /\ reader = [c \in Conns |-> "none"]
    /\ sess = [c \in Conns |-> "none"]
    /\ tries = [c \in Conns |-> 0]
    /\ key = [c \in Conns |-> {}]
    /\ listener = "open" /\ serve = "accepting" /\ sem = 0
    /\ main = "running"

In(ss) == {c \in Conns : conn[c] \in ss}
Alive == main \in {"running", "signalled", "closing"}
Blocked(c) == Len(queue[c]) > ChanSize

\* The client's next input gets through to the gateway.
Hears(c) == Alive /\ c \in clientOpen /\ ~Blocked(c)

\* The mux has ended: reads of the session fail.
Ended(c) == conn[c] \in {"closing", "released", "done"}

server == <<listener, serve, sem, main>>
session == <<queue, reader, sess, tries, key>>

-----------------------------------------------------------------------------
(* Seeded faults: what the definitions below would be with a plausible bug. *)

LookupFailsUndrained(c) ==
    /\ Alive /\ sess[c] = "lookup"
    /\ sess' = [sess EXCEPT ![c] = "ended"]
    /\ UNCHANGED <<conn, clientOpen, queue, reader, tries, key, server>>

-----------------------------------------------------------------------------
(* The clients *)

Connect(c) ==
    /\ Alive /\ listener = "open" /\ conn[c] = "none"
    /\ conn' = [conn EXCEPT ![c] = "queued"]
    /\ clientOpen' = clientOpen \cup {c}
    /\ UNCHANGED <<session, server>>

HangUp(c) ==
    /\ Alive /\ c \in clientOpen
    /\ clientOpen' = clientOpen \ {c}
    /\ UNCHANGED <<conn, session, server>>

\* "shell" stands for shell and exec, "other" for pty-req, window-change and the rest.
Request(c, kind) ==
    /\ Hears(c) /\ sess[c] # "none"
    /\ queue' = [queue EXCEPT ![c] = Append(@, kind)]
    /\ UNCHANGED <<conn, clientOpen, reader, sess, tries, key, server>>

-----------------------------------------------------------------------------
(* Serve *)

Accept(c) ==
    /\ Alive /\ serve = "accepting" /\ listener = "open" /\ In({"held"}) = {} /\ conn[c] = "queued"
    /\ conn' = [conn EXCEPT ![c] = "held"]
    /\ UNCHANGED <<clientOpen, session, server>>

AcceptFails ==
    /\ Alive /\ serve = "accepting" /\ listener = "open" /\ In({"held"}) = {}
    /\ serve' = "sleeping"
    /\ UNCHANGED <<conn, clientOpen, session, listener, sem, main>>

Wake ==
    /\ Alive /\ serve = "sleeping"
    /\ serve' = "accepting"
    /\ UNCHANGED <<conn, clientOpen, session, listener, sem, main>>

\* A slot for the connection, or none: then it is closed before any handshake.
Start(c) ==
    /\ Alive /\ conn[c] = "held" /\ sem < MaxConns
    /\ sem' = sem + 1
    /\ conn' = [conn EXCEPT ![c] = "handshake"]
    /\ UNCHANGED <<clientOpen, session, listener, serve, main>>

Deny(c) ==
    /\ Alive /\ conn[c] = "held" /\ sem = MaxConns
    /\ conn' = [conn EXCEPT ![c] = "denied"]
    /\ clientOpen' = clientOpen \ {c}
    /\ UNCHANGED <<session, server>>

AcceptClosed ==
    /\ Alive /\ serve = "accepting" /\ listener = "closed" /\ In({"held"}) = {}
    /\ serve' = "waiting"
    /\ UNCHANGED <<conn, clientOpen, session, listener, sem, main>>

\* The deferred wg.Wait.
ServeReturns ==
    /\ Alive /\ serve = "waiting" /\ In({"handshake", "open", "closing", "released"}) = {}
    /\ serve' = "returned"
    /\ UNCHANGED <<conn, clientOpen, session, listener, sem, main>>

-----------------------------------------------------------------------------
(* handle *)

HandshakeOk(c) ==
    /\ Hears(c) /\ conn[c] = "handshake" /\ c \in Members
    /\ conn' = [conn EXCEPT ![c] = "open"]
    /\ UNCHANGED <<clientOpen, session, server>>

\* Refused, hung up, or at the deadline.
HandshakeFails(c) ==
    /\ Alive /\ conn[c] = "handshake"
    /\ conn' = [conn EXCEPT ![c] = "closing"]
    /\ UNCHANGED <<clientOpen, session, server>>

OpenSession(c) ==
    /\ Hears(c) /\ conn[c] = "open" /\ sess[c] = "none"
    /\ sess' = [sess EXCEPT ![c] = "wait"]
    /\ reader' = [reader EXCEPT ![c] = "pump"]
    /\ UNCHANGED <<conn, clientOpen, queue, tries, key, server>>

\* The mux sees the end of the connection, unless it is blocked; chans is closed.
MuxEnds(c) ==
    /\ Alive /\ conn[c] = "open" /\ c \notin clientOpen /\ ~Blocked(c)
    /\ conn' = [conn EXCEPT ![c] = "closing"]
    /\ UNCHANGED <<clientOpen, session, server>>

\* handle returns and closes the connection; of the deferred calls in Serve the
\* slot comes first, the wait group last.
ReleaseSlot(c) ==
    /\ Alive /\ conn[c] = "closing"
    /\ conn' = [conn EXCEPT ![c] = "released"]
    /\ clientOpen' = clientOpen \ {c}
    /\ sem' = sem - 1
    /\ UNCHANGED <<session, listener, serve, main>>

HandleDone(c) ==
    /\ Alive /\ conn[c] = "released"
    /\ conn' = [conn EXCEPT ![c] = "done"]
    /\ UNCHANGED <<clientOpen, session, server>>

-----------------------------------------------------------------------------
(* handleSession *)

\* The session moves on, with this reader of its requests from now on.
Moves(c, to, who) ==
    /\ sess' = [sess EXCEPT ![c] = to]
    /\ reader' = [reader EXCEPT ![c] = who]
    /\ UNCHANGED <<conn, queue, server>>

\* The pump answers requests; the shell request is the last one it takes.
Pump(c) ==
    /\ Alive /\ reader[c] = "pump" /\ queue[c] # <<>>
    /\ queue' = [queue EXCEPT ![c] = Tail(@)]
    /\ reader' = [reader EXCEPT ![c] =
            CASE Head(queue[c]) = "other" -> "pump"
              [] sess[c] = "wait" -> "queued"
              [] OTHER -> "late"]
    /\ UNCHANGED <<conn, clientOpen, sess, tries, key, server>>

\* The relay's and drainRequests' goroutine.
TakeRequest(c) ==
    /\ Alive /\ reader[c] \in {"relay", "drain"} /\ queue[c] # <<>>
    /\ queue' = [queue EXCEPT ![c] = Tail(@)]
    /\ UNCHANGED <<conn, clientOpen, reader, sess, tries, key, server>>

ShellRequested(c) ==
    /\ Alive /\ sess[c] = "wait" /\ reader[c] = "queued"
    /\ Moves(c, "lookup", "queued")
    /\ UNCHANGED <<clientOpen, tries, key>>

\* 15 seconds without a shell request.  The pump goes on.
NoShellRequest(c) ==
    /\ Alive /\ sess[c] = "wait"
    /\ Moves(c, "ended", IF reader[c] = "queued" THEN "late" ELSE reader[c])
    /\ UNCHANGED <<clientOpen, tries, key>>

\* No instances, a failing look-up or an unknown name.
LookupFails(c) ==
    /\ Alive /\ sess[c] = "lookup"
    /\ Moves(c, "ended", "drain")
    /\ UNCHANGED <<clientOpen, tries, key>>

\* One instance, or the one named by exec: dial; several: the menu.
LookupDone(c, to) ==
    /\ Alive /\ sess[c] = "lookup"
    /\ Moves(c, to, reader[c])
    /\ UNCHANGED <<clientOpen, tries, key>>

MenuSelects(c) ==
    /\ Hears(c) /\ sess[c] = "menu"
    /\ Moves(c, "dial", reader[c])
    /\ tries' = [tries EXCEPT ![c] = 0]
    /\ UNCHANGED <<clientOpen, key>>

\* Three invalid lines end the session.
MenuInvalid(c) ==
    /\ Hears(c) /\ sess[c] = "menu"
    /\ IF tries[c] < 2
       THEN /\ tries' = [tries EXCEPT ![c] = @ + 1]
            /\ UNCHANGED <<conn, queue, reader, sess, server>>
       ELSE /\ tries' = [tries EXCEPT ![c] = 0]
            /\ Moves(c, "ended", "drain")
    /\ UNCHANGED <<clientOpen, key>>

MenuReadFails(c) ==
    /\ Alive /\ sess[c] = "menu" /\ Ended(c)
    /\ tries' = [tries EXCEPT ![c] = 0]
    /\ Moves(c, "ended", "drain")
    /\ UNCHANGED <<clientOpen, key>>

\* No address, or no further user to try.
DialFails(c) ==
    /\ Alive /\ sess[c] = "dial"
    /\ Moves(c, "ended", "drain")
    /\ tries' = [tries EXCEPT ![c] = 0]
    /\ UNCHANGED <<clientOpen, key>>

Register(c) ==
    /\ Alive /\ sess[c] = "dial" /\ tries[c] < Users
    /\ Moves(c, "inner", reader[c])
    /\ key' = [key EXCEPT ![c] = @ \cup {"own"}]
    /\ UNCHANGED <<clientOpen, tries>>

\* After five seconds the key may still get registered, but nobody deletes it.
RegisterFails(c) ==
    /\ Alive /\ sess[c] = "dial" /\ tries[c] < Users
    /\ \E left \in SUBSET {"left"} : key' = [key EXCEPT ![c] = @ \cup left]
    /\ tries' = [tries EXCEPT ![c] = @ + 1]
    /\ UNCHANGED <<conn, clientOpen, queue, reader, sess, server>>

\* A call that fails is only logged.
deleteEphemeralKey(c) ==
    \E left \in SUBSET {"left"} : key' = [key EXCEPT ![c] = (@ \ {"own"}) \cup left]

\* The VM is not reached or refuses the key: the next user is tried.
InnerFails(c) ==
    /\ Alive /\ sess[c] = "inner"
    /\ Moves(c, "dial", reader[c])
    /\ deleteEphemeralKey(c)
    /\ tries' = [tries EXCEPT ![c] = @ + 1]
    /\ UNCHANGED clientOpen

InnerOk(c) ==
    /\ Alive /\ sess[c] = "inner"
    /\ Moves(c, "setup", reader[c])
    /\ tries' = [tries EXCEPT ![c] = 0]
    /\ UNCHANGED <<clientOpen, key>>

\* The VM has answered NewSession, RequestPty and Shell.
SetupDone(c) ==
    /\ Alive /\ sess[c] = "setup"
    /\ Moves(c, "relay", "relay")
    /\ UNCHANGED <<clientOpen, tries, key>>

SetupFails(c) ==
    /\ Alive /\ sess[c] = "setup"
    /\ Moves(c, "cleanup", "drain")
    /\ UNCHANGED <<clientOpen, tries, key>>

VmHangs(c) ==
    /\ Alive /\ sess[c] = "relay"
    /\ Moves(c, "stuffed", reader[c])
    /\ UNCHANGED <<clientOpen, tries, key>>

VmTakes(c) ==
    /\ Alive /\ sess[c] = "stuffed"
    /\ Moves(c, "relay", reader[c])
    /\ UNCHANGED <<clientOpen, tries, key>>

\* The shell in the VM exits, at any time, or the client has left: pipeSession closes
\* the client's connection, and then the session in the VM, which may block.
RelayEnds(c) ==
    /\ Alive /\ sess[c] \in {"relay", "stuffed"}
    /\ Moves(c, "cleanup", reader[c]) \/ Moves(c, "stuffed", reader[c])
    /\ clientOpen' = clientOpen \ {c}
    /\ UNCHANGED <<tries, key>>

\* The deferred deleteEphemeralKey, after handle may have returned already.
Cleanup(c) ==
    /\ Alive /\ sess[c] = "cleanup"
    /\ Moves(c, "ended", reader[c])
    /\ deleteEphemeralKey(c)
    /\ UNCHANGED <<clientOpen, tries>>

-----------------------------------------------------------------------------
(* main *)

Signal ==
    /\ main = "running"
    /\ main' = "signalled"
    /\ UNCHANGED <<conn, clientOpen, session, listener, serve, sem>>

CloseListener ==
    /\ main = "signalled"
    /\ listener' = "closed"
    /\ main' = "closing"
    /\ UNCHANGED <<conn, clientOpen, session, serve, sem>>

Drained ==
    /\ main = "closing" /\ serve = "returned"
    /\ main' = "drained"
    /\ UNCHANGED <<conn, clientOpen, session, listener, serve, sem>>

\* 30 seconds.
ForceExit ==
    /\ main = "closing"
    /\ main' = "forced"
    /\ UNCHANGED <<conn, clientOpen, session, listener, serve, sem>>

-----------------------------------------------------------------------------

Serve ==
    \/ Wake \/ AcceptClosed \/ ServeReturns
    \/ \E c \in Conns : Accept(c) \/ Start(c) \/ Deny(c)

Handle(c) == HandshakeFails(c) \/ MuxEnds(c) \/ ReleaseSlot(c) \/ HandleDone(c)

\* What handleSession does without the client.
Session(c) ==
    \/ ShellRequested(c) \/ NoShellRequest(c)
    \/ LookupFails(c) \/ LookupDone(c, "dial") \/ LookupDone(c, "menu")
    \/ MenuReadFails(c) \/ DialFails(c) \/ Register(c) \/ RegisterFails(c)
    \/ InnerFails(c) \/ InnerOk(c) \/ Cleanup(c)

\* What the VM does in a session, whenever it likes.
Vm(c) == SetupDone(c) \/ SetupFails(c) \/ VmHangs(c) \/ VmTakes(c) \/ RelayEnds(c)

\* What a relay does whose VM takes what is written to it.
RelaySeesEnd(c) == sess[c] = "relay" /\ Ended(c) /\ RelayEnds(c)
Forwards(c) == sess[c] \notin {"stuffed", "cleanup"} /\ TakeRequest(c)

\* The two goroutines of a session: who reads its requests, and its handler.
HandlerRuns(c) == Session(c) \/ RelaySeesEnd(c)
ReaderRuns(c) == Pump(c) \/ Forwards(c)

Main == CloseListener \/ Drained \/ ForceExit

Next ==
    \/ \E c \in Conns :
        \/ Connect(c) \/ HangUp(c) \/ HandshakeOk(c) \/ OpenSession(c)
        \/ \E kind \in {"shell", "other"} : Request(c, kind)
        \/ Handle(c) \/ Pump(c) \/ TakeRequest(c)
        \/ Session(c) \/ MenuSelects(c) \/ MenuInvalid(c) \/ Vm(c)
    \/ Serve \/ AcceptFails \/ Main \/ Signal

\* Goroutines run, timers fire, look-ups, key calls and dials come back (all have
\* timeouts).  Clients need not send anything nor leave; VMs need not answer, take
\* anything nor let a shell exit.  Only Members ever have a session.
Fairness ==
    /\ WF_vars(Serve) /\ WF_vars(Main)
    /\ \A c \in Conns : WF_vars(Handle(c))
    /\ \A c \in Members : WF_vars(ReaderRuns(c)) /\ WF_vars(HandlerRuns(c))

Spec == Init /\ [][Next]_vars /\ Fairness

-----------------------------------------------------------------------------
(* Properties *)

\* Slots bound the connections that are served, before and after the login; a
\* process that says it has drained serves nobody; and no way out of a session, nor
\* out of an attempt to dial, forgets the key it registered.
SlotsAndKeys ==
    /\ sem = Cardinality(In({"handshake", "open", "closing"}))
    /\ main = "drained" => In({"held", "handshake", "open", "closing", "released"}) = {}
    /\ \A c \in Conns :
        /\ "own" \in key[c] <=> sess[c] \in {"inner", "setup", "relay", "stuffed", "cleanup"}
        /\ sess[c] # "none" => conn[c] \in {"open", "closing", "released", "done"}

\* A VM that does not answer, or does not take what is written to it.
Silent(c) == sess[c] \in {"setup", "stuffed"}

\* The mux waits for a reader that may never come: at the menu, which itself waits
\* for input through the mux, after a shell request that came too late, or while the
\* session waits for a silent VM.
Wedged(c) == Blocked(c) /\ (sess[c] = "menu" \/ reader[c] = "late" \/ Silent(c))

\* A client that has left gives its slot back and the deletion of its key is tried, at
\* whatever point of the session it left and however many requests it had sent; the
\* only exceptions are a wedged mux and, for the key, a silent VM.
SlotComesBack ==
    \A c \in Members :
        /\ (conn[c] = "open" /\ c \notin clientOpen) ~> (conn[c] = "done" \/ Wedged(c) \/ ~Alive)
        /\ ("own" \in key[c] /\ c \notin clientOpen)
               ~> ("own" \notin key[c] \/ Silent(c) \/ Wedged(c) \/ ~Alive)

\* A client that never logs in does not keep its slot, and a signal ends the process.
NobodyStays ==
    /\ \A c \in Conns : conn[c] = "handshake" ~> (conn[c] # "handshake" \/ ~Alive)
    /\ main = "signalled" ~> ~Alive

\* Once the listener is closed Serve has no connection in its hands, and when it has waited
\* for those it started, there are none.
ServeEnds ==
    /\ serve \in {"waiting", "returned"} => listener = "closed" /\ In({"held"}) = {}
    /\ serve = "returned" => In({"handshake", "open", "closing", "released"}) = {}
    /\ main = "drained" => serve = "returned"

GatewayInv == TypeOK /\ SlotsAndKeys /\ ServeEnds

GatewayMovesOn == SlotComesBack /\ NobodyStays
=============================================================================
