------------------------------ MODULE MCServers ------------------------------
(***************************************************************************)
(* What serves connections and how it ends: ns-proxy (ProxyServer), the    *)
(* SSH gateway (GatewayServer), a web console (ConsoleLiveness) and the    *)
(* HTTP servers as processes (Processes).  They have no state in common:   *)
(* one moves while the others rest in their initial states, where none of  *)
(* their fair steps is enabled, so each is checked under its own fairness. *)
(***************************************************************************)
EXTENDS ProxyServer

CONSTANTS
    GwConns, GwMembers, GwMaxConns, GwChanSize, GwUsers,   \* GatewayServer
    IdleTimeout, MaxLifetime,                              \* ConsoleLiveness
    Requests, Upgrades, NoUnit                             \* Processes

VARIABLES
    gwConn, gwClientOpen, queue, reader, sess, tries, key, gwListener, gwServe, gwSem, gwMain,
    clock, lastActive, ticked, watch, ctx, vm, peer, pumps, stuffed, relay, outcome,
    unit, proc, procListener, procCtx, exit, asked, req, late

Gateway == INSTANCE GatewayServer WITH
    Conns <- GwConns, Members <- GwMembers, MaxConns <- GwMaxConns, ChanSize <- GwChanSize, Users <- GwUsers,
    conn <- gwConn, clientOpen <- gwClientOpen, listener <- gwListener, serve <- gwServe,
    sem <- gwSem, main <- gwMain
Console == INSTANCE ConsoleLiveness
Process == INSTANCE Processes WITH listener <- procListener, ctx <- procCtx

ASSUME GatewayAssumption == Gateway!GatewayServerAssumption
ASSUME ConsoleAssumption == Console!ConsoleLivenessAssumption

gatewayVars == <<gwConn, gwClientOpen, queue, reader, sess, tries, key, gwListener, gwServe,
                 gwSem, gwMain>>
consoleVars == <<clock, lastActive, ticked, watch, ctx, vm, peer, pumps, stuffed, relay, outcome>>
processVars == <<unit, proc, procListener, procCtx, exit, asked, req, late>>
allVars == <<vars, gatewayVars, consoleVars, processVars>>

AllInit == Init /\ Gateway!Init /\ Console!Init /\ Process!Init

ProxyMoves ==
    /\ Gateway!Init /\ Console!Init /\ Process!Init
    /\ Next
    /\ UNCHANGED <<gatewayVars, consoleVars, processVars>>

GatewayMoves ==
    /\ Init /\ Console!Init /\ Process!Init
    /\ Gateway!Next
    /\ UNCHANGED <<vars, consoleVars, processVars>>

ConsoleMoves ==
    /\ Init /\ Gateway!Init /\ Process!Init
    /\ Console!Next
    /\ UNCHANGED <<vars, gatewayVars, processVars>>

ProcessMoves ==
    /\ Init /\ Gateway!Init /\ Console!Init
    /\ Process!Next
    /\ UNCHANGED <<vars, gatewayVars, consoleVars>>

AllNext == ProxyMoves \/ GatewayMoves \/ ConsoleMoves \/ ProcessMoves

AllSpec ==
    /\ AllInit
    /\ [][AllNext]_allVars
    /\ Fairness /\ Gateway!Fairness /\ Console!Fairness /\ Process!Fairness

-----------------------------------------------------------------------------

\* Slots, counters and connections agree in both servers (cmd/ns-proxy/server.go:71,
\* cmd/ssh-gateway/server.go:99), the gateway forgets no key it has registered (:228)
\* and drains as it says, a web console is within its limits after every check
\* (access/console_liveness.go:58), and an HTTP server answers what it has accepted before
\* it ends in good order (cmd/app-gateway/main.go:84).
ServersInv ==
    /\ ServerInv /\ Gateway!GatewayInv
    /\ Console!ConsoleInv /\ Process!ProcessInv

\* Both processes end after a signal, and until then slots come back and keys are
\* given up once the client has left (cmd/ssh-gateway/server.go:104), except where the
\* gateway's mux is wedged or its VM is silent; the HTTP servers end when told to, and one that failed is
\* started again.
ServersMoveOn == ServerMovesOn /\ Gateway!GatewayMovesOn /\ Process!StopsAndStarts

\* A web console ends, at the latest at its lifetime, and leaves no goroutine behind,
\* unless its VM does not answer (access/handler.go:396).
ConsoleEnds == Console!ConsoleEnds
=============================================================================
