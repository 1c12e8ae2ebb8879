----------------------------- MODULE MCGoroutines -----------------------------
(***************************************************************************)
(* Five hand-offs between goroutines, with no state in common: the         *)
(* gateway's pending logins and its relay, the web console's output        *)
(* buffer, the flavor cache and a function's data protocol.  One of them   *)
(* moves while the others rest in their initial states, where none of      *)
(* their fair steps is enabled, so each is checked under its own fairness. *)
(***************************************************************************)
EXTENDS SshSessionStore

CONSTANTS
    Writers, MaxWrites, Limit, FlushMax,               \* ConsoleOutput
    MaxShellOutput,                                    \* GatewayRelay
    Callers, NoCaller, MaxVersion, EmptyVersions,      \* FlavorCache
    MaxOps, MaxLines                                   \* DataProtocol

VARIABLES
    buf, out, sent, closed, wake, flushNow, done, writer, flusher, closer, accepted, broken,
    client, channel, shell, hung, unread, produced, delivered, stdinCopy, stdoutCopy, pipe, keyDeleted,
    backend, cache, fresh, refreshing, refreshGot, inflight, call, fetch,
    guest, exec, pending, total, ops, applied, held, replies, got, final, texts, exceeded,
    deadline, result

Output == INSTANCE ConsoleOutput
Relay == INSTANCE GatewayRelay WITH MaxOutput <- MaxShellOutput
Flavors == INSTANCE FlavorCache
Data == INSTANCE DataProtocol WITH MaxOutput <- MaxLines

ASSUME FlavorAssumption == Flavors!FlavorCacheAssumption
ASSUME OutputAssumption == Output!ConsoleOutputAssumption
ASSUME RelayAssumption == Relay!GatewayRelayAssumption
ASSUME DataAssumption == Data!DataProtocolAssumption

outputVars == <<buf, out, sent, closed, wake, flushNow, done, writer, flusher, closer,
                accepted, broken>>
relayVars == <<client, channel, shell, hung, unread, produced, delivered, stdinCopy, stdoutCopy,
               pipe, keyDeleted>>
flavorVars == <<backend, cache, fresh, refreshing, refreshGot, inflight, call, fetch>>
dataVars == <<guest, exec, pending, total, ops, applied, held, replies, got, final, texts,
              exceeded, deadline, result>>
allVars == <<vars, outputVars, relayVars, flavorVars, dataVars>>

AllInit ==
    /\ Init /\ Output!Init /\ Relay!Init
    /\ Flavors!Init /\ Data!Init

StoreMoves ==
    /\ Output!Init /\ Relay!Init /\ Flavors!Init /\ Data!Init
    /\ Next
    /\ UNCHANGED <<outputVars, relayVars, flavorVars, dataVars>>

OutputMoves ==
    /\ Init /\ Relay!Init /\ Flavors!Init /\ Data!Init
    /\ Output!Next
    /\ UNCHANGED <<vars, relayVars, flavorVars, dataVars>>

RelayMoves ==
    /\ Init /\ Output!Init /\ Flavors!Init /\ Data!Init
    /\ Relay!Next
    /\ UNCHANGED <<vars, outputVars, flavorVars, dataVars>>

FlavorsMove ==
    /\ Init /\ Output!Init /\ Relay!Init /\ Data!Init
    /\ Flavors!Next
    /\ UNCHANGED <<vars, outputVars, relayVars, dataVars>>

DataMoves ==
    /\ Init /\ Output!Init /\ Relay!Init /\ Flavors!Init
    /\ Data!Next
    /\ UNCHANGED <<vars, outputVars, relayVars, flavorVars>>

AllNext ==
    \/ OutputMoves \/ StoreMoves \/ RelayMoves
    \/ FlavorsMove \/ DataMoves

AllSpec ==
    /\ AllInit
    /\ [][AllNext]_allVars
    /\ Fairness /\ Output!Fairness /\ Relay!Fairness
    /\ Flavors!Fairness /\ Data!Fairness

-----------------------------------------------------------------------------

\* Every pending login leaves the store (sessions.go:102), and every way out of it
\* wakes the waiting connection up, even if the timer of Wait never fires.
LoginsEnd == NoStrandedWaiter /\ PendingDrains

\* No wake-up is lost: gathered output is flushed (access/handler.go:582) and a pump
\* that waits for room in the buffer goes on (handler.go:543).
OutputNeverStalls == Output!OutputFlushed /\ Output!NoStuckWriter /\ Output!CloseEnds

\* A gateway session whose client or shell has left is torn down completely, the deletion
\* of its key included, unless its VM takes nothing more (cmd/ssh-gateway/relay.go:134, 171).
SessionEnds == Relay!SessionEnds

\* The cached flavors never go back to an older list (compute/service.go:127).
CacheNeverOlder == Flavors!CacheNeverOlder

\* A caller that waits for another one's fetch of the flavors returns
\* (compute/service.go:102), and so does every invocation of a function
\* (functions/service.go:408).
CallsReturn == Flavors!WaitersReturn /\ Data!InvocationReturns

\* What each hand-off keeps: the browser gets the accepted output in order and complete
\* (access/handler.go:552), all of it before the console is closed (handler.go:571); no
\* session in use is closed by the gateway, one fetch of the flavors at a time whose
\* result all waiters share, the guest reads one reply for each request in order
\* (data_protocol.go:138) and is never blocked by Write nor served beyond its limit, no
\* successful result lacks output.
HandOffInv ==
    /\ Output!OutputInv /\ Relay!RelayInv
    /\ Flavors!FlavorsInv /\ Data!DataInv
=============================================================================
