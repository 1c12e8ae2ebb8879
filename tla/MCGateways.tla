------------------------------ MODULE MCGateways -----------------------------
(***************************************************************************)
(* What the gateways keep: the app gateway's caches (AppGateway), the keys *)
(* of web consoles and of the SSH gateway (ConsoleKeys) and the host keys  *)
(* of VMs and the gateway's own (HostKeyTrust).  They have no state in     *)
(* common: one moves while the others rest in an initial state.  So the    *)
(* sockets of the second may be the set of requests of the first: members  *)
(* are interchangeable in both.                                            *)
(***************************************************************************)
EXTENDS AppGateway, TLC

CONSTANTS
    Consoles, VMUsers, TTL, MaxTime, NoConsole,     \* ConsoleKeys
    Hosts, HostKeys, Sessions, WebSessions, OwnKeys, NoKey, Damaged, MaxLines, MaxReplaced
                                                    \* HostKeyTrust

VARIABLES
    now, sessions, authKeys, sock, gw, calls, acked, added, authenticated,
    vmKey, replaced, known, session, trusted, vouched, ownFile, gateway, served

Access == INSTANCE ConsoleKeys WITH Sockets <- Requests, accepted <- authenticated
Trust == INSTANCE HostKeyTrust WITH Keys <- HostKeys, accepted <- trusted

ASSUME BackendsAssumption == AppGatewayAssumption
ASSUME AccessAssumption == Access!ConsoleKeysAssumption
ASSUME TrustAssumption == Trust!HostKeyTrustAssumption

accessVars == <<now, sessions, authKeys, sock, gw, calls, acked, added, authenticated>>
trustVars == <<vmKey, replaced, known, session, trusted, vouched, ownFile, gateway, served>>
allVars == <<vars, accessVars, trustVars>>

\* One of the initial states of each component; it rests there while another one moves.
BackendsRest == Init /\ \A i \in Instances : address[i] = None
TrustRests == Trust!Init /\ \A h \in Hosts : vmKey[h] = CHOOSE k \in HostKeys : TRUE

AllInit == Init /\ Access!Init /\ Trust!Init /\ (BackendsRest \/ TrustRests)

BackendsMove ==
    /\ Access!Init /\ TrustRests
    /\ Next
    /\ UNCHANGED <<accessVars, trustVars>>

AccessMoves ==
    /\ BackendsRest /\ TrustRests
    /\ Access!Next
    /\ UNCHANGED <<vars, trustVars>>

TrustMoves ==
    /\ BackendsRest /\ Access!Init
    /\ Trust!Next
    /\ UNCHANGED <<vars, accessVars>>

AllNext == BackendsMove \/ AccessMoves \/ TrustMoves

AllSpec == AllInit /\ [][AllNext]_allVars

Symm == Permutations(Requests) \cup Permutations(Instances)

-----------------------------------------------------------------------------

\* A console token serves one socket and a key one connection
\* (access/console_session.go:67), and a deletion that was answered leaves no key.
KeysInv == Access!KeysInv

\* Neither a key nor a token is used after its expiry (access/console_session.go:96).
NoLateUse == Access!NoLateUse

\* A session goes on only with a key the operator added or one met before the host had a
\* line, and the gateway shows one key to its clients for ever (hostkey.go:76,
\* access/handler.go:436).
HostKeyInv == Trust!HostKeyInv
=============================================================================
