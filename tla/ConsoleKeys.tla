----------------------------- MODULE ConsoleKeys -----------------------------
(***************************************************************************)
(* One-time console tokens and ephemeral SSH keys.  The API keeps, in      *)
(* memory, console tokens and the public keys a VM's sshd may accept       *)
(* (consoleSessionStore).  A web console gets a token and a key at once;   *)
(* whichever WebSocket request takes the token relays one SSH session.     *)
(* The SSH gateway registers a key per VM user it tries, over HTTP, and    *)
(* asks for its deletion afterwards.  Calls may be lost or answered too    *)
(* late, either process may die, and everything left behind must lapse     *)
(* with the TTL.                                                           *)
(***************************************************************************)
EXTENDS Naturals

CONSTANTS
    Consoles,  \* console tokens; console w owns key w
    Sockets,   \* WebSocket requests to the console endpoint
    VMUsers,   \* number of VM users the gateway tries, in order
    TTL,       \* defaultConsoleSessionTTL, in clock ticks
    MaxTime,   \* bound on the clock
    NoConsole  \* a socket that holds no console

ConsoleKeysAssumption ==
    /\ VMUsers \in Nat /\ TTL \in Nat /\ MaxTime \in Nat \ {0}
    /\ NoConsole \notin Consoles
    /\ Consoles \cap (1 .. VMUsers) = {}

Users == 1 .. VMUsers
Keys == Consoles \cup Users

VARIABLES
    now,       \* the clock, from 1
    sessions,  \* consoleSessionStore.sessions: expiry of each token, 0 if absent
    authKeys,  \* consoleSessionStore.authorizedKeys: expiry, 0 if absent
    sock,      \* the console each socket holds, and where its handler is
    gw,        \* where the gateway's attempt with each user is
    calls,     \* requests of the gateway the API has not handled: <<op, user>>
    acked,     \* requests the API has handled and answered: <<op, user>>
    added,     \* history: when each key was last added, 0 if never
    accepted   \* history: connections each key has authenticated

vars == <<now, sessions, authKeys, sock, gw, calls, acked, added, accepted>>

SockPC == {"idle", "origin", "dial", "handshake", "authed", "running", "closed",
           "rejected"}

\* "undo" deletes the key of a failed attempt, "cleanup" that of a finished
\* session; "failed" and "closed" follow an answered deletion, "left" one
\* that was not answered or never asked for.
GwPC == {"idle", "register", "dial", "handshake", "authed", "up", "undo", "cleanup",
         "failed", "closed", "left", "leftClosed", "dead"}

TypeOK ==
    /\ now \in 1 .. MaxTime
    /\ sessions \in [Consoles -> 0 .. MaxTime + TTL]
    /\ authKeys \in [Keys -> 0 .. MaxTime + TTL]
    /\ sock \in [Sockets -> [console : Consoles \cup {NoConsole}, pc : SockPC]]
    /\ gw \in [Users -> GwPC]
    /\ calls \subseteq {"add", "del"} \X Users
    /\ acked \subseteq {"add", "del"} \X Users
    /\ added \in [Keys -> 0 .. MaxTime]
    /\ accepted \in [Keys -> Nat]

Init ==
    /\ now = 1
    /\ sessions = [w \in Consoles |-> 0]
    /\ authKeys = [k \in Keys |-> 0]
    /\ sock = [q \in Sockets |-> [console |-> NoConsole, pc |-> "idle"]]
    /\ gw = [u \in Users |-> "idle"]
    /\ calls = {}
    /\ acked = {}
    /\ added = [k \in Keys |-> 0]
    /\ accepted = [k \in Keys |-> 0]

\* deleteExpiredLocked, on either map: now.After(expiry) drops the entry.
Purged(f) == [x \in DOMAIN f |-> IF now > f[x] THEN 0 ELSE f[x]]

-----------------------------------------------------------------------------
(* Seeded faults: what the definitions below would be with a plausible bug. *)

TakeKeepsToken(q, w) ==
    LET live == Purged(sessions)
    IN  /\ sock[q].pc = "idle"
        /\ authKeys' = Purged(authKeys)
        /\ sessions' = live
        /\ sock' = [sock EXCEPT ![q] =
                      IF live[w] # 0 THEN [console |-> w, pc |-> "origin"]
                                     ELSE [console |-> NoConsole, pc |-> "rejected"]]
        /\ UNCHANGED <<now, gw, calls, acked, added, accepted>>

AuthorizedKeysUnpurged(k) == authKeys[k] # 0

DeleteAfterPurgeOnly(k) == authKeys' = Purged(authKeys)

\* sshd on the VM asks the API for the authorized keys of its scope, which
\* purges the store, and lets the connection in if the key is among them.
AuthorizedKeysHas(k) == Purged(authKeys)[k] # 0

\* Create: a token and its key, with the same expiry.
Create(w) ==
    /\ sessions' = [Purged(sessions) EXCEPT ![w] = now + TTL]
    /\ authKeys' = [Purged(authKeys) EXCEPT ![w] = now + TTL]

AddAuthorizedKey(k) ==
    /\ sessions' = Purged(sessions)
    /\ authKeys' = [Purged(authKeys) EXCEPT ![k] = now + TTL]

\* DeleteAuthorizedKey does not purge.
DeleteAuthorizedKey(k) == authKeys' = [authKeys EXCEPT ![k] = 0]

-----------------------------------------------------------------------------
(* Web console *)

\* CreateConsoleSession.
CreateConsole(w) ==
    /\ added[w] = 0
    /\ Create(w)
    /\ added' = [added EXCEPT ![w] = now]
    /\ UNCHANGED <<now, sock, gw, calls, acked, accepted>>

\* Take: the token is consumed by the first request that presents it in time.
Take(q, w) ==
    LET live == Purged(sessions)
    IN  /\ sock[q].pc = "idle"
        /\ authKeys' = Purged(authKeys)
        /\ sessions' = [live EXCEPT ![w] = 0]
        /\ sock' = [sock EXCEPT ![q] =
                      IF live[w] # 0 THEN [console |-> w, pc |-> "origin"]
                                     ELSE [console |-> NoConsole, pc |-> "rejected"]]
        /\ UNCHANGED <<now, gw, calls, acked, added, accepted>>

\* Origin check and WebSocket upgrade, then the TCP connection through
\* ns-proxy: each goes on, or SocketFails.
SocketGoesOn(q) ==
    /\ \/ sock[q].pc = "origin" /\ sock' = [sock EXCEPT ![q].pc = "dial"]
       \/ sock[q].pc = "dial" /\ sock' = [sock EXCEPT ![q].pc = "handshake"]
    /\ UNCHANGED <<now, sessions, authKeys, gw, calls, acked, added, accepted>>

\* Any error return of WebConsole and relayConsole: nothing is deleted.
SocketFails(q) ==
    /\ sock[q].pc \in {"origin", "dial", "handshake", "authed", "running"}
    /\ sock' = [sock EXCEPT ![q].pc = "closed"]
    /\ UNCHANGED <<now, sessions, authKeys, gw, calls, acked, added, accepted>>

\* In the SSH handshake the VM's sshd finds the key in the store.
SocketHandshake(q) ==
    LET w == sock[q].console
    IN  /\ sock[q].pc = "handshake"
        /\ AuthorizedKeysHas(w)
        /\ accepted' = [accepted EXCEPT ![w] = @ + 1]
        /\ authKeys' = Purged(authKeys)
        /\ sessions' = Purged(sessions)
        /\ sock' = [sock EXCEPT ![q].pc = "authed"]
        /\ UNCHANGED <<now, gw, calls, acked, added>>

\* The handshake is done and relayConsole deletes the key at once; when the
\* relay ends it deletes it again.
SocketDeletesKey(q) ==
    /\ \/ sock[q].pc = "authed" /\ sock' = [sock EXCEPT ![q].pc = "running"]
       \/ sock[q].pc = "running" /\ sock' = [sock EXCEPT ![q].pc = "closed"]
    /\ DeleteAuthorizedKey(sock[q].console)
    /\ UNCHANGED <<now, sessions, gw, calls, acked, added, accepted>>

-----------------------------------------------------------------------------
(* SSH gateway: dialVMWithEphemeralKey, one attempt per VM user *)

\* The next user is tried once the attempt before it has failed.
Register(u) ==
    /\ gw[u] = "idle"
    /\ u > 1 => gw[u - 1] \in {"failed", "left"}
    /\ calls' = calls \cup {<<"add", u>>}
    /\ gw' = [gw EXCEPT ![u] = "register"]
    /\ UNCHANGED <<now, sessions, authKeys, sock, acked, added, accepted>>

Registered(u) ==
    /\ gw[u] = "register"
    /\ <<"add", u>> \in acked
    /\ gw' = [gw EXCEPT ![u] = "dial"]
    /\ UNCHANGED <<now, sessions, authKeys, sock, calls, acked, added, accepted>>

\* No answer in time: give up on this user without deleting the key, which
\* the API may have stored or may still store.
RegisterFails(u) ==
    /\ gw[u] = "register"
    /\ gw' = [gw EXCEPT ![u] = "left"]
    /\ UNCHANGED <<now, sessions, authKeys, sock, calls, acked, added, accepted>>

\* The TCP connection is up; the handshake is done.
GwGoesOn(u) ==
    /\ \/ gw[u] = "dial" /\ gw' = [gw EXCEPT ![u] = "handshake"]
       \/ gw[u] = "authed" /\ gw' = [gw EXCEPT ![u] = "up"]
    /\ UNCHANGED <<now, sessions, authKeys, sock, calls, acked, added, accepted>>

\* Connecting through ns-proxy, or the inner SSH handshake, fails.
GwDialFails(u) ==
    /\ gw[u] \in {"dial", "handshake", "authed"}
    /\ gw' = [gw EXCEPT ![u] = "undo"]
    /\ calls' = calls \cup {<<"del", u>>}
    /\ UNCHANGED <<now, sessions, authKeys, sock, acked, added, accepted>>

GwHandshake(u) ==
    /\ gw[u] = "handshake"
    /\ AuthorizedKeysHas(u)
    /\ accepted' = [accepted EXCEPT ![u] = @ + 1]
    /\ authKeys' = Purged(authKeys)
    /\ sessions' = Purged(sessions)
    /\ gw' = [gw EXCEPT ![u] = "authed"]
    /\ UNCHANGED <<now, sock, calls, acked, added>>

\* pipeSession returns; the deferred deleteEphemeralKey runs.
GwEnds(u) ==
    /\ gw[u] = "up"
    /\ gw' = [gw EXCEPT ![u] = "cleanup"]
    /\ calls' = calls \cup {<<"del", u>>}
    /\ UNCHANGED <<now, sessions, authKeys, sock, acked, added, accepted>>

\* deleteEphemeralKey returns, with the API's answer or without it.
GwDeleted(u) ==
    /\ gw[u] \in {"undo", "cleanup"}
    /\ <<"del", u>> \in acked
    /\ gw' = [gw EXCEPT ![u] = IF gw[u] = "undo" THEN "failed" ELSE "closed"]
    /\ UNCHANGED <<now, sessions, authKeys, sock, calls, acked, added, accepted>>

GwDeleteFails(u) ==
    /\ gw[u] \in {"undo", "cleanup"}
    /\ gw' = [gw EXCEPT ![u] = IF gw[u] = "undo" THEN "left" ELSE "leftClosed"]
    /\ UNCHANGED <<now, sessions, authKeys, sock, calls, acked, added, accepted>>

\* The gateway dies; the calls it has sent may still arrive.
GwDies ==
    /\ \E u \in Users : gw[u] \notin {"idle", "failed", "left", "closed", "leftClosed", "dead"}
    /\ gw' = [u \in Users |-> IF gw[u] \in {"closed", "failed"} THEN gw[u] ELSE "dead"]
    /\ UNCHANGED <<now, sessions, authKeys, sock, calls, acked, added, accepted>>

-----------------------------------------------------------------------------
(* API side of the gateway's calls, network and time *)

ApiAdd(u) ==
    /\ <<"add", u>> \in calls
    /\ calls' = calls \ {<<"add", u>>}
    /\ acked' = acked \cup {<<"add", u>>}
    /\ AddAuthorizedKey(u)
    /\ added' = [added EXCEPT ![u] = now]
    /\ UNCHANGED <<now, sock, gw, accepted>>

ApiDelete(u) ==
    /\ <<"del", u>> \in calls
    /\ calls' = calls \ {<<"del", u>>}
    /\ acked' = acked \cup {<<"del", u>>}
    /\ DeleteAuthorizedKey(u)
    /\ UNCHANGED <<now, sessions, sock, gw, added, accepted>>

CallLost(c) ==
    /\ c \in calls
    /\ calls' = calls \ {c}
    /\ UNCHANGED <<now, sessions, authKeys, sock, gw, acked, added, accepted>>

\* Any other login to a VM makes its sshd ask for keys, which purges.
GetAuthorizedKeys ==
    /\ sessions' = Purged(sessions)
    /\ authKeys' = Purged(authKeys)
    /\ UNCHANGED <<now, sock, gw, calls, acked, added, accepted>>

\* The API restarts: both maps are in memory, and its relays end.
ApiRestarts ==
    /\ sessions' = [w \in Consoles |-> 0]
    /\ authKeys' = [k \in Keys |-> 0]
    /\ sock' = [q \in Sockets |->
                  IF sock[q].pc \in {"idle", "rejected", "closed"} THEN sock[q]
                  ELSE [sock[q] EXCEPT !.pc = "closed"]]
    /\ UNCHANGED <<now, gw, calls, acked, added, accepted>>

Tick ==
    /\ now < MaxTime
    /\ now' = now + 1
    /\ UNCHANGED <<sessions, authKeys, sock, gw, calls, acked, added, accepted>>

-----------------------------------------------------------------------------

Next ==
    \/ \E w \in Consoles : CreateConsole(w)
    \/ \E q \in Sockets, w \in Consoles : Take(q, w)
    \/ \E q \in Sockets : \/ SocketGoesOn(q) \/ SocketFails(q)
                          \/ SocketHandshake(q) \/ SocketDeletesKey(q)
    \/ \E u \in Users : \/ Register(u) \/ Registered(u) \/ RegisterFails(u)
                        \/ GwGoesOn(u) \/ GwDialFails(u) \/ GwHandshake(u)
                        \/ GwEnds(u) \/ GwDeleted(u) \/ GwDeleteFails(u)
                        \/ ApiAdd(u) \/ ApiDelete(u)
    \/ \E c \in calls : CallLost(c)
    \/ GwDies
    \/ GetAuthorizedKeys
    \/ ApiRestarts
    \/ Tick

Spec == Init /\ [][Next]_vars

-----------------------------------------------------------------------------
(* Properties *)

\* However many WebSocket requests present one console token, at most one of
\* them gets past Take (console_session.go:67).
OneSocketPerToken ==
    \A q, r \in Sockets :
        sock[q].console = sock[r].console /\ sock[q].console # NoConsole => q = r

\* A key authenticates at most one connection, web console or gateway,
\* whatever is lost or retried.
KeyUsedOnce == \A k \in Keys : accepted[k] <= 1

\* Once the relay runs, or the gateway's deletion was answered, the key is out
\* of the store for good: no call still under way puts it back.
CleanEndLeavesNoKey ==
    /\ \A q \in Sockets : sock[q].pc = "running" => authKeys[sock[q].console] = 0
    /\ \A u \in Users : gw[u] \in {"failed", "closed"} =>
          authKeys[u] = 0 /\ <<"add", u>> \notin calls

\* Whatever a crash, a lost call or a failed handshake leaves in the store
\* lapses: a VM accepts a key only within the TTL of its registration (the
\* user guide: "If cleanup cannot run, it expires").
NoLateAcceptance ==
    [][\A k \in Keys : accepted'[k] # accepted[k] => now <= added[k] + TTL]_vars

\* A console token is taken only within the TTL of its creation.
NoLateTake ==
    [][\A q \in Sockets : sock'[q].console # sock[q].console =>
          now <= added[sock'[q].console] + TTL]_vars

\* A console's token is in the store or with one socket, never with both; the key of a
\* console whose relay runs is gone.
HoldsToken(q) ==
    LET w == sock[q].console IN
    /\ w = NoConsole <=> sock[q].pc \in {"idle", "rejected"}
    /\ w # NoConsole => sessions[w] = 0 /\ added[w] # 0
    /\ sock[q].pc = "running" => authKeys[w] = 0

SocketInv == \A q \in Sockets : HoldsToken(q)

\* A console's key was used by the one socket that is past its handshake, an attempt's key
\* by this attempt.
ConsoleUse ==
    \A w \in Consoles : accepted[w] # 0 =>
        \E q \in Sockets : sock[q].console = w /\ sock[q].pc \in {"authed", "running", "closed"}

AttemptUse ==
    \A u \in Users : accepted[u] # 0 => gw[u] \notin {"idle", "register", "dial", "handshake"}

\* A registration is handled once, and before any deletion the gateway asks for: it goes on
\* only with the answer to the first.
CallsInv ==
    \A u \in Users :
        /\ gw[u] = "idle" => <<"add", u>> \notin calls \cup acked
        /\ <<"add", u>> \in calls => <<"add", u>> \notin acked
        /\ gw[u] \in {"dial", "handshake", "authed", "up", "undo", "cleanup"} =>
              <<"add", u>> \in acked
        /\ <<"del", u>> \in calls \cup acked => <<"add", u>> \in acked
        /\ <<"del", u>> \in acked => authKeys[u] = 0
        /\ gw[u] \in {"failed", "closed"} => <<"del", u>> \in acked

\* What is in the store lapses when it should.
ExpiryInv ==
    /\ \A k \in Keys : authKeys[k] # 0 => authKeys[k] = added[k] + TTL
    /\ \A w \in Consoles : sessions[w] # 0 => sessions[w] = added[w] + TTL /\ added[w] # 0

\* The tokens and keys are used once, by one socket or one gateway attempt, and a deletion
\* that was answered leaves none.
KeysInv ==
    /\ TypeOK /\ OneSocketPerToken /\ KeyUsedOnce /\ CleanEndLeavesNoKey
    /\ SocketInv /\ ConsoleUse /\ AttemptUse /\ CallsInv /\ ExpiryInv

\* Neither a token nor a key is accepted after its time (console_session.go:67, 128).
NoLateUse == NoLateAcceptance /\ NoLateTake
=============================================================================
