--------------------------- MODULE SshSessionStore ---------------------------
(***************************************************************************)
(* The pending-login store of the SSH gateway and everything that touches  *)
(* it: the keyboard-interactive goroutine of each SSH connection, the      *)
(* expiry goroutine New starts for each nonce, the webhook handlers the    *)
(* API calls (notify.go), and the API's OAuth callback that waits for the  *)
(* webhook's answer.  Every critical section of sessionStore.mu is one     *)
(* step; what the code does after Unlock is a step of its own, because any *)
(* other goroutine may run in between.                                     *)
(***************************************************************************)
EXTENDS Naturals, FiniteSets

CONSTANTS
    Nonces,           \* one per keyboard-interactive attempt; never reused
    Emails,           \* the Google accounts the API may report
    Callbacks,        \* the OAuth callbacks that reach the API (one use each)
    MaxPending,       \* sessionStore.maxPending
    MaxCodeAttempts,  \* maxCodeAttempts
    NoEmail,          \* no e-mail address
    NoNonce           \* a callback that has not named a nonce yet

ASSUME ConstantsAssumption ==
    /\ MaxPending \in Nat
    /\ MaxCodeAttempts \in Nat \ {0}
    /\ NoEmail \notin Emails
    /\ NoNonce \notin Nonces

VARIABLES
    m,             \* sessionStore.m: the nonces still pending
    codeAttempts,  \* pendingSession.codeAttempts
    resolved,      \* pendingSession.resolved: a channel of capacity one
    conn,          \* where the keyboard-interactive callback is
    permEmail,     \* the e-mail in the ssh.Permissions it returned
    expirer,       \* where the goroutine expireAfter is
    cb,            \* what each OAuth callback carries, and its progress
    panicked       \* a goroutine sent on, or closed, a closed channel

vars == <<m, codeAttempts, resolved, conn, permEmail, expirer, cb, panicked>>

-----------------------------------------------------------------------------
(* State *)

Channel == [val : Emails \cup {NoEmail}, closed : BOOLEAN]

EmptyChannel == [val |-> NoEmail, closed |-> FALSE]

ConnState == {"none", "challenge", "wait", "authenticated", "refused"}

ExpirerState == {"none", "sleep", "close", "done"}

\* api: the callback handler in the API.  gw: the webhook handler in the
\* gateway; "send" is Resolve after Unlock, "ok", "mismatch" and "gone" are
\* the replies 200, 401 and 410.
Callback == [nonce : Nonces \cup {NoNonce},
             codeOK : BOOLEAN,
             email : Emails \cup {NoEmail},
             api : {"idle", "waiting", "complete", "failed"},
             gw : {"none", "posted", "send", "ok", "mismatch", "gone"}]

TypeOK ==
    /\ m \subseteq Nonces
    /\ codeAttempts \in [Nonces -> 0 .. MaxCodeAttempts]
    /\ resolved \in [Nonces -> Channel]
    /\ conn \in [Nonces -> ConnState]
    /\ permEmail \in [Nonces -> Emails \cup {NoEmail}]
    /\ expirer \in [Nonces -> ExpirerState]
    /\ cb \in [Callbacks -> Callback]
    /\ panicked \in BOOLEAN

Init ==
    /\ m = {}
    /\ codeAttempts = [n \in Nonces |-> 0]
    /\ resolved = [n \in Nonces |-> EmptyChannel]
    /\ conn = [n \in Nonces |-> "none"]
    /\ permEmail = [n \in Nonces |-> NoEmail]
    /\ expirer = [n \in Nonces |-> "none"]
    /\ cb = [c \in Callbacks |-> [nonce |-> NoNonce, codeOK |-> FALSE,
                                  email |-> NoEmail, api |-> "idle",
                                  gw |-> "none"]]
    /\ panicked = FALSE

\* close(p.resolved): a second close panics.
CloseChannel(n) ==
    /\ resolved' = [resolved EXCEPT ![n].closed = TRUE]
    /\ panicked' = (panicked \/ resolved[n].closed)

-----------------------------------------------------------------------------
(* Seeded faults: what the actions below would be with a plausible bug.  No *)
(* specification uses them; the README says which property each one breaks. *)

ExpireWithoutDelete(n) ==
    /\ expirer[n] = "sleep"
    /\ expirer' = [expirer EXCEPT ![n] = IF n \in m THEN "close" ELSE "done"]
    /\ UNCHANGED <<m, codeAttempts, resolved, conn, permEmail, cb, panicked>>

MismatchOffByOne(c) ==
    LET n == cb[c].nonce
        last == codeAttempts[n] + 1 > MaxCodeAttempts
    IN  /\ cb[c].gw = "posted"
        /\ n \in m
        /\ ~cb[c].codeOK
        /\ codeAttempts' = [codeAttempts EXCEPT ![n] = @ + 1]
        /\ IF last
           THEN m' = m \ {n} /\ CloseChannel(n)
           ELSE UNCHANGED <<m, resolved, panicked>>
        /\ cb' = [cb EXCEPT ![c].gw = "mismatch"]
        /\ UNCHANGED <<conn, permEmail, expirer>>

MismatchWithoutClose(c) ==
    LET n == cb[c].nonce
        last == codeAttempts[n] + 1 >= MaxCodeAttempts
    IN  /\ cb[c].gw = "posted"
        /\ n \in m
        /\ ~cb[c].codeOK
        /\ codeAttempts' = [codeAttempts EXCEPT ![n] = @ + 1]
        /\ m' = IF last THEN m \ {n} ELSE m
        /\ cb' = [cb EXCEPT ![c].gw = "mismatch"]
        /\ UNCHANGED <<resolved, panicked, conn, permEmail, expirer>>

MatchKeepsNonce(c) ==
    /\ cb[c].gw = "posted"
    /\ cb[c].nonce \in m
    /\ cb[c].codeOK
    /\ cb' = [cb EXCEPT ![c].gw = "send"]
    /\ UNCHANGED <<m, codeAttempts, resolved, conn, permEmail, expirer, panicked>>

MatchIgnoresCode(c) ==
    /\ cb[c].gw = "posted"
    /\ cb[c].nonce \in m
    /\ m' = m \ {cb[c].nonce}
    /\ cb' = [cb EXCEPT ![c].gw = "send"]
    /\ UNCHANGED <<codeAttempts, resolved, conn, permEmail, expirer, panicked>>

ReplyBeforeSend(c) ==
    /\ cb[c].api = "waiting"
    /\ cb[c].gw \in {"send", "ok", "mismatch", "gone"}
    /\ cb' = [cb EXCEPT ![c].api = IF cb[c].gw \in {"send", "ok"} THEN "complete"
                                                                 ELSE "failed"]
    /\ UNCHANGED <<m, codeAttempts, resolved, conn, permEmail, expirer, panicked>>

-----------------------------------------------------------------------------
(* Keyboard-interactive authentication in the gateway *)

\* New: below the limit the nonce is entered and its expiry goroutine starts.
New(n) ==
    /\ conn[n] = "none"
    /\ Cardinality(m) < MaxPending
    /\ m' = m \cup {n}
    /\ expirer' = [expirer EXCEPT ![n] = "sleep"]
    /\ conn' = [conn EXCEPT ![n] = "challenge"]
    /\ UNCHANGED <<codeAttempts, resolved, permEmail, cb, panicked>>

\* New at the limit: ErrTooManyPending, and the attempt is refused.
NewTooMany(n) ==
    /\ conn[n] = "none"
    /\ Cardinality(m) >= MaxPending
    /\ conn' = [conn EXCEPT ![n] = "refused"]
    /\ UNCHANGED <<m, codeAttempts, resolved, permEmail, expirer, cb, panicked>>

\* The prompt with the URL and the code reached the user: go on to Wait.
ChallengeShown(n) ==
    /\ conn[n] = "challenge"
    /\ conn' = [conn EXCEPT ![n] = "wait"]
    /\ UNCHANGED <<m, codeAttempts, resolved, permEmail, expirer, cb, panicked>>

\* The prompt failed (the client hung up): return at once, the nonce stays
\* in m until it expires.
ChallengeFails(n) ==
    /\ conn[n] = "challenge"
    /\ conn' = [conn EXCEPT ![n] = "refused"]
    /\ UNCHANGED <<m, codeAttempts, resolved, permEmail, expirer, cb, panicked>>

\* Wait, first case: a value is taken from the channel; with the buffer empty
\* and the channel closed the receive reports ErrNonceExpired.
WaitReceive(n) ==
    /\ conn[n] = "wait"
    /\ \/ /\ resolved[n].val # NoEmail
          /\ conn' = [conn EXCEPT ![n] = "authenticated"]
          /\ permEmail' = [permEmail EXCEPT ![n] = resolved[n].val]
          /\ resolved' = [resolved EXCEPT ![n].val = NoEmail]
       \/ /\ resolved[n].val = NoEmail
          /\ resolved[n].closed
          /\ conn' = [conn EXCEPT ![n] = "refused"]
          /\ UNCHANGED <<permEmail, resolved>>
    /\ UNCHANGED <<m, codeAttempts, expirer, cb, panicked>>

\* Wait, second case: its own timer.  It may win against a value that is
\* already in the channel.
WaitTimeout(n) ==
    /\ conn[n] = "wait"
    /\ conn' = [conn EXCEPT ![n] = "refused"]
    /\ UNCHANGED <<m, codeAttempts, resolved, permEmail, expirer, cb, panicked>>

-----------------------------------------------------------------------------
(* Expiry goroutine *)

\* After the TTL, under the lock: take the nonce out if it is still there,
\* otherwise return.
ExpireLocked(n) ==
    /\ expirer[n] = "sleep"
    /\ m' = m \ {n}
    /\ expirer' = [expirer EXCEPT ![n] = IF n \in m THEN "close" ELSE "done"]
    /\ UNCHANGED <<codeAttempts, resolved, conn, permEmail, cb, panicked>>

\* After Unlock: close the channel.
ExpireClose(n) ==
    /\ expirer[n] = "close"
    /\ CloseChannel(n)
    /\ expirer' = [expirer EXCEPT ![n] = "done"]
    /\ UNCHANGED <<m, codeAttempts, conn, permEmail, cb>>

-----------------------------------------------------------------------------
(* OAuth callback in the API and webhook handler in the gateway *)

\* handleSSHCallback: the Google code is verified and Notify posts the
\* webhook.  The nonce comes from the state parameter, so it may be any
\* nonce, its code right or wrong.
Post(c, n, codeOK, e) ==
    /\ cb[c].api = "idle"
    /\ cb' = [cb EXCEPT ![c] = [nonce |-> n, codeOK |-> codeOK, email |-> e,
                                api |-> "waiting", gw |-> "posted"]]
    /\ UNCHANGED <<m, codeAttempts, resolved, conn, permEmail, expirer, panicked>>

\* Resolve, the nonce is not in m: ErrNonceUnknown.
ResolveUnknown(c) ==
    /\ cb[c].gw = "posted"
    /\ cb[c].nonce \notin m
    /\ cb' = [cb EXCEPT ![c].gw = "gone"]
    /\ UNCHANGED <<m, codeAttempts, resolved, conn, permEmail, expirer, panicked>>

\* Resolve, wrong code: count it; the attempt that reaches the limit takes
\* the nonce out and closes the channel, still under the lock.
ResolveMismatch(c) ==
    LET n == cb[c].nonce
        last == codeAttempts[n] + 1 >= MaxCodeAttempts
    IN  /\ cb[c].gw = "posted"
        /\ n \in m
        /\ ~cb[c].codeOK
        /\ codeAttempts' = [codeAttempts EXCEPT ![n] = @ + 1]
        /\ IF last
           THEN m' = m \ {n} /\ CloseChannel(n)
           ELSE UNCHANGED <<m, resolved, panicked>>
        /\ cb' = [cb EXCEPT ![c].gw = "mismatch"]
        /\ UNCHANGED <<conn, permEmail, expirer>>

\* Resolve, right code: the nonce is taken out under the lock.
ResolveMatch(c) ==
    /\ cb[c].gw = "posted"
    /\ cb[c].nonce \in m
    /\ cb[c].codeOK
    /\ m' = m \ {cb[c].nonce}
    /\ cb' = [cb EXCEPT ![c].gw = "send"]
    /\ UNCHANGED <<codeAttempts, resolved, conn, permEmail, expirer, panicked>>

\* After Unlock: the non-blocking send.  A full buffer drops the value, a
\* closed channel panics.  Then the handler replies 200.
ResolveSend(c) ==
    LET n == cb[c].nonce
    IN  /\ cb[c].gw = "send"
        /\ panicked' = (panicked \/ resolved[n].closed)
        /\ resolved' = IF resolved[n].closed \/ resolved[n].val # NoEmail
                       THEN resolved
                       ELSE [resolved EXCEPT ![n].val = cb[c].email]
        /\ cb' = [cb EXCEPT ![c].gw = "ok"]
        /\ UNCHANGED <<m, codeAttempts, conn, permEmail, expirer>>

\* The API has the reply: 200 completes the login page, anything else fails.
Reply(c) ==
    /\ cb[c].api = "waiting"
    /\ cb[c].gw \in {"ok", "mismatch", "gone"}
    /\ cb' = [cb EXCEPT ![c].api = IF cb[c].gw = "ok" THEN "complete"
                                                      ELSE "failed"]
    /\ UNCHANGED <<m, codeAttempts, resolved, conn, permEmail, expirer, panicked>>

\* The API gives up (transport error or its 5 s timeout).  The gateway's
\* handler is not told and goes on if it has the request.
NotifyFails(c) ==
    /\ cb[c].api = "waiting"
    /\ cb' = [cb EXCEPT ![c].api = "failed"]
    /\ UNCHANGED <<m, codeAttempts, resolved, conn, permEmail, expirer, panicked>>

-----------------------------------------------------------------------------

ConnStep(n) ==
    \/ New(n)
    \/ NewTooMany(n)
    \/ ChallengeShown(n)
    \/ ChallengeFails(n)
    \/ WaitReceive(n)
    \/ WaitTimeout(n)

ExpirerStep(n) ==
    \/ ExpireLocked(n)
    \/ ExpireClose(n)

CallbackStep(c) ==
    \/ \E n \in Nonces, codeOK \in BOOLEAN, e \in Emails : Post(c, n, codeOK, e)
    \/ ResolveUnknown(c)
    \/ ResolveMismatch(c)
    \/ ResolveMatch(c)
    \/ ResolveSend(c)
    \/ Reply(c)
    \/ NotifyFails(c)

Next ==
    \/ \E n \in Nonces : ConnStep(n) \/ ExpirerStep(n)
    \/ \E c \in Callbacks : CallbackStep(c)

Spec == Init /\ [][Next]_vars

\* The Go scheduler runs every runnable goroutine: expiry goroutines wake
\* up after the TTL, a handler past its lock sends, a waiter whose channel
\* is ready receives.  Nothing is assumed of users, of the API, or of the
\* timer of Wait.
Fairness ==
    /\ \A n \in Nonces : WF_vars(ExpirerStep(n)) /\ WF_vars(WaitReceive(n))
    /\ \A c \in Callbacks : WF_vars(ResolveSend(c))

FairSpec == Spec /\ Fairness

-----------------------------------------------------------------------------
(* Properties *)

\* The callbacks whose Resolve found the nonce and the right code.
Accepted(n) == {c \in Callbacks : cb[c].nonce = n /\ cb[c].gw \in {"send", "ok"}}

\* The callbacks that were told their code is wrong.
Mismatched(n) == {c \in Callbacks : cb[c].nonce = n /\ cb[c].gw = "mismatch"}

\* No goroutine ever closes a closed channel or sends on one, although
\* expireAfter and Resolve touch the channel after giving up the lock
\* (sessions.go:112 and 136).
NoPanic == ~panicked

\* A Resolve that is past its lock always finds an open channel with room:
\* the default branch that would drop the e-mail (sessions.go:137) is dead.
NoLostResolution ==
    \A c \in Callbacks : cb[c].gw = "send" => resolved[cb[c].nonce] = EmptyChannel

\* A nonce admits at most one callback, whatever the order in which several
\* of them, wrong codes and the expiry reach the store (Resolve's "one-time
\* use").
OneTimeUse ==
    \A n \in Nonces : \A c, d \in Accepted(n) : c = d

\* A connection is authenticated as e only if a callback for that nonce, with
\* the right code, reported e (auth.go:40).
AuthenticatedByMatch ==
    \A n \in Nonces : conn[n] = "authenticated" =>
        \E c \in Accepted(n) : cb[c].codeOK /\ cb[c].email = permEmail[n]

\* At most maxCodeAttempts wrong codes are ever answered for a nonce, and a
\* nonce that used them up never authenticates anyone.
GuessLimit ==
    \A n \in Nonces :
        /\ Cardinality(Mismatched(n)) <= MaxCodeAttempts
        /\ Cardinality(Mismatched(n)) = MaxCodeAttempts =>
              Accepted(n) = {} /\ conn[n] # "authenticated"

\* At most maxPending nonces wait at a time; each is held by an expiry
\* goroutine that has not run, so the store cannot stay full.
PendingBound ==
    /\ Cardinality(m) <= MaxPending
    /\ \A n \in m : expirer[n] = "sleep"

\* codeAttempts counts the wrong codes that were answered, no more and no less,
\* and the one that reaches the limit leaves the channel closed.
GuessesCounted ==
    \A n \in Nonces :
        /\ IsFiniteSet(Mismatched(n))
        /\ codeAttempts[n] = Cardinality(Mismatched(n))
        /\ codeAttempts[n] = MaxCodeAttempts => resolved[n].closed

\* The limits on wrong codes and on pending logins hold.
StoreLimits == GuessLimit /\ PendingBound /\ GuessesCounted

\* When the browser is told the login is complete, the e-mail has reached the
\* SSH side: it is in the channel, or the connection took it and is
\* authenticated with it.
CompleteMeansDelivered ==
    \A c \in Callbacks : cb[c].api = "complete" =>
        LET n == cb[c].nonce
        IN  \/ resolved[n].val = cb[c].email
            \/ conn[n] = "authenticated" /\ permEmail[n] = cb[c].email

\* The store implements OneTimeLogin: a login is what its nonce's place in m,
\* the callbacks the gateway accepted and the connection say it is.
LoginOf(n) ==
    IF conn[n] = "authenticated" THEN "entered"
    ELSE IF n \in m THEN "open"
    ELSE IF Accepted(n) # {} THEN "granted"
    ELSE IF expirer[n] = "none" THEN "unused"
    ELSE "lost"

OwnerOf(n) ==
    IF conn[n] = "authenticated" THEN permEmail[n]
    ELSE IF Accepted(n) # {} THEN cb[CHOOSE c \in Accepted(n) : TRUE].email
    ELSE NoEmail

Login == INSTANCE OneTimeLogin
            WITH login <- [n \in Nonces |-> LoginOf(n)],
                 owner <- [n \in Nonces |-> OwnerOf(n)]

\* Every step of the gateway and of the API is a step of OneTimeLogin or
\* leaves every login as it is: no interleaving of Resolve, expiry, Wait and
\* retried callbacks grants a login twice, grants a lost one, or lets someone
\* in under another account than the one it was granted to.
ImplementsOneTimeLogin == Login!Spec

\* Every nonce leaves the store.
PendingDrains == \A n \in Nonces : n \in m ~> n \notin m

\* Every way out of the map wakes the waiter up: it returns even if the timer
\* of its own Wait never fires.
NoStrandedWaiter == \A n \in Nonces : conn[n] = "wait" ~> conn[n] # "wait"

-----------------------------------------------------------------------------
(* Inductive invariant *)

\* A pending nonce: nobody has touched its channel, and its expiry is due.
PendingInv(n) ==
    n \in m =>
        /\ resolved[n] = EmptyChannel
        /\ expirer[n] = "sleep"
        /\ conn[n] \in {"challenge", "wait", "refused"}
        /\ Accepted(n) = {}
        /\ codeAttempts[n] < MaxCodeAttempts

\* A nonce that was never entered.
FreshInv(n) ==
    (conn[n] = "none" \/ expirer[n] = "none") =>
        /\ expirer[n] = "none"
        /\ conn[n] \in {"none", "refused"}
        /\ n \notin m
        /\ resolved[n] = EmptyChannel
        /\ codeAttempts[n] = 0
        /\ Accepted(n) = {}

\* Whoever takes the nonce out of m owns the channel until it has used it:
\* an expiry that is about to close, or one that closed, excludes every
\* accepted callback and with it authentication.
CloserInv(n) ==
    (expirer[n] = "close" \/ resolved[n].closed) =>
        /\ Accepted(n) = {}
        /\ resolved[n].val = NoEmail
        /\ conn[n] # "authenticated"
        /\ expirer[n] = "close" => ~resolved[n].closed

\* What is in the channel, or was received from it, came from a callback.
ValueInv(n) ==
    /\ resolved[n].val # NoEmail =>
          \E c \in Accepted(n) : cb[c].gw = "ok" /\ cb[c].email = resolved[n].val
    /\ conn[n] = "authenticated" =>
          \E c \in Accepted(n) : cb[c].gw = "ok" /\ cb[c].email = permEmail[n]

\* A callback past its lock, and one that has replied 200.
SenderInv(c) ==
    /\ cb[c].api = "idle" => cb[c].gw = "none"
    /\ cb[c].api = "complete" => cb[c].gw = "ok"
    /\ cb[c].gw # "none" => cb[c].nonce \in Nonces /\ cb[c].email \in Emails
    /\ cb[c].gw \in {"send", "ok"} => cb[c].codeOK
    /\ cb[c].gw = "send" =>
          /\ resolved[cb[c].nonce] = EmptyChannel
          /\ conn[cb[c].nonce] # "authenticated"
    /\ cb[c].gw = "ok" =>
          \/ resolved[cb[c].nonce].val = cb[c].email
          \/ /\ conn[cb[c].nonce] = "authenticated"
             /\ permEmail[cb[c].nonce] = cb[c].email

\* The inductive invariant of the store: the right to touch a channel has one
\* holder at a time, first the map, then whoever removed the nonce from it.
StoreInv ==
    /\ TypeOK
    /\ NoPanic
    /\ OneTimeUse
    /\ \A n \in Nonces : PendingInv(n) /\ FreshInv(n) /\ CloserInv(n) /\ ValueInv(n)
    /\ \A c \in Callbacks : SenderInv(c)
=============================================================================
