---------------------------- MODULE RefreshTokens ----------------------------
(***************************************************************************)
(* Refresh-token rotation of the API (internal/domain/auth).  A user's row *)
(* holds the identifier (jti) of the one refresh token that is active.     *)
(* Logins replace it, refreshes exchange it for a new one with a           *)
(* compare-and-set, logouts clear it with a compare-and-set.  Requests run *)
(* concurrently; each database statement is one step, and any statement    *)
(* may fail before or after it took effect.  Rows of different users never *)
(* meet (every statement names the e-mail), so there is one user.          *)
(***************************************************************************)
EXTENDS Naturals, FiniteSets

CONSTANTS
    JTIs,      \* refresh-token identifiers (uuid.NewString)
    Requests,  \* HTTP requests, one use each
    NoJTI      \* current_refresh_jti is NULL

JTIAssumption == NoJTI \notin JTIs

VARIABLES
    current,    \* users.current_refresh_jti
    req,        \* the requests
    issued,     \* tokens GenerateAuthTokens has made
    delivered,  \* tokens that reached a client; copies never disappear
    expired,    \* tokens past refreshTokenTTL
    spent       \* history: tokens that were active and no longer are

vars == <<current, req, issued, delivered, expired, spent>>

\* "lookup", "rotate", "upsert" and "clear" are the statements a request is
\* about to execute, "won" a request that will answer with the token `fresh`,
\* "cleared" a logout that ended the session.
PC == {"idle", "lookup", "rotate", "upsert", "clear", "won", "cleared", "failed"}

Request == [kind : {"none", "login", "refresh", "logout"},
            presented : JTIs \cup {NoJTI},
            fresh : JTIs \cup {NoJTI},
            pc : PC]

TypeOK ==
    /\ current \in JTIs \cup {NoJTI}
    /\ req \in [Requests -> Request]
    /\ issued \subseteq JTIs
    /\ delivered \subseteq issued
    /\ expired \subseteq issued
    /\ spent \subseteq issued

Init ==
    /\ current = NoJTI
    /\ req = [r \in Requests |-> [kind |-> "none", presented |-> NoJTI,
                                  fresh |-> NoJTI, pc |-> "idle"]]
    /\ issued = {}
    /\ delivered = {}
    /\ expired = {}
    /\ spent = {}

\* The row's token becomes j; the one it replaces is spent.
SetCurrent(j) ==
    /\ current' = j
    /\ spent' = spent \cup ({current} \ {j, NoJTI})

Goto(r, pc) == req' = [req EXCEPT ![r].pc = pc]

-----------------------------------------------------------------------------
(* Seeded faults: what the actions below would be with a plausible bug. *)

RotateUnconditionally(r) ==
    /\ req[r].pc = "rotate"
    /\ SetCurrent(req[r].fresh)
    /\ Goto(r, "won")
    /\ UNCHANGED <<issued, delivered, expired>>

ClearUnconditionally(r) ==
    /\ req[r].pc = "clear"
    /\ SetCurrent(NoJTI)
    /\ Goto(r, "cleared")
    /\ UNCHANGED <<issued, delivered, expired>>

ClearForgotten(r) ==
    /\ req[r].pc = "clear"
    /\ Goto(r, IF current = req[r].presented THEN "cleared" ELSE "failed")
    /\ UNCHANGED <<current, spent, issued, delivered, expired>>

LookupReusesToken(r) ==
    /\ req[r].pc = "lookup"
    /\ IF current = req[r].presented
       THEN /\ req' = [req EXCEPT ![r].pc = "rotate", ![r].fresh = current]
            /\ UNCHANGED issued
       ELSE Goto(r, "failed") /\ UNCHANGED issued
    /\ UNCHANGED <<current, spent, delivered, expired>>

-----------------------------------------------------------------------------
(* Login: ProcessGoogleCallback *)

\* The Google code is verified and a token pair generated.
LoginStart(r, j) ==
    /\ req[r].pc = "idle"
    /\ j \notin issued
    /\ issued' = issued \cup {j}
    /\ req' = [req EXCEPT ![r] = [kind |-> "login", presented |-> NoJTI,
                                  fresh |-> j, pc |-> "upsert"]]
    /\ UNCHANGED <<current, delivered, expired, spent>>

\* UpsertUser stores the new token whatever was there.
LoginUpsert(r) ==
    /\ req[r].pc = "upsert"
    /\ SetCurrent(req[r].fresh)
    /\ Goto(r, "won")
    /\ UNCHANGED <<issued, delivered, expired>>

\* The statement reports an error; it may have taken effect all the same.
LoginUpsertFails(r) ==
    /\ req[r].pc = "upsert"
    /\ SetCurrent(req[r].fresh) \/ UNCHANGED <<current, spent>>
    /\ Goto(r, "failed")
    /\ UNCHANGED <<issued, delivered, expired>>

-----------------------------------------------------------------------------
(* Refresh: RefreshAccessToken *)

\* ValidateToken accepts any unexpired token the server signed, so a request
\* may carry every token a client ever received, replays included.
RefreshStart(r, j) ==
    /\ req[r].pc = "idle"
    /\ j \in delivered \ expired
    /\ req' = [req EXCEPT ![r] = [kind |-> "refresh", presented |-> j,
                                  fresh |-> NoJTI, pc |-> "lookup"]]
    /\ UNCHANGED <<current, issued, delivered, expired, spent>>

\* FindByEmail: unless the row holds the presented token the request fails;
\* if it does, the new pair is generated.
RefreshLookup(r) ==
    /\ req[r].pc = "lookup"
    /\ IF current = req[r].presented
       THEN \E j \in JTIs \ issued :
               /\ issued' = issued \cup {j}
               /\ req' = [req EXCEPT ![r].pc = "rotate", ![r].fresh = j]
       ELSE Goto(r, "failed") /\ UNCHANGED issued
    /\ UNCHANGED <<current, delivered, expired, spent>>

\* RotateRefreshJTI: UPDATE ... WHERE current_refresh_jti = presented.
RefreshRotate(r) ==
    /\ req[r].pc = "rotate"
    /\ IF current = req[r].presented
       THEN SetCurrent(req[r].fresh) /\ Goto(r, "won")
       ELSE UNCHANGED <<current, spent>> /\ Goto(r, "failed")
    /\ UNCHANGED <<issued, delivered, expired>>

\* A database error: in FindByEmail, or in the update, which may have taken
\* effect all the same.
RefreshFails(r) ==
    /\ \/ req[r].pc = "lookup" /\ UNCHANGED <<current, spent>>
       \/ req[r].pc = "rotate" /\ UNCHANGED <<current, spent>>
       \/ /\ req[r].pc = "rotate"
          /\ current = req[r].presented
          /\ SetCurrent(req[r].fresh)
    /\ Goto(r, "failed")
    /\ UNCHANGED <<issued, delivered, expired>>

-----------------------------------------------------------------------------
(* Logout *)

LogoutStart(r, j) ==
    /\ req[r].pc = "idle"
    /\ j \in delivered \ expired
    /\ req' = [req EXCEPT ![r] = [kind |-> "logout", presented |-> j,
                                  fresh |-> NoJTI, pc |-> "clear"]]
    /\ UNCHANGED <<current, issued, delivered, expired, spent>>

\* ClearRefreshJTIIfMatches: UPDATE ... WHERE current_refresh_jti = presented.
LogoutClear(r) ==
    /\ req[r].pc = "clear"
    /\ IF current = req[r].presented
       THEN SetCurrent(NoJTI) /\ Goto(r, "cleared")
       ELSE UNCHANGED <<current, spent>> /\ Goto(r, "failed")
    /\ UNCHANGED <<issued, delivered, expired>>

LogoutFails(r) ==
    /\ req[r].pc = "clear"
    /\ \/ UNCHANGED <<current, spent>>
       \/ current = req[r].presented /\ SetCurrent(NoJTI)
    /\ Goto(r, "failed")
    /\ UNCHANGED <<issued, delivered, expired>>

-----------------------------------------------------------------------------
(* Clients and time *)

\* The answer, with the new refresh token, reaches the client.  It need not.
Deliver(r) ==
    /\ req[r].pc = "won"
    /\ delivered' = delivered \cup {req[r].fresh}
    /\ UNCHANGED <<current, req, issued, expired, spent>>

Expire(j) ==
    /\ j \in issued
    /\ expired' = expired \cup {j}
    /\ UNCHANGED <<current, req, issued, delivered, spent>>

-----------------------------------------------------------------------------

RequestStep(r) ==
    \/ \E j \in JTIs : LoginStart(r, j) \/ RefreshStart(r, j) \/ LogoutStart(r, j)
    \/ LoginUpsert(r)
    \/ LoginUpsertFails(r)
    \/ RefreshLookup(r)
    \/ RefreshRotate(r)
    \/ RefreshFails(r)
    \/ LogoutClear(r)
    \/ LogoutFails(r)
    \/ Deliver(r)

Next ==
    \/ \E r \in Requests : RequestStep(r)
    \/ \E j \in JTIs : Expire(j)

Spec == Init /\ [][Next]_vars

-----------------------------------------------------------------------------
(* Properties *)

\* The refreshes that were answered with a new pair in exchange for j.
Winners(j) == {r \in Requests : /\ req[r].kind = "refresh"
                                /\ req[r].presented = j
                                /\ req[r].pc = "won"}

\* However many requests present one refresh token, and whatever they read
\* before the rotation, at most one of them gets a new pair
\* (repository.go:114, "only one succeeds").
AtMostOneWinner == \A j \in JTIs : \A r, s \in Winners(j) : r = s

\* A token that was replaced or cleared is never active again, so it can
\* neither refresh nor log out: no delayed request brings it back.
SpentStaysSpent == current \notin spent

\* A request that used its token up: a refresh that exchanged it, or a logout that
\* cleared it.
UsedUp(r) == \/ req[r].pc = "cleared"
             \/ req[r].kind = "refresh" /\ req[r].pc = "won"

\* A logout that is told it cleared the row (user_service.go:84) ended the session for
\* good: no refresh that presented the same token, however the two overlapped, has
\* carried the session on under a new one, and no second logout claims the same end.
LogoutIsFinal ==
    \A r, s \in Requests :
        /\ req[r].pc = "cleared" /\ UsedUp(s)
        /\ req[s].presented = req[r].presented
        => s = r

\* Only a login, or a request that presents the active token, changes the
\* active token: a stale refresh token can neither rotate the session nor end
\* it (user_service.go:73).
StaleTokenHarmless ==
    [][current' # current =>
          \E r \in Requests :
             /\ req'[r] # req[r]
             /\ req[r].kind = "login" \/ req[r].presented = current]_vars

-----------------------------------------------------------------------------
(* Inductive invariant *)

\* Tokens that have been generated but not stored yet.
InFlight(r) == req[r].pc \in {"upsert", "rotate"}

\* What is known of a request.
RequestInv(r) ==
    /\ req[r].fresh # NoJTI => req[r].fresh \in issued
    /\ InFlight(r) => req[r].fresh \in issued \ (spent \cup {current})
    /\ req[r].presented # NoJTI => req[r].presented \in issued
    /\ req[r].kind \in {"refresh", "logout"} => req[r].presented \in JTIs
    /\ req[r].pc \in {"lookup", "rotate"} => req[r].kind = "refresh"
    /\ req[r].pc = "clear" => req[r].kind = "logout"
    /\ req[r].pc = "upsert" => req[r].kind = "login"
    /\ req[r].pc = "won" => req[r].fresh \in issued
    /\ req[r].pc = "won" /\ req[r].kind = "refresh" => req[r].presented \in spent
    /\ req[r].pc = "cleared" => req[r].presented \in spent
    /\ req[r].pc # "won" => req[r].fresh \notin delivered

\* The inductive invariant: a generated token belongs to one request and is
\* unknown to the row until that request stores it; a winner's token is spent.
TokenInv ==
    /\ TypeOK
    /\ current # NoJTI => current \in issued
    /\ SpentStaysSpent
    /\ AtMostOneWinner /\ LogoutIsFinal
    /\ \A r \in Requests : RequestInv(r)
    /\ \A r, s \in Requests :
          req[r].fresh = req[s].fresh /\ req[r].fresh # NoJTI => r = s
=============================================================================
