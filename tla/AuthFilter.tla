----------------------------- MODULE AuthFilter ------------------------------
(***************************************************************************)
(* The filters in front of every protected route (internal/domain/auth,    *)
(* filter.go): the access token of the header or else of the cookie, its   *)
(* validation, the look-up of the user, the development bypass and the     *)
(* check for administrators.  An access token is not recorded anywhere: it *)
(* is good until it expires, whatever becomes of the session that made it. *)
(* Sessions begin, are renewed and end in single steps here; their races   *)
(* are the subject of RefreshTokens.                                       *)
(***************************************************************************)
EXTENDS Naturals, FiniteSets

CONSTANTS
    Emails,
    Admins,     \* RCP_ADMIN_EMAILS
    DevEmail,   \* RCP_DEV_AUTH_EMAIL
    Requests,
    Ids,        \* identifiers of refresh tokens, one per session renewal
    NoRow,      \* no user with that e-mail
    NoSession,  \* a user with no active refresh token
    TTL         \* accessTokenTTL in ticks

AuthFilterAssumption ==
    /\ TTL \in Nat /\ DevEmail \in Emails
    /\ NoRow \notin Ids /\ NoSession \notin Ids

VARIABLES
    row,        \* row[e]: NoRow, NoSession or the active refresh token's id
    tokens,     \* what TokenService has signed; clients keep copies of everything
    used,       \* ids given out
    bypass,     \* RCP_DEV_AUTH_BYPASS is "1"
    quiet,      \* history: ticks since the e-mail last had a session, to TTL + 1
    filter      \* the requests

vars == <<row, tokens, used, bypass, quiet, filter>>
sessionVars == <<row, tokens, used, quiet>>

Access(e, left) == [type |-> "access", email |-> e, left |-> left]
Refresh(e, id) == [type |-> "refresh", email |-> e, id |-> id]
None == [type |-> "none"]
Malformed == [type |-> "malformed"]     \* a header that is not "Bearer <token>"
Forged == [type |-> "forged"]           \* not signed with the secret key
DevToken == [type |-> "dev"]            \* devAuthToken

Waiting == [pc |-> "idle"]

AccessToken == [type : {"access"}, email : Emails, left : 0 .. TTL]
RefreshToken == [type : {"refresh"}, email : Emails, id : Ids]
Carrying == {"find", "devFind", "devUpsert", "devFindAgain", "handler"}
Request ==
    [pc : {"idle", "401", "403", "500"}] \cup
    [pc : Carrying, email : Emails, admin : BOOLEAN, token : AccessToken \cup {DevToken},
     quiet : 0 .. TTL + 1]

TypeOK ==
    /\ row \in [Emails -> Ids \cup {NoRow, NoSession}]
    /\ tokens \subseteq AccessToken \cup RefreshToken
    /\ used \subseteq Ids
    /\ bypass \in BOOLEAN
    /\ quiet \in [Emails -> 0 .. TTL + 1]
    /\ filter \in [Requests -> Request]

Init ==
    /\ row = [e \in Emails |-> NoRow]
    /\ tokens = {}
    /\ used = {}
    /\ bypass \in BOOLEAN
    /\ quiet = [e \in Emails |-> TTL + 1]
    /\ filter = [r \in Requests |-> Waiting]

-----------------------------------------------------------------------------
(* Tokens.                                                                 *)

\* ValidateToken: signed with the secret key and not expired.  (A refresh token lives so
\* much longer that it does not expire here.)
ValidateToken(t) ==
    \/ t.type = "access" /\ t.left > 0
    \/ t.type = "refresh"

\* accessTokenFromRequest: a header, even a malformed one, hides the cookie.
accessTokenFromRequest(header, cookie) == IF header = None THEN cookie ELSE header

IsAdminEmail(e) == e \in Admins

Goto(r, pc) == filter' = [filter EXCEPT ![r].pc = pc]
Refuse(r, status) == filter' = [filter EXCEPT ![r] = [pc |-> status]]

\* What the filters let through: AdminRequired stands in front of the admin routes only.
Through(r) ==
    IF filter[r].admin => IsAdminEmail(filter[r].email) THEN Goto(r, "handler") ELSE Refuse(r, "403")

-----------------------------------------------------------------------------
(* Seeded faults. *)

\* The type of the token is not compared.
AnyValidToken(r, header, cookie, admin) ==
    LET t == accessTokenFromRequest(header, cookie)
    IN  /\ filter[r].pc = "idle" /\ ValidateToken(t)
        /\ filter' = [filter EXCEPT ![r] =
              [pc |-> "find", email |-> t.email, admin |-> admin, token |-> t,
               quiet |-> quiet[t.email]]]
        /\ UNCHANGED <<sessionVars, bypass>>

-----------------------------------------------------------------------------
(* AuthRequired *)

\* From the request to the look-up of the token's user.
AuthRequired(r, header, cookie, admin) ==
    LET t == accessTokenFromRequest(header, cookie)
        began(pc, e, q) == [pc |-> pc, email |-> e, admin |-> admin, token |-> t, quiet |-> q]
    IN  /\ filter[r].pc = "idle"
        /\ filter' = [filter EXCEPT ![r] =
              IF bypass /\ t = DevToken THEN began("devFind", DevEmail, 0)
              ELSE IF ValidateToken(t) /\ t.type = "access"
              THEN began("find", t.email, quiet[t.email])
              ELSE [pc |-> "401"]]
        /\ UNCHANGED <<sessionVars, bypass>>

FindByEmail(r) ==
    /\ filter[r].pc = "find"
    /\ IF row[filter[r].email] = NoRow THEN Refuse(r, "401") ELSE Through(r)
    /\ UNCHANGED <<sessionVars, bypass>>

\* A statement fails; the request goes no further, also after c.Next, which runs
\* nothing once the request is aborted.
StatementFails(r) ==
    /\ filter[r].pc \in {"find", "devFind", "devUpsert", "devFindAgain"}
    /\ Refuse(r, "500")
    /\ UNCHANGED <<sessionVars, bypass>>

\* tryDevAuthBypass: the development user is made at its first request.
DevFind(r) ==
    /\ filter[r].pc = "devFind"
    /\ IF row[DevEmail] = NoRow THEN Goto(r, "devUpsert") ELSE Through(r)
    /\ UNCHANGED <<sessionVars, bypass>>

\* UpsertUser without a refresh token: a session the user has by now is kept.
DevUpsert(r) ==
    /\ filter[r].pc = "devUpsert"
    /\ row' = [row EXCEPT ![DevEmail] = IF @ = NoRow THEN NoSession ELSE @]
    /\ Goto(r, "devFindAgain")
    /\ UNCHANGED <<tokens, used, quiet, bypass>>

DevFindAgain(r) ==
    /\ filter[r].pc = "devFindAgain"
    /\ IF row[DevEmail] = NoRow THEN Refuse(r, "500") ELSE Through(r)
    /\ UNCHANGED <<sessionVars, bypass>>

Returns(r) ==
    /\ filter[r].pc \in {"handler", "401", "403", "500"}
    /\ filter' = [filter EXCEPT ![r] = Waiting]
    /\ UNCHANGED <<sessionVars, bypass>>

-----------------------------------------------------------------------------
(* Sessions and time.                                                      *)

\* GenerateAuthTokens: the session of e gets the id, the client a pair of tokens.
GenerateAuthTokens(e, id) ==
    /\ id \notin used
    /\ used' = used \cup {id}
    /\ row' = [row EXCEPT ![e] = id]
    /\ tokens' = tokens \cup {Access(e, TTL), Refresh(e, id)}
    /\ quiet' = [quiet EXCEPT ![e] = 0]
    /\ UNCHANGED <<bypass, filter>>

Login(e, id) == GenerateAuthTokens(e, id)

\* RefreshAccessToken with any token a client has.
RefreshAccessToken(t, id) ==
    /\ ValidateToken(t) /\ t.type = "refresh" /\ row[t.email] = t.id
    /\ GenerateAuthTokens(t.email, id)

Logout(t) ==
    /\ ValidateToken(t) /\ t.type = "refresh" /\ row[t.email] = t.id
    /\ row' = [row EXCEPT ![t.email] = NoSession]
    /\ UNCHANGED <<tokens, used, quiet, bypass, filter>>

\* The operator removes a user.
UserRemoved(e) ==
    /\ row[e] # NoRow
    /\ row' = [row EXCEPT ![e] = NoRow]
    /\ UNCHANGED <<tokens, used, quiet, bypass, filter>>

Tick ==
    /\ tokens' = {IF t.type = "access" /\ t.left > 0 THEN [t EXCEPT !.left = @ - 1] ELSE t :
                    t \in tokens}
    /\ quiet' = [e \in Emails |->
          IF row[e] \in Ids THEN 0 ELSE IF quiet[e] <= TTL THEN quiet[e] + 1 ELSE TTL + 1]
    /\ UNCHANGED <<row, used, bypass, filter>>

Next ==
    \/ \E r \in Requests :
          \/ \E header \in tokens \cup {None, Malformed, Forged, DevToken},
                cookie \in tokens \cup {None, DevToken},
                admin \in BOOLEAN : AuthRequired(r, header, cookie, admin)
          \/ FindByEmail(r) \/ StatementFails(r)
          \/ DevFind(r) \/ DevUpsert(r) \/ DevFindAgain(r) \/ Returns(r)
    \/ \E e \in Emails, id \in Ids : Login(e, id)
    \/ \E t \in tokens : Logout(t) \/ \E id \in Ids : RefreshAccessToken(t, id)
    \/ \E e \in Emails : UserRemoved(e)
    \/ Tick

Spec == Init /\ [][Next]_vars

-----------------------------------------------------------------------------
(* Properties.                                                             *)

\* An access token that is good for n ticks was made for a session that ended, if it has,
\* at most TTL - n ticks ago.
TokensFresh ==
    \A t \in tokens : t.type = "access" /\ t.left > 0 => quiet[t.email] + t.left <= TTL

\* What a request that was not refused carries from step to step.
RequestInv(r) ==
    LET f == filter[r] IN
    f.pc \in Carrying =>
        /\ \/ /\ f.pc \in {"find", "handler"}
              /\ f.token.type = "access" /\ f.token.email = f.email /\ f.quiet < TTL
           \/ /\ f.pc # "find"
              /\ f.token = DevToken /\ bypass /\ f.email = DevEmail
        /\ f.pc = "handler" /\ f.admin => f.email \in Admins

\* A handler runs only for the user of the token that was sent, who had a session in the
\* last TTL ticks (token_service.go:13), so that a logout or a lost refresh token ends
\* access within that time, and only for an administrator on an admin route; the
\* development token opens nothing unless the bypass is switched on (filter.go:65).
HandlerInv ==
    \A r \in Requests : filter[r].pc = "handler" =>
        LET f == filter[r] IN
        /\ \/ f.token.type = "access" /\ f.token.email = f.email /\ f.quiet < TTL
           \/ f.token = DevToken /\ bypass /\ f.email = DevEmail
        /\ f.admin => f.email \in Admins

AccessInv == TypeOK /\ HandlerInv /\ TokensFresh /\ \A r \in Requests : RequestInv(r)
=============================================================================
