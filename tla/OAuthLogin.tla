----------------------------- MODULE OAuthLogin -----------------------------
(***************************************************************************)
(* The web login through Google.  Login sends the browser to Google with a *)
(* fresh nonce, once inside the `state` parameter and once in a cookie;    *)
(* Callback accepts what comes back only if the two agree, and clears the  *)
(* cookie in every case.  The API keeps nothing in between: all state is   *)
(* in the browsers, whose tabs share one cookie, and in URLs, which can be *)
(* opened again or in another browser.  A request carries the cookie as it *)
(* was when the request was sent; an answer changes it when it arrives.    *)
(*                                                                         *)
(* Nonces stand for state parameters and, since Google's answer to a state *)
(* has one code, for codes too.  That the state was edited on the way is   *)
(* not modelled, only that the API's idea of an allowed origin changes.    *)
(***************************************************************************)
EXTENDS Naturals, FiniteSets

CONSTANTS
    Tabs, Browsers,
    Nonces,         \* generateState
    Origins,        \* what a client may send as redirect_origin
    Default,        \* defaultFrontendURL, and no redirect_origin
    Accounts, Campus,   \* Google accounts, and those in allowedEmailDomain
    None

OAuthLoginAssumption ==
    /\ None \notin Browsers \cup Nonces \cup Origins \cup Accounts \cup {Default, "denied"}
    /\ Campus \subseteq Accounts

VARIABLES
    cookie,     \* oauth_state of each browser
    tab,        \* in which browser each tab is, and what it does
    flow,       \* per nonce: the browser it was made for, and its redirect_origin
    code,       \* per nonce: the account that approved, or "denied"
    exchanged,  \* codes that were exchanged for tokens
    allowed,    \* the origins that RCP_ALLOWED_FRONTEND_ORIGIN_PATTERN allows
    lost        \* history: nonces whose cookie was overwritten, cleared or has expired

vars == <<cookie, tab, flow, code, exchanged, allowed, lost>>

PC == {"idle", "login", "google", "back", "callback", "exchange", "answer"}
Answers == {"none", "401", "400", "error", "ok"}

TabState ==
    [pc : PC, browser : Browsers \cup {None}, nonce : Nonces \cup {None},
     sent : Nonces \cup {None}, to : Origins \cup {Default, None}, answer : Answers]
Flow == [browser : Browsers \cup {None}, origin : Origins \cup {Default}]

TypeOK ==
    /\ cookie \in [Browsers -> Nonces \cup {None}]
    /\ tab \in [Tabs -> TabState]
    /\ flow \in [Nonces -> Flow]
    /\ code \in [Nonces -> Accounts \cup {None, "denied"}]
    /\ exchanged \subseteq Nonces /\ lost \subseteq Nonces
    /\ allowed \subseteq Origins

Idle ==
    [pc |-> "idle", browser |-> None, nonce |-> None, sent |-> None, to |-> None, answer |-> "none"]

Init ==
    /\ cookie = [b \in Browsers |-> None]
    /\ tab = [t \in Tabs |-> Idle]
    /\ flow = [n \in Nonces |-> [browser |-> None, origin |-> Default]]
    /\ code = [n \in Nonces |-> None]
    /\ exchanged = {}
    /\ allowed = Origins
    /\ lost = {}

-----------------------------------------------------------------------------
(* Seeded faults: what the definitions below would be with a plausible bug. *)

NonceNotCompared(t) == tab[t].nonce # None

-----------------------------------------------------------------------------
(* The API *)

\* generateState, encodeOAuthState
FreshNonce(n) == flow[n].browser = None

\* allowedFrontendOrigin; no redirect_origin at all stands for the default.
AllowedFrontendOrigin(o) == o \in allowed

\* Login: an origin that is not allowed is refused; the nonce and the origin go into
\* the state.
Login(t, b, n, o) ==
    /\ tab[t].pc = "idle" /\ FreshNonce(n)
    /\ o = Default \/ AllowedFrontendOrigin(o)
    /\ flow' = [flow EXCEPT ![n] = [browser |-> b, origin |-> o]]
    /\ tab' = [tab EXCEPT ![t] = [Idle EXCEPT !.pc = "login", !.browser = b, !.nonce = n]]
    /\ UNCHANGED <<cookie, code, exchanged, allowed, lost>>

\* validOAuthStateNonce
ValidOAuthStateNonce(t) == tab[t].sent = tab[t].nonce

Answer(t, a) == tab' = [tab EXCEPT ![t].pc = "answer", ![t].answer = a]

CallbackInvalid(t) ==
    /\ tab[t].pc = "callback" /\ ~ValidOAuthStateNonce(t)
    /\ Answer(t, "401")
    /\ UNCHANGED <<cookie, flow, code, exchanged, allowed, lost>>

CallbackWithoutCode(t) ==
    /\ tab[t].pc = "callback" /\ ValidOAuthStateNonce(t) /\ code[tab[t].nonce] = "denied"
    /\ Answer(t, "400")
    /\ UNCHANGED <<cookie, flow, code, exchanged, allowed, lost>>

\* frontendURLFromState checks the origin again: the pattern may have changed.
FrontendURLFromState(n) ==
    IF AllowedFrontendOrigin(flow[n].origin) THEN flow[n].origin ELSE Default

CallbackValid(t) ==
    LET n == tab[t].nonce IN
    /\ tab[t].pc = "callback" /\ ValidOAuthStateNonce(t) /\ code[n] \in Accounts
    /\ tab' = [tab EXCEPT ![t].pc = "exchange", ![t].to = FrontendURLFromState(n)]
    /\ UNCHANGED <<cookie, flow, code, exchanged, allowed, lost>>

\* verifyGoogleCode: Google takes a code once, and the account is of the campus;
\* then tokens are made and the user is saved (RefreshTokens).
Exchange(t) ==
    LET n == tab[t].nonce IN
    /\ tab[t].pc = "exchange"
    /\ exchanged' = exchanged \cup {n}
    /\ Answer(t, IF n \notin exchanged /\ code[n] \in Campus THEN "ok" ELSE "error")
    /\ UNCHANGED <<cookie, flow, code, allowed, lost>>

\* Google cannot be reached, no token can be made, or the user cannot be saved.
ExchangeFails(t) ==
    /\ tab[t].pc = "exchange"
    /\ Answer(t, "error")
    /\ exchanged' \in {exchanged, exchanged \cup {tab[t].nonce}}
    /\ UNCHANGED <<cookie, flow, code, allowed, lost>>

\* The API is restarted with a pattern that allows less.
Reconfigure(o) ==
    /\ o \in allowed
    /\ allowed' = allowed \ {o}
    /\ UNCHANGED <<cookie, tab, flow, code, exchanged, lost>>

-----------------------------------------------------------------------------
(* Browsers and Google *)

\* The browser's cookie becomes n; the flow it was for can no longer end well.
SetCookie(b, n) ==
    /\ cookie' = [cookie EXCEPT ![b] = n]
    /\ lost' = lost \cup ({cookie[b]} \ {n, None})

\* setOAuthStateCookie
LoginArrives(t) ==
    /\ tab[t].pc = "login"
    /\ SetCookie(tab[t].browser, tab[t].nonce)
    /\ tab' = [tab EXCEPT ![t].pc = "google"]
    /\ UNCHANGED <<flow, code, exchanged, allowed>>

\* The user chooses an account, or refuses.
Approve(t, a) ==
    /\ tab[t].pc = "google"
    /\ code' = [code EXCEPT ![tab[t].nonce] = a]
    /\ tab' = [tab EXCEPT ![t].pc = "back"]
    /\ UNCHANGED <<cookie, flow, exchanged, allowed, lost>>

\* A tab opens a callback URL that another tab has: a copy, or the same again.
OpenURL(t, b, n) ==
    /\ tab[t].pc = "idle" /\ code[n] # None
    /\ tab' = [tab EXCEPT ![t] = [Idle EXCEPT !.pc = "back", !.browser = b, !.nonce = n]]
    /\ UNCHANGED <<cookie, flow, code, exchanged, allowed, lost>>

SendCallback(t) ==
    /\ tab[t].pc = "back"
    /\ tab' = [tab EXCEPT ![t].pc = "callback", ![t].sent = cookie[tab[t].browser]]
    /\ UNCHANGED <<cookie, flow, code, exchanged, allowed, lost>>

\* clearOAuthStateCookie; after a success also the auth cookies, which make this
\* browser the account's (RefreshTokens).
CallbackArrives(t) ==
    /\ tab[t].pc = "answer"
    /\ SetCookie(tab[t].browser, None)
    /\ tab' = [tab EXCEPT ![t] = Idle]
    /\ UNCHANGED <<flow, code, exchanged, allowed>>

\* oauthStateCookieMaxAge
CookieExpires(b) ==
    /\ cookie[b] # None
    /\ SetCookie(b, None)
    /\ UNCHANGED <<tab, flow, code, exchanged, allowed>>

-----------------------------------------------------------------------------

Next ==
    \/ \E t \in Tabs :
        \/ \E b \in Browsers, n \in Nonces :
            \/ OpenURL(t, b, n)
            \/ \E o \in Origins \cup {Default} : Login(t, b, n, o)
        \/ \E a \in Accounts \cup {"denied"} : Approve(t, a)
        \/ LoginArrives(t) \/ SendCallback(t)
        \/ CallbackInvalid(t) \/ CallbackWithoutCode(t) \/ CallbackValid(t)
        \/ Exchange(t) \/ ExchangeFails(t) \/ CallbackArrives(t)
    \/ \E b \in Browsers : CookieExpires(b)
    \/ \E o \in Origins : Reconfigure(o)

Spec == Init /\ [][Next]_vars

-----------------------------------------------------------------------------
(* Properties *)

\* A callback succeeds only in the browser that began that login, however URLs are
\* copied and tabs interleave, and for a campus account.
OwnLoginOnly ==
    \A t \in Tabs : tab[t].answer = "ok" =>
        /\ flow[tab[t].nonce].browser = tab[t].browser
        /\ code[tab[t].nonce] \in Campus

\* A browser is refused for a reason: the URL is another browser's, or its cookie
\* was taken by another login or callback of the same browser, or has expired.
RefusedForAReason ==
    \A t \in Tabs : tab[t].answer = "401" =>
        \/ flow[tab[t].nonce].browser # tab[t].browser
        \/ tab[t].nonce \in lost

\* Whoever is redirected after a login goes where that login asked to go, or to the default.
RedirectAsAsked ==
    \A t \in Tabs : tab[t].to # None => tab[t].to \in {Default, flow[tab[t].nonce].origin}

\* A tab at work has a browser and the nonce of a login that began.
TabInv(t) ==
    /\ tab[t].pc = "idle" => tab[t] = Idle
    /\ tab[t].pc # "idle" => /\ tab[t].browser \in Browsers /\ tab[t].nonce \in Nonces
                             /\ flow[tab[t].nonce].browser \in Browsers
    /\ tab[t].pc \in {"login", "google"} =>
          flow[tab[t].nonce].browser = tab[t].browser /\ code[tab[t].nonce] = None
    /\ tab[t].pc \in {"back", "callback", "exchange", "answer"} => code[tab[t].nonce] # None
    /\ tab[t].answer # "none" => tab[t].pc = "answer"
    /\ tab[t].answer = "ok" => code[tab[t].nonce] \in Campus
    /\ tab[t].to # None => /\ tab[t].pc \in {"exchange", "answer"}
                           /\ tab[t].to \in {Default, flow[tab[t].nonce].origin}

\* What a tab sent was a cookie its browser had: the nonce, unless the URL came from
\* another browser or the nonce was lost by then.
SentInv(t) ==
    /\ tab[t].sent # None => flow[tab[t].sent].browser = tab[t].browser
    /\ tab[t].pc \in {"callback", "exchange", "answer"} =>
          \/ tab[t].sent = tab[t].nonce
          \/ flow[tab[t].nonce].browser # tab[t].browser
          \/ tab[t].nonce \in lost
    /\ tab[t].pc = "exchange" \/ tab[t].answer = "ok" => tab[t].sent = tab[t].nonce
    /\ tab[t].answer = "401" => tab[t].sent # tab[t].nonce

\* One tab begins each login.
OneBeginner ==
    \A t, u \in Tabs :
        /\ tab[t].pc \in {"login", "google"} /\ tab[u].pc \in {"login", "google"}
        /\ tab[t].nonce = tab[u].nonce
        => t = u

\* A cookie is of a login of its browser, and a login that got as far as Google has left
\* its cookie there or lost it.
CookieInv ==
    /\ \A b \in Browsers : cookie[b] # None => flow[cookie[b]].browser = b
    /\ \A n \in Nonces :
          code[n] # None \/ (\E t \in Tabs : tab[t].pc = "google" /\ tab[t].nonce = n) =>
             flow[n].browser \in Browsers /\ (cookie[flow[n].browser] = n \/ n \in lost)

CoreInv ==
    /\ TypeOK
    /\ \A t \in Tabs : TabInv(t) /\ SentInv(t)
    /\ OneBeginner /\ CookieInv

WebLoginInv == OwnLoginOnly /\ RefusedForAReason /\ RedirectAsAsked /\ CoreInv
=============================================================================
