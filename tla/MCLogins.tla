------------------------------ MODULE MCLogins -------------------------------
(***************************************************************************)
(* The two logins that end at the API's OAuth callback, that of the SSH    *)
(* gateway (SshSessionStore) and that of the web (OAuthLogin), and what    *)
(* the second is for: the filter that lets requests with a token through   *)
(* (AuthFilter).  The prefix of the state parameter tells the logins       *)
(* apart, and the three have no state in common: one moves while the       *)
(* others rest in an initial state.  So the logins may share their nonces, *)
(* and the browsers of the second may be the set of e-mails of the first:  *)
(* members of each are interchangeable in both.                            *)
(***************************************************************************)
EXTENDS SshSessionStore, TLC

CONSTANTS
    Tabs, Origins, Default, Accounts, Campus,              \* OAuthLogin
    Users, Admins, DevEmail, Requests, Ids, NoRow, NoSession, TTL   \* AuthFilter

VARIABLES
    cookie, tab, flow, code, exchanged, allowed, lost,
    row, tokens, used, bypass, quiet, filter

Web == INSTANCE OAuthLogin WITH Browsers <- Emails, None <- NoNonce
Filter == INSTANCE AuthFilter WITH Emails <- Users

ASSUME WebAssumption == Web!OAuthLoginAssumption
ASSUME FilterAssumption == Filter!AuthFilterAssumption

webVars == <<cookie, tab, flow, code, exchanged, allowed, lost>>
filterVars == <<row, tokens, used, bypass, quiet, filter>>
allVars == <<vars, webVars, filterVars>>

FilterRests == Filter!Init /\ ~bypass

AllInit == Init /\ Web!Init /\ Filter!Init

SshMoves ==
    /\ Web!Init /\ FilterRests
    /\ Next
    /\ UNCHANGED <<webVars, filterVars>>

WebMoves ==
    /\ Init /\ FilterRests
    /\ Web!Next
    /\ UNCHANGED <<vars, filterVars>>

FilterMoves ==
    /\ Init /\ Web!Init
    /\ Filter!Next
    /\ UNCHANGED <<vars, webVars>>

AllNext == SshMoves \/ WebMoves \/ FilterMoves

AllSpec == AllInit /\ [][AllNext]_allVars

\* Nonces, e-mails and callbacks are interchangeable.
Symmetry ==
    Permutations(Nonces) \cup Permutations(Emails) \cup Permutations(Callbacks)

-----------------------------------------------------------------------------

\* A web login ends in the browser that began it or is refused for a reason, whatever
\* tabs share the cookie (auth/handler.go:122).
WebLoginInv == Web!WebLoginInv

\* A request gets through the filter with a token signed for that user that has not
\* expired, and not long after the user's last session (auth/filter.go:41).
AccessInv == Filter!AccessInv
=============================================================================
