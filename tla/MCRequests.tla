----------------------------- MODULE MCRequests ------------------------------
(***************************************************************************)
(* Requests at the API: logins, refreshes and logouts of one user          *)
(* (RefreshTokens), those on an owner's instances (Instances) and those of *)
(* an administrator (AdminViews).  The three have no state in common: one  *)
(* moves while the others rest in their initial states.                    *)
(***************************************************************************)
EXTENDS RefreshTokens

CONSTANTS
    Servers, Callers, Names, NoName, MaxFaults,     \* Instances, and AdminViews
    Statuses, Gone, Nobody, TTL, MaxDelay,
    Services, Configured, ViaKeystone, Timeout, MaxReauth

VARIABLES
    server, serverName, row, app, instReq, faults, named, lost,
    live, past, rows, unborn, cache, mu, viewReq, health, check

Owned == INSTANCE Instances WITH Requests <- Callers, req <- instReq
Admin == INSTANCE AdminViews WITH Requests <- Callers, req <- viewReq

ASSUME TokensAssumption == JTIAssumption
ASSUME AdminAssumption == Admin!AdminViewsAssumption
ASSUME OwnedAssumption == Owned!InstancesAssumption

ownedVars == <<server, serverName, row, app, instReq, faults, named, lost>>
adminVars == <<live, past, rows, unborn, cache, mu, viewReq, health, check>>
allVars == <<vars, ownedVars, adminVars>>

AllInit == Init /\ Owned!Init /\ Admin!Init

TokensMove ==
    /\ Owned!Init /\ Admin!Init
    /\ Next
    /\ UNCHANGED <<ownedVars, adminVars>>

OwnedMove ==
    /\ Init /\ Admin!Init
    /\ Owned!Next
    /\ UNCHANGED <<vars, adminVars>>

AdminMoves ==
    /\ Init /\ Owned!Init
    /\ Admin!Next
    /\ UNCHANGED <<vars, ownedVars>>

AllNext == TokensMove \/ OwnedMove \/ AdminMoves

\* The owner lists instances only while the others rest; no other fair step can be taken
\* by a component at rest.  So each is checked under its own fairness.
AllSpec ==
    /\ AllInit
    /\ [][AllNext]_allVars
    /\ Owned!StepsEnd
    /\ SF_ownedVars(Init /\ Admin!Init /\ Owned!ListingStarts)
    /\ Admin!Fairness

-----------------------------------------------------------------------------

\* Rows and servers belong together, the exceptions being named (compute/service.go:475),
\* and a row has a name OpenStack has accepted (service.go:393).
InstancesInv == Owned!InstancesInv

\* The ownership row of a live server is never deleted (compute/service.go:284).
LiveServerKeepsRow == Owned!LiveServerKeepsRow

\* What the admin pages call live is not older than the cache may be, and the system page
\* takes one time-out (admin/service.go:134).
AdminInv == Admin!AdminInv

\* Whatever failed, the row of a server that is gone is pruned in the end
\* (compute/service.go:268); and every admin view is answered (instance_status.go:44).
ListingsEnd == Owned!StaleRowsPruned /\ Admin!ViewsAnswered
=============================================================================
