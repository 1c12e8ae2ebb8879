---------------------------- MODULE OneTimeLogin ----------------------------
(***************************************************************************)
(* What the SSH gateway's login store promises, without goroutines, locks, *)
(* channels or webhooks: a login is opened once, is then either granted to *)
(* one account or lost, and only a granted login lets anyone in, as that   *)
(* account.                                                                *)
(***************************************************************************)
CONSTANTS Nonces, Emails, NoEmail

VARIABLES
    login,   \* the state of each login
    owner    \* the account it was granted to

LoginState == {"unused", "open", "granted", "entered", "lost"}

Init ==
    /\ login = [n \in Nonces |-> "unused"]
    /\ owner = [n \in Nonces |-> NoEmail]

Open(n) ==
    /\ login[n] = "unused"
    /\ login' = [login EXCEPT ![n] = "open"]
    /\ UNCHANGED owner

Grant(n, e) ==
    /\ login[n] = "open"
    /\ login' = [login EXCEPT ![n] = "granted"]
    /\ owner' = [owner EXCEPT ![n] = e]

Lose(n) ==
    /\ login[n] = "open"
    /\ login' = [login EXCEPT ![n] = "lost"]
    /\ UNCHANGED owner

Enter(n) ==
    /\ login[n] = "granted"
    /\ login' = [login EXCEPT ![n] = "entered"]
    /\ UNCHANGED owner

Next ==
    \E n \in Nonces :
        Open(n) \/ Lose(n) \/ Enter(n) \/ \E e \in Emails : Grant(n, e)

Spec == Init /\ [][Next]_<<login, owner>>
=============================================================================
