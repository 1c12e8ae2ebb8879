------------------------------- MODULE Records -------------------------------
(***************************************************************************)
(* What the repositories promise: the program's records, each of one       *)
(* owner, without rows, ids, builders or NULLs.  A version stands for all  *)
(* the values one request brings along, which are stored together.         *)
(***************************************************************************)
CONSTANTS
    Emails, GoogleIds, Jtis,        \* accounts are known by their email
    Servers, Hosts,                 \* instances by their OpenStack id
    KeyNames, Swift, Names,         \* names of key pairs, Swift containers, and of
                                    \* containers and functions
    Versions,
    Null, Empty

VARIABLES
    account,    \* account[e]: what is known of the user
    instance,   \* instance[s]: owner, name, note, and the rest
    app,        \* app[s]: the host that leads to the instance
    keypair,    \* keypair[k]: owner and key
    container,  \* container[e][n]: the Swift container
    function    \* function[e][n]: deployment and key

\* What there is when there is no record.
NoRecord == [field \in {} |-> 0]

records == <<account, instance, app, keypair, container, function>>

Init ==
    /\ account = [e \in Emails |-> NoRecord]
    /\ instance = [s \in Servers |-> NoRecord]
    /\ app = [s \in Servers |-> NoRecord]
    /\ keypair = [k \in KeyNames |-> NoRecord]
    /\ container = [e \in Emails |-> [n \in Names |-> NoRecord]]
    /\ function = [e \in Emails |-> [n \in Names |-> NoRecord]]

\* A login keeps the refresh token it does not bring along, and the current session
\* unless it starts a new one.  No two accounts are one at Google.
Login(e) ==
    LET old == account[e]
        new == account'[e]
    IN  /\ new \in [google_id : GoogleIds, profile : Versions,
                    refresh : Versions \cup {IF old = NoRecord THEN Empty ELSE old.refresh},
                    jti : Jtis \cup {IF old = NoRecord THEN Null ELSE old.jti}]
        /\ \A o \in Emails \ {e} : account[o] # NoRecord => account[o].google_id # new.google_id
        /\ account' = [account EXCEPT ![e] = new]

\* The session of an account is replaced (refresh) or ended (logout).
ChangeSession(e, jti) ==
    /\ account[e] # NoRecord
    /\ account' = [account EXCEPT ![e].jti = jti]

Launch(e, s, v) ==
    /\ account[e] # NoRecord /\ instance[s] = NoRecord
    /\ instance' = [instance EXCEPT ![s] = [owner |-> e, name |-> v, note |-> v, rest |-> v]]

\* A PATCH always writes key and note, the name only if it brings one along.
Patch(e, s, v, rename) ==
    LET old == instance[s]
        name == IF rename THEN v ELSE old.name
    IN  /\ old # NoRecord /\ old.owner = e
        /\ instance' = [instance EXCEPT ![s] =
              [owner |-> e, name |-> name, note |-> v, rest |-> old.rest]]

\* An instance cannot go while a host leads to it.
Terminate(e, s) ==
    /\ instance[s] # NoRecord /\ instance[s].owner = e /\ app[s] = NoRecord
    /\ instance' = [instance EXCEPT ![s] = NoRecord]

Register(e, s, h) ==
    /\ instance[s] # NoRecord /\ instance[s].owner = e
    /\ app[s] = NoRecord /\ \A o \in Servers : app[o] # [host |-> h]
    /\ app' = [app EXCEPT ![s] = [host |-> h]]

Unregister(e, s) ==
    /\ app[s] # NoRecord /\ instance[s].owner = e
    /\ app' = [app EXCEPT ![s] = NoRecord]

AddKey(e, k, v) ==
    /\ account[e] # NoRecord /\ keypair[k] = NoRecord
    /\ keypair' = [keypair EXCEPT ![k] = [owner |-> e, key |-> v]]

RemoveKey(e, k) ==
    /\ keypair[k] # NoRecord /\ keypair[k].owner = e
    /\ keypair' = [keypair EXCEPT ![k] = NoRecord]

\* One user's containers have different names, and no two containers are one in Swift.
AddContainer(e, n, c) ==
    /\ account[e] # NoRecord /\ container[e][n] = NoRecord
    /\ \A o \in Emails, m \in Names : container[o][m] # [swift |-> c]
    /\ container' = [container EXCEPT ![e][n] = [swift |-> c]]

RemoveContainer(e, n) ==
    /\ container[e][n] # NoRecord
    /\ container' = [container EXCEPT ![e][n] = NoRecord]

Deploy(e, n, v) ==
    /\ account[e] # NoRecord /\ function[e][n] = NoRecord
    /\ function' = [function EXCEPT ![e][n] = [deployment |-> v, key |-> Null]]

\* A new deployment keeps the key, a new key or none keeps the deployment.
Redeploy(e, n, v) ==
    /\ function[e][n] # NoRecord
    /\ function' = [function EXCEPT ![e][n].deployment = v]

ChangeKey(e, n, k) ==
    /\ function[e][n] # NoRecord
    /\ function' = [function EXCEPT ![e][n].key = k]

RemoveFunction(e, n) ==
    /\ function[e][n] # NoRecord
    /\ function' = [function EXCEPT ![e][n] = NoRecord]

Accounts ==
    \E e \in Emails : Login(e) \/ \E jti \in Jtis \cup {Null} : ChangeSession(e, jti)

Instances ==
    \E e \in Emails, s \in Servers :
        \/ \E v \in Versions : Launch(e, s, v)
        \/ \E v \in Versions, rename \in BOOLEAN : Patch(e, s, v, rename)
        \/ Terminate(e, s)

Apps ==
    \E e \in Emails, s \in Servers : Unregister(e, s) \/ \E h \in Hosts : Register(e, s, h)

KeyPairs ==
    \E e \in Emails, k \in KeyNames : RemoveKey(e, k) \/ \E v \in Versions : AddKey(e, k, v)

Containers ==
    \E e \in Emails, n \in Names :
        RemoveContainer(e, n) \/ \E c \in Swift : AddContainer(e, n, c)

Functions ==
    \E e \in Emails, n \in Names :
        \/ \E v \in Versions : Deploy(e, n, v) \/ Redeploy(e, n, v)
        \/ \E k \in Versions \cup {Null} : ChangeKey(e, n, k)
        \/ RemoveFunction(e, n)

\* A step changes the records of one kind.
Next ==
    \/ account' # account /\ UNCHANGED <<instance, app, keypair, container, function>> /\ Accounts
    \/ instance' # instance /\ UNCHANGED <<account, app, keypair, container, function>> /\ Instances
    \/ app' # app /\ UNCHANGED <<account, instance, keypair, container, function>> /\ Apps
    \/ keypair' # keypair /\ UNCHANGED <<account, instance, app, container, function>> /\ KeyPairs
    \/ container' # container /\ UNCHANGED <<account, instance, app, keypair, function>>
       /\ Containers
    \/ function' # function /\ UNCHANGED <<account, instance, app, keypair, container>>
       /\ Functions

Step == [Next]_records

Spec == Init /\ [][Next]_records
=============================================================================
