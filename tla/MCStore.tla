------------------------------- MODULE MCStore -------------------------------
(* The repositories for TLC.  A behaviour exercises one group of them, so   *)
(* that each group is explored in depth; accounts are made in all of them.  *)
EXTENDS Repositories

VARIABLE focus      \* the group of this behaviour

Writes == {"accounts", "compute", "keys", "containers", "functions"}
Reads == {"instances", "apps", "key reads", "container reads", "function reads", "overview"}

mcvars == <<vars, focus>>

\* Rows are made with the values of one request and changed to those of another.
ASSUME MCStoreAssumption == {1, 2} \subseteq Versions

Groups == Writes \cup Reads
symmetry ==
    Permutations(Emails) \cup Permutations(Servers) \cup Permutations(Jtis) \cup Permutations(Swift)

MCInit == Init /\ focus \in Groups

\* A login with the first Google identity that no account has.
SignUp ==
    \E e \in Emails :
        LET free == {g \in GoogleIds : \A u \in db["users"] : u.google_id # g}
        IN  /\ UserRow(db, e) = {} /\ free # {}
            /\ UpsertUser(e, CHOOSE g \in free : TRUE, 1, 1, Null)

\* Rows are made by the first request and changed by the second.
Compute ==
    \/ \E e \in Emails, s \in Servers :
          \/ SaveInstance(e, s, 1)
          \/ \E rename \in BOOLEAN : UpdateInstanceMetadata(e, s, 2, rename)
          \/ DeleteByOpenstackID(e, s)
          \/ DeleteByInstance(e, s)
          \/ \E c \in Callers, h \in Hosts : SaveForInstance(c, e, s, h)
    \/ \E c \in Callers : InsertApp(c) \/ SaveReturns(c)

\* What changes while others read.
SomeInstances ==
    \E e \in Emails, s \in Servers :
        SaveInstance(e, s, 1) \/ UpdateInstanceMetadata(e, s, 2, TRUE) \/ DeleteByOpenstackID(e, s)

SomeApps ==
    \/ \E e \in Emails, s \in Servers :
          \/ SaveInstance(e, s, 1) \/ DeleteByOpenstackID(e, s) \/ DeleteByInstance(e, s)
          \/ \E c \in Callers, h \in Hosts : view = Idle /\ SaveForInstance(c, e, s, h)
    \/ \E c \in Callers : SaveReturns(c) \/ (made["apps"] = 0 /\ InsertApp(c))

SomeKeys == \E e \in Emails, k \in KeyNames : SaveKeyPair(e, k, 1) \/ DeleteByName(e, k)

SomeFunctions ==
    \E e \in Emails :
        \/ \E n \in Names : CreateDeployment(e, n, 1)
        \/ \E f \in Ids : UpdateDeployment(e, f, 2) \/ DeleteFunction(e, f)

\* Rows come and go while an administrator looks at everything.
SomeOfAll ==
    \/ \E u \in db["users"] : UpsertUser(u.email, u.google_id, 2, Empty, Null)
    \/ \E e \in Emails :
        \/ made["key_pairs"] = 0 /\ \E k \in KeyNames : SaveKeyPair(e, k, 1)
        \/ made["instances"] = 0 /\ \E s \in Servers : SaveInstance(e, s, 1)
        \/ made["containers"] = 0 /\ \E n \in Names, c \in Swift : SaveContainer(e, n, c)
        \/ \E s \in Servers : DeleteByOpenstackID(e, s)
        \/ \E n \in Names : DeleteContainer(e, n)

\* Accounts have their first values: a read that begins later meets no other changes.
Unchanged == \A u \in db["users"] : Version(u.name) = 1

Asking(queries) == \E q \in queries : Ask(q)

MCNext ==
    /\ \/ focus = "accounts" /\ AccountWrites
       \/ focus = "compute" /\ (SignUp \/ Compute)
       \/ focus = "keys" /\ (SignUp \/ KeyWrites)
       \/ focus = "containers" /\ (SignUp \/ ContainerWrites)
       \/ focus = "functions" /\ (SignUp \/ FunctionWrites)
       \/ focus = "instances" /\ (SignUp \/ SomeInstances \/ Asking(InstanceReads))
       \/ focus = "apps" /\ (SignUp \/ SomeApps \/ Asking(AppReads))
       \/ focus = "key reads" /\ (SignUp \/ SomeKeys \/ Asking(KeyReads))
       \/ focus = "container reads" /\ (SignUp \/ ContainerWrites \/ Asking(ContainerReads))
       \/ focus = "function reads" /\ (SignUp \/ SomeFunctions \/ Asking(FunctionReads))
       \/ focus = "overview"
          /\ \/ SignUp \/ SomeOfAll
             \/ Unchanged /\ Asking(AccountReads \cup SummaryReads)
       \/ Reading
    /\ UNCHANGED focus

\* The repositories on ent's tables implement Records: what setters, defaults, checks,
\* specs, unique indexes, references and scans do together to rows is what a single step
\* does to the records: a login keeps the refresh token it lacks and takes no other
\* account's Google identity, only the owner changes or removes an instance, key or
\* function, an instance with an app stays, a deployment keeps the key.
\* This is Abstract!Spec for the behaviours that make all writes; the others make some of
\* them and reads, which leave the database alone.
WritesImplementRecords == Abstract!Init /\ [][(focus \in Writes) => Abstract!Step]_mcvars

MCSpec == MCInit /\ [][MCNext]_mcvars
=============================================================================
