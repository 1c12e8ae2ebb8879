-------------------------- MODULE FunctionExecution --------------------------
(***************************************************************************)
(* Deploying and running one function.  The row of the function holds its  *)
(* deployment and the hash of its external key, and each is replaced by a  *)
(* single UPDATE; everything a request does before and after that UPDATE   *)
(* interleaves with the other requests.  Running and validating take one   *)
(* of the execution slots; compiling takes one of the slots of the build   *)
(* service, whose containers may outlive a failed clean-up.                *)
(***************************************************************************)
EXTENDS Naturals, FiniteSets

CONSTANTS
    Requests,    \* concurrent requests
    Versions,    \* deployments, one per upload
    Keys,        \* external keys, one per IssueKey
    None,
    MaxRunning,  \* cap(Service.slots)
    MaxBuilds    \* cap(sem) of the build service

FunctionExecutionAssumption ==
    /\ IsFiniteSet(Requests) /\ MaxRunning \in Nat /\ MaxBuilds \in Nat
    /\ None \notin Keys \cup Versions

VARIABLES
    row,        \* the function's row: live, dep, key
    req,        \* per request, what it does
    slots,      \* execution slots taken
    builds,     \* build slots taken
    containers, \* the requests whose build container runs
    valid,      \* history: the versions that validate has accepted
    replaced,   \* history: the versions that an UPDATE has overwritten
    issued,     \* history: the keys whose IssueKey was answered
    expired,    \* the keys past their expiry
    dead,       \* history: keys that an answered revocation or replacement or time ended
    orphans     \* history: builds whose docker rm failed

vars == <<row, req, slots, builds, containers, valid, replaced, issued, expired, dead, orphans>>

PC == {"idle", "load", "admit", "running", "get", "build", "compile", "validate",
       "validating", "store", "setKey", "answerKey", "answerNoKey"}

Used == {req[r].ver : r \in Requests} \cup {row.dep} \cup replaced
UsedKeys == {req[r].key : r \in Requests} \cup {row.key} \cup issued \cup dead \cup expired

Row == [live : BOOLEAN, dep : Versions, key : Keys \cup {None}]

Request == [pc : PC, ver : Versions \cup {None}, key : Keys \cup {None},
            oldKeys : SUBSET Keys, oldVersions : SUBSET Versions]

TypeOK ==
    /\ row \in Row
    /\ req \in [Requests -> Request]
    /\ slots \in 0 .. MaxRunning /\ builds \in 0 .. MaxBuilds
    /\ containers \subseteq Requests /\ orphans \subseteq containers
    /\ valid \subseteq Versions /\ replaced \subseteq Versions
    /\ issued \subseteq Keys /\ expired \subseteq Keys /\ dead \subseteq Keys

Idle == [pc |-> "idle", ver |-> None, key |-> None, oldKeys |-> {}, oldVersions |-> {}]

\* A function that was created with some first version.
Init ==
    /\ \E v \in Versions :
        /\ row = [live |-> TRUE, dep |-> v, key |-> None]
        /\ valid = {v}
    /\ req = [r \in Requests |-> Idle]
    /\ slots = 0 /\ builds = 0
    /\ containers = {} /\ orphans = {}
    /\ replaced = {}
    /\ issued = {} /\ expired = {} /\ dead = {}

Go(r, pc) == req' = [req EXCEPT ![r].pc = pc]
End(r) == req' = [req EXCEPT ![r] = Idle]

builder == <<builds, containers, orphans>>
history == <<valid, replaced>>
keys == <<issued, expired, dead>>

-----------------------------------------------------------------------------
(* Seeded faults: what the definitions below would be with a plausible bug. *)

TimeoutKeepsSlot(r) ==
    /\ req[r].pc = "running"
    /\ End(r)
    /\ UNCHANGED <<row, slots, builder, history, keys>>

CheckOldKeys(r) ==
    /\ req[r].pc = "load" /\ row.live
    /\ req[r].key = None \/ (req[r].key \in issued /\ req[r].key \notin expired)
    /\ req' = [req EXCEPT ![r].pc = "admit", ![r].ver = row.dep]
    /\ UNCHANGED <<row, slots, builder, history, keys>>

-----------------------------------------------------------------------------
(* Running *)

\* Invoke, or InvokePublic with a key; oldKeys and oldVersions record what was
\* already over when the request came in.
Begin(r, k) ==
    /\ req[r].pc = "idle"
    /\ req' = [req EXCEPT ![r] = [pc |-> "load", ver |-> None, key |-> k, oldKeys |-> dead,
                                  oldVersions |-> replaced]]
    /\ UNCHANGED <<row, slots, builder, history, keys>>

\* Get, or GetPublic and checkKey.  The row that is read here is the one that runs.
Load(r) ==
    /\ req[r].pc = "load" /\ row.live
    /\ req[r].key = None \/ (req[r].key = row.key /\ req[r].key \notin expired)
    /\ req' = [req EXCEPT ![r].pc = "admit", ![r].ver = row.dep]
    /\ UNCHANGED <<row, slots, builder, history, keys>>

LoadFails(r) ==
    /\ req[r].pc = "load"
    /\ \/ ~row.live
       \/ req[r].key # None /\ (req[r].key # row.key \/ req[r].key \in expired)
    /\ End(r)
    /\ UNCHANGED <<row, slots, builder, history, keys>>

\* execute takes a slot, or answers ErrBusy.
Admit(r) ==
    /\ req[r].pc = "admit" /\ slots < MaxRunning
    /\ slots' = slots + 1
    /\ Go(r, "running")
    /\ UNCHANGED <<row, builder, history, keys>>

Busy(r) ==
    /\ req[r].pc \in {"admit", "validate"} /\ slots = MaxRunning
    /\ End(r)
    /\ UNCHANGED <<row, slots, builder, history, keys>>

\* The module ends, fails or runs into InvocationTimeout.
RunEnds(r) ==
    /\ req[r].pc = "running"
    /\ slots' = slots - 1
    /\ End(r)
    /\ UNCHANGED <<row, builder, history, keys>>

-----------------------------------------------------------------------------
(* Deploying *)

\* UpdateSource begins with Get, Update with validate.  A request names its
\* container, so it makes no second build while an orphan has its name.
UpdateSource(r, v) ==
    /\ req[r].pc = "idle" /\ v \notin Used /\ r \notin containers
    /\ row.live
    /\ req' = [req EXCEPT ![r] = [Idle EXCEPT !.pc = "build", !.ver = v]]
    /\ UNCHANGED <<row, slots, builder, history, keys>>

Update(r, v) ==
    /\ req[r].pc = "idle" /\ v \notin Used
    /\ req' = [req EXCEPT ![r] = [Idle EXCEPT !.pc = "validate", !.ver = v]]
    /\ UNCHANGED <<row, slots, builder, history, keys>>

\* The build service takes a slot and starts docker run, or answers 429 or not at all.
BuildStarts(r) ==
    /\ req[r].pc = "build" /\ builds < MaxBuilds
    /\ builds' = builds + 1
    /\ containers' = containers \cup {r}
    /\ Go(r, "compile")
    /\ UNCHANGED <<row, slots, orphans, history, keys>>

BuildRefused(r) ==
    /\ req[r].pc = "build"
    /\ End(r)
    /\ UNCHANGED <<row, slots, builder, history, keys>>

BuildSucceeds(r) ==
    /\ req[r].pc = "compile"
    /\ builds' = builds - 1
    /\ containers' = containers \ {r}
    /\ Go(r, "validate")
    /\ UNCHANGED <<row, slots, orphans, history, keys>>

BuildFails(r) ==
    /\ req[r].pc = "compile"
    /\ builds' = builds - 1
    /\ containers' = containers \ {r}
    /\ End(r)
    /\ UNCHANGED <<row, slots, orphans, history, keys>>

\* The time is over or the client has gone: docker rm -f, which may fail itself.
BuildTimesOut(r) ==
    /\ req[r].pc = "compile"
    /\ builds' = builds - 1
    /\ \/ containers' = containers \ {r} /\ UNCHANGED orphans
       \/ orphans' = orphans \cup {r} /\ UNCHANGED containers
    /\ End(r)
    /\ UNCHANGED <<row, slots, history, keys>>

\* A container whose removal failed ends by itself in the end.
OrphanEnds(r) ==
    /\ r \in orphans
    /\ orphans' = orphans \ {r}
    /\ containers' = containers \ {r}
    /\ UNCHANGED <<row, req, slots, builds, history, keys>>

ValidateStarts(r) ==
    /\ req[r].pc = "validate" /\ slots < MaxRunning
    /\ slots' = slots + 1
    /\ Go(r, "validating")
    /\ UNCHANGED <<row, builder, history, keys>>

ValidateAccepts(r) ==
    /\ req[r].pc = "validating"
    /\ slots' = slots - 1
    /\ valid' = valid \cup {req[r].ver}
    /\ Go(r, "store")
    /\ UNCHANGED <<row, builder, replaced, keys>>

ValidateRejects(r) ==
    /\ req[r].pc = "validating"
    /\ slots' = slots - 1
    /\ End(r)
    /\ UNCHANGED <<row, builder, history, keys>>

\* UpdateDeployment: one UPDATE of wasm, language, data mode and source; no row, no effect.
UpdateDeployment(r) ==
    /\ req[r].pc = "store"
    /\ IF row.live
       THEN /\ row' = [row EXCEPT !.dep = req[r].ver]
            /\ replaced' = replaced \cup {row.dep}
       ELSE UNCHANGED <<row, replaced>>
    /\ End(r)
    /\ UNCHANGED <<slots, builder, valid, keys>>

Delete ==
    /\ row.live
    /\ row' = [row EXCEPT !.live = FALSE]
    /\ UNCHANGED <<req, slots, builder, history, keys>>

-----------------------------------------------------------------------------
(* Keys *)

\* IssueKey(k), or RevokeKey with None: oldKeys are the keys the owner already had.
KeyRequest(r, k) ==
    /\ req[r].pc = "idle"
    /\ k = None \/ k \notin UsedKeys
    /\ req' = [req EXCEPT ![r] = [Idle EXCEPT !.pc = "setKey", !.key = k, !.oldKeys = issued]]
    /\ UNCHANGED <<row, slots, builder, history, keys>>

SetKey(r) ==
    /\ req[r].pc = "setKey" /\ row.live
    /\ row' = [row EXCEPT !.key = req[r].key]
    /\ Go(r, IF req[r].key = None THEN "answerNoKey" ELSE "answerKey")
    /\ UNCHANGED <<slots, builder, history, keys>>

SetKeyFails(r) ==
    /\ req[r].pc = "setKey"
    /\ End(r)
    /\ UNCHANGED <<row, slots, builder, history, keys>>

\* The answer: from here on the owner counts on it.
AnswerKey(r) ==
    /\ req[r].pc \in {"answerKey", "answerNoKey"}
    /\ issued' = issued \cup ({req[r].key} \ {None})
    /\ dead' = dead \cup req[r].oldKeys
    /\ End(r)
    /\ UNCHANGED <<row, slots, builder, history, expired>>

Expire(k) ==
    /\ k \in issued \ expired
    /\ expired' = expired \cup {k}
    /\ dead' = dead \cup {k}
    /\ UNCHANGED <<row, req, slots, builder, history, issued>>

-----------------------------------------------------------------------------

Run(r) == LoadFails(r) \/ Load(r) \/ Admit(r) \/ Busy(r) \/ RunEnds(r)

Build(r) == BuildStarts(r) \/ BuildRefused(r) \/ BuildSucceeds(r) \/ BuildFails(r) \/ BuildTimesOut(r)

Store(r) == ValidateStarts(r) \/ ValidateAccepts(r) \/ ValidateRejects(r) \/ UpdateDeployment(r)

Key(r) == SetKey(r) \/ SetKeyFails(r) \/ AnswerKey(r)

Step(r) == Run(r) \/ Build(r) \/ Store(r) \/ Key(r)

Next ==
    \/ \E r \in Requests :
        \/ \E k \in Keys \cup {None} : Begin(r, k) \/ KeyRequest(r, k)
        \/ \E v \in Versions : UpdateSource(r, v) \/ Update(r, v)
        \/ Step(r) \/ OrphanEnds(r)
    \/ \E k \in Keys : Expire(k)
    \/ Delete

Spec == Init /\ [][Next]_vars

-----------------------------------------------------------------------------
(* Properties *)

Holding == {r \in Requests : req[r].pc \in {"running", "validating"}}

\* Never more than cap(slots) modules are compiled or run at once, and the slots
\* that are taken are exactly the ones of these requests: none is lost, whatever
\* way a run ends (README: at most four at a time).
SlotsHeld == slots = Cardinality(Holding) /\ slots <= MaxRunning

\* Only modules that validate has accepted are ever stored or run.
OnlyValidRuns ==
    /\ row.dep \in valid
    /\ \A r \in Requests : req[r].pc \in {"admit", "running", "store"} => req[r].ver \in valid

\* "Calling it again invalidates the previous key at once" (README): no
\* invocation runs with a key whose revocation, replacement or expiry was known
\* when the invocation came in, however many key requests overlap.
DeadKeyRefused ==
    \A r \in Requests :
        req[r].pc \in {"admit", "running"} /\ req[r].key # None => req[r].key \notin req[r].oldKeys

\* An invocation never runs a version that had been overwritten before the
\* invocation came in.
FreshVersionRuns ==
    \A r \in Requests : req[r].pc \in {"admit", "running"} => req[r].ver \notin req[r].oldVersions

\* The build service runs no more containers than it has slots, except the ones
\* that a failed docker rm left behind.
BuildsBounded == Cardinality(containers \ orphans) <= MaxBuilds /\ builds <= MaxBuilds

-----------------------------------------------------------------------------
(* What the requests under way rely on *)

\* A build slot is taken exactly while docker run is waited for, and the containers that run
\* besides are orphans; a request that is to build has no container yet.
Compiling == {r \in Requests : req[r].pc = "compile"}

BuildsHeld ==
    /\ builds = Cardinality(Compiling)
    /\ containers \ orphans = Compiling
    /\ \A r \in Requests : req[r].pc = "build" => r \notin containers

\* A version that is being deployed is new: the row never had it, and no other request has it.
Deploying == {r \in Requests : req[r].pc \in {"build", "compile", "validate", "validating", "store"}}

NewVersions ==
    /\ row.dep \notin replaced
    /\ \A r \in Deploying :
        /\ req[r].ver \in Versions \ (replaced \cup {row.dep})
        /\ \A t \in Deploying : req[t].ver = req[r].ver => t = r

\* A key that is being set was never answered, and no other request sets it.
Setting == {r \in Requests : req[r].pc \in {"setKey", "answerKey", "answerNoKey"}}

NewKeys ==
    \A r \in Setting :
        /\ req[r].key \notin issued /\ req[r].oldKeys \subseteq issued
        /\ req[r].key # None => \A t \in Setting : req[t].key = req[r].key => t = r

\* Once its UPDATE is made, the row has none of the keys that this request ends, whoever
\* has overwritten the row since; so a key that was ended otherwise than by time is not in it.
KeysEnd ==
    /\ dead \subseteq issued /\ expired \subseteq dead
    /\ row.key \notin dead \ expired
    /\ \A r \in Setting : req[r].pc # "setKey" => row.key \notin req[r].oldKeys

\* What was over when an invocation came in is still over.
OverBefore ==
    \A r \in Requests : req[r].pc = "load" =>
        req[r].oldKeys \subseteq dead /\ req[r].oldVersions \subseteq replaced

\* Slots are never lost or exceeded, only validated modules use them, and no invocation runs
\* a version that was overwritten, or with a key that was dead, before it came in.
ExecutionInv ==
    /\ TypeOK /\ SlotsHeld /\ OnlyValidRuns /\ BuildsBounded /\ FreshVersionRuns /\ DeadKeyRefused
    /\ BuildsHeld /\ NewVersions /\ NewKeys /\ KeysEnd /\ OverBefore
=============================================================================
