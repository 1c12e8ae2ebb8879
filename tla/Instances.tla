------------------------------ MODULE Instances ------------------------------
(***************************************************************************)
(* Instances: servers in OpenStack, and the database rows that say who     *)
(* owns them.  The two are never updated in one transaction.  Create,      *)
(* delete, rename, pause, list and detail are requests that call OpenStack *)
(* and the database one after the other or side by side; any call may      *)
(* fail, or take effect and have its answer lost, and the API may crash.   *)
(***************************************************************************)
EXTENDS Naturals, FiniteSets

CONSTANTS
    Servers,    \* OpenStack server IDs, never reused
    Requests,   \* concurrent requests of the owner
    Names,      \* instance names
    NoName,     \* no row, no server, or an empty name in a PATCH
    MaxFaults   \* bound on failed calls and crashes

InstancesAssumption == MaxFaults \in Nat /\ NoName \notin Names

VARIABLES
    server,      \* state of each server in OpenStack
    serverName,  \* its name there
    row,         \* name in the ownership row, NoName without a row
    app,         \* rows an apps row refers to
    req,         \* what each request is doing
    faults,      \* failures so far
    named,       \* history: names each server has had
    lost         \* history: servers a failure or a crash left without owner

os == <<server, serverName, named>>
vars == <<server, serverName, row, app, req, faults, named, lost>>

PC == {"idle", "create", "save", "undo", "delete", "deleteRow", "list", "prune",
       "rename", "meta", "detail", "pause"}

Request == [pc : PC, id : Servers \cup {NoName}, name : Names \cup {NoName},
            read : SUBSET {"rows", "servers"}, rows : SUBSET Servers,
            seen : SUBSET Servers, stale : SUBSET Servers, gone : SUBSET Servers]

TypeOK ==
    /\ server \in [Servers -> {"none", "live", "paused", "deleting", "gone"}]
    /\ serverName \in [Servers -> Names \cup {NoName}]
    /\ row \in [Servers -> Names \cup {NoName}]
    /\ app \subseteq {i \in Servers : row[i] # NoName}
    /\ req \in [Requests -> Request]
    /\ faults \in 0 .. MaxFaults
    /\ named \in [Servers -> SUBSET Names]
    /\ lost \subseteq Servers

Idle == [pc |-> "idle", id |-> NoName, name |-> NoName, read |-> {}, rows |-> {},
         seen |-> {}, stale |-> {}, gone |-> {}]

Init ==
    /\ server = [i \in Servers |-> "none"]
    /\ serverName = [i \in Servers |-> NoName]
    /\ row = [i \in Servers |-> NoName]
    /\ app = {}
    /\ req = [r \in Requests |-> Idle]
    /\ faults = 0
    /\ named = [i \in Servers |-> {}]
    /\ lost = {}

\* Request r returns; goes on with its next call.
Return(r) == req' = [req EXCEPT ![r] = Idle]
Goto(r, pc) == req' = [req EXCEPT ![r].pc = pc]

Fault == faults < MaxFaults /\ faults' = faults + 1

\* Servers nobody has deleted; OpenStack finds a server until its deletion is through.
Alive(i) == server[i] \in {"live", "paused"}
Found(i) == Alive(i) \/ server[i] = "deleting"

DeleteServer(i) == server' = [server EXCEPT ![i] = "deleting"]

RenameServer(i, n) ==
    /\ serverName' = [serverName EXCEPT ![i] = n]
    /\ named' = [named EXCEPT ![i] = @ \cup {n}]

-----------------------------------------------------------------------------
(* Seeded faults: what the definitions below would be with a plausible bug. *)

PruneUnconfirmed(r, i) ==
    /\ req[r].pc = "prune" /\ i \in req[r].stale
    /\ req' = [req EXCEPT ![r].stale = @ \ {i}, ![r].gone = @ \cup {i}]
    /\ UNCHANGED <<os, row, app, faults, lost>>

ConfirmNever(r, i) ==
    /\ req[r].pc = "prune" /\ i \in req[r].stale
    /\ req' = [req EXCEPT ![r].stale = @ \ {i}]
    /\ UNCHANGED <<os, row, app, faults, lost>>

SaveFailsWithoutUndo(r) ==
    /\ req[r].pc = "save"
    /\ Fault
    /\ Return(r)
    /\ UNCHANGED <<os, row, app, lost>>

UpdateDatabaseFirst(r, i, n) ==
    /\ req[r].pc = "idle" /\ row[i] # NoName
    /\ LET name == IF n = NoName THEN row[i] ELSE n
       IN  /\ row' = [row EXCEPT ![i] = name]
           /\ req' = [req EXCEPT ![r] = [Idle EXCEPT !.pc = IF name # row[i] THEN "rename" ELSE "meta",
                                                     !.id = i, !.name = name]]
    /\ UNCHANGED <<os, app, faults, lost>>

\* Instance.Delete().Where(openstack_id, owner): without a row it deletes
\* nothing; the foreign key of an apps row (ON DELETE NO ACTION) makes it fail.
DeleteByOpenstackID(i) ==
    row' = IF i \in app THEN row ELSE [row EXCEPT ![i] = NoName]

-----------------------------------------------------------------------------
(* CreateInstance *)

StartCreate(r, n) ==
    /\ req[r].pc = "idle"
    /\ req' = [req EXCEPT ![r] = [Idle EXCEPT !.pc = "create", !.name = n]]
    /\ UNCHANGED <<os, row, app, faults, lost>>

CreateServer(r, i) ==
    /\ req[r].pc = "create" /\ server[i] = "none"
    /\ server' = [server EXCEPT ![i] = "live"]
    /\ RenameServer(i, req[r].name)
    /\ req' = [req EXCEPT ![r].pc = "save", ![r].id = i]
    /\ UNCHANGED <<row, app, faults, lost>>

\* An error from OpenStack, which may have built the server all the same, or
\* its quota is used up (no ID is left).
CreateServerFails(r) ==
    /\ req[r].pc = "create"
    /\ Return(r)
    /\ \/ Fault /\ UNCHANGED <<os, lost>>
       \/ /\ \A i \in Servers : server[i] # "none"
          /\ UNCHANGED <<os, faults, lost>>
       \/ \E i \in Servers :
            /\ Fault
            /\ server[i] = "none"
            /\ server' = [server EXCEPT ![i] = "live"]
            /\ RenameServer(i, req[r].name)
            /\ lost' = lost \cup {i}
    /\ UNCHANGED <<row, app>>

SaveInstance(r) ==
    /\ req[r].pc = "save"
    /\ row' = [row EXCEPT ![req[r].id] = req[r].name]
    /\ Return(r)
    /\ UNCHANGED <<os, app, faults, lost>>

SaveInstanceFails(r) ==
    /\ req[r].pc = "save"
    /\ Fault
    /\ Goto(r, "undo")
    /\ UNCHANGED <<os, row, app, lost>>

\* The compensating DeleteServer; when it fails the log says CRITICAL.
UndoCreate(r) ==
    /\ req[r].pc = "undo"
    /\ Return(r)
    /\ \/ Found(req[r].id) /\ DeleteServer(req[r].id) /\ UNCHANGED <<faults, lost>>
       \/ ~Found(req[r].id) /\ UNCHANGED <<server, faults, lost>>
       \/ Fault /\ lost' = lost \cup {req[r].id} /\ UNCHANGED server
    /\ UNCHANGED <<serverName, named, row, app>>

-----------------------------------------------------------------------------
(* DeleteInstance *)

StartDelete(r, i) ==
    /\ req[r].pc = "idle" /\ row[i] # NoName
    /\ req' = [req EXCEPT ![r] = [Idle EXCEPT !.pc = "delete", !.id = i]]
    /\ UNCHANGED <<os, row, app, faults, lost>>

\* A 404 is an error like any other: the row stays.
DeleteRemote(r) ==
    /\ req[r].pc = "delete"
    /\ \/ Found(req[r].id) /\ DeleteServer(req[r].id) /\ Goto(r, "deleteRow") /\ UNCHANGED faults
       \/ Found(req[r].id) /\ Fault /\ DeleteServer(req[r].id) /\ Return(r)
       \/ Fault /\ Return(r) /\ UNCHANGED server
       \/ ~Found(req[r].id) /\ Return(r) /\ UNCHANGED <<server, faults>>
    /\ UNCHANGED <<serverName, named, row, app, lost>>

DeleteRow(r) ==
    /\ req[r].pc = "deleteRow"
    /\ DeleteByOpenstackID(req[r].id)
    /\ Return(r)
    /\ UNCHANGED <<os, app, faults, lost>>

DeleteRowFails(r) ==
    /\ req[r].pc = "deleteRow"
    /\ Fault
    /\ Return(r)
    /\ UNCHANGED <<os, row, app, lost>>

-----------------------------------------------------------------------------
(* GetInstances and pruneStaleInstances *)

StartList(r) ==
    /\ req[r].pc = "idle"
    /\ Goto(r, "list")
    /\ UNCHANGED <<os, row, app, faults, lost>>

\* Two goroutines, in either order; the list may not show a live server yet.
ReadRows(r) ==
    /\ req[r].pc = "list" /\ "rows" \notin req[r].read
    /\ req' = [req EXCEPT ![r].rows = {i \in Servers : row[i] # NoName},
                          ![r].read = @ \cup {"rows"}]
    /\ UNCHANGED <<os, row, app, faults, lost>>

ReadServers(r) ==
    /\ req[r].pc = "list" /\ "servers" \notin req[r].read
    /\ \E late \in SUBSET {i \in Servers : Alive(i)} :
          req' = [req EXCEPT ![r].seen = {i \in Servers : Found(i)} \ late,
                             ![r].read = @ \cup {"servers"}]
    /\ UNCHANGED <<os, row, app, faults, lost>>

\* A failed read of rows, servers or flavors fails the request, unpruned.
ListFails(r) ==
    /\ req[r].pc = "list"
    /\ Fault
    /\ Return(r)
    /\ UNCHANGED <<os, row, app, lost>>

FindStale(r) ==
    /\ req[r].pc = "list" /\ req[r].read = {"rows", "servers"}
    /\ req' = [req EXCEPT ![r] = [Idle EXCEPT !.pc = "prune",
                                              !.stale = req[r].rows \ req[r].seen]]
    /\ UNCHANGED <<os, row, app, faults, lost>>

\* One goroutine per stale ID; only a 404 for that server lets it go on.
ConfirmStale(r, i) ==
    /\ req[r].pc = "prune" /\ i \in req[r].stale
    /\ req' = [req EXCEPT ![r].stale = @ \ {i},
                          ![r].gone = IF Found(i) THEN @ ELSE @ \cup {i}]
    /\ UNCHANGED <<os, row, app, faults, lost>>

PruneRow(r, i) ==
    /\ req[r].pc = "prune" /\ i \in req[r].gone
    /\ DeleteByOpenstackID(i)
    /\ req' = [req EXCEPT ![r].gone = @ \ {i}]
    /\ UNCHANGED <<os, app, faults, lost>>

PruneFails(r, i) ==
    /\ req[r].pc = "prune" /\ i \in req[r].stale \cup req[r].gone
    /\ Fault
    /\ req' = [req EXCEPT ![r].stale = @ \ {i}, ![r].gone = @ \ {i}]
    /\ UNCHANGED <<os, row, app, lost>>

ListReturns(r) ==
    /\ req[r].pc = "prune" /\ req[r].stale = {} /\ req[r].gone = {}
    /\ Return(r)
    /\ UNCHANGED <<os, row, app, faults, lost>>

-----------------------------------------------------------------------------
(* UpdateInstance *)

\* An empty name in the PATCH keeps the name the row has now.
StartUpdate(r, i, n) ==
    /\ req[r].pc = "idle" /\ row[i] # NoName
    /\ LET name == IF n = NoName THEN row[i] ELSE n
       IN  req' = [req EXCEPT ![r] = [Idle EXCEPT !.pc = IF name # row[i] THEN "rename" ELSE "meta",
                                                  !.id = i, !.name = name]]
    /\ UNCHANGED <<os, row, app, faults, lost>>

UpdateServerName(r) ==
    /\ req[r].pc = "rename"
    /\ \/ Found(req[r].id) /\ RenameServer(req[r].id, req[r].name) /\ Goto(r, "meta") /\ UNCHANGED faults
       \/ Found(req[r].id) /\ Fault /\ RenameServer(req[r].id, req[r].name) /\ Return(r)
       \/ Fault /\ Return(r) /\ UNCHANGED <<serverName, named>>
       \/ ~Found(req[r].id) /\ Return(r) /\ UNCHANGED <<serverName, named, faults>>
    /\ UNCHANGED <<server, row, app, lost>>

UpdateInstanceMetadata(r) ==
    /\ req[r].pc = "meta"
    /\ row' = IF row[req[r].id] = NoName THEN row ELSE [row EXCEPT ![req[r].id] = req[r].name]
    /\ req' = [req EXCEPT ![r] = [Idle EXCEPT !.pc = "detail"]]
    /\ UNCHANGED <<os, app, faults, lost>>

UpdateInstanceMetadataFails(r) ==
    /\ req[r].pc = "meta"
    /\ Fault
    /\ Return(r)
    /\ UNCHANGED <<os, row, app, lost>>

-----------------------------------------------------------------------------
(* GetInstanceDetail, PauseInstance and UnpauseInstance *)

\* The row, the server, the flavors and the diagnostics are read by goroutines of their
\* own, at the end of an update too: that may be answered with an error although it was
\* made.  A read of one's own changes nothing and is left out.
GetInstanceDetail(r) ==
    /\ req[r].pc = "detail"
    /\ Return(r)
    /\ UNCHANGED <<os, row, app, faults, lost>>

\* Both find the row first and then call OpenStack, which refuses in the wrong state; which
\* of the two a request is shows at its call.  A failed call did or did not take effect.
StartPause(r, i) ==
    /\ req[r].pc = "idle" /\ row[i] # NoName
    /\ req' = [req EXCEPT ![r] = [Idle EXCEPT !.pc = "pause", !.id = i]]
    /\ UNCHANGED <<os, row, app, faults, lost>>

PauseServer(i) == server' = [server EXCEPT ![i] = IF @ = "live" THEN "paused" ELSE @]
UnpauseServer(i) == server' = [server EXCEPT ![i] = IF @ = "paused" THEN "live" ELSE @]

PauseInstance(r) ==
    /\ req[r].pc = "pause"
    /\ PauseServer(req[r].id) \/ UNCHANGED server
    /\ Return(r)
    /\ UNCHANGED <<serverName, named, row, app, faults, lost>>

UnpauseInstance(r) ==
    /\ req[r].pc = "pause"
    /\ UnpauseServer(req[r].id) \/ UNCHANGED server
    /\ Return(r)
    /\ UNCHANGED <<serverName, named, row, app, faults, lost>>

-----------------------------------------------------------------------------
(* Apps, OpenStack and the process *)

\* SaveForInstance and DeleteByInstance of the apps repository.
RegisterApp(i) ==
    /\ row[i] # NoName /\ i \notin app
    /\ app' = app \cup {i}
    /\ UNCHANGED <<os, row, req, faults, lost>>

DeleteApp(i) ==
    /\ i \in app
    /\ app' = app \ {i}
    /\ UNCHANGED <<os, row, req, faults, lost>>

\* OpenStack finishes a deletion.
ServerGone(i) ==
    /\ server[i] = "deleting"
    /\ server' = [server EXCEPT ![i] = "gone"]
    /\ UNCHANGED <<serverName, named, row, app, req, faults, lost>>

\* An operator deletes a server outside this API.
DeletedOutside(i) ==
    /\ Alive(i)
    /\ DeleteServer(i)
    /\ UNCHANGED <<serverName, named, row, app, req, faults, lost>>

Crash ==
    /\ \E r \in Requests : req[r].pc # "idle"
    /\ Fault
    /\ lost' = lost \cup {req[r].id : r \in {q \in Requests : req[q].pc \in {"save", "undo"}}}
    /\ req' = [r \in Requests |-> Idle]
    /\ UNCHANGED <<os, row, app>>

-----------------------------------------------------------------------------

\* The steps of a request once it has started.
Step(r) ==
    /\ req[r].pc # "idle"
    /\ \/ \E i \in Servers : \/ CreateServer(r, i) \/ ConfirmStale(r, i)
                             \/ PruneRow(r, i) \/ PruneFails(r, i)
       \/ CreateServerFails(r) \/ SaveInstance(r) \/ SaveInstanceFails(r) \/ UndoCreate(r)
       \/ DeleteRemote(r) \/ DeleteRow(r) \/ DeleteRowFails(r)
       \/ ReadRows(r) \/ ReadServers(r) \/ ListFails(r) \/ FindStale(r) \/ ListReturns(r)
       \/ UpdateServerName(r) \/ UpdateInstanceMetadata(r) \/ UpdateInstanceMetadataFails(r)
       \/ GetInstanceDetail(r) \/ PauseInstance(r) \/ UnpauseInstance(r)

Next ==
    \/ \E r \in Requests : Step(r) \/ StartList(r)
    \/ \E r \in Requests, n \in Names : StartCreate(r, n)
    \/ \E r \in Requests, i \in Servers : StartDelete(r, i) \/ StartPause(r, i)
    \/ \E r \in Requests, i \in Servers, n \in Names \cup {NoName} : StartUpdate(r, i, n)
    \/ \E i \in Servers : RegisterApp(i) \/ DeleteApp(i) \/ ServerGone(i) \/ DeletedOutside(i)
    \/ Crash

Spec == Init /\ [][Next]_vars

\* Calls return (the clients have timeouts), OpenStack finishes deletions, and
\* the owner lists instances again and again.
StepsEnd ==
    /\ \A r \in Requests : WF_vars(Step(r))
    /\ \A i \in Servers : WF_vars(ServerGone(i))

ListingStarts == \E r \in Requests : StartList(r)

LiveSpec == Spec /\ StepsEnd /\ SF_vars(ListingStarts)

-----------------------------------------------------------------------------
(* Properties *)

\* pruneStaleInstances and DeleteInstance never delete the ownership row of a
\* live server, however old the lists they work from (service.go:268).
LiveServerKeepsRow ==
    [][\A i \in Servers : row[i] # NoName /\ row'[i] = NoName => ~Alive(i)]_vars

\* A live server has a row, unless its creation is still under way or failed in
\* a way no later step can repair: both calls failed, the answer of OpenStack
\* was lost, or the API crashed (service.go:474).
NoSilentOrphan ==
    \A i \in Servers : Alive(i) /\ row[i] = NoName =>
        \/ i \in lost
        \/ \E r \in Requests : req[r].pc \in {"save", "undo"} /\ req[r].id = i

\* The name in a row is one OpenStack has accepted for that server: a failed
\* rename never shows in the database (service.go:384).
NameWasAccepted == \A i \in Servers : row[i] # NoName => row[i] \in named[i]

\* Whatever failed before, the row of a server that is gone is pruned in the
\* end, unless an app still refers to it.
StaleRowsPruned ==
    \A i \in Servers :
        server[i] = "gone" /\ row[i] # NoName ~> row[i] = NoName \/ i \in app

\* "DeleteInstance는 owner 소유 인스턴스를 OpenStack과 DB에서 삭제합니다" (service.go:428):
\* when no call fails, a deletion that removed the server removes the row.
DeleteRemovesRow ==
    [][\A r \in Requests :
          req[r].pc = "deleteRow" /\ req'[r].pc # "deleteRow" /\ faults' = 0
             => row'[req[r].id] = NoName]_vars

\* Servers and ownership rows belong together, with the exceptions NoSilentOrphan names.
OwnershipInv == TypeOK /\ NoSilentOrphan

\* What a request knows of its server when it comes to its next call: the server was made,
\* is still on its way out when its row is next, and is gone for good before it is pruned,
\* and the name it saves was accepted, however old the row and the lists it started from.
RequestInv(r) ==
    LET q == req[r] IN
    /\ q.pc \in {"save", "undo", "delete", "deleteRow", "rename", "meta", "pause"} =>
            q.id \in Servers /\ server[q.id] # "none"
    /\ q.pc \in {"create", "save", "rename", "meta"} => q.name \in Names
    /\ q.pc \in {"save", "meta"} => q.name \in named[q.id]
    /\ q.pc = "deleteRow" => server[q.id] \in {"deleting", "gone"}
    /\ \A i \in q.rows \cup q.stale : server[i] # "none"
    /\ \A i \in q.gone : server[i] = "gone"

\* A row is of a server that was made.
RowsInv == \A i \in Servers : row[i] # NoName => server[i] # "none"

InstancesInv ==
    OwnershipInv /\ NameWasAccepted /\ RowsInv /\ \A r \in Requests : RequestInv(r)
=============================================================================
