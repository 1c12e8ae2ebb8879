----------------------------- MODULE Containers ------------------------------
(***************************************************************************)
(* Object storage of one owner.  A container is a row (name and Swift      *)
(* name) in the platform database and a container in Swift; a request      *)
(* looks up the row and then works on Swift with the name it found, so the *)
(* row may be another one by the time the request comes back to it.        *)
(*                                                                         *)
(* A name in a URL may carry spaces around it: it is trimmed when the row  *)
(* is looked up, but not when the row is deleted.                          *)
(***************************************************************************)
EXTENDS Naturals, FiniteSets

CONSTANTS
    Names, Swift, Objects, Requests, None,
    MaxFaults     \* bound on failures and crashes

ContainersAssumption == MaxFaults \in Nat /\ None \notin Names \cup Swift

VARIABLES
    rows,       \* the table: [name, swift]
    swift,      \* the containers in Swift: "none", "live" or "gone"
    objects,    \* their objects
    req,        \* what each request is doing
    faults,
    reported,   \* history: containers whose failed clean-up was logged or answered
    forgotten,  \* history: containers a request was making when the process died, or that Swift
                \* made although it answered with an error
    mixedUp,    \* history: containers whose row was removed by a delete of another one
    halfDone,   \* history: containers a delete removed without the row, or whose row a Save
                \* that reported an error has added before the clean-up
    acked,      \* history: acknowledged uploads
    condemned   \* history: objects a forced delete has listed or a request deletes

history == <<reported, forgotten, mixedUp, halfDone, acked, condemned>>
vars == <<rows, swift, objects, req, faults, reported, forgotten, mixedUp, halfDone, acked, condemned>>

\* "cleanup" and "undo" are one call of the code: the container's row is not in the table, or is
\* there although Save reported an error.
PC == {"idle", "create", "save", "cleanup", "undo", "list", "bulk", "drop", "deleteRow", "put", "remove"}

Row == [name : Names, swift : Swift]

Request == [pc : PC, name : Names \cup {None}, swift : Swift \cup {None},
            padded : BOOLEAN, force : BOOLEAN, names : SUBSET Objects]

TypeOK ==
    /\ rows \subseteq Row
    /\ \A a, b \in rows : a.name = b.name => a = b
    /\ swift \in [Swift -> {"none", "live", "gone"}]
    /\ objects \in [Swift -> SUBSET Objects]
    /\ \A s \in Swift : swift[s] # "live" => objects[s] = {}
    /\ req \in [Requests -> Request]
    /\ faults \in 0 .. MaxFaults
    /\ UNION {reported, forgotten, mixedUp, halfDone} \subseteq Swift
    /\ acked \subseteq Swift \X Objects /\ condemned \subseteq Swift \X Objects

Idle == [pc |-> "idle", name |-> None, swift |-> None, padded |-> FALSE, force |-> FALSE, names |-> {}]

Init ==
    /\ rows = {} /\ swift = [s \in Swift |-> "none"] /\ objects = [s \in Swift |-> {}]
    /\ req = [r \in Requests |-> Idle]
    /\ faults = 0
    /\ reported = {} /\ forgotten = {} /\ mixedUp = {} /\ halfDone = {}
    /\ acked = {} /\ condemned = {}

Go(r, pc) == req' = [req EXCEPT ![r].pc = pc]
End(r) == req' = [req EXCEPT ![r] = Idle]
Fault == faults < MaxFaults /\ faults' = faults + 1
Named(n) == {row \in rows : row.name = n}

-----------------------------------------------------------------------------
(* Seeded faults: what the definitions below would be with a plausible bug. *)

CleanupByName(r) ==
    /\ req[r].pc \in {"cleanup", "undo"}
    /\ swift' = [s \in Swift |-> IF s = req[r].swift \/ [name |-> req[r].name, swift |-> s] \in rows
                                 THEN "gone" ELSE swift[s]]
    /\ objects' = [s \in Swift |-> IF swift'[s] = "gone" THEN {} ELSE objects[s]]
    /\ End(r)
    /\ UNCHANGED <<rows, faults, history>>

ListIgnoresForce(r) ==
    /\ req[r].pc = "list"
    /\ req' = [req EXCEPT ![r].names = objects[req[r].swift],
                          ![r].pc = IF objects[req[r].swift] = {} THEN "drop" ELSE "bulk"]
    /\ UNCHANGED <<rows, swift, objects, faults, history>>

-----------------------------------------------------------------------------
(* CreateContainer *)

\* FindByName finds no row of that name: the request goes on.
Create(r, n) ==
    /\ req[r].pc = "idle" /\ Named(n) = {}
    /\ req' = [req EXCEPT ![r] = [Idle EXCEPT !.pc = "create", !.name = n]]
    /\ UNCHANGED <<rows, swift, objects, faults, history>>

CreateSwift(r, s) ==
    /\ req[r].pc = "create" /\ swift[s] = "none"
    /\ swift' = [swift EXCEPT ![s] = "live"]
    /\ req' = [req EXCEPT ![r].pc = "save", ![r].swift = s]
    /\ UNCHANGED <<rows, objects, faults, history>>

\* Without effect, or Swift has made the container and the answer is lost.
CreateSwiftFails(r) ==
    /\ req[r].pc = "create" /\ Fault
    /\ \/ UNCHANGED <<swift, forgotten>>
       \/ \E s \in Swift :
            /\ swift[s] = "none"
            /\ swift' = [swift EXCEPT ![s] = "live"]
            /\ forgotten' = forgotten \cup {s}
    /\ End(r)
    /\ UNCHANGED <<rows, objects, reported, mixedUp, halfDone, acked, condemned>>

AddRow(r) ==
    /\ Named(req[r].name) = {}
    /\ rows' = rows \cup {[name |-> req[r].name, swift |-> req[r].swift]}

\* Save: the unique index on owner and name decides between racing requests.
Save(r) ==
    /\ req[r].pc = "save"
    /\ \/ AddRow(r) /\ End(r)
       \/ Named(req[r].name) # {} /\ Go(r, "cleanup") /\ UNCHANGED rows
    /\ UNCHANGED <<swift, objects, faults, history>>

\* Without effect, or the row is there and the error is about the answer.
SaveFails(r) ==
    /\ req[r].pc = "save" /\ Fault
    /\ \/ Go(r, "cleanup") /\ UNCHANGED <<rows, halfDone>>
       \/ AddRow(r) /\ Go(r, "undo") /\ halfDone' = halfDone \cup {req[r].swift}
    /\ UNCHANGED <<swift, objects, reported, forgotten, mixedUp, acked, condemned>>

DropEmpty(r) ==
    /\ swift[req[r].swift] = "live" /\ objects[req[r].swift] = {}
    /\ swift' = [swift EXCEPT ![req[r].swift] = "gone"]

\* Swift refuses a container that has objects by now, and answers 404 for one that is gone;
\* the log says CRITICAL, or the answer says that the clean-up failed.
Cleanup(r) ==
    /\ req[r].pc \in {"cleanup", "undo"}
    /\ \/ DropEmpty(r) /\ UNCHANGED reported
       \/ /\ ~(swift[req[r].swift] = "live" /\ objects[req[r].swift] = {}) /\ UNCHANGED swift
          /\ reported' = reported \cup {req[r].swift}
    /\ End(r)
    /\ UNCHANGED <<rows, objects, faults, forgotten, mixedUp, halfDone, acked, condemned>>

CleanupFails(r) ==
    /\ req[r].pc \in {"cleanup", "undo"} /\ Fault
    /\ UNCHANGED swift \/ DropEmpty(r)
    /\ reported' = reported \cup {req[r].swift}
    /\ End(r)
    /\ UNCHANGED <<rows, objects, forgotten, mixedUp, halfDone, acked, condemned>>

-----------------------------------------------------------------------------
(* DeleteContainer *)

Delete(r, row, padded, force) ==
    /\ req[r].pc = "idle"
    /\ req' = [req EXCEPT ![r] = [Idle EXCEPT !.pc = "list", !.name = row.name, !.swift = row.swift,
                                  !.padded = padded, !.force = force]]
    /\ UNCHANGED <<rows, swift, objects, faults, history>>

\* A container that Swift no longer has counts as empty; one with objects is
\* refused unless the delete is forced.
ListObjects(r) ==
    LET objs == objects[req[r].swift] IN
    /\ req[r].pc = "list"
    /\ \/ objs = {} /\ Go(r, "drop") /\ UNCHANGED condemned
       \/ objs # {} /\ ~req[r].force /\ End(r) /\ UNCHANGED condemned
       \/ /\ objs # {} /\ req[r].force
          /\ req' = [req EXCEPT ![r].names = objs, ![r].pc = "bulk"]
          /\ condemned' = condemned \cup ({req[r].swift} \X objs)
    /\ UNCHANGED <<rows, swift, objects, faults, reported, forgotten, mixedUp, halfDone, acked>>

\* What Swift could not remove stands in the body of its answer, which nobody reads.
BulkDelete(r) ==
    /\ req[r].pc = "bulk"
    /\ \E done \in SUBSET req[r].names : objects' = [objects EXCEPT ![req[r].swift] = @ \ done]
    /\ Go(r, "drop")
    /\ UNCHANGED <<rows, swift, faults, history>>

\* Swift refuses to delete a container that has objects again.
DropSwift(r) ==
    /\ req[r].pc = "drop"
    /\ IF objects[req[r].swift] = {}
       THEN swift' = [swift EXCEPT ![req[r].swift] = "gone"] /\ Go(r, "deleteRow")
       ELSE End(r) /\ UNCHANGED swift
    /\ UNCHANGED <<rows, objects, faults, history>>

\* By owner and name as the URL has it, whatever row has that name now.
RemoveRow(r) ==
    LET hit == IF req[r].padded THEN {} ELSE Named(req[r].name) IN
    /\ req[r].pc = "deleteRow"
    /\ rows' = rows \ hit
    /\ mixedUp' = mixedUp \cup ({row.swift : row \in hit} \ {req[r].swift})
    /\ halfDone' = IF req[r].padded THEN halfDone \cup {req[r].swift} ELSE halfDone
    /\ End(r)
    /\ UNCHANGED <<swift, objects, reported, forgotten, acked, condemned>>

DeleteRow(r) == RemoveRow(r) /\ UNCHANGED faults

\* Any of the calls may fail, before or after it took effect; what was done stays done.
ListFails(r) ==
    /\ req[r].pc = "list" /\ Fault
    /\ End(r)
    /\ UNCHANGED <<rows, swift, objects, history>>

BulkFails(r) ==
    /\ req[r].pc = "bulk" /\ Fault
    /\ \E done \in SUBSET req[r].names : objects' = [objects EXCEPT ![req[r].swift] = @ \ done]
    /\ End(r)
    /\ UNCHANGED <<rows, swift, history>>

DropFails(r) ==
    /\ req[r].pc = "drop" /\ Fault
    /\ \/ UNCHANGED <<swift, halfDone>>
       \/ DropEmpty(r) /\ halfDone' = halfDone \cup {req[r].swift}
    /\ End(r)
    /\ UNCHANGED <<rows, objects, reported, forgotten, mixedUp, acked, condemned>>

KeepRow(r) ==
    /\ req[r].pc = "deleteRow"
    /\ halfDone' = halfDone \cup {req[r].swift}
    /\ End(r)
    /\ UNCHANGED <<rows, swift, objects, reported, forgotten, mixedUp, acked, condemned>>

DeleteRowFails(r) == Fault /\ (KeepRow(r) \/ RemoveRow(r))

-----------------------------------------------------------------------------
(* UploadObject and DeleteObject *)

StartObject(r, row, o, pc) ==
    /\ req[r].pc = "idle"
    /\ req' = [req EXCEPT ![r] = [Idle EXCEPT !.pc = pc, !.name = row.name, !.swift = row.swift,
                                  !.names = {o}]]
    /\ UNCHANGED <<rows, swift, objects, faults, history>>

\* An object of the model stands for one upload: its name is not reused.
PutObject(r) ==
    /\ req[r].pc = "put" /\ swift[req[r].swift] = "live"
    /\ {req[r].swift} \X req[r].names \cap (acked \cup condemned) = {}
    /\ objects' = [objects EXCEPT ![req[r].swift] = @ \cup req[r].names]
    /\ UNCHANGED condemned

RemoveObject(r) ==
    /\ req[r].pc = "remove" /\ req[r].names \subseteq objects[req[r].swift]
    /\ objects' = [objects EXCEPT ![req[r].swift] = @ \ req[r].names]
    /\ condemned' = condemned \cup ({req[r].swift} \X req[r].names)

UploadObject(r) ==
    /\ PutObject(r)
    /\ acked' = acked \cup ({req[r].swift} \X req[r].names)
    /\ End(r)
    /\ UNCHANGED <<rows, swift, faults, reported, forgotten, mixedUp, halfDone>>

DeleteObject(r) ==
    /\ RemoveObject(r)
    /\ End(r)
    /\ UNCHANGED <<rows, swift, faults, reported, forgotten, mixedUp, halfDone, acked>>

\* Without effect, or done and the answer is lost.
ObjectFails(r) ==
    /\ req[r].pc \in {"put", "remove"}
    /\ End(r)
    /\ UNCHANGED <<rows, swift, objects, faults, history>>

AnswerLost(r) ==
    /\ PutObject(r) \/ RemoveObject(r)
    /\ Fault /\ End(r)
    /\ UNCHANGED <<rows, swift, reported, forgotten, mixedUp, halfDone, acked>>

-----------------------------------------------------------------------------

\* The API process dies: its requests are gone, the two stores stay.
Crash ==
    /\ Fault
    /\ forgotten' = forgotten \cup {req[r].swift : r \in {q \in Requests : req[q].pc \in {"save", "cleanup"}}}
    /\ halfDone' = halfDone \cup {req[r].swift : r \in {q \in Requests : req[q].pc = "deleteRow"}}
    /\ req' = [r \in Requests |-> Idle]
    /\ UNCHANGED <<rows, swift, objects, reported, mixedUp, acked, condemned>>

Next ==
    \/ \E r \in Requests :
        \/ \E n \in Names : Create(r, n)
        \/ \E s \in Swift : CreateSwift(r, s)
        \/ CreateSwiftFails(r) \/ Save(r) \/ SaveFails(r) \/ Cleanup(r) \/ CleanupFails(r)
        \/ \E row \in rows, padded, force \in BOOLEAN : Delete(r, row, padded, force)
        \/ ListObjects(r) \/ BulkDelete(r) \/ DropSwift(r) \/ DeleteRow(r)
        \/ ListFails(r) \/ BulkFails(r) \/ DropFails(r) \/ DeleteRowFails(r)
        \/ \E row \in rows, o \in Objects, pc \in {"put", "remove"} : StartObject(r, row, o, pc)
        \/ UploadObject(r) \/ DeleteObject(r) \/ ObjectFails(r) \/ AnswerLost(r)
    \/ Crash

Spec == Init /\ [][Next]_vars

-----------------------------------------------------------------------------
(* Properties *)

Listed(s) == \E row \in rows : row.swift = s

\* A container in Swift that no row names is in the hands of the request that
\* makes it, was reported, was left by a crash or by a creation that Swift
\* answered with an error, or lost its row to a delete of an older container of
\* its name.
NoSilentOrphan ==
    \A s \in Swift :
        swift[s] = "live" /\ ~Listed(s) =>
            \/ s \in reported \cup forgotten \cup mixedUp
            \/ \E r \in Requests : req[r].pc \in {"save", "cleanup"} /\ req[r].swift = s

\* A row whose container is gone belongs to a delete that is about to remove it
\* or that stopped half way (failed, crashed, or given a padded name), or it was
\* added by a Save that reported an error.
RowHasContainer ==
    \A row \in rows :
        swift[row.swift] # "live" =>
            \/ row.swift \in halfDone
            \/ \E r \in Requests : req[r].pc = "deleteRow" /\ req[r].swift = row.swift

\* An acknowledged upload is not lost unless it was deleted itself or a forced
\* delete had listed it: an upload that slips in between the listing and the
\* deletion of the container survives, and so does its container.
AckedUploadKept ==
    \A s \in Swift, o \in Objects :
        <<s, o>> \in acked \ condemned => swift[s] = "live" /\ o \in objects[s]

\* "If the Swift container is already gone, only the clean-up of the row that is
\* left goes on" (service.go:107): a delete removes no row but the one of the
\* container it looked up.
DeletesOwnRow == mixedUp = {}

\* Rows and containers in Swift belong together, but for the cases named above.
OwnershipInv == TypeOK /\ RowHasContainer /\ NoSilentOrphan

Making == {"save", "cleanup"}
Working == {"undo", "list", "bulk", "drop", "deleteRow", "put", "remove"}

\* What a request knows when it comes to its next call: a container it makes is empty and
\* nobody else's; one that a row named was made, and no other row has come to name it;
\* a forced delete removes what it has listed; and a row is deleted after its container, but
\* for the one that a failed Save has added.
RequestInv(r) ==
    LET q == req[r] IN
    /\ q.pc \in Making \cup Working => q.swift \in Swift
    /\ q.pc \in {"create"} \cup Making \cup Working => q.name \in Names
    /\ q.pc \in Making =>
        /\ swift[q.swift] = "live" /\ objects[q.swift] = {} /\ ~Listed(q.swift)
        /\ \A t \in Requests \ {r} : req[t].pc \in Making \cup Working => req[t].swift # q.swift
    /\ q.pc \in Working =>
        /\ swift[q.swift] # "none"
        /\ \A row \in rows : row.swift = q.swift => row.name = q.name
    /\ q.pc = "bulk" => {q.swift} \X q.names \subseteq condemned
    /\ q.pc = "deleteRow" => swift[q.swift] = "gone"
    /\ q.pc = "undo" => q.swift \in halfDone

\* A row names a container that was made, and each has a row of its own.
RowsInv ==
    \A row \in rows :
        /\ swift[row.swift] # "none"
        /\ \A other \in rows : other.swift = row.swift => other = row

\* Rows and containers belong together whatever happens between the table and Swift, but for
\* an answer that is lost, a delete that stops half way and a crash (storage/service.go:63, 68,
\* 132), and an acknowledged upload is only removed by a request that said so, or by a forced
\* delete that had listed it (storage/service.go:123).
ContainersInv ==
    OwnershipInv /\ AckedUploadKept /\ RowsInv /\ \A r \in Requests : RequestInv(r)
=============================================================================
