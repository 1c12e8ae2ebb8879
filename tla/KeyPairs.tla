------------------------------ MODULE KeyPairs -------------------------------
(***************************************************************************)
(* SSH key pairs under one name.  A key pair is a row of its owner in the  *)
(* platform database and a key in Nova.  Nova knows one project, so all    *)
(* owners share its names, and openstack_name is unique over all rows; but *)
(* a request looks up only its own owner's row, and then creates, deletes  *)
(* or takes back the key in Nova by its name, whatever key has that name   *)
(* by then.                                                                *)
(*                                                                         *)
(* A key stands for one upload.  A request carries the key it uploads, or  *)
(* as history the key of the row it has looked up to delete.               *)
(***************************************************************************)
EXTENDS Naturals

CONSTANTS
    Owners, Keys, Requests, None,
    MaxFaults     \* bound on failures and crashes

\* None is no key, no owner and no row.
KeyPairsAssumption ==
    /\ None \notin Keys \cup Owners \cup [owner : Owners, key : Keys]
    /\ MaxFaults \in Nat

VARIABLES
    row,        \* the row of the name, None or [owner, key]
    nova,       \* the key in Nova, or None
    req,        \* what each request is doing
    faults,
    made,       \* history: keys that were uploaded
    acked,      \* history: keys whose creation was answered
    condemned,  \* history: keys whose deletion the owner asked for
    left,       \* history: keys in Nova that a logged failure, a lost answer or a crash left there
    halfDone,   \* history: keys removed from Nova whose row a failure left
    struck,     \* history: keys that a deletion of another key removed from Nova
    undone,     \* history: keys that the undoing of another creation removed
    unlisted    \* history: keys whose row a deletion of another key removed

history == <<made, acked, condemned, left, halfDone, struck, undone, unlisted>>
vars == <<row, nova, req, faults, made, acked, condemned, left, halfDone, struck, undone, unlisted>>

PC == {"idle", "nova", "save", "undo", "drop", "deleteRow"}

Request == [pc : PC, owner : Owners \cup {None}, key : Keys \cup {None}]

TypeOK ==
    /\ row \in {None} \cup [owner : Owners, key : Keys]
    /\ nova \in Keys \cup {None}
    /\ req \in [Requests -> Request]
    /\ faults \in 0 .. MaxFaults
    /\ UNION {acked, condemned, left, halfDone, struck, undone, unlisted} \subseteq made
    /\ made \subseteq Keys

Idle == [pc |-> "idle", owner |-> None, key |-> None]

Init ==
    /\ row = None /\ nova = None
    /\ req = [r \in Requests |-> Idle]
    /\ faults = 0
    /\ made = {} /\ acked = {} /\ condemned = {} /\ left = {}
    /\ halfDone = {} /\ struck = {} /\ undone = {} /\ unlisted = {}

Go(r, pc) == req' = [req EXCEPT ![r].pc = pc]
End(r) == req' = [req EXCEPT ![r] = Idle]
Fault == faults < MaxFaults /\ faults' = faults + 1

\* The row FindByName and DeleteByName see: the one of this owner.
RowOf(o) == IF row = None THEN {} ELSE {x \in {row} : x.owner = o}

\* The key in Nova, if it is another one than the request has in mind.
Stray(r) == {nova} \ {None, req[r].key}

-----------------------------------------------------------------------------
(* Seeded faults: what the definitions below would be with a plausible bug. *)

ConflictIgnored(r) ==
    /\ req[r].pc = "nova"
    /\ nova' = IF nova = None THEN req[r].key ELSE nova
    /\ Go(r, "save")
    /\ UNCHANGED <<row, faults, history>>

-----------------------------------------------------------------------------
(* CreateKeyPair *)

\* The name and the key are well formed and the owner has no row of that name.
Create(r, o, k) ==
    /\ req[r].pc = "idle" /\ RowOf(o) = {} /\ k \notin made
    /\ req' = [req EXCEPT ![r] = [pc |-> "nova", owner |-> o, key |-> k]]
    /\ made' = made \cup {k}
    /\ UNCHANGED <<row, nova, faults, acked, condemned, left, halfDone, struck, undone, unlisted>>

\* Nova answers 409 if the name is taken, by any owner.
CreateNova(r) ==
    /\ req[r].pc = "nova"
    /\ IF nova = None
       THEN nova' = req[r].key /\ Go(r, "save")
       ELSE End(r) /\ UNCHANGED nova
    /\ UNCHANGED <<row, faults, history>>

\* Nova refuses, or makes the key and its answer is lost.
CreateNovaFails(r) ==
    /\ req[r].pc = "nova" /\ Fault
    /\ \/ UNCHANGED <<nova, left>>
       \/ nova = None /\ nova' = req[r].key /\ left' = left \cup {req[r].key}
    /\ End(r)
    /\ UNCHANGED <<row, made, acked, condemned, halfDone, struck, undone, unlisted>>

\* The unique index decides.
SaveKeyPair(r) ==
    /\ req[r].pc = "save"
    /\ IF row = None
       THEN /\ row' = [owner |-> req[r].owner, key |-> req[r].key]
            /\ acked' = acked \cup {req[r].key}
            /\ End(r)
       ELSE Go(r, "undo") /\ UNCHANGED <<row, acked>>
    /\ UNCHANGED <<nova, faults, made, condemned, left, halfDone, struck, undone, unlisted>>

\* The statement fails, or takes effect and reports a failure.
SaveFails(r) ==
    /\ req[r].pc = "save" /\ Fault
    /\ \/ UNCHANGED <<row, halfDone>>
       \/ /\ row = None
          /\ row' = [owner |-> req[r].owner, key |-> req[r].key]
          /\ halfDone' = halfDone \cup {req[r].key}
    /\ Go(r, "undo")
    /\ UNCHANGED <<nova, made, acked, condemned, left, struck, undone, unlisted>>

\* The compensating DeleteKeyPair, by name.
Undo(r) ==
    /\ req[r].pc = "undo"
    /\ nova' = None
    /\ undone' = undone \cup Stray(r)
    /\ End(r)
    /\ UNCHANGED <<row, faults, made, acked, condemned, left, halfDone, struck, unlisted>>

\* Logged as CRITICAL: orphaned keypair.
UndoFails(r) ==
    /\ req[r].pc = "undo" /\ Fault
    /\ left' = left \cup {req[r].key}
    /\ End(r)
    /\ UNCHANGED <<row, nova, made, acked, condemned, halfDone, struck, undone, unlisted>>

-----------------------------------------------------------------------------
(* DeleteKeyPair *)

Delete(r, x) ==
    /\ req[r].pc = "idle"
    /\ req' = [req EXCEPT ![r] = [pc |-> "drop", owner |-> x.owner, key |-> x.key]]
    /\ condemned' = condemned \cup {x.key}
    /\ UNCHANGED <<row, nova, faults, made, acked, left, halfDone, struck, undone, unlisted>>

\* A key that Nova does not have (404) counts as deleted.
DropNova(r) ==
    /\ req[r].pc = "drop"
    /\ nova' = None
    /\ struck' = struck \cup Stray(r)
    /\ Go(r, "deleteRow")
    /\ UNCHANGED <<row, faults, made, acked, condemned, left, halfDone, undone, unlisted>>

\* Nova refuses, or deletes the key and its answer is lost: the row stays.
DropNovaFails(r) ==
    /\ req[r].pc = "drop" /\ Fault
    /\ \/ UNCHANGED <<nova, struck, halfDone>>
       \/ /\ nova' = None
          /\ struck' = struck \cup Stray(r)
          /\ halfDone' = halfDone \cup {req[r].key}
    /\ End(r)
    /\ UNCHANGED <<row, made, acked, condemned, left, undone, unlisted>>

\* By owner and name: the row may be another one than the one looked up.
DeleteRow(r) ==
    LET hit == RowOf(req[r].owner) IN
    /\ req[r].pc = "deleteRow"
    /\ row' = IF hit = {} THEN row ELSE None
    /\ unlisted' = unlisted \cup ({x.key : x \in hit} \ {req[r].key})
    /\ End(r)
    /\ UNCHANGED <<nova, faults, made, acked, condemned, left, halfDone, struck, undone>>

DeleteRowFails(r) ==
    /\ req[r].pc = "deleteRow" /\ Fault
    /\ halfDone' = halfDone \cup {req[r].key}
    /\ End(r)
    /\ UNCHANGED <<row, nova, made, acked, condemned, left, struck, undone, unlisted>>

-----------------------------------------------------------------------------

KeysAt(pcs) == {req[r].key : r \in {q \in Requests : req[q].pc \in pcs}}

\* The API process dies: its requests are gone, the two stores stay.
Crash ==
    /\ Fault
    /\ left' = left \cup KeysAt({"save", "undo"})
    /\ halfDone' = halfDone \cup KeysAt({"deleteRow"})
    /\ req' = [r \in Requests |-> Idle]
    /\ UNCHANGED <<row, nova, made, acked, condemned, struck, undone, unlisted>>

Next ==
    \/ \E r \in Requests :
        \/ \E o \in Owners, k \in Keys : Create(r, o, k)
        \/ CreateNova(r) \/ CreateNovaFails(r) \/ SaveKeyPair(r) \/ SaveFails(r)
        \/ Undo(r) \/ UndoFails(r)
        \/ \E o \in Owners : \E x \in RowOf(o) : Delete(r, x)
        \/ DropNova(r) \/ DropNovaFails(r) \/ DeleteRow(r) \/ DeleteRowFails(r)
    \/ Crash

Spec == Init /\ [][Next]_vars

-----------------------------------------------------------------------------
(* Properties *)

Current(k) == row # None /\ row.key = k

\* A key in Nova that the row of its name does not describe is in the hands of
\* the request that made it, was left there by a failure that was logged or
\* answered or by a crash, or lost its row to an overlapping deletion.  So an
\* owner's row never silently stands for another owner's key.
NoSilentOrphan ==
    nova # None /\ ~Current(nova) => nova \in left \cup unlisted \cup KeysAt({"save", "undo"})

\* A row whose key is not in Nova belongs to a deletion that is about to remove
\* it or that failed half way, or an overlapping deletion removed the key.
RowHasKey ==
    row # None /\ nova # row.key =>
        row.key \in halfDone \cup struck \cup undone \cup KeysAt({"deleteRow"})

\* A key whose creation was answered stays, in Nova and as a row, until its
\* owner asks for its deletion, unless a deletion that had looked up an earlier
\* key of that name comes late.
AckedKeyKept ==
    \A k \in acked \ condemned :
        (nova = k /\ Current(k)) \/ k \in struck \cup undone \cup unlisted

\* The compensation takes back its own key: it can remove another one only after
\* a late deletion has removed the key it stands for, or after a statement that
\* took effect although it reported a failure.
UndoTakesOwnKey == undone # {} => struck \cup halfDone # {}

Creating == {"nova", "save", "undo"}
Deleting == {"drop", "deleteRow"}

\* An upload is in the hands of one request until that request ends, was never
\* answered before, and nobody can ask for its deletion before it has a row.
CreationInv(r) ==
    LET k == req[r].key IN
    req[r].pc \in Creating =>
        /\ k \in made \ acked
        /\ req[r].owner \in Owners
        /\ \A t \in Requests : req[t].pc \in Creating /\ req[t].key = k => t = r
        /\ req[r].pc # "undo" =>
            ~Current(k) /\ \A t \in Requests : req[t].pc \in Deleting => req[t].key # k
        /\ req[r].pc = "nova" => nova # k
        /\ req[r].pc = "save" => nova = k \/ k \in struck \cup undone
        /\ req[r].pc = "undo" =>
            /\ nova = k \/ k \in struck \cup undone \cup halfDone
            /\ Current(k) => k \in halfDone
            /\ \A t \in Requests : req[t].pc \in Deleting /\ req[t].key = k => k \in halfDone

\* A deletion is of a key its owner gave up, and the key does not come back to Nova.
DeletionInv(r) ==
    LET k == req[r].key IN
    req[r].pc \in Deleting =>
        /\ k \in condemned
        /\ Current(k) => row.owner = req[r].owner
        /\ req[r].pc = "deleteRow" => nova # k

\* A key is in Nova or in a row only after its upload.
StoresInv == nova \in made \cup {None} /\ (row # None => row.key \in made)

\* Rows and keys in Nova belong together.
KeyPairsInv ==
    /\ TypeOK /\ NoSilentOrphan /\ RowHasKey /\ AckedKeyKept /\ UndoTakesOwnKey
    /\ StoresInv /\ \A r \in Requests : CreationInv(r) /\ DeletionInv(r)
=============================================================================
