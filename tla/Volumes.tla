------------------------------- MODULE Volumes -------------------------------
(***************************************************************************)
(* Block storage.  Volumes and snapshots live in Cinder only; to whom they *)
(* belong is in their metadata, while to whom an instance belongs is in a  *)
(* row of the platform database.  Each request first reads what it works   *)
(* on and checks its owner and its status, and then calls Cinder or Nova,  *)
(* which checks the status again, but knows nothing of owners.  Names,     *)
(* sizes and what a client may see of them are left out; "gone" begins     *)
(* when Cinder accepts the deletion.                                       *)
(*                                                                         *)
(* The history `data` of a volume or snapshot is the owners whose          *)
(* instances have written what is in it.                                   *)
(***************************************************************************)
EXTENDS Naturals, FiniteSets

CONSTANTS
    Owners, Volumes, Snapshots, Instances, Requests, None,
    OwnerOf,    \* the owner of each instance
    MaxDeleted  \* bound on the number of instances that are deleted

\* None stands for no volume, snapshot or instance, and every instance has an owner.
VolumesAssumption ==
    None \notin Volumes \cup Snapshots \cup Instances /\ OwnerOf \in [Instances -> Owners]

VARIABLES
    volume,     \* per volume: status, owner, instance and data
    snapshot,   \* per snapshot: status, owner, volume and data
    rows,       \* the instances that have a row
    server,     \* the servers Nova has
    req         \* what each request is doing, on which volume, snapshot and instance

vars == <<volume, snapshot, rows, server, req>>

VolumeStatus == {"none", "creating", "available", "attaching", "in-use", "detaching", "error", "gone"}
SnapshotStatus == {"none", "creating", "available", "error", "gone"}

PC == {"idle", "create", "delete", "checkRow", "attach", "detachRow", "detach", "snapshot", "deleteSnapshot"}

Volume ==
    [status : VolumeStatus, owner : Owners \cup {None}, instance : Instances \cup {None},
     data : SUBSET Owners]
Snapshot ==
    [status : SnapshotStatus, owner : Owners \cup {None}, volume : Volumes \cup {None},
     data : SUBSET Owners]
Request ==
    [pc : PC, owner : Owners \cup {None}, volume : Volumes \cup {None},
     snapshot : Snapshots \cup {None}, instance : Instances \cup {None}]

TypeOK ==
    /\ volume \in [Volumes -> Volume]
    /\ snapshot \in [Snapshots -> Snapshot]
    /\ rows \subseteq Instances /\ server \subseteq Instances
    /\ req \in [Requests -> Request]

NoVolume == [status |-> "none", owner |-> None, instance |-> None, data |-> {}]
NoSnapshot == [status |-> "none", owner |-> None, volume |-> None, data |-> {}]
Idle == [pc |-> "idle", owner |-> None, volume |-> None, snapshot |-> None, instance |-> None]

Init ==
    /\ volume = [v \in Volumes |-> NoVolume]
    /\ snapshot = [s \in Snapshots |-> NoSnapshot]
    /\ rows = Instances /\ server = Instances
    /\ req = [r \in Requests |-> Idle]

Begin(r, rec) == req[r].pc = "idle" /\ req' = [req EXCEPT ![r] = rec]
Checked(r, pc) == req' = [req EXCEPT ![r].pc = pc, ![r].owner = None]
End(r) == req' = [req EXCEPT ![r] = Idle]

-----------------------------------------------------------------------------
(* Seeded faults: what the definitions below would be with a plausible bug. *)

ResolvesAnySnapshot(o, s) == snapshot[s].status \notin {"none", "gone"}

-----------------------------------------------------------------------------
(* resolveVolume and resolveSnapshot: found, and of this owner *)

ResolveVolume(o, v) == volume[v].status \notin {"none", "gone"} /\ volume[v].owner = o

ResolveSnapshot(o, s) == snapshot[s].status \notin {"none", "gone"} /\ snapshot[s].owner = o

-----------------------------------------------------------------------------
(* CreateVolume *)

\* With a name and a size, from nothing or from a snapshot that fits.
CreateVolume(r, o, s) ==
    /\ s # None => ResolveSnapshot(o, s)
    /\ Begin(r, [Idle EXCEPT !.pc = "create", !.owner = o, !.snapshot = s])
    /\ UNCHANGED <<volume, snapshot, rows, server>>

\* Cinder takes only an available snapshot.
CinderCreate(r, v) ==
    LET s == req[r].snapshot IN
    /\ req[r].pc = "create" /\ volume[v].status = "none"
    /\ s # None => snapshot[s].status = "available"
    /\ volume' = [volume EXCEPT ![v] =
            [status |-> "creating", owner |-> req[r].owner, instance |-> None,
             data |-> IF s = None THEN {} ELSE snapshot[s].data]]
    /\ End(r)
    /\ UNCHANGED <<snapshot, rows, server>>

-----------------------------------------------------------------------------
(* DeleteVolume *)

\* A volume in status error is refused too, with ErrVolumeAttached.
DeleteVolume(r, o, v) ==
    /\ ResolveVolume(o, v) /\ volume[v].status = "available"
    /\ Begin(r, [Idle EXCEPT !.pc = "delete", !.volume = v])
    /\ UNCHANGED <<volume, snapshot, rows, server>>

\* Cinder refuses a volume in use or with snapshots.
CinderDelete(r) ==
    LET v == req[r].volume IN
    /\ req[r].pc = "delete" /\ volume[v].status \in {"available", "error"}
    /\ \A s \in Snapshots : snapshot[s].volume = v => snapshot[s].status \in {"none", "gone"}
    /\ volume' = [volume EXCEPT ![v] = [NoVolume EXCEPT !.status = "gone"]]
    /\ End(r)
    /\ UNCHANGED <<snapshot, rows, server>>

-----------------------------------------------------------------------------
(* AttachVolume and DetachVolume *)

AttachVolume(r, o, v, i) ==
    /\ ResolveVolume(o, v) /\ volume[v].status = "available"
    /\ Begin(r, [Idle EXCEPT !.pc = "checkRow", !.owner = o, !.volume = v, !.instance = i])
    /\ UNCHANGED <<volume, snapshot, rows, server>>

\* InstanceExists: the owner has a row of that instance.
InstanceExists(o, i) == i \in rows /\ OwnerOf[i] = o

AttachChecksRow(r) ==
    /\ req[r].pc = "checkRow"
    /\ IF InstanceExists(req[r].owner, req[r].instance) THEN Checked(r, "attach") ELSE End(r)
    /\ UNCHANGED <<volume, snapshot, rows, server>>

\* GetInstance and volumeattach.Create: Nova has the server, Cinder reserves the volume.
NovaAttach(r) ==
    LET v == req[r].volume IN
    /\ req[r].pc = "attach" /\ req[r].instance \in server /\ volume[v].status = "available"
    /\ volume' = [volume EXCEPT ![v].status = "attaching", ![v].instance = req[r].instance]
    /\ End(r)
    /\ UNCHANGED <<snapshot, rows, server>>

DetachVolume(r, o, v, i) ==
    /\ ResolveVolume(o, v) /\ volume[v].instance = i
    /\ Begin(r, [Idle EXCEPT !.pc = "detachRow", !.owner = o, !.volume = v, !.instance = i])
    /\ UNCHANGED <<volume, snapshot, rows, server>>

DetachChecksRow(r) ==
    /\ req[r].pc = "detachRow"
    /\ IF InstanceExists(req[r].owner, req[r].instance) THEN Checked(r, "detach") ELSE End(r)
    /\ UNCHANGED <<volume, snapshot, rows, server>>

NovaDetach(r) ==
    LET v == req[r].volume IN
    /\ req[r].pc = "detach" /\ volume[v].status = "in-use" /\ volume[v].instance = req[r].instance
    /\ volume' = [volume EXCEPT ![v].status = "detaching"]
    /\ End(r)
    /\ UNCHANGED <<snapshot, rows, server>>

-----------------------------------------------------------------------------
(* CreateSnapshot and DeleteSnapshot *)

CreateSnapshot(r, o, v) ==
    /\ ResolveVolume(o, v) /\ volume[v].status = "available"
    /\ Begin(r, [Idle EXCEPT !.pc = "snapshot", !.owner = o, !.volume = v])
    /\ UNCHANGED <<volume, snapshot, rows, server>>

CinderSnapshot(r, s) ==
    LET v == req[r].volume IN
    /\ req[r].pc = "snapshot" /\ volume[v].status = "available" /\ snapshot[s].status = "none"
    /\ snapshot' = [snapshot EXCEPT ![s] =
            [status |-> "creating", owner |-> req[r].owner, volume |-> v, data |-> volume[v].data]]
    /\ End(r)
    /\ UNCHANGED <<volume, rows, server>>

DeleteSnapshot(r, o, s) ==
    /\ ResolveSnapshot(o, s) /\ snapshot[s].status \in {"available", "error"}
    /\ Begin(r, [Idle EXCEPT !.pc = "deleteSnapshot", !.snapshot = s])
    /\ UNCHANGED <<volume, snapshot, rows, server>>

CinderDeleteSnapshot(r) ==
    LET s == req[r].snapshot IN
    /\ req[r].pc = "deleteSnapshot" /\ snapshot[s].status \in {"available", "error"}
    /\ snapshot' = [snapshot EXCEPT ![s] = [NoSnapshot EXCEPT !.status = "gone"]]
    /\ End(r)
    /\ UNCHANGED <<volume, rows, server>>

-----------------------------------------------------------------------------

\* Any call may be refused, because of what changed meanwhile or for no reason.
CallFails(r) ==
    /\ req[r].pc # "idle"
    /\ End(r)
    /\ UNCHANGED <<volume, snapshot, rows, server>>

\* Cinder and Nova finish what they have begun.  A volume that is attached is
\* written by the owner of the instance.
VolumeSettles(v, status) ==
    /\ <<volume[v].status, status>> \in
        {<<"creating", "available">>, <<"creating", "error">>, <<"attaching", "in-use">>,
         <<"attaching", "available">>, <<"detaching", "available">>}
    /\ volume' = [volume EXCEPT
            ![v].status = status,
            ![v].instance = IF status = "in-use" THEN @ ELSE None,
            ![v].data = IF status = "in-use" THEN @ \cup {OwnerOf[volume[v].instance]} ELSE @]
    /\ UNCHANGED <<snapshot, rows, server, req>>

SnapshotSettles(s, status) ==
    /\ <<snapshot[s].status, status>> \in {<<"creating", "available">>, <<"creating", "error">>}
    /\ snapshot' = [snapshot EXCEPT ![s].status = status]
    /\ UNCHANGED <<volume, rows, server, req>>

\* An instance is deleted: its row and its server go, in this order or the other
\* (Instances), and Nova detaches what was attached to it.
MayGo(i) == Cardinality((Instances \ (rows \cap server)) \cup {i}) <= MaxDeleted

RowGone(i) ==
    /\ i \in rows /\ MayGo(i)
    /\ rows' = rows \ {i}
    /\ UNCHANGED <<volume, snapshot, server, req>>

ServerGone(i) ==
    /\ i \in server /\ MayGo(i)
    /\ server' = server \ {i}
    /\ volume' = [v \in Volumes |->
            IF volume[v].instance = i
            THEN [volume[v] EXCEPT !.status = "available", !.instance = None] ELSE volume[v]]
    /\ UNCHANGED <<snapshot, rows, req>>

Next ==
    \/ \E r \in Requests, o \in Owners :
        \/ \E s \in Snapshots \cup {None} : CreateVolume(r, o, s)
        \/ \E v \in Volumes :
            \/ DeleteVolume(r, o, v) \/ CreateSnapshot(r, o, v)
            \/ \E i \in Instances : AttachVolume(r, o, v, i) \/ DetachVolume(r, o, v, i)
        \/ \E s \in Snapshots : DeleteSnapshot(r, o, s)
    \/ \E r \in Requests :
        \/ \E v \in Volumes : CinderCreate(r, v)
        \/ \E s \in Snapshots : CinderSnapshot(r, s)
        \/ CinderDelete(r) \/ AttachChecksRow(r) \/ NovaAttach(r) \/ DetachChecksRow(r)
        \/ NovaDetach(r) \/ CinderDeleteSnapshot(r) \/ CallFails(r)
    \/ \E v \in Volumes, status \in VolumeStatus : VolumeSettles(v, status)
    \/ \E s \in Snapshots, status \in SnapshotStatus : SnapshotSettles(s, status)
    \/ \E i \in Instances : RowGone(i) \/ ServerGone(i)

Spec == Init /\ [][Next]_vars

-----------------------------------------------------------------------------
(* Properties *)

\* What one owner's instances have written never gets into another owner's hands,
\* over any chain of attachments, snapshots and volumes restored from them; and a
\* volume is attached to nobody else's instance.
OwnDataOnly ==
    /\ \A v \in Volumes :
        /\ volume[v].data \subseteq {volume[v].owner}
        /\ volume[v].instance # None => OwnerOf[volume[v].instance] = volume[v].owner
    /\ \A s \in Snapshots : snapshot[s].data \subseteq {snapshot[s].owner}

\* A volume that is attached has a status that says so, and a volume with a
\* snapshot is not deleted: the checks that the requests make early and that
\* Cinder makes again are enough.
VolumesConsistent ==
    /\ \A v \in Volumes :
        volume[v].instance # None <=> volume[v].status \in {"attaching", "in-use", "detaching"}
    /\ \A s \in Snapshots :
        snapshot[s].status \notin {"none", "gone"} =>
            /\ snapshot[s].volume \in Volumes
            /\ volume[snapshot[s].volume].status \notin {"none", "gone"}

\* A volume or snapshot that a request found under an owner stays that owner's
\* until it is gone, and nothing takes its place then.
VolumeOf(v, o) ==
    /\ v \in Volumes /\ volume[v].status # "none"
    /\ volume[v].status = "gone" \/ volume[v].owner = o
SnapshotOf(s, o) ==
    /\ s \in Snapshots /\ snapshot[s].status # "none"
    /\ snapshot[s].status = "gone" \/ snapshot[s].owner = o

\* What a request has checked is still true of what it works on when it calls Cinder
\* or Nova, although they look at no owner and others have moved in between.
RequestInv(q) ==
    /\ q.pc \in {"delete", "detachRow", "detach"} => q.volume \in Volumes
    /\ q.pc = "deleteSnapshot" => q.snapshot \in Snapshots
    /\ q.pc = "create" =>
        q.owner \in Owners /\ (q.snapshot # None => SnapshotOf(q.snapshot, q.owner))
    /\ q.pc = "checkRow" => q.instance \in Instances /\ VolumeOf(q.volume, q.owner)
    /\ q.pc = "attach" => q.instance \in Instances /\ VolumeOf(q.volume, OwnerOf[q.instance])
    /\ q.pc = "snapshot" => q.owner \in Owners /\ VolumeOf(q.volume, q.owner)

DataStaysWithOwner ==
    TypeOK /\ OwnDataOnly /\ VolumesConsistent /\ \A r \in Requests : RequestInv(req[r])
=============================================================================
