---------------------------- MODULE ResourceProofs ----------------------------
(***************************************************************************)
(* Proofs about the resources in OpenStack of MCResources: object storage  *)
(* (Containers, Transfers), key pairs (KeyPairs) and block storage         *)
(* (Volumes); for any number of owners, requests, containers, objects,     *)
(* volumes, snapshots, instances and keys, objects of any length and any   *)
(* number of failures.                                                     *)
(***************************************************************************)
EXTENDS MCResources, Sequences, SequenceTheorems, FiniteSetTheorems, TLAPS

-----------------------------------------------------------------------------
(* Block storage *)

\* What holds of a volume by itself: only its owner's data, only its owner's instance,
\* and a status that tells whether it is attached.
GoodVolume(x) ==
    /\ x \in Block!Volume
    /\ x.data \subseteq {x.owner}
    /\ x.instance # None => OwnerOf[x.instance] = x.owner
    /\ x.instance # None <=> x.status \in {"attaching", "in-use", "detaching"}

\* What holds of a snapshot by itself.
GoodSnapshot(x) == x \in Block!Snapshot /\ x.data \subseteq {x.owner}

Live(x) == x.status \notin {"none", "gone"}

\* The owner of a volume or snapshot does not change while it exists, and what is gone
\* stays so.
Later(x, y) ==
    x.status # "none" => /\ y.status # "none"
                         /\ y.status = "gone" \/ (x.status # "gone" /\ y.owner = x.owner)

\* A snapshot that exists has a volume that does.
Backed(x, vol) == Live(x) => x.volume \in Swift /\ Live(vol[x.volume])

\* The invariant, read volume by volume and snapshot by snapshot.
Parts ==
    /\ volume \in [Swift -> Block!Volume] /\ \A v \in Swift : GoodVolume(volume[v])
    /\ snapshot \in [Snapshots -> Block!Snapshot]
    /\ \A s \in Snapshots : GoodSnapshot(snapshot[s]) /\ Backed(snapshot[s], volume)
    /\ instanceRows \subseteq Objects /\ server \subseteq Objects
    /\ volReq \in [Requests -> Block!Request] /\ \A r \in Requests : Block!RequestInv(volReq[r])

\* The two readings agree.
LEMMA InvParts == Block!DataStaysWithOwner <=> Parts
  BY DEF Parts, Block!DataStaysWithOwner, Block!TypeOK, Block!OwnDataOnly,
         Block!VolumesConsistent, GoodVolume, GoodSnapshot, Backed, Live

\* A step keeps the invariant when every volume and every snapshot it leaves is good and
\* later than before, and every request is as before, has ended, or fits what there is.
LEMMA Evolves ==
    ASSUME Block!DataStaysWithOwner,
           volume' \in [Swift -> Block!Volume],
           \A v \in Swift : GoodVolume(volume'[v]) /\ Later(volume[v], volume'[v]),
           snapshot' \in [Snapshots -> Block!Snapshot],
           \A s \in Snapshots : /\ GoodSnapshot(snapshot'[s]) /\ Later(snapshot[s], snapshot'[s])
                                /\ Backed(snapshot'[s], volume'),
           instanceRows' \subseteq Objects, server' \subseteq Objects,
           volReq' \in [Requests -> Block!Request],
           \A r \in Requests : volReq'[r] = volReq[r] \/ Block!RequestInv(volReq[r])'
    PROVE  Block!DataStaysWithOwner'
  <1>1. \A v, o : Block!VolumeOf(v, o) => Block!VolumeOf(v, o)'
    BY DEF Block!VolumeOf, Later
  <1>2. \A s, o : Block!SnapshotOf(s, o) => Block!SnapshotOf(s, o)'
    BY DEF Block!SnapshotOf, Later
  <1>3. ASSUME NEW r \in Requests
        PROVE  Block!RequestInv(volReq[r])'
    <2>1. Block!RequestInv(volReq[r])
      BY DEF Block!DataStaysWithOwner
    <2>2. CASE volReq'[r] = volReq[r]
      BY <1>1, <1>2, <2>1, <2>2 DEF Block!RequestInv
    <2>3. CASE Block!RequestInv(volReq[r])'
      BY <2>3
    <2>4. QED
      BY <2>2, <2>3
  <1>4. Parts'
    BY <1>3 DEF Parts
  <1>5. QED
    BY <1>4, InvParts, PTL

\* What changes only what one request is doing.
LEMMA RequestMoves ==
    ASSUME Block!DataStaysWithOwner, NEW r \in Requests, NEW q \in Block!Request,
           volReq' = [volReq EXCEPT ![r] = q], Block!RequestInv(q),
           UNCHANGED <<volume, snapshot, instanceRows, server>>
    PROVE  Block!DataStaysWithOwner'
  <1>1. Block!RequestInv(q)'
    BY DEF Block!RequestInv, Block!VolumeOf, Block!SnapshotOf
  <1>2. volReq \in [Requests -> Block!Request]
    BY DEF Block!DataStaysWithOwner, Block!TypeOK
  <1>3. /\ volReq' \in [Requests -> Block!Request] /\ volReq'[r] = q
        /\ \A t \in Requests \ {r} : volReq'[t] = volReq[t]
    BY <1>2
  <1>4. \A t \in Requests : volReq'[t] = volReq[t] \/ Block!RequestInv(volReq[t])'
    BY <1>1, <1>3
  <1>5. Parts
    BY InvParts
  <1>6. QED
    BY <1>3, <1>4, <1>5, Evolves DEF Parts, Later

\* The request that ends.
LEMMA RequestEnds ==
    ASSUME Block!DataStaysWithOwner, NEW r \in Requests, Block!End(r)
    PROVE  /\ volReq' \in [Requests -> Block!Request]
           /\ \A t \in Requests : volReq'[t] = volReq[t] \/ Block!RequestInv(volReq[t])'
  <1>1. Block!Idle \in Block!Request /\ Block!Idle.pc = "idle"
    BY DEF Block!Idle, Block!Request, Block!PC
  <1>2. volReq \in [Requests -> Block!Request]
    BY DEF Block!DataStaysWithOwner, Block!TypeOK
  <1>3. /\ volReq' \in [Requests -> Block!Request] /\ volReq'[r] = Block!Idle
        /\ \A t \in Requests \ {r} : volReq'[t] = volReq[t]
    BY <1>1, <1>2 DEF Block!End
  <1>4. Block!RequestInv(Block!Idle)'
    BY <1>1 DEF Block!RequestInv
  <1>5. QED
    BY <1>3, <1>4

\* One volume changes; none that a snapshot needs goes away.
LEMMA VolumeMoves ==
    ASSUME Block!DataStaysWithOwner, NEW v \in Swift, NEW x,
           volume' = [volume EXCEPT ![v] = x], GoodVolume(x), Later(volume[v], x),
           Live(x) \/ \A s \in Snapshots : snapshot[s].volume = v => ~Live(snapshot[s]),
           UNCHANGED <<snapshot, instanceRows, server>>,
           volReq' \in [Requests -> Block!Request],
           \A r \in Requests : volReq'[r] = volReq[r] \/ Block!RequestInv(volReq[r])'
    PROVE  Block!DataStaysWithOwner'
  <1>1. Parts
    BY InvParts
  <1>2. x \in Block!Volume
    BY DEF GoodVolume
  <1>3. /\ volume' \in [Swift -> Block!Volume] /\ volume'[v] = x
        /\ \A u \in Swift \ {v} : volume'[u] = volume[u]
    BY <1>1, <1>2 DEF Parts
  <1>4. \A u \in Swift : GoodVolume(volume'[u]) /\ Later(volume[u], volume'[u])
    BY <1>1, <1>3 DEF Parts, Later
  <1>5. \A s \in Snapshots : /\ GoodSnapshot(snapshot'[s]) /\ Later(snapshot[s], snapshot'[s])
                              /\ Backed(snapshot'[s], volume')
    BY <1>1, <1>3 DEF Parts, Later, Backed
  <1>6. QED
    BY <1>1, <1>3, <1>4, <1>5, Evolves DEF Parts

\* One snapshot changes; its volume exists if it does.
LEMMA SnapshotMoves ==
    ASSUME Block!DataStaysWithOwner, NEW s \in Snapshots, NEW x,
           snapshot' = [snapshot EXCEPT ![s] = x], GoodSnapshot(x), Later(snapshot[s], x),
           Backed(x, volume),
           UNCHANGED <<volume, instanceRows, server>>,
           volReq' \in [Requests -> Block!Request],
           \A r \in Requests : volReq'[r] = volReq[r] \/ Block!RequestInv(volReq[r])'
    PROVE  Block!DataStaysWithOwner'
  <1>1. Parts
    BY InvParts
  <1>2. x \in Block!Snapshot
    BY DEF GoodSnapshot
  <1>3. /\ snapshot' \in [Snapshots -> Block!Snapshot] /\ snapshot'[s] = x
        /\ \A u \in Snapshots \ {s} : snapshot'[u] = snapshot[u]
    BY <1>1, <1>2 DEF Parts
  <1>4. \A u \in Snapshots : /\ GoodSnapshot(snapshot'[u]) /\ Later(snapshot[u], snapshot'[u])
                              /\ Backed(snapshot'[u], volume')
    BY <1>1, <1>3 DEF Parts, Later
  <1>5. QED
    BY <1>1, <1>3, <1>4, Evolves DEF Parts, Later

\* The requests that look up a volume or a snapshot of their owner.
LEMMA LooksUp ==
    ASSUME Block!VolumesAssumption, Block!DataStaysWithOwner, NEW r \in Requests,
            NEW o \in Objects,
           \/ \E s \in Snapshots \cup {None} : Block!CreateVolume(r, o, s)
           \/ \E v \in Swift :
                \/ Block!DeleteVolume(r, o, v) \/ Block!CreateSnapshot(r, o, v)
                \/ \E i \in Objects :
                       Block!AttachVolume(r, o, v, i) \/ Block!DetachVolume(r, o, v, i)
           \/ \E s \in Snapshots : Block!DeleteSnapshot(r, o, s)
    PROVE  Block!DataStaysWithOwner'
  <1>1. CASE \E s \in Snapshots \cup {None} : Block!CreateVolume(r, o, s)
    <2>1. PICK s \in Snapshots \cup {None} : Block!CreateVolume(r, o, s)
      BY <1>1
    <2> DEFINE q == [Block!Idle EXCEPT !.pc = "create", !.owner = o, !.snapshot = s]
    <2>2. q \in Block!Request /\ q.pc = "create" /\ q.owner = o /\ q.snapshot = s
      BY DEF Block!Idle, Block!Request, Block!PC
    <2>3. volReq' = [volReq EXCEPT ![r] = q] /\ UNCHANGED <<volume, snapshot, instanceRows,
                                                    server>>
      BY <2>1 DEF Block!CreateVolume, Block!Begin
    <2> HIDE DEF q
    <2>4. Block!RequestInv(q)
      BY <2>1, <2>2 DEF Block!CreateVolume, Block!ResolveSnapshot, Block!RequestInv,
             Block!SnapshotOf
    <2>5. QED
      BY <2>2, <2>3, <2>4, RequestMoves
  <1>2. CASE \E s \in Snapshots : Block!DeleteSnapshot(r, o, s)
    <2>1. PICK s \in Snapshots : Block!DeleteSnapshot(r, o, s)
      BY <1>2
    <2> DEFINE q == [Block!Idle EXCEPT !.pc = "deleteSnapshot", !.snapshot = s]
    <2>2. q \in Block!Request /\ q.pc = "deleteSnapshot" /\ q.snapshot = s
      BY DEF Block!Idle, Block!Request, Block!PC
    <2>3. volReq' = [volReq EXCEPT ![r] = q] /\ UNCHANGED <<volume, snapshot, instanceRows,
                                                    server>>
      BY <2>1 DEF Block!DeleteSnapshot, Block!Begin
    <2> HIDE DEF q
    <2>4. Block!RequestInv(q)
      BY <2>2 DEF Block!RequestInv
    <2>5. QED
      BY <2>2, <2>3, <2>4, RequestMoves
  <1>3. ASSUME NEW v \in Swift, Block!DeleteVolume(r, o, v)
        PROVE  Block!DataStaysWithOwner'
    <2> DEFINE q == [Block!Idle EXCEPT !.pc = "delete", !.volume = v]
    <2>2. q \in Block!Request /\ q.pc = "delete" /\ q.volume = v
      BY DEF Block!Idle, Block!Request, Block!PC
    <2>3. volReq' = [volReq EXCEPT ![r] = q] /\ UNCHANGED <<volume, snapshot, instanceRows,
                                                    server>>
      BY <1>3 DEF Block!DeleteVolume, Block!Begin
    <2> HIDE DEF q
    <2>4. Block!RequestInv(q)
      BY <2>2 DEF Block!RequestInv
    <2>5. QED
      BY <2>2, <2>3, <2>4, RequestMoves
  <1>4. ASSUME NEW v \in Swift, Block!CreateSnapshot(r, o, v)
        PROVE  Block!DataStaysWithOwner'
    <2> DEFINE q == [Block!Idle EXCEPT !.pc = "snapshot", !.owner = o, !.volume = v]
    <2>2. q \in Block!Request /\ q.pc = "snapshot" /\ q.owner = o /\ q.volume = v
      BY DEF Block!Idle, Block!Request, Block!PC
    <2>3. volReq' = [volReq EXCEPT ![r] = q] /\ UNCHANGED <<volume, snapshot, instanceRows,
                                                    server>>
      BY <1>4 DEF Block!CreateSnapshot, Block!Begin
    <2> HIDE DEF q
    <2>4. Block!RequestInv(q)
      BY <1>4, <2>2 DEF Block!CreateSnapshot, Block!ResolveVolume, Block!RequestInv,
             Block!VolumeOf
    <2>5. QED
      BY <2>2, <2>3, <2>4, RequestMoves
  <1>5. ASSUME NEW v \in Swift, NEW i \in Objects, Block!AttachVolume(r, o, v, i)
        PROVE  Block!DataStaysWithOwner'
    <2> DEFINE q == [Block!Idle EXCEPT !.pc = "checkRow", !.owner = o, !.volume = v, !.instance = i]
    <2>2. q \in Block!Request /\ q.pc = "checkRow" /\ q.owner = o /\ q.volume = v /\ q.instance = i
      BY DEF Block!Idle, Block!Request, Block!PC
    <2>3. volReq' = [volReq EXCEPT ![r] = q] /\ UNCHANGED <<volume, snapshot, instanceRows,
                                                    server>>
      BY <1>5 DEF Block!AttachVolume, Block!Begin
    <2> HIDE DEF q
    <2>4. Block!RequestInv(q)
      BY <1>5, <2>2 DEF Block!AttachVolume, Block!ResolveVolume, Block!RequestInv, Block!VolumeOf
    <2>5. QED
      BY <2>2, <2>3, <2>4, RequestMoves
  <1>6. ASSUME NEW v \in Swift, NEW i \in Objects, Block!DetachVolume(r, o, v, i)
        PROVE  Block!DataStaysWithOwner'
    <2> DEFINE q == [Block!Idle EXCEPT !.pc = "detachRow", !.owner = o, !.volume = v,
                                       !.instance = i]
    <2>2. q \in Block!Request /\ q.pc = "detachRow" /\ q.volume = v
      BY DEF Block!Idle, Block!Request, Block!PC
    <2>3. volReq' = [volReq EXCEPT ![r] = q] /\ UNCHANGED <<volume, snapshot, instanceRows,
                                                    server>>
      BY <1>6 DEF Block!DetachVolume, Block!Begin
    <2> HIDE DEF q
    <2>4. Block!RequestInv(q)
      BY <2>2 DEF Block!RequestInv
    <2>5. QED
      BY <2>2, <2>3, <2>4, RequestMoves
  <1>7. QED
    BY <1>1, <1>2, <1>3, <1>4, <1>5, <1>6

\* The look-ups of the row of an instance; the owner has one, so it is the volume's owner.
LEMMA ChecksRow ==
    ASSUME Block!VolumesAssumption, Block!DataStaysWithOwner, NEW r \in Requests,
           Block!AttachChecksRow(r) \/ Block!DetachChecksRow(r) \/ Block!CallFails(r)
    PROVE  Block!DataStaysWithOwner'
  <1> DEFINE Goes(pc) == [volReq[r] EXCEPT !.pc = pc, !.owner = None]
  <1>1. /\ volReq[r] \in Block!Request /\ volReq \in [Requests -> Block!Request]
        /\ Block!RequestInv(volReq[r])
    BY DEF Block!DataStaysWithOwner, Block!TypeOK
  <1>2. ASSUME NEW pc \in Block!PC, Block!Checked(r, pc)
        PROVE  volReq' = [volReq EXCEPT ![r] = Goes(pc)]
    BY <1>1, <1>2 DEF Block!Checked, Block!Request
  <1>3. ASSUME NEW pc \in Block!PC
        PROVE  /\ Goes(pc) \in Block!Request /\ Goes(pc).pc = pc
               /\ Goes(pc).volume = volReq[r].volume /\ Goes(pc).instance = volReq[r].instance
    BY <1>1 DEF Block!Request
  <1> HIDE DEF Goes
  <1>4. CASE Block!End(r) /\ UNCHANGED <<volume, snapshot, instanceRows, server>>
    <2>1. Parts
      BY InvParts
    <2>2. /\ volReq' \in [Requests -> Block!Request]
          /\ \A t \in Requests : volReq'[t] = volReq[t] \/ Block!RequestInv(volReq[t])'
      BY <1>4, RequestEnds
    <2>3. QED
      BY <1>4, <2>1, <2>2, Evolves DEF Parts, Later
  <1>5. CASE /\ Block!AttachChecksRow(r)
             /\ Block!InstanceExists(volReq[r].owner, volReq[r].instance)
             /\ Block!Checked(r, "attach")
    <2>1. "attach" \in Block!PC
      BY DEF Block!PC
    <2>2. Block!RequestInv(Goes("attach"))
      BY <1>1, <1>3, <1>5, <2>1 DEF Block!RequestInv, Block!AttachChecksRow, Block!InstanceExists
    <2>3. QED
      BY <1>2, <1>3, <1>5, <2>1, <2>2, RequestMoves DEF Block!AttachChecksRow
  <1>6. CASE Block!DetachChecksRow(r) /\ Block!Checked(r, "detach")
    <2>1. "detach" \in Block!PC
      BY DEF Block!PC
    <2>2. Block!RequestInv(Goes("detach"))
      BY <1>1, <1>3, <1>6, <2>1 DEF Block!RequestInv, Block!DetachChecksRow
    <2>3. QED
      BY <1>2, <1>3, <1>6, <2>1, <2>2, RequestMoves DEF Block!DetachChecksRow
  <1>7. QED
    BY <1>4, <1>5, <1>6 DEF Block!AttachChecksRow, Block!DetachChecksRow, Block!CallFails

\* Cinder and Nova look at the status only; that the owner is the right one follows from
\* what the request checked before.
LEMMA CinderActs ==
    ASSUME Block!VolumesAssumption, Block!DataStaysWithOwner, NEW r \in Requests,
           \/ \E v \in Swift : Block!CinderCreate(r, v)
           \/ Block!CinderDelete(r) \/ Block!NovaAttach(r) \/ Block!NovaDetach(r)
    PROVE  Block!DataStaysWithOwner'
  <1>0. Parts
    BY InvParts
  <1>1. volReq[r] \in Block!Request /\ Block!RequestInv(volReq[r])
    BY <1>0 DEF Parts
  <1>2. ASSUME Block!End(r)
        PROVE  /\ volReq' \in [Requests -> Block!Request]
               /\ \A t \in Requests : volReq'[t] = volReq[t] \/ Block!RequestInv(volReq[t])'
    BY <1>2, RequestEnds
  <1>3. ASSUME NEW v \in Swift, Block!CinderCreate(r, v)
        PROVE  Block!DataStaysWithOwner'
    <2> DEFINE s == volReq[r].snapshot
               x == [status |-> "creating", owner |-> volReq[r].owner, instance |-> None,
                     data |-> IF s = None THEN {} ELSE snapshot[s].data]
    <2>1. s # None => s \in Snapshots /\ snapshot[s].owner = volReq[r].owner
      BY <1>1, <1>3 DEF Block!CinderCreate, Block!RequestInv, Block!SnapshotOf
    <2>2. volReq[r].owner \in Objects
      BY <1>1, <1>3 DEF Block!CinderCreate, Block!RequestInv
    <2>3. GoodVolume(x)
      BY <1>0, <2>1, <2>2 DEF GoodVolume, Block!Volume, Block!VolumeStatus, Parts, GoodSnapshot,
             Block!Snapshot
    <2>4. volume' = [volume EXCEPT ![v] = x] /\ volume[v].status = "none" /\ Live(x)
      BY <1>3 DEF Block!CinderCreate, Live
    <2> HIDE DEF x
    <2>5. Later(volume[v], x)
      BY <2>4 DEF Later
    <2>6. Block!End(r) /\ UNCHANGED <<snapshot, instanceRows, server>>
      BY <1>3 DEF Block!CinderCreate
    <2>7. QED
      BY <1>2, <2>3, <2>4, <2>5, <2>6, VolumeMoves
  <1>4. CASE Block!CinderDelete(r)
    <2> DEFINE v == volReq[r].volume
               x == [Block!NoVolume EXCEPT !.status = "gone"]
    <2>1. v \in Swift
      BY <1>1, <1>4 DEF Block!CinderDelete, Block!RequestInv
    <2>2. GoodVolume(x) /\ x.status = "gone"
      BY DEF Block!NoVolume, GoodVolume, Block!Volume, Block!VolumeStatus
    <2>3. volume' = [volume EXCEPT ![v] = x] /\ Block!End(r) /\ UNCHANGED <<snapshot,
                                                                    instanceRows, server>>
      BY <1>4 DEF Block!CinderDelete
    <2> HIDE DEF x
    <2>4. Later(volume[v], x)
      BY <2>2 DEF Later
    <2>5. \A s \in Snapshots : snapshot[s].volume = v => ~Live(snapshot[s])
      BY <1>4 DEF Block!CinderDelete, Live
    <2>6. QED
      BY <1>2, <2>1, <2>2, <2>3, <2>4, <2>5, VolumeMoves
  <1>5. CASE Block!NovaAttach(r)
    <2> DEFINE v == volReq[r].volume
               x == [volume[v] EXCEPT !.status = "attaching", !.instance = volReq[r].instance]
    <2>1. v \in Swift /\ volReq[r].instance \in Objects /\ volume[v].status = "available"
      BY <1>1, <1>5 DEF Block!NovaAttach, Block!RequestInv, Block!VolumeOf
    <2>2. volume[v].owner = OwnerOf[volReq[r].instance]
      BY <1>1, <1>5, <2>1 DEF Block!NovaAttach, Block!RequestInv, Block!VolumeOf
    <2>3. volume[v] \in Block!Volume /\ GoodVolume(volume[v]) /\ volReq[r].instance # None
      BY <1>0, <2>1 DEF Parts, Block!VolumesAssumption
    <2>4. GoodVolume(x) /\ x.status = "attaching" /\ x.owner = volume[v].owner
      BY <2>1, <2>2, <2>3 DEF GoodVolume, Block!Volume, Block!VolumeStatus
    <2>5. volume' = [volume EXCEPT ![v] = x] /\ Block!End(r) /\ UNCHANGED <<snapshot,
                                                                    instanceRows, server>>
      BY <1>0, <1>5, <2>1, <2>3 DEF Block!NovaAttach, Parts, Block!Volume
    <2> HIDE DEF x
    <2>6. Later(volume[v], x) /\ Live(x)
      BY <2>1, <2>4 DEF Later, Live
    <2>7. QED
      BY <1>2, <2>1, <2>4, <2>5, <2>6, VolumeMoves
  <1>6. CASE Block!NovaDetach(r)
    <2> DEFINE v == volReq[r].volume
               x == [volume[v] EXCEPT !.status = "detaching"]
    <2>1. v \in Swift /\ volume[v].status = "in-use"
      BY <1>1, <1>6 DEF Block!NovaDetach, Block!RequestInv
    <2>2. volume[v] \in Block!Volume /\ GoodVolume(volume[v])
      BY <1>0, <2>1 DEF Parts
    <2>3. GoodVolume(x) /\ x.status = "detaching" /\ x.owner = volume[v].owner
      BY <2>1, <2>2 DEF GoodVolume, Block!Volume, Block!VolumeStatus
    <2>4. volume' = [volume EXCEPT ![v] = x] /\ Block!End(r) /\ UNCHANGED <<snapshot,
                                                                    instanceRows, server>>
      BY <1>6 DEF Block!NovaDetach
    <2> HIDE DEF x
    <2>5. Later(volume[v], x) /\ Live(x)
      BY <2>1, <2>3 DEF Later, Live
    <2>6. QED
      BY <1>2, <2>1, <2>3, <2>4, <2>5, VolumeMoves
  <1>7. QED
    BY <1>3, <1>4, <1>5, <1>6

\* A snapshot is made of a volume of its owner, which Cinder then keeps, or deleted.
LEMMA SnapshotActs ==
    ASSUME Block!VolumesAssumption, Block!DataStaysWithOwner, NEW r \in Requests,
           (\E s \in Snapshots : Block!CinderSnapshot(r, s)) \/ Block!CinderDeleteSnapshot(r)
    PROVE  Block!DataStaysWithOwner'
  <1>0. Parts
    BY InvParts
  <1>1. volReq[r] \in Block!Request /\ Block!RequestInv(volReq[r])
    BY <1>0 DEF Parts
  <1>2. ASSUME Block!End(r)
        PROVE  /\ volReq' \in [Requests -> Block!Request]
               /\ \A t \in Requests : volReq'[t] = volReq[t] \/ Block!RequestInv(volReq[t])'
    BY <1>2, RequestEnds
  <1>3. ASSUME NEW s \in Snapshots, Block!CinderSnapshot(r, s)
        PROVE  Block!DataStaysWithOwner'
    <2> DEFINE v == volReq[r].volume
               x == [status |-> "creating", owner |-> volReq[r].owner, volume |-> v,
                     data |-> volume[v].data]
    <2>1. /\ v \in Swift /\ volume[v].status = "available" /\ volReq[r].owner \in Objects
          /\ volume[v].owner = volReq[r].owner
      BY <1>1, <1>3 DEF Block!CinderSnapshot, Block!RequestInv, Block!VolumeOf
    <2>2. GoodVolume(volume[v]) /\ volume[v] \in Block!Volume
      BY <1>0, <2>1 DEF Parts
    <2>3. GoodSnapshot(x) /\ Backed(x, volume)
      BY <2>1, <2>2 DEF GoodSnapshot, GoodVolume, Block!Snapshot, Block!SnapshotStatus,
             Block!Volume, Backed, Live
    <2>4. snapshot' = [snapshot EXCEPT ![s] = x] /\ snapshot[s].status = "none"
      BY <1>3 DEF Block!CinderSnapshot
    <2> HIDE DEF x
    <2>5. Later(snapshot[s], x)
      BY <2>4 DEF Later
    <2>6. Block!End(r) /\ UNCHANGED <<volume, instanceRows, server>>
      BY <1>3 DEF Block!CinderSnapshot
    <2>7. QED
      BY <1>2, <2>3, <2>4, <2>5, <2>6, SnapshotMoves
  <1>4. CASE Block!CinderDeleteSnapshot(r)
    <2> DEFINE s == volReq[r].snapshot
               x == [Block!NoSnapshot EXCEPT !.status = "gone"]
    <2>1. s \in Snapshots
      BY <1>1, <1>4 DEF Block!CinderDeleteSnapshot, Block!RequestInv
    <2>2. GoodSnapshot(x) /\ x.status = "gone"
      BY DEF Block!NoSnapshot, GoodSnapshot, Block!Snapshot, Block!SnapshotStatus
    <2>3. snapshot' = [snapshot EXCEPT ![s] = x] /\ Block!End(r) /\ UNCHANGED <<volume,
                                                                        instanceRows, server>>
      BY <1>4 DEF Block!CinderDeleteSnapshot
    <2> HIDE DEF x
    <2>4. Later(snapshot[s], x) /\ Backed(x, volume)
      BY <2>2 DEF Later, Backed, Live
    <2>5. QED
      BY <1>2, <2>1, <2>2, <2>3, <2>4, SnapshotMoves
  <1>5. QED
    BY <1>3, <1>4

\* What Cinder and Nova finish, and what the deletion of an instance does to volumes.
LEMMA OpenStackActs ==
    ASSUME Block!VolumesAssumption, Block!DataStaysWithOwner,
           \/ \E v \in Swift, status \in Block!VolumeStatus : Block!VolumeSettles(v, status)
           \/ \E s \in Snapshots, status \in Block!SnapshotStatus : Block!SnapshotSettles(s, status)
           \/ \E i \in Objects : Block!RowGone(i) \/ Block!ServerGone(i)
    PROVE  Block!DataStaysWithOwner'
  <1>0. Parts
    BY InvParts
  <1>1. ASSUME NEW v \in Swift, NEW status \in Block!VolumeStatus, Block!VolumeSettles(v, status)
        PROVE  Block!DataStaysWithOwner'
    <2> DEFINE x == [volume[v] EXCEPT
                        !.status = status,
                        !.instance = IF status = "in-use" THEN @ ELSE None,
                        !.data = IF status = "in-use" THEN @ \cup {OwnerOf[volume[v].instance]}
                                                      ELSE @]
    <2>1. volume[v] \in Block!Volume /\ GoodVolume(volume[v])
      BY <1>0 DEF Parts
    <2>2. volume' = [volume EXCEPT ![v] = x]
      BY <1>1, <2>1 DEF Block!VolumeSettles, Block!Volume
    <2>3. /\ x.status = status /\ x.owner = volume[v].owner
          /\ x.instance = IF status = "in-use" THEN volume[v].instance ELSE None
          /\ x.data = IF status = "in-use" THEN volume[v].data \cup {OwnerOf[volume[v].instance]}
                                           ELSE volume[v].data
      BY <2>1 DEF Block!Volume
    <2>4. /\ volume[v].status \in {"creating", "attaching", "detaching"}
          /\ status \in {"available", "error", "in-use"}
          /\ status = "in-use" => volume[v].status = "attaching"
      BY <1>1 DEF Block!VolumeSettles
    <2>5. status = "in-use" => /\ volume[v].instance \in Objects
                               /\ OwnerOf[volume[v].instance] = volume[v].owner
                               /\ OwnerOf[volume[v].instance] \in Objects
      BY <2>1, <2>4 DEF GoodVolume, Block!Volume, Block!VolumesAssumption
    <2>6. x \in Block!Volume
      BY <2>1, <2>5 DEF Block!Volume
    <2> HIDE DEF x
    <2>7. x.data \subseteq {x.owner}
      BY <2>1, <2>3, <2>5 DEF GoodVolume
    <2>8. x.instance # None <=> x.status \in {"attaching", "in-use", "detaching"}
      BY <2>3, <2>4, <2>5 DEF Block!VolumesAssumption
    <2>9. GoodVolume(x) /\ Later(volume[v], x) /\ Live(x)
      BY <2>3, <2>4, <2>5, <2>6, <2>7, <2>8 DEF GoodVolume, Later, Live
    <2>10. UNCHANGED <<snapshot, instanceRows, server, volReq>>
      BY <1>1 DEF Block!VolumeSettles
    <2>11. QED
      BY <1>0, <2>2, <2>9, <2>10, VolumeMoves DEF Parts
  <1>2. ASSUME NEW s \in Snapshots, NEW status \in Block!SnapshotStatus, Block!SnapshotSettles(s,
      status)
        PROVE  Block!DataStaysWithOwner'
    <2> DEFINE x == [snapshot[s] EXCEPT !.status = status]
    <2>1. /\ snapshot[s] \in Block!Snapshot /\ GoodSnapshot(snapshot[s])
          /\ Backed(snapshot[s], volume)
          /\ snapshot[s].status = "creating" /\ status \in {"available", "error"}
      BY <1>0, <1>2 DEF Parts, Block!SnapshotSettles
    <2>2. /\ GoodSnapshot(x) /\ x.status = status /\ x.volume = snapshot[s].volume
          /\ x.owner = snapshot[s].owner
      BY <2>1 DEF GoodSnapshot, Block!Snapshot
    <2>3. snapshot' = [snapshot EXCEPT ![s] = x] /\ UNCHANGED <<volume, instanceRows, server,
                                                        volReq>>
      BY <1>2 DEF Block!SnapshotSettles
    <2> HIDE DEF x
    <2>4. Later(snapshot[s], x) /\ Backed(x, volume)
      BY <2>1, <2>2 DEF Later, Backed, Live
    <2>5. QED
      BY <1>0, <2>2, <2>3, <2>4, SnapshotMoves DEF Parts
  <1>3. ASSUME NEW i \in Objects, Block!RowGone(i)
        PROVE  Block!DataStaysWithOwner'
    BY <1>0, <1>3, Evolves DEF Parts, Block!RowGone, Later
  <1>4. ASSUME NEW i \in Objects, Block!ServerGone(i)
        PROVE  Block!DataStaysWithOwner'
    <2>1. ASSUME NEW v \in Swift
          PROVE  /\ GoodVolume(volume'[v]) /\ Later(volume[v], volume'[v])
                 /\ Live(volume[v]) => Live(volume'[v])
      <3>1. GoodVolume(volume[v]) /\ volume[v] \in Block!Volume
        BY <1>0 DEF Parts
      <3>2. CASE volume[v].instance = i
        <4> DEFINE x == [volume[v] EXCEPT !.status = "available", !.instance = None]
        <4>1. volume'[v] = x
          BY <1>4, <3>2 DEF Block!ServerGone
        <4>2. volume[v].status \in {"attaching", "in-use", "detaching"}
          BY <3>1, <3>2 DEF GoodVolume, Block!VolumesAssumption
        <4>3. GoodVolume(x) /\ x.status = "available" /\ x.owner = volume[v].owner
          BY <3>1 DEF GoodVolume, Block!Volume, Block!VolumeStatus
        <4> HIDE DEF x
        <4>4. QED
          BY <4>1, <4>2, <4>3 DEF Later, Live
      <3>3. CASE volume[v].instance # i
        BY <1>4, <3>1, <3>3 DEF Block!ServerGone, Later
      <3>4. QED
        BY <3>2, <3>3
    <2>2. volume' \in [Swift -> Block!Volume]
      <3>1. \A v \in Swift : volume'[v] \in Block!Volume
        BY <2>1 DEF GoodVolume
      <3>2. QED
        BY <1>4, <3>1 DEF Block!ServerGone
    <2>3. \A s \in Snapshots : /\ GoodSnapshot(snapshot'[s]) /\ Later(snapshot[s], snapshot'[s])
                                /\ Backed(snapshot'[s], volume')
      BY <1>0, <1>4, <2>1 DEF Parts, Block!ServerGone, Later, Backed
    <2>4. instanceRows' \subseteq Objects /\ server' \subseteq Objects /\ volReq' = volReq
      BY <1>0, <1>4 DEF Parts, Block!ServerGone
    <2>5. volReq' \in [Requests -> Block!Request] /\ \A r \in Requests : volReq'[r] = volReq[r]
      BY <1>0, <2>4 DEF Parts
    <2>6. snapshot' \in [Snapshots -> Block!Snapshot]
      BY <1>0, <1>4 DEF Parts, Block!ServerGone
    <2>7. \A v \in Swift : GoodVolume(volume'[v]) /\ Later(volume[v], volume'[v])
      BY <2>1
    <2>8. QED
      BY <2>2, <2>3, <2>4, <2>5, <2>6, <2>7, Evolves
  <1>5. QED
    BY <1>1, <1>2, <1>3, <1>4

\* What one owner's instances have written reaches nobody else, over any chain of
\* attachments, snapshots and restored volumes, although only the first step of each
\* request looks at owners (blockstorage/service.go:229).
THEOREM DataSound ==
    ASSUME Block!VolumesAssumption PROVE Block!Spec => []DataStaysWithOwner
  <1>1. Block!Init => Block!DataStaysWithOwner
    <2> SUFFICES ASSUME Block!Init PROVE Parts
      BY InvParts
    <2>1. GoodVolume(Block!NoVolume) /\ ~Live(Block!NoVolume)
      BY DEF Block!NoVolume, GoodVolume, Block!Volume, Block!VolumeStatus, Live
    <2>2. GoodSnapshot(Block!NoSnapshot) /\ ~Live(Block!NoSnapshot)
      BY DEF Block!NoSnapshot, GoodSnapshot, Block!Snapshot, Block!SnapshotStatus, Live
    <2>3. Block!Idle \in Block!Request /\ Block!RequestInv(Block!Idle)
      BY DEF Block!Idle, Block!Request, Block!PC, Block!RequestInv
    <2>4. QED
      BY <2>1, <2>2, <2>3 DEF Block!Init, Parts, GoodVolume, GoodSnapshot, Backed
  <1>2. Block!DataStaysWithOwner /\ [Block!Next]_Block!vars => Block!DataStaysWithOwner'
    <2> SUFFICES ASSUME Block!DataStaysWithOwner,
        [Block!Next]_Block!vars PROVE Block!DataStaysWithOwner'
      OBVIOUS
    <2>1. CASE UNCHANGED Block!vars
      <3>1. Parts
        BY InvParts
      <3>2. QED
        BY <2>1, <3>1, Evolves DEF Block!vars, Parts, Later
    <2>2. CASE Block!Next
      BY <2>2, LooksUp, ChecksRow, CinderActs, SnapshotActs, OpenStackActs DEF Block!Next
    <2>3. QED
      BY <2>1, <2>2
  <1>3. QED
    BY <1>1, <1>2, PTL DEF Block!Spec, DataStaysWithOwner

-----------------------------------------------------------------------------
(* Key pairs *)

\* One request becomes q, the others stay as they are.
PairBecomes(r, q) ==
    /\ q \in Pairs!Request
    /\ keyReq' \in [Requests -> Pairs!Request]
    /\ keyReq'[r] = q
    /\ \A t \in Requests \ {r} : keyReq'[t] = keyReq[t]

\* The assignments the steps make to a request.
LEMMA PairMoves ==
    ASSUME Pairs!TypeOK, NEW r \in Requests
    PROVE  /\ \A q \in Pairs!Request : keyReq' = [keyReq EXCEPT ![r] = q] => PairBecomes(r, q)
           /\ Pairs!End(r) => PairBecomes(r, Pairs!Idle)
           /\ \A pc \in Pairs!PC : Pairs!Go(r, pc) =>
                PairBecomes(r, [pc |-> pc, owner |-> keyReq[r].owner, key |-> keyReq[r].key])
  <1>1. keyReq \in [Requests -> Pairs!Request] /\ keyReq[r] \in Pairs!Request
    BY DEF Pairs!TypeOK
  <1>2. \A q \in Pairs!Request : keyReq' = [keyReq EXCEPT ![r] = q] => PairBecomes(r, q)
    BY <1>1 DEF PairBecomes
  <1>3. Pairs!Idle \in Pairs!Request
    BY DEF Pairs!Idle, Pairs!Request, Pairs!PC
  <1>4. ASSUME NEW pc \in Pairs!PC, Pairs!Go(r, pc)
        PROVE  PairBecomes(r, [pc |-> pc, owner |-> keyReq[r].owner, key |-> keyReq[r].key])
    <2> DEFINE q == [pc |-> pc, owner |-> keyReq[r].owner, key |-> keyReq[r].key]
    <2>1. q \in Pairs!Request
      BY <1>1 DEF Pairs!Request
    <2>2. keyReq' = [keyReq EXCEPT ![r] = q]
      <3>1. [keyReq[r] EXCEPT !.pc = pc] = q
        BY <1>1 DEF Pairs!Request
      <3>2. keyReq' = [keyReq EXCEPT ![r] = [keyReq[r] EXCEPT !.pc = pc]]
        BY <1>4 DEF Pairs!Go
      <3>3. QED
        BY <3>1, <3>2
    <2>3. QED
      BY <1>2, <2>1, <2>2
  <1>5. QED
    BY <1>2, <1>3, <1>4 DEF Pairs!End

\* The key is that of a request at one of the places pcs.
Held(k, pcs) == \E t \in Requests : keyReq[t].pc \in pcs /\ keyReq[t].key = k

\* What KeysAt collects.
LEMMA KeysHeld ==
    ASSUME NEW k, NEW pcs
    PROVE  /\ k \in Pairs!KeysAt(pcs) <=> Held(k, pcs)
           /\ k \in Pairs!KeysAt(pcs)' <=> Held(k, pcs)'
  BY DEF Pairs!KeysAt, Held

\* The two ties between the stores, with requests named instead of collected.
NoOrphan ==
    nova # None /\ ~Pairs!Current(nova) =>
        nova \in left \cup unlisted \/ Held(nova, {"save", "undo"})
HasKey ==
    row # None /\ nova # row.key =>
        row.key \in keyHalfDone \cup struck \cup undone \/ Held(row.key, {"deleteRow"})

PairsCore ==
    /\ Pairs!TypeOK /\ NoOrphan /\ HasKey /\ Pairs!AckedKeyKept /\ Pairs!UndoTakesOwnKey
    /\ Pairs!StoresInv /\ \A r \in Requests : Pairs!CreationInv(r) /\ Pairs!DeletionInv(r)

\* It is the same invariant.
LEMMA PairsCoreSame == PairsCore <=> Pairs!KeyPairsInv
  <1>1. NoOrphan <=> Pairs!NoSilentOrphan
    BY KeysHeld DEF NoOrphan, Pairs!NoSilentOrphan
  <1>2. HasKey <=> Pairs!RowHasKey
    BY KeysHeld DEF HasKey, Pairs!RowHasKey
  <1>3. QED
    BY <1>1, <1>2 DEF PairsCore, Pairs!KeyPairsInv

\* An upload begins: its key is new, so no store and no other request knows it.
LEMMA CreateKeeps ==
    ASSUME Pairs!KeyPairsAssumption, PairsCore, NEW r \in Requests, NEW o \in Objects,
           NEW k \in Keys, Pairs!Create(r, o, k)
    PROVE  PairsCore'
  <1> DEFINE q == [pc |-> "nova", owner |-> o, key |-> k]
  <1>1. q \in Pairs!Request /\ q.pc = "nova" /\ q.owner = o /\ q.key = k
    BY DEF Pairs!Request, Pairs!PC
  <1>2. PairBecomes(r, q)
    BY <1>1, PairMoves DEF Pairs!Create, PairsCore
  <1> HIDE DEF q
  <1>3. /\ keyReq[r].pc = "idle" /\ k \notin made /\ made' = made \cup {k}
        /\ UNCHANGED <<row, nova, keyFaults, keyAcked, keyCondemned, left, keyHalfDone, struck,
               undone, unlisted>>
    BY DEF Pairs!Create
  <1>4. Pairs!TypeOK'
    BY <1>2, <1>3 DEF PairsCore, Pairs!TypeOK, PairBecomes
  <1>5. NoOrphan' /\ HasKey'
    BY <1>1, <1>2, <1>3 DEF PairsCore, NoOrphan, HasKey, Held, Pairs!Current, PairBecomes
  <1>6. Pairs!AckedKeyKept' /\ Pairs!UndoTakesOwnKey' /\ Pairs!StoresInv'
    BY <1>3 DEF PairsCore, Pairs!AckedKeyKept, Pairs!UndoTakesOwnKey, Pairs!StoresInv,
           Pairs!Current
  <1>7. ASSUME NEW t \in Requests PROVE Pairs!CreationInv(t)'
    <2>1. \A u \in Requests \ {r} :
            keyReq[u].pc \in Pairs!Creating \cup Pairs!Deleting => keyReq[u].key \in made
      BY DEF PairsCore, Pairs!CreationInv, Pairs!DeletionInv, Pairs!TypeOK
    <2>2. CASE t = r
      BY <1>1, <1>2, <1>3, <2>1, <2>2 DEF PairsCore, Pairs!CreationInv, Pairs!Creating,
             Pairs!Deleting, Pairs!Current, Pairs!StoresInv, Pairs!TypeOK, PairBecomes,
             Pairs!KeyPairsAssumption
    <2>3. CASE t # r
      BY <1>1, <1>2, <1>3, <2>1, <2>3 DEF PairsCore, Pairs!CreationInv, Pairs!Creating,
             Pairs!Deleting, Pairs!Current, PairBecomes
    <2>4. QED
      BY <2>2, <2>3
  <1>8. ASSUME NEW t \in Requests PROVE Pairs!DeletionInv(t)'
    BY <1>1, <1>2, <1>3 DEF PairsCore, Pairs!DeletionInv, Pairs!Deleting, Pairs!Current,
           Pairs!TypeOK, PairBecomes
  <1>9. QED
    BY <1>4, <1>5, <1>6, <1>7, <1>8 DEF PairsCore

\* A request ends and leaves both stores as they are: what it had in hand is then known
\* to be left in Nova, or as a row.
LEMMA EndsQuietly ==
    ASSUME Pairs!KeyPairsAssumption, PairsCore, NEW r \in Requests,
           PairBecomes(r, Pairs!Idle),
           UNCHANGED <<row, nova, made, keyAcked, keyCondemned, struck, undone, unlisted>>,
           keyFaults' \in 0 .. MaxFaults,
           left \subseteq left', left' \subseteq made,
           keyHalfDone \subseteq keyHalfDone', keyHalfDone' \subseteq made,
           keyReq[r].pc \in {"save", "undo"} /\ nova = keyReq[r].key => nova \in left',
           keyReq[r].pc = "deleteRow" /\ Pairs!Current(keyReq[r].key) =>
                keyReq[r].key \in keyHalfDone'
    PROVE  PairsCore'
  <1>1. Pairs!Idle.pc = "idle"
    BY DEF Pairs!Idle
  <1>2. Pairs!TypeOK'
    BY DEF PairsCore, Pairs!TypeOK, PairBecomes
  <1>3. NoOrphan'
    BY DEF PairsCore, NoOrphan, Held, Pairs!Current, PairBecomes
  <1>4. HasKey'
    BY DEF PairsCore, HasKey, Held, Pairs!Current, PairBecomes
  <1>5. Pairs!AckedKeyKept' /\ Pairs!UndoTakesOwnKey' /\ Pairs!StoresInv'
    BY DEF PairsCore, Pairs!AckedKeyKept, Pairs!UndoTakesOwnKey, Pairs!StoresInv, Pairs!Current
  <1>6. ASSUME NEW t \in Requests PROVE Pairs!CreationInv(t)'
    BY <1>1 DEF PairsCore, Pairs!CreationInv, Pairs!Creating, Pairs!Deleting, Pairs!Current,
           PairBecomes
  <1>7. ASSUME NEW t \in Requests PROVE Pairs!DeletionInv(t)'
    BY <1>1 DEF PairsCore, Pairs!DeletionInv, Pairs!Deleting, Pairs!Current, PairBecomes
  <1>8. QED
    BY <1>2, <1>3, <1>4, <1>5, <1>6, <1>7 DEF PairsCore

\* The key in Nova goes, by its name: if it is not the one the request has in mind, this
\* is known, and if it is, its owner has given it up or never had it.
LEMMA NovaRemoved ==
    ASSUME Pairs!KeyPairsAssumption, PairsCore, NEW r \in Requests,
           keyReq[r].pc \in {"undo", "drop"},
           NEW q \in Pairs!Request, PairBecomes(r, q),
           q.pc = "idle" \/ (q.pc = "deleteRow" /\ keyReq[r].pc = "drop"),
           q.pc = "deleteRow" => q.key = keyReq[r].key /\ q.owner = keyReq[r].owner,
           nova' = None,
           UNCHANGED <<row, made, keyAcked, keyCondemned, left, unlisted>>,
           keyFaults' \in 0 .. MaxFaults,
           keyHalfDone \subseteq keyHalfDone', keyHalfDone' \subseteq made,
           struck \subseteq struck', struck' \subseteq made,
           undone \subseteq undone', undone' \subseteq made,
           Pairs!Stray(r) \subseteq struck' \cup undone',
           Pairs!Current(keyReq[r].key) => keyReq[r].key \in keyHalfDone' \/ q.pc = "deleteRow",
           Pairs!UndoTakesOwnKey'
    PROVE  PairsCore'
  <1>1. nova = None \/ nova = keyReq[r].key \/ nova \in struck' \cup undone'
    BY DEF Pairs!Stray
  <1>2. /\ keyReq[r].key \in made /\ (keyReq[r].pc = "drop" => keyReq[r].key \in keyCondemned)
        /\ keyReq[r].pc = "undo" => keyReq[r].key \notin keyAcked
    BY DEF PairsCore, Pairs!CreationInv, Pairs!DeletionInv, Pairs!Creating, Pairs!Deleting,
           Pairs!TypeOK
  <1>3. Pairs!TypeOK'
    BY DEF PairsCore, Pairs!TypeOK, PairBecomes
  <1>4. NoOrphan' /\ Pairs!StoresInv'
    BY DEF PairsCore, NoOrphan, Pairs!StoresInv
  <1>5. HasKey'
    <2> SUFFICES ASSUME row # None
                 PROVE  \/ row.key \in keyHalfDone' \cup struck' \cup undone'
                        \/ Held(row.key, {"deleteRow"})'
      BY DEF HasKey
    <2>1. CASE nova # row.key
      BY <2>1 DEF PairsCore, HasKey, Held, PairBecomes
    <2>2. CASE nova = row.key
      <3>1. nova # None
        BY <2>2 DEF PairsCore, Pairs!TypeOK, Pairs!KeyPairsAssumption
      <3>2. CASE nova = keyReq[r].key
        BY <2>2, <3>2 DEF Pairs!Current, Held, PairBecomes
      <3>3. QED
        BY <1>1, <2>2, <3>1, <3>2
    <2>3. QED
      BY <2>1, <2>2
  <1>6. Pairs!AckedKeyKept'
    BY <1>1, <1>2 DEF PairsCore, Pairs!AckedKeyKept, Pairs!Current, Pairs!TypeOK,
           Pairs!KeyPairsAssumption
  <1>7. ASSUME NEW t \in Requests PROVE Pairs!CreationInv(t)'
    <2>1. CASE t = r
      BY <2>1 DEF Pairs!CreationInv, Pairs!Creating, PairBecomes
    <2>2. CASE t # r /\ keyReq[t].pc \in Pairs!Creating
      <3> DEFINE k == keyReq[t].key
      <3>1. Pairs!CreationInv(t) /\ Pairs!CreationInv(r) /\ keyReq'[t] = keyReq[t]
        BY <2>2 DEF PairsCore, PairBecomes
      <3>2. k \in Keys /\ k # None
        BY <2>2, <3>1 DEF PairsCore, Pairs!TypeOK, Pairs!CreationInv, Pairs!KeyPairsAssumption
      <3>3. keyReq[t].pc \in {"save", "undo"} /\ nova = k =>
                k \in struck' \cup undone' \/ (keyReq[t].pc = "undo" /\ k \in keyHalfDone)
        BY <1>1, <2>2, <3>1, <3>2 DEF Pairs!CreationInv, Pairs!Creating, Pairs!Deleting
      <3>4. \A u \in Requests :
                /\ keyReq'[u].pc \in Pairs!Creating =>
                    keyReq[u].pc \in Pairs!Creating /\ keyReq'[u] = keyReq[u]
                /\ keyReq'[u].pc \in Pairs!Deleting =>
                    keyReq[u].pc \in Pairs!Deleting /\ keyReq'[u].key = keyReq[u].key
        BY DEF Pairs!Creating, Pairs!Deleting, PairBecomes
      <3>5. /\ keyReq'[t].key = k /\ k \in made' \ keyAcked' /\ keyReq'[t].owner \in Objects
            /\ keyReq'[t].pc = keyReq[t].pc
        BY <2>2, <3>1 DEF Pairs!CreationInv
      <3>6. ASSUME NEW u \in Requests, keyReq'[u].pc \in Pairs!Creating, keyReq'[u].key = k
            PROVE  u = t
        <4>1. keyReq[u].pc \in Pairs!Creating /\ keyReq[u].key = k
          BY <3>4, <3>6
        <4>2. QED
          BY <2>2, <3>1, <4>1 DEF Pairs!CreationInv
      <3>7. ASSUME NEW u \in Requests, keyReq'[u].pc \in Pairs!Deleting, keyReq'[u].key = k
            PROVE  keyReq[t].pc = "undo" /\ k \in keyHalfDone'
        <4>1. keyReq[u].pc \in Pairs!Deleting /\ keyReq[u].key = k
          BY <3>4, <3>7
        <4>2. QED
          BY <2>2, <3>1, <4>1 DEF Pairs!CreationInv
      <3>8. /\ keyReq'[t].pc = "save" => k \in struck' \cup undone'
            /\ keyReq'[t].pc = "undo" => k \in struck' \cup undone' \cup keyHalfDone'
        BY <2>2, <3>1, <3>3 DEF Pairs!CreationInv
      <3>9. Pairs!Current(k) => keyReq[t].pc = "undo" /\ k \in keyHalfDone'
        BY <2>2, <3>1 DEF Pairs!CreationInv
      <3> HIDE DEF k
      <3>10. QED
        BY <3>2, <3>5, <3>6, <3>7, <3>8, <3>9 DEF Pairs!CreationInv, Pairs!Current
    <2>3. CASE t # r /\ keyReq[t].pc \notin Pairs!Creating
      BY <2>3 DEF Pairs!CreationInv, PairBecomes
    <2>4. QED
      BY <2>1, <2>2, <2>3
  <1>8. ASSUME NEW t \in Requests PROVE Pairs!DeletionInv(t)'
    <2>1. Pairs!DeletionInv(t) /\ Pairs!DeletionInv(r)
      BY DEF PairsCore
    <2>2. keyReq'[t].pc \in Pairs!Deleting =>
            /\ keyReq[t].pc \in Pairs!Deleting
            /\ keyReq'[t].key = keyReq[t].key /\ keyReq'[t].owner = keyReq[t].owner
      BY DEF Pairs!Deleting, PairBecomes
    <2>3. keyReq[t].pc \in Pairs!Deleting => keyReq[t].key # None
      BY <2>1 DEF PairsCore, Pairs!DeletionInv, Pairs!TypeOK, Pairs!KeyPairsAssumption
    <2>4. QED
      BY <2>1, <2>2, <2>3 DEF Pairs!DeletionInv, Pairs!Current
  <1>9. QED
    BY <1>3, <1>4, <1>5, <1>6, <1>7, <1>8 DEF PairsCore

\* The key of an upload comes to Nova, which had none of that name; the request goes on
\* to save it, or ends and leaves it there.
LEMMA NovaMade ==
    ASSUME Pairs!KeyPairsAssumption, PairsCore, NEW r \in Requests,
           keyReq[r].pc = "nova", nova = None,
           NEW q \in Pairs!Request, PairBecomes(r, q),
           \/ q.pc = "idle" /\ keyReq[r].key \in left'
           \/ q.pc = "save" /\ q.key = keyReq[r].key /\ q.owner = keyReq[r].owner,
           nova' = keyReq[r].key,
           left \subseteq left', left' \subseteq made,
           UNCHANGED <<row, made, keyAcked, keyCondemned, keyHalfDone, struck, undone, unlisted>>,
           keyFaults' \in 0 .. MaxFaults
    PROVE  PairsCore'
  <1> DEFINE k == keyReq[r].key
  <1>1. /\ k \in made \ keyAcked /\ k \in Keys /\ keyReq[r].owner \in Objects /\ ~Pairs!Current(k)
        /\ \A t \in Requests : keyReq[t].pc \in Pairs!Deleting => keyReq[t].key # k
        /\ \A t \in Requests : keyReq[t].pc \in Pairs!Creating /\ keyReq[t].key = k => t = r
    BY DEF PairsCore, Pairs!CreationInv, Pairs!Creating, Pairs!TypeOK
  <1>2. Pairs!TypeOK'
    BY <1>1 DEF PairsCore, Pairs!TypeOK, PairBecomes
  <1>3. NoOrphan' /\ Pairs!StoresInv'
    BY <1>1 DEF PairsCore, NoOrphan, Held, Pairs!StoresInv, PairBecomes
  <1>4. HasKey'
    <2> SUFFICES ASSUME row # None
                 PROVE  \/ row.key \in keyHalfDone \cup struck \cup undone
                        \/ Held(row.key, {"deleteRow"})'
      BY DEF HasKey
    <2>1. row.key # None
      BY DEF PairsCore, Pairs!TypeOK, Pairs!KeyPairsAssumption
    <2>2. QED
      BY <2>1 DEF PairsCore, HasKey, Held, PairBecomes
  <1>5. Pairs!AckedKeyKept' /\ Pairs!UndoTakesOwnKey'
    BY DEF PairsCore, Pairs!AckedKeyKept, Pairs!UndoTakesOwnKey, Pairs!Current, Pairs!TypeOK,
           Pairs!KeyPairsAssumption
  <1>6. \A u \in Requests :
            /\ keyReq'[u].pc \in Pairs!Creating =>
                keyReq[u].pc \in Pairs!Creating /\ keyReq'[u].key = keyReq[u].key
            /\ keyReq'[u].pc \in Pairs!Deleting => keyReq'[u] = keyReq[u]
    BY DEF PairBecomes, Pairs!Creating, Pairs!Deleting
  <1>7. ASSUME NEW t \in Requests PROVE Pairs!CreationInv(t)'
    <2>1. CASE t = r
      <3>1. keyReq'[t] = q
        BY <2>1 DEF PairBecomes
      <3>2. CASE q.pc = "idle"
        BY <3>1, <3>2 DEF Pairs!CreationInv, Pairs!Creating
      <3>3. CASE q.pc = "save" /\ q.key = k /\ q.owner = keyReq[r].owner
        BY <1>1, <1>6, <2>1, <3>1, <3>3 DEF Pairs!CreationInv, Pairs!Current
      <3>4. QED
        BY <3>2, <3>3
    <2>2. CASE t # r /\ keyReq[t].pc \in Pairs!Creating
      <3>1. Pairs!CreationInv(t) /\ keyReq'[t] = keyReq[t] /\ keyReq[t].key # k
        BY <1>1, <2>2 DEF PairsCore, PairBecomes
      <3>2. keyReq[t].key # None
        BY <2>2, <3>1 DEF PairsCore, Pairs!TypeOK, Pairs!CreationInv, Pairs!KeyPairsAssumption
      <3>3. QED
        BY <1>6, <2>2, <3>1, <3>2 DEF Pairs!CreationInv, Pairs!Current
    <2>3. CASE t # r /\ keyReq[t].pc \notin Pairs!Creating
      BY <2>3 DEF Pairs!CreationInv, PairBecomes
    <2>4. QED
      BY <2>1, <2>2, <2>3
  <1>8. ASSUME NEW t \in Requests PROVE Pairs!DeletionInv(t)'
    BY <1>1, <1>6 DEF PairsCore, Pairs!DeletionInv, Pairs!Current
  <1>9. QED
    BY <1>2, <1>3, <1>4, <1>5, <1>7, <1>8 DEF PairsCore

\* The row of an upload comes; the request ends with an answer, or takes it for a failure.
LEMMA RowMade ==
    ASSUME Pairs!KeyPairsAssumption, PairsCore, NEW r \in Requests,
           keyReq[r].pc = "save", row = None,
           NEW q \in Pairs!Request, PairBecomes(r, q),
           \/ /\ q.pc = "idle"
              /\ keyAcked' = keyAcked \cup {keyReq[r].key} /\ keyHalfDone' = keyHalfDone
           \/ /\ q.pc = "undo" /\ q.key = keyReq[r].key /\ q.owner = keyReq[r].owner
              /\ keyAcked' = keyAcked /\ keyHalfDone' = keyHalfDone \cup {keyReq[r].key},
           row' = [owner |-> keyReq[r].owner, key |-> keyReq[r].key],
           UNCHANGED <<nova, made, keyCondemned, left, struck, undone, unlisted>>,
           keyFaults' \in 0 .. MaxFaults
    PROVE  PairsCore'
  <1> DEFINE k == keyReq[r].key
  <1>1. /\ k \in made \ keyAcked /\ k \in Keys /\ keyReq[r].owner \in Objects
        /\ \A t \in Requests : keyReq[t].pc \in Pairs!Deleting => keyReq[t].key # k
        /\ \A t \in Requests : keyReq[t].pc \in Pairs!Creating /\ keyReq[t].key = k => t = r
        /\ nova = k \/ k \in struck \cup undone
    BY DEF PairsCore, Pairs!CreationInv, Pairs!Creating, Pairs!TypeOK
  <1>2. row' # None /\ row'.key = k /\ row'.owner = keyReq[r].owner
        /\ row' \in [owner : Objects, key : Keys]
    BY <1>1 DEF Pairs!KeyPairsAssumption
  <1>3. Pairs!TypeOK'
    BY <1>1, <1>2 DEF PairsCore, Pairs!TypeOK, PairBecomes
  <1>4. NoOrphan'
    BY <1>2 DEF PairsCore, NoOrphan, Held, Pairs!Current, PairBecomes
  <1>5. HasKey'
    BY <1>1, <1>2 DEF HasKey
  <1>6. Pairs!AckedKeyKept'
    BY <1>1, <1>2 DEF PairsCore, Pairs!AckedKeyKept, Pairs!Current
  <1>7. Pairs!StoresInv' /\ Pairs!UndoTakesOwnKey'
    BY <1>1, <1>2 DEF PairsCore, Pairs!StoresInv, Pairs!UndoTakesOwnKey
  <1>8. \A u \in Requests :
            /\ keyReq'[u].pc \in Pairs!Creating =>
                keyReq[u].pc \in Pairs!Creating /\ keyReq'[u].key = keyReq[u].key
            /\ keyReq'[u].pc \in Pairs!Deleting => keyReq'[u] = keyReq[u]
    BY DEF PairBecomes, Pairs!Creating, Pairs!Deleting
  <1>9. ASSUME NEW t \in Requests PROVE Pairs!CreationInv(t)'
    <2>1. CASE t = r
      <3>1. keyReq'[t] = q
        BY <2>1 DEF PairBecomes
      <3>2. CASE q.pc = "idle"
        BY <3>1, <3>2 DEF Pairs!CreationInv, Pairs!Creating
      <3>3. CASE q.pc = "undo"
        BY <1>1, <1>2, <1>8, <2>1, <3>1, <3>3 DEF Pairs!CreationInv, Pairs!Current
      <3>4. QED
        BY <3>2, <3>3
    <2>2. CASE t # r /\ keyReq[t].pc \in Pairs!Creating
      <3>1. Pairs!CreationInv(t) /\ keyReq'[t] = keyReq[t] /\ keyReq[t].key # k
        BY <1>1, <2>2 DEF PairsCore, PairBecomes
      <3>2. /\ keyHalfDone \subseteq keyHalfDone'
            /\ keyReq[t].key \in keyAcked' => keyReq[t].key \in keyAcked
        BY <3>1
      <3>3. QED
        BY <1>2, <1>8, <2>2, <3>1, <3>2 DEF Pairs!CreationInv, Pairs!Current
    <2>3. CASE t # r /\ keyReq[t].pc \notin Pairs!Creating
      BY <2>3 DEF Pairs!CreationInv, PairBecomes
    <2>4. QED
      BY <2>1, <2>2, <2>3
  <1>10. ASSUME NEW t \in Requests PROVE Pairs!DeletionInv(t)'
    BY <1>1, <1>2, <1>8 DEF PairsCore, Pairs!DeletionInv, Pairs!Current
  <1>11. QED
    BY <1>3, <1>4, <1>5, <1>6, <1>7, <1>9, <1>10 DEF PairsCore

\* The row was not saved: the request turns to taking its key back.
LEMMA TurnsToUndo ==
    ASSUME PairsCore, NEW r \in Requests, keyReq[r].pc = "save",
           NEW q \in Pairs!Request, PairBecomes(r, q),
           q.pc = "undo", q.key = keyReq[r].key, q.owner = keyReq[r].owner,
           UNCHANGED <<row, nova, made, keyAcked, keyCondemned, left, keyHalfDone, struck,
               undone, unlisted>>,
           keyFaults' \in 0 .. MaxFaults
    PROVE  PairsCore'
  <1>1. Pairs!TypeOK'
    BY DEF PairsCore, Pairs!TypeOK, PairBecomes
  <1>2. NoOrphan'
    BY DEF PairsCore, NoOrphan, Held, Pairs!Current, PairBecomes
  <1>3. HasKey'
    BY DEF PairsCore, HasKey, Held, PairBecomes
  <1>4. Pairs!AckedKeyKept' /\ Pairs!UndoTakesOwnKey' /\ Pairs!StoresInv'
    BY DEF PairsCore, Pairs!AckedKeyKept, Pairs!UndoTakesOwnKey, Pairs!StoresInv, Pairs!Current
  <1>5. \A u \in Requests :
            /\ keyReq'[u].pc \in Pairs!Creating =>
                keyReq[u].pc \in Pairs!Creating /\ keyReq'[u].key = keyReq[u].key
            /\ keyReq'[u].pc \in Pairs!Deleting => keyReq'[u] = keyReq[u]
    BY DEF PairBecomes, Pairs!Creating, Pairs!Deleting
  <1>6. ASSUME NEW t \in Requests PROVE Pairs!CreationInv(t)'
    <2>1. Pairs!CreationInv(t)
      BY DEF PairsCore
    <2>2. CASE t = r
      <3>1. keyReq'[t] = q /\ keyReq[t].pc \in Pairs!Creating
        BY <2>2 DEF PairBecomes, Pairs!Creating
      <3>2. QED
        BY <1>5, <2>1, <2>2, <3>1 DEF Pairs!CreationInv, Pairs!Current
    <2>3. CASE t # r
      <3>1. keyReq'[t] = keyReq[t]
        BY <2>3 DEF PairBecomes
      <3>2. QED
        BY <1>5, <2>1, <2>3, <3>1 DEF Pairs!CreationInv, Pairs!Current
    <2>4. QED
      BY <2>2, <2>3
  <1>7. ASSUME NEW t \in Requests PROVE Pairs!DeletionInv(t)'
    BY <1>5 DEF PairsCore, Pairs!DeletionInv, Pairs!Current
  <1>8. QED
    BY <1>1, <1>2, <1>3, <1>4, <1>6, <1>7 DEF PairsCore

\* A deletion looks up the row of its owner: that key has left the hands of its creator,
\* unless the creator takes a row it saved for a failure.
LEMMA DeleteKeeps ==
    ASSUME Pairs!KeyPairsAssumption, PairsCore, NEW r \in Requests, NEW o \in Objects,
           NEW x \in Pairs!RowOf(o), Pairs!Delete(r, x)
    PROVE  PairsCore'
  <1>1. /\ row # None /\ x = row /\ row.owner \in Objects /\ row.key \in Keys /\ row.key \in made
        /\ Pairs!Current(row.key)
    BY DEF Pairs!RowOf, PairsCore, Pairs!TypeOK, Pairs!StoresInv, Pairs!Current
  <1> DEFINE k == row.key
             q == [pc |-> "drop", owner |-> row.owner, key |-> k]
  <1>2. q \in Pairs!Request /\ q.pc = "drop" /\ q.owner = row.owner /\ q.key = k
    BY <1>1 DEF Pairs!Request, Pairs!PC
  <1>3. PairBecomes(r, q)
    BY <1>1, <1>2, PairMoves DEF Pairs!Delete, PairsCore
  <1> HIDE DEF q
  <1>4. /\ keyReq[r].pc = "idle" /\ keyCondemned' = keyCondemned \cup {k}
        /\ UNCHANGED <<row, nova, keyFaults, made, keyAcked, left, keyHalfDone, struck, undone,
               unlisted>>
    BY <1>1 DEF Pairs!Delete
  <1>5. Pairs!TypeOK'
    BY <1>1, <1>3, <1>4 DEF PairsCore, Pairs!TypeOK, PairBecomes
  <1>6. NoOrphan' /\ HasKey'
    BY <1>2, <1>3, <1>4 DEF PairsCore, NoOrphan, HasKey, Held, Pairs!Current, PairBecomes
  <1>7. Pairs!AckedKeyKept' /\ Pairs!UndoTakesOwnKey' /\ Pairs!StoresInv'
    BY <1>4 DEF PairsCore, Pairs!AckedKeyKept, Pairs!UndoTakesOwnKey, Pairs!StoresInv,
           Pairs!Current
  <1>8. \A u \in Requests :
            /\ keyReq'[u].pc \in Pairs!Creating => keyReq'[u] = keyReq[u]
            /\ keyReq'[u].pc \in Pairs!Deleting =>
                (keyReq[u].pc \in Pairs!Deleting /\ keyReq'[u] = keyReq[u]) \/ keyReq'[u] = q
    BY <1>2, <1>3 DEF PairBecomes, Pairs!Creating, Pairs!Deleting
  <1>9. ASSUME NEW t \in Requests PROVE Pairs!CreationInv(t)'
    BY <1>1, <1>2, <1>4, <1>8 DEF PairsCore, Pairs!CreationInv, Pairs!Current
  <1>10. ASSUME NEW t \in Requests PROVE Pairs!DeletionInv(t)'
    <2>1. Pairs!DeletionInv(t)
      BY DEF PairsCore
    <2>2. CASE keyReq'[t] = q
      BY <1>2, <1>4, <2>2 DEF Pairs!DeletionInv, Pairs!Current
    <2>3. CASE keyReq'[t] # q
      BY <1>4, <1>8, <2>1, <2>3 DEF Pairs!DeletionInv, Pairs!Current
    <2>4. QED
      BY <2>2, <2>3
  <1>11. QED
    BY <1>5, <1>6, <1>7, <1>9, <1>10 DEF PairsCore

\* The row goes, by owner and name: the one the deletion has looked up, whose key is not
\* in Nova any more, or another one, and then this is known.
LEMMA DeleteRowKeeps ==
    ASSUME Pairs!KeyPairsAssumption, PairsCore, NEW r \in Requests, Pairs!DeleteRow(r)
    PROVE  PairsCore'
  <1>1. /\ keyReq[r].pc = "deleteRow" /\ PairBecomes(r, Pairs!Idle) /\ keyFaults' \in 0 .. MaxFaults
        /\ UNCHANGED <<nova, keyFaults, made, keyAcked, keyCondemned, left, keyHalfDone, struck,
               undone>>
    BY PairMoves DEF Pairs!DeleteRow, PairsCore, Pairs!TypeOK
  <1> DEFINE k == keyReq[r].key
  <1>2. k \in keyCondemned /\ (Pairs!Current(k) => row.owner = keyReq[r].owner) /\ nova # k
    BY <1>1 DEF PairsCore, Pairs!DeletionInv, Pairs!Deleting
  <1>3. CASE Pairs!RowOf(keyReq[r].owner) = {}
    <2>1. row' = row /\ unlisted' = unlisted
      BY <1>3 DEF Pairs!DeleteRow
    <2>2. ~Pairs!Current(k)
      BY <1>2, <1>3 DEF Pairs!RowOf, Pairs!Current
    <2>3. left \subseteq made /\ keyHalfDone \subseteq made
      BY DEF PairsCore, Pairs!TypeOK
    <2>4. QED
      BY <1>1, <2>1, <2>2, <2>3, EndsQuietly
  <1>4. CASE Pairs!RowOf(keyReq[r].owner) # {}
    <2>1. /\ row # None /\ row' = None /\ row.owner = keyReq[r].owner
          /\ unlisted' = unlisted \cup ({row.key} \ {k})
      <3>1. row # None /\ row.owner = keyReq[r].owner /\ Pairs!RowOf(keyReq[r].owner) = {row}
        BY <1>4 DEF Pairs!RowOf
      <3>2. QED
        BY <3>1 DEF Pairs!DeleteRow
    <2>2. row.key \in made
      BY <2>1 DEF PairsCore, Pairs!StoresInv
    <2>3. Pairs!Idle.pc = "idle"
      BY DEF Pairs!Idle
    <2>4. Pairs!TypeOK'
      BY <1>1, <2>1, <2>2 DEF PairsCore, Pairs!TypeOK, PairBecomes
    <2>5. NoOrphan'
      BY <1>1, <1>2, <2>1 DEF PairsCore, NoOrphan, Held, Pairs!Current, PairBecomes
    <2>6. HasKey' /\ Pairs!UndoTakesOwnKey' /\ Pairs!StoresInv'
      BY <1>1, <2>1 DEF PairsCore, HasKey, Pairs!UndoTakesOwnKey, Pairs!StoresInv
    <2>7. Pairs!AckedKeyKept'
      BY <1>1, <1>2, <2>1 DEF PairsCore, Pairs!AckedKeyKept, Pairs!Current
    <2>8. \A u \in Requests :
              keyReq'[u].pc \in Pairs!Creating \cup Pairs!Deleting => keyReq'[u] = keyReq[u]
      BY <1>1, <2>3 DEF PairBecomes, Pairs!Creating, Pairs!Deleting
    <2>9. ASSUME NEW t \in Requests PROVE Pairs!CreationInv(t)'
      BY <1>1, <2>1, <2>8 DEF PairsCore, Pairs!CreationInv, Pairs!Current
    <2>10. ASSUME NEW t \in Requests PROVE Pairs!DeletionInv(t)'
      BY <1>1, <2>1, <2>8 DEF PairsCore, Pairs!DeletionInv, Pairs!Current
    <2>11. QED
      BY <2>4, <2>5, <2>6, <2>7, <2>9, <2>10 DEF PairsCore
  <1>5. QED
    BY <1>3, <1>4

\* The process dies: what was in a request's hands is left in Nova, or as a row.
LEMMA CrashKeeps ==
    ASSUME PairsCore, Pairs!Crash, keyFaults' \in 0 .. MaxFaults
    PROVE  PairsCore'
  <1>1. /\ UNCHANGED <<row, nova, made, keyAcked, keyCondemned, struck, undone, unlisted>>
        /\ left' = left \cup Pairs!KeysAt({"save", "undo"})
        /\ keyHalfDone' = keyHalfDone \cup Pairs!KeysAt({"deleteRow"})
    BY DEF Pairs!Crash
  <1>2. Pairs!Idle \in Pairs!Request /\ Pairs!Idle.pc = "idle"
    BY DEF Pairs!Idle, Pairs!Request, Pairs!PC
  <1>3. keyReq' \in [Requests -> Pairs!Request] /\ \A t \in Requests : keyReq'[t].pc = "idle"
    BY <1>2 DEF Pairs!Crash
  <1>4. \A t \in Requests : keyReq[t].pc \in {"save", "undo", "deleteRow"} => keyReq[t].key \in made
    BY DEF PairsCore, Pairs!CreationInv, Pairs!DeletionInv, Pairs!Creating, Pairs!Deleting,
           Pairs!TypeOK
  <1>5. left' \subseteq made /\ keyHalfDone' \subseteq made
    BY <1>1, <1>4, KeysHeld DEF Held, PairsCore, Pairs!TypeOK
  <1>6. Pairs!TypeOK'
    BY <1>1, <1>3, <1>5 DEF PairsCore, Pairs!TypeOK
  <1>7. NoOrphan' /\ HasKey'
    BY <1>1, KeysHeld DEF PairsCore, NoOrphan, HasKey, Pairs!Current
  <1>8. Pairs!AckedKeyKept' /\ Pairs!UndoTakesOwnKey' /\ Pairs!StoresInv'
    BY <1>1 DEF PairsCore, Pairs!AckedKeyKept, Pairs!UndoTakesOwnKey, Pairs!StoresInv,
           Pairs!Current
  <1>9. \A t \in Requests : Pairs!CreationInv(t)' /\ Pairs!DeletionInv(t)'
    BY <1>3 DEF Pairs!CreationInv, Pairs!DeletionInv, Pairs!Creating, Pairs!Deleting
  <1>10. QED
    BY <1>6, <1>7, <1>8, <1>9 DEF PairsCore

\* The steps of CreateKeyPair after the look-up.
LEMMA CreationKeeps ==
    ASSUME Pairs!KeyPairsAssumption, PairsCore, NEW r \in Requests,
           \/ Pairs!CreateNova(r) \/ Pairs!CreateNovaFails(r) \/ Pairs!SaveKeyPair(r)
           \/ Pairs!SaveFails(r) \/ Pairs!Undo(r) \/ Pairs!UndoFails(r)
    PROVE  PairsCore'
  <1> DEFINE k == keyReq[r].key
             To(pc) == [pc |-> pc, owner |-> keyReq[r].owner, key |-> k]
  <1>1. /\ keyFaults \in 0 .. MaxFaults /\ keyReq[r] \in Pairs!Request
        /\ left \subseteq made /\ keyHalfDone \subseteq made /\ struck \subseteq made
        /\ undone \subseteq made
    BY DEF PairsCore, Pairs!TypeOK
  <1>2. keyReq[r].pc \in Pairs!Creating => k \in made
    BY DEF PairsCore, Pairs!CreationInv
  <1>3. Pairs!Fault => keyFaults' \in 0 .. MaxFaults
    BY <1>1 DEF Pairs!Fault, Pairs!KeyPairsAssumption
  <1>4. ASSUME NEW pc \in Pairs!PC
        PROVE  /\ To(pc) \in Pairs!Request /\ To(pc).pc = pc /\ To(pc).key = k
               /\ To(pc).owner = keyReq[r].owner
               /\ Pairs!Go(r, pc) => PairBecomes(r, To(pc))
    BY <1>1, PairMoves DEF Pairs!Request, PairsCore
  <1>5. Pairs!End(r) => PairBecomes(r, Pairs!Idle)
    BY PairMoves DEF PairsCore
  <1>6. "save" \in Pairs!PC /\ "undo" \in Pairs!PC
    BY DEF Pairs!PC
  <1>7. Pairs!Idle \in Pairs!Request /\ Pairs!Idle.pc = "idle"
    BY DEF Pairs!Idle, Pairs!Request, Pairs!PC
  <1> HIDE DEF To
  <1>8. CASE Pairs!CreateNova(r)
    <2>1. keyReq[r].pc = "nova"
          /\ UNCHANGED <<row, keyFaults, made, keyAcked, keyCondemned, left, keyHalfDone, struck,
                 undone, unlisted>>
      BY <1>8 DEF Pairs!CreateNova, Pairs!history
    <2>2. CASE nova = None
      <3>1. nova' = k /\ Pairs!Go(r, "save")
        BY <1>8, <2>2 DEF Pairs!CreateNova
      <3>2. QED
        BY <1>1, <1>4, <1>6, <2>1, <2>2, <3>1, NovaMade
    <2>3. CASE nova # None
      <3>1. nova' = nova /\ Pairs!End(r)
        BY <1>8, <2>3 DEF Pairs!CreateNova
      <3>2. QED
        BY <1>1, <1>5, <2>1, <3>1, EndsQuietly
    <2>4. QED
      BY <2>2, <2>3
  <1>9. CASE Pairs!CreateNovaFails(r)
    <2>1. /\ keyReq[r].pc = "nova" /\ keyFaults' \in 0 .. MaxFaults /\ PairBecomes(r, Pairs!Idle)
          /\ UNCHANGED <<row, made, keyAcked, keyCondemned, keyHalfDone, struck, undone,
                 unlisted>>
      BY <1>3, <1>5, <1>9 DEF Pairs!CreateNovaFails
    <2>2. CASE UNCHANGED <<nova, left>>
      BY <1>1, <2>1, <2>2, EndsQuietly
    <2>3. CASE nova = None /\ nova' = k /\ left' = left \cup {k}
      <3>1. k \in made
        BY <1>2, <2>1 DEF Pairs!Creating
      <3>2. QED
        BY <1>1, <1>7, <2>1, <2>3, <3>1, NovaMade
    <2>4. QED
      BY <1>9, <2>2, <2>3 DEF Pairs!CreateNovaFails
  <1>10. CASE Pairs!SaveKeyPair(r)
    <2>1. /\ keyReq[r].pc = "save"
          /\ UNCHANGED <<nova, keyFaults, made, keyCondemned, left, keyHalfDone, struck, undone,
                 unlisted>>
      BY <1>10 DEF Pairs!SaveKeyPair
    <2>2. CASE row = None
      <3>1. /\ row' = [owner |-> keyReq[r].owner, key |-> k] /\ keyAcked' = keyAcked \cup {k}
            /\ PairBecomes(r, Pairs!Idle)
        BY <1>5, <1>10, <2>2 DEF Pairs!SaveKeyPair
      <3>2. QED
        BY <1>1, <1>7, <2>1, <2>2, <3>1, RowMade
    <2>3. CASE row # None
      <3>1. UNCHANGED <<row, keyAcked>> /\ PairBecomes(r, To("undo"))
        BY <1>4, <1>6, <1>10, <2>3 DEF Pairs!SaveKeyPair
      <3>2. QED
        BY <1>1, <1>4, <1>6, <2>1, <3>1, TurnsToUndo
    <2>4. QED
      BY <2>2, <2>3
  <1>11. CASE Pairs!SaveFails(r)
    <2>1. /\ keyReq[r].pc = "save" /\ keyFaults' \in 0 .. MaxFaults /\ PairBecomes(r, To("undo"))
          /\ UNCHANGED <<nova, made, keyAcked, keyCondemned, left, struck, undone, unlisted>>
      BY <1>3, <1>4, <1>6, <1>11 DEF Pairs!SaveFails
    <2>2. CASE UNCHANGED <<row, keyHalfDone>>
      BY <1>4, <1>6, <2>1, <2>2, TurnsToUndo
    <2>3. CASE /\ row = None /\ row' = [owner |-> keyReq[r].owner, key |-> k]
               /\ keyHalfDone' = keyHalfDone \cup {k}
      BY <1>4, <1>6, <2>1, <2>3, RowMade
    <2>4. QED
      BY <1>11, <2>2, <2>3 DEF Pairs!SaveFails
  <1>12. CASE Pairs!Undo(r)
    <2>1. /\ keyReq[r].pc = "undo" /\ PairBecomes(r, Pairs!Idle) /\ nova' = None
          /\ undone' = undone \cup Pairs!Stray(r)
          /\ UNCHANGED <<row, keyFaults, made, keyAcked, keyCondemned, left, keyHalfDone, struck,
                 unlisted>>
      BY <1>5, <1>12 DEF Pairs!Undo
    <2>2. Pairs!Stray(r) \subseteq made
      BY DEF Pairs!Stray, PairsCore, Pairs!StoresInv
    <2>3. /\ nova = k \/ k \in struck \cup undone \cup keyHalfDone
          /\ Pairs!Current(k) => k \in keyHalfDone
      BY <2>1 DEF PairsCore, Pairs!CreationInv, Pairs!Creating
    <2>4. Pairs!UndoTakesOwnKey'
      BY <2>1, <2>3 DEF PairsCore, Pairs!UndoTakesOwnKey, Pairs!Stray
    <2>5. QED
      BY <1>1, <1>7, <2>1, <2>2, <2>3, <2>4, NovaRemoved
  <1>13. CASE Pairs!UndoFails(r)
    <2>1. /\ keyReq[r].pc = "undo" /\ keyFaults' \in 0 .. MaxFaults /\ PairBecomes(r, Pairs!Idle)
          /\ left' = left \cup {k}
          /\ UNCHANGED <<row, nova, made, keyAcked, keyCondemned, keyHalfDone, struck, undone,
                 unlisted>>
      BY <1>3, <1>5, <1>13 DEF Pairs!UndoFails
    <2>2. k \in made
      BY <1>2, <2>1 DEF Pairs!Creating
    <2>3. QED
      BY <1>1, <2>1, <2>2, EndsQuietly
  <1>14. QED
    BY <1>8, <1>9, <1>10, <1>11, <1>12, <1>13

\* The steps of DeleteKeyPair before the row is deleted, and their failures.
LEMMA DeletionKeeps ==
    ASSUME Pairs!KeyPairsAssumption, PairsCore, NEW r \in Requests,
           Pairs!DropNova(r) \/ Pairs!DropNovaFails(r) \/ Pairs!DeleteRowFails(r)
    PROVE  PairsCore'
  <1> DEFINE k == keyReq[r].key
             q == [pc |-> "deleteRow", owner |-> keyReq[r].owner, key |-> k]
  <1>1. /\ keyFaults \in 0 .. MaxFaults /\ keyReq[r] \in Pairs!Request
        /\ left \subseteq made /\ keyHalfDone \subseteq made /\ struck \subseteq made
        /\ undone \subseteq made
    BY DEF PairsCore, Pairs!TypeOK
  <1>2. keyReq[r].pc \in Pairs!Deleting => k \in made
    BY DEF PairsCore, Pairs!DeletionInv, Pairs!TypeOK
  <1>3. Pairs!Fault => keyFaults' \in 0 .. MaxFaults
    BY <1>1 DEF Pairs!Fault, Pairs!KeyPairsAssumption
  <1>4. /\ q \in Pairs!Request /\ q.pc = "deleteRow" /\ q.key = k /\ q.owner = keyReq[r].owner
        /\ Pairs!Go(r, "deleteRow") => PairBecomes(r, q)
    <2>1. "deleteRow" \in Pairs!PC
      BY DEF Pairs!PC
    <2>2. QED
      BY <1>1, <2>1, PairMoves DEF Pairs!Request, PairsCore
  <1>5. /\ Pairs!End(r) => PairBecomes(r, Pairs!Idle)
        /\ Pairs!Idle \in Pairs!Request /\ Pairs!Idle.pc = "idle"
    BY PairMoves DEF PairsCore, Pairs!Idle, Pairs!Request, Pairs!PC
  <1> HIDE DEF q
  <1>6. Pairs!Stray(r) \subseteq made
    BY DEF Pairs!Stray, PairsCore, Pairs!StoresInv
  <1>7. CASE Pairs!DropNova(r)
    <2>1. /\ keyReq[r].pc = "drop" /\ PairBecomes(r, q) /\ nova' = None
          /\ struck' = struck \cup Pairs!Stray(r)
          /\ UNCHANGED <<row, keyFaults, made, keyAcked, keyCondemned, left, keyHalfDone, undone,
                 unlisted>>
      BY <1>4, <1>7 DEF Pairs!DropNova
    <2>2. Pairs!UndoTakesOwnKey'
      BY <2>1 DEF PairsCore, Pairs!UndoTakesOwnKey
    <2>3. QED
      BY <1>1, <1>4, <1>6, <2>1, <2>2, NovaRemoved
  <1>8. CASE Pairs!DropNovaFails(r)
    <2>1. /\ keyReq[r].pc = "drop" /\ PairBecomes(r, Pairs!Idle) /\ keyFaults' \in 0 .. MaxFaults
          /\ UNCHANGED <<row, made, keyAcked, keyCondemned, left, undone, unlisted>>
      BY <1>3, <1>5, <1>8 DEF Pairs!DropNovaFails
    <2>2. CASE UNCHANGED <<nova, struck, keyHalfDone>>
      BY <1>1, <2>1, <2>2, EndsQuietly
    <2>3. CASE /\ nova' = None /\ struck' = struck \cup Pairs!Stray(r)
               /\ keyHalfDone' = keyHalfDone \cup {k}
      <3>1. k \in made
        BY <1>2, <2>1 DEF Pairs!Deleting
      <3>2. Pairs!UndoTakesOwnKey'
        BY <2>1, <2>3 DEF PairsCore, Pairs!UndoTakesOwnKey
      <3>3. QED
        BY <1>1, <1>5, <1>6, <2>1, <2>3, <3>1, <3>2, NovaRemoved
    <2>4. QED
      BY <1>8, <2>2, <2>3 DEF Pairs!DropNovaFails
  <1>9. CASE Pairs!DeleteRowFails(r)
    <2>1. /\ keyReq[r].pc = "deleteRow" /\ keyFaults' \in 0 .. MaxFaults
          /\ PairBecomes(r, Pairs!Idle) /\ keyHalfDone' = keyHalfDone \cup {k}
          /\ UNCHANGED <<row, nova, made, keyAcked, keyCondemned, left, struck, undone, unlisted>>
      BY <1>3, <1>5, <1>9 DEF Pairs!DeleteRowFails
    <2>2. k \in made
      BY <1>2, <2>1 DEF Pairs!Deleting
    <2>3. QED
      BY <1>1, <2>1, <2>2, EndsQuietly
  <1>10. QED
    BY <1>7, <1>8, <1>9

\* Rows and keys in Nova belong together: whatever requests of several owners do under
\* one name, whatever fails and whenever the process dies, a key without its row and a
\* row without its key have a failure or an overlapping deletion behind them, and a key
\* that was acknowledged stays until its owner deletes it (access/service.go:62).
THEOREM KeyPairsSound ==
    ASSUME Pairs!KeyPairsAssumption PROVE Pairs!Spec => []KeyPairsInv
  <1>1. Pairs!Init => PairsCore
    <2> SUFFICES ASSUME Pairs!Init PROVE PairsCore
      OBVIOUS
    <2>1. Pairs!Idle \in Pairs!Request /\ Pairs!Idle.pc = "idle"
      BY DEF Pairs!Idle, Pairs!Request, Pairs!PC
    <2>2. Pairs!TypeOK
      BY <2>1 DEF Pairs!Init, Pairs!TypeOK, Pairs!KeyPairsAssumption
    <2>3. /\ NoOrphan /\ HasKey /\ Pairs!AckedKeyKept /\ Pairs!UndoTakesOwnKey
          /\ Pairs!StoresInv
      BY DEF Pairs!Init, NoOrphan, HasKey, Pairs!AckedKeyKept, Pairs!UndoTakesOwnKey,
             Pairs!StoresInv
    <2>4. \A r \in Requests : Pairs!CreationInv(r) /\ Pairs!DeletionInv(r)
      BY <2>1 DEF Pairs!Init, Pairs!CreationInv, Pairs!DeletionInv, Pairs!Creating,
             Pairs!Deleting
    <2>5. QED
      BY <2>2, <2>3, <2>4 DEF PairsCore
  <1>2. PairsCore /\ [Pairs!Next]_Pairs!vars => PairsCore'
    <2> SUFFICES ASSUME PairsCore, [Pairs!Next]_Pairs!vars PROVE PairsCore'
      OBVIOUS
    <2>1. CASE UNCHANGED Pairs!vars
      <3>1. UNCHANGED <<row, nova, keyReq, keyFaults, made, keyAcked, keyCondemned, left,
          keyHalfDone,
                        struck, undone, unlisted>>
        BY <2>1 DEF Pairs!vars
      <3>2. Pairs!TypeOK'
        BY <3>1 DEF PairsCore, Pairs!TypeOK
      <3>3. NoOrphan' /\ HasKey'
        BY <3>1 DEF PairsCore, NoOrphan, HasKey, Held, Pairs!Current
      <3>4. Pairs!AckedKeyKept' /\ Pairs!UndoTakesOwnKey' /\ Pairs!StoresInv'
        BY <3>1 DEF PairsCore, Pairs!AckedKeyKept, Pairs!UndoTakesOwnKey, Pairs!StoresInv,
               Pairs!Current
      <3>5. ASSUME NEW r \in Requests PROVE Pairs!CreationInv(r)' /\ Pairs!DeletionInv(r)'
        BY <3>1 DEF PairsCore, Pairs!CreationInv, Pairs!DeletionInv, Pairs!Current
      <3>6. QED
        BY <3>2, <3>3, <3>4, <3>5 DEF PairsCore
    <2>2. CASE Pairs!Crash
      <3>1. keyFaults' \in 0 .. MaxFaults
        BY <2>2 DEF Pairs!Crash, Pairs!Fault, PairsCore, Pairs!TypeOK, Pairs!KeyPairsAssumption
      <3>2. QED
        BY <2>2, <3>1, CrashKeeps
    <2>3. CASE Pairs!Next /\ ~Pairs!Crash
      BY <2>3, CreateKeeps, CreationKeeps, DeleteKeeps, DeletionKeeps, DeleteRowKeeps
      DEF Pairs!Next
    <2>4. QED
      BY <2>1, <2>2, <2>3
  <1>3. PairsCore => Pairs!KeyPairsInv
    BY PairsCoreSame
  <1>4. QED
    BY <1>1, <1>2, <1>3, PTL DEF Pairs!Spec, KeyPairsInv

-----------------------------------------------------------------------------
(* Object storage *)

\* One request becomes q, the others stay as they are.
BlobBecomes(r, q) ==
    /\ q \in Request
    /\ req' \in [Requests -> Request]
    /\ req'[r] = q
    /\ \A t \in Requests \ {r} : req'[t] = req[t]

\* The assignments the steps make to a request.
LEMMA BlobMoves ==
    ASSUME TypeOK, NEW r \in Requests
    PROVE  /\ \A q \in Request : req' = [req EXCEPT ![r] = q] => BlobBecomes(r, q)
           /\ End(r) => BlobBecomes(r, Idle)
           /\ \A pc \in PC : Go(r, pc) =>
                BlobBecomes(r, [req[r] EXCEPT !.pc = pc])
  <1>1. req \in [Requests -> Request] /\ req[r] \in Request
    BY DEF TypeOK
  <1>2. \A q \in Request : req' = [req EXCEPT ![r] = q] => BlobBecomes(r, q)
    BY <1>1 DEF BlobBecomes
  <1>3. Idle \in Request
    BY DEF Idle, Request, PC
  <1>4. ASSUME NEW pc \in PC, Go(r, pc)
        PROVE  BlobBecomes(r, [req[r] EXCEPT !.pc = pc])
    <2>1. [req[r] EXCEPT !.pc = pc] \in Request
      BY <1>1 DEF Request
    <2>2. req' = [req EXCEPT ![r] = [req[r] EXCEPT !.pc = pc]]
      BY <1>4 DEF Go
    <2>3. QED
      BY <1>2, <2>1, <2>2
  <1>5. QED
    BY <1>2, <1>3, <1>4 DEF End

\* The container a request has in hand, to make it or to work on it; and what it knows, as
\* a statement about the request alone.
Has(q, s) == q.pc \in Making \cup Working /\ q.swift = s
Makes(q, s) == q.pc \in Making /\ q.swift = s
Drops(q, s) == q.pc = "deleteRow" /\ q.swift = s

Sees(q) ==
    /\ q.pc \in Making \cup Working => q.swift \in Swift
    /\ q.pc \in {"create"} \cup Making \cup Working => q.name \in Names
    /\ q.pc \in Making =>
        swift[q.swift] = "live" /\ objects[q.swift] = {} /\ ~Listed(q.swift)
    /\ q.pc \in Working =>
        /\ swift[q.swift] # "none"
        /\ \A x \in rows : x.swift = q.swift => x.name = q.name
    /\ q.pc = "bulk" => {q.swift} \X q.names \subseteq condemned
    /\ q.pc = "deleteRow" => swift[q.swift] = "gone"
    /\ q.pc = "undo" => q.swift \in halfDone

Apart ==
    \A r, t \in Requests : r # t =>
        \A s \in Swift : Makes(req[r], s) => ~Has(req[t], s)

\* The invariant in these terms.
BlobParts ==
    /\ TypeOK /\ RowHasContainer /\ NoSilentOrphan /\ AckedUploadKept
    /\ RowsInv /\ Apart /\ \A r \in Requests : Sees(req[r])

\* The two readings agree.
LEMMA BlobInvParts == ContainersInv <=> BlobParts
  <1>1. ASSUME ContainersInv PROVE BlobParts
    BY <1>1 DEF ContainersInv, OwnershipInv, BlobParts, RequestInv, Sees, Apart, Makes, Has
  <1>2. ASSUME BlobParts PROVE ContainersInv
    BY <1>2 DEF ContainersInv, OwnershipInv, BlobParts, RequestInv, Sees, Apart, Makes, Has
  <1>3. QED
    BY <1>1, <1>2

\* A step touches one container c at most, which does not come back once it is gone; rows
\* go, or one comes that names c; and what is doomed stays so.
Touches(c) ==
    /\ \A s \in Swift \ {c} : swift'[s] = swift[s] /\ objects'[s] = objects[s]
    /\ swift[c] # "none" => swift'[c] # "none"
    /\ swift[c] = "gone" => swift'[c] = "gone"
    /\ \A x \in rows' : x \in rows \/ x.swift = c
    /\ condemned \subseteq condemned' /\ halfDone \subseteq halfDone'

\* Who does not make c knows what it knew, if it has nothing to do with c or c has no new row.
LEMMA SeesLater ==
    ASSUME NEW c, Touches(c), NEW q \in Request, Sees(q), ~Makes(q, c),
           ~Has(q, c) \/ rows' \subseteq rows
    PROVE  Sees(q)'
  <1>1. q.pc \in Making \cup Working => q.swift \in Swift
    BY DEF Sees
  <1>2. q.pc \in Making =>
            swift'[q.swift] = "live" /\ objects'[q.swift] = {} /\ ~Listed(q.swift)'
    BY <1>1 DEF Sees, Touches, Makes, Listed
  <1>3. q.pc \in Working =>
            swift'[q.swift] # "none" /\ \A x \in rows' : x.swift = q.swift => x.name = q.name
    BY <1>1 DEF Sees, Touches, Has
  <1>4. q.pc = "deleteRow" => swift'[q.swift] = "gone"
    BY <1>1 DEF Sees, Touches, Working
  <1>5. /\ q.pc = "bulk" => {q.swift} \X q.names \subseteq condemned'
        /\ q.pc = "undo" => q.swift \in halfDone'
    BY DEF Sees, Touches
  <1>6. QED
    BY <1>1, <1>2, <1>3, <1>4, <1>5 DEF Sees

\* A step of a request that keeps types, rows and uploads keeps the invariant, if what it
\* touches nobody else is making, the request sees what its next place asks for, and the
\* containers without a row and the rows without a container are accounted for.
LEMMA BlobStep ==
    ASSUME BlobParts, NEW r \in Requests, NEW q \in Request, BlobBecomes(r, q),
           NEW c, Touches(c),
           TypeOK', RowsInv', AckedUploadKept', Sees(q)',
           \A t \in Requests \ {r} : ~Makes(req[t], c),
           \A t \in Requests \ {r} : ~Has(req[t], c) \/ rows' \subseteq rows,
           \A t \in Requests \ {r}, s \in Swift :
                /\ Makes(q, s) => ~Has(req[t], s)
                /\ Makes(req[t], s) => ~Has(q, s),
           reported \subseteq reported', forgotten \subseteq forgotten', mixedUp \subseteq mixedUp',
           \A s \in Swift : swift'[s] = "live" /\ ~Listed(s)' =>
                \/ s \in reported' \cup forgotten' \cup mixedUp'
                \/ Makes(q, s)
                \/ swift[s] = "live" /\ ~Listed(s) /\ ~Makes(req[r], s),
           \A x \in rows' : swift'[x.swift] # "live" =>
                \/ x.swift \in halfDone'
                \/ Drops(q, x.swift)
                \/ x \in rows /\ swift[x.swift] # "live" /\ ~Drops(req[r], x.swift)
    PROVE  BlobParts'
  <1>1. \A t \in Requests \ {r} : req'[t] = req[t]
    BY DEF BlobBecomes
  <1>2. req'[r] = q
    BY DEF BlobBecomes
  <1>3. RowHasContainer'
    <2> SUFFICES ASSUME NEW x \in rows', swift'[x.swift] # "live", x.swift \notin halfDone'
                 PROVE  \E t \in Requests : Drops(req'[t], x.swift)
      BY DEF RowHasContainer, Drops, Touches
    <2>1. CASE Drops(q, x.swift)
      BY <1>2, <2>1
    <2>2. CASE x \in rows /\ swift[x.swift] # "live" /\ ~Drops(req[r], x.swift)
      <3>1. PICK t \in Requests : Drops(req[t], x.swift)
        BY <2>2 DEF BlobParts, RowHasContainer, Drops, Touches
      <3>2. QED
        BY <1>1, <2>2, <3>1
    <2>3. QED
      BY <2>1, <2>2
  <1>4. NoSilentOrphan'
    <2> SUFFICES ASSUME NEW s \in Swift, swift'[s] = "live", ~Listed(s)',
                        s \notin reported' \cup forgotten' \cup mixedUp'
                 PROVE  \E t \in Requests : Makes(req'[t], s)
      BY DEF NoSilentOrphan, Makes, Making
    <2>1. CASE Makes(q, s)
      BY <1>2, <2>1
    <2>2. CASE swift[s] = "live" /\ ~Listed(s) /\ ~Makes(req[r], s)
      <3>1. PICK t \in Requests : Makes(req[t], s)
        BY <2>2 DEF BlobParts, NoSilentOrphan, Makes, Making
      <3>2. QED
        BY <1>1, <2>2, <3>1
    <2>3. QED
      BY <2>1, <2>2
  <1>5. Apart'
    <2> SUFFICES ASSUME NEW t \in Requests, NEW u \in Requests, t # u, NEW s \in Swift,
                        Makes(req'[t], s)
                 PROVE  ~Has(req'[u], s)
      BY DEF Apart, Makes, Has
    <2>1. QED
      BY <1>1, <1>2 DEF Apart, BlobParts
  <1>6. ASSUME NEW t \in Requests PROVE Sees(req[t])'
    <2>1. CASE t = r
      BY <1>2, <2>1 DEF Sees
    <2>2. CASE t # r
      <3>1. PICK y \in Request : y = req[t]
        BY DEF BlobParts, TypeOK
      <3>2. Sees(y)'
        BY <2>2, <3>1, SeesLater DEF BlobParts
      <3>3. QED
        BY <1>1, <2>2, <3>1, <3>2 DEF Sees
    <2>3. QED
      BY <2>1, <2>2
  <1>7. QED
    BY <1>3, <1>4, <1>5, <1>6 DEF BlobParts

\* A request that is idle has nothing in hand.
LEMMA BlobIdle ==
    /\ Idle \in Request /\ Sees(Idle) /\ Sees(Idle)'
    /\ \A s : ~Has(Idle, s) /\ ~Makes(Idle, s) /\ ~Drops(Idle, s)
  BY DEF Idle, Request, PC, Sees, Has, Makes, Drops, Making, Working

\* Who makes a container has it, and no row names it; who drops one has it.
LEMMA InHand ==
    ASSUME BlobParts, NEW r \in Requests, NEW s \in Swift
    PROVE  /\ Makes(req[r], s) => /\ Has(req[r], s) /\ ~Listed(s)
                                  /\ swift[s] = "live" /\ objects[s] = {}
           /\ Has(req[r], s) => swift[s] # "none"
           /\ Drops(req[r], s) => Has(req[r], s) /\ swift[s] = "gone"
  BY DEF BlobParts, Sees, Makes, Has, Drops, Working, Making

\* A step that leaves both stores alone: the request moves on with what it has, looks a
\* container up in its row, or ends; what it was making is reported then, and what it was
\* about to drop from the table is half gone.
LEMMA BlobQuiet ==
    ASSUME ContainersAssumption, BlobParts,
           NEW r \in Requests, NEW q \in Request, BlobBecomes(r, q), Sees(q)',
           UNCHANGED <<rows, swift, objects, forgotten, mixedUp, acked>>,
           faults' \in 0 .. MaxFaults,
           reported \subseteq reported', reported' \subseteq Swift,
           halfDone \subseteq halfDone', halfDone' \subseteq Swift,
           condemned \subseteq condemned', condemned' \subseteq Swift \X Objects,
           \A s \in Swift : /\ Makes(req[r], s) => Makes(q, s) \/ s \in reported'
                            /\ Drops(req[r], s) => s \in halfDone'
                            /\ Makes(q, s) => Makes(req[r], s)
                            /\ Has(q, s) => Has(req[r], s) \/ Listed(s)
    PROVE  BlobParts'
  <1>1. Touches(None) /\ rows' \subseteq rows
    BY DEF Touches
  <1>2. TypeOK'
    BY DEF BlobParts, TypeOK, BlobBecomes
  <1>3. RowsInv' /\ AckedUploadKept'
    BY DEF BlobParts, RowsInv, AckedUploadKept
  <1>4. \A t \in Requests : ~Makes(req[t], None)
    BY DEF BlobParts, Sees, Makes, ContainersAssumption
  <1>5. \A s \in Swift : Listed(s)' <=> Listed(s)
    BY DEF Listed
  <1>6. ASSUME NEW t \in Requests \ {r}, NEW s \in Swift
        PROVE  /\ Makes(q, s) => ~Has(req[t], s)
               /\ Makes(req[t], s) => ~Has(q, s)
    BY InHand DEF BlobParts, Apart
  <1>7. \A s \in Swift : swift'[s] = "live" /\ ~Listed(s)' =>
            \/ s \in reported' \cup forgotten' \cup mixedUp'
            \/ Makes(q, s)
            \/ swift[s] = "live" /\ ~Listed(s) /\ ~Makes(req[r], s)
    BY <1>5
  <1>8. \A x \in rows' : swift'[x.swift] # "live" =>
            \/ x.swift \in halfDone'
            \/ Drops(q, x.swift)
            \/ x \in rows /\ swift[x.swift] # "live" /\ ~Drops(req[r], x.swift)
    <2>1. \A x \in rows : x.swift \in Swift
      BY DEF BlobParts, TypeOK, Row
    <2>2. QED
      BY <2>1
  <1>9. QED
    BY <1>1, <1>2, <1>3, <1>4, <1>6, <1>7, <1>8, BlobStep

\* The count of faults stays within its bound.
LEMMA BlobFault ==
    ASSUME ContainersAssumption, faults \in 0 .. MaxFaults, Fault
    PROVE  faults' \in 0 .. MaxFaults
  BY DEF ContainersAssumption, Fault

\* The requests that begin: with a free name, or with a row they have found.
LEMMA BlobStarts ==
    ASSUME ContainersAssumption, BlobParts, NEW r \in Requests,
           \/ \E n \in Names : Create(r, n)
           \/ \E x \in rows, padded, force \in BOOLEAN : Delete(r, x, padded, force)
           \/ \E x \in rows, o \in Objects, pc \in {"put", "remove"} :
                StartObject(r, x, o, pc)
    PROVE  BlobParts'
  <1>1. /\ req[r].pc = "idle" /\ UNCHANGED <<rows, swift, objects, forgotten, mixedUp, acked>>
        /\ UNCHANGED <<reported, halfDone, condemned>> /\ faults' = faults
    BY DEF Create, Delete, StartObject, history
  <1>2. /\ TypeOK /\ faults' \in 0 .. MaxFaults /\ reported' \subseteq Swift
        /\ halfDone' \subseteq Swift /\ condemned' \subseteq Swift \X Objects
    BY <1>1 DEF BlobParts, TypeOK
  <1>3. \A s \in Swift : ~Makes(req[r], s) /\ ~Drops(req[r], s)
    BY <1>1 DEF Makes, Drops, Making
  <1>4. ASSUME NEW q \in Request, req' = [req EXCEPT ![r] = q], Sees(q),
               \A s \in Swift : ~Makes(q, s) /\ (Has(q, s) => Listed(s))
        PROVE  BlobParts'
    <2>1. BlobBecomes(r, q)
      BY <1>2, <1>4, BlobMoves
    <2>2. Sees(q)'
      BY <1>1, <1>4 DEF Sees, Listed
    <2>3. QED
      BY <1>1, <1>2, <1>3, <1>4, <2>1, <2>2, BlobQuiet
  <1>5. ASSUME NEW n \in Names, Create(r, n)
        PROVE  BlobParts'
    <2> DEFINE q == [Idle EXCEPT !.pc = "create", !.name = n]
    <2>1. q \in Request /\ q.pc = "create" /\ q.name = n
      BY DEF Idle, Request, PC
    <2>2. req' = [req EXCEPT ![r] = q]
      BY <1>5 DEF Create
    <2> HIDE DEF q
    <2>3. Sees(q) /\ \A s \in Swift : ~Makes(q, s) /\ ~Has(q, s)
      BY <2>1 DEF Sees, Makes, Has, Making, Working
    <2>4. QED
      BY <1>4, <2>1, <2>2, <2>3
  <1>6. ASSUME NEW x \in rows, NEW q \in Request, req' = [req EXCEPT ![r] = q],
               q.pc \in {"list", "put", "remove"}, q.name = x.name, q.swift = x.swift
        PROVE  BlobParts'
    <2>1. x.swift \in Swift /\ x.name \in Names /\ swift[x.swift] # "none"
      BY DEF BlobParts, TypeOK, Row, RowsInv
    <2>2. \A y \in rows : y.swift = q.swift => y.name = q.name
      BY <1>6 DEF BlobParts, RowsInv
    <2>3. Sees(q) /\ \A s \in Swift : ~Makes(q, s) /\ (Has(q, s) => Listed(s))
      BY <1>6, <2>1, <2>2 DEF Sees, Makes, Has, Making, Working, Listed
    <2>4. QED
      BY <1>4, <1>6, <2>3
  <1>7. ASSUME NEW x \in rows, NEW padded \in BOOLEAN, NEW force \in BOOLEAN,
               Delete(r, x, padded, force)
        PROVE  BlobParts'
    <2> DEFINE q == [Idle EXCEPT !.pc = "list", !.name = x.name, !.swift = x.swift,
                                       !.padded = padded, !.force = force]
    <2>1. x \in Row
      BY <1>2 DEF TypeOK
    <2>2. q \in Request /\ q.pc = "list" /\ q.name = x.name /\ q.swift = x.swift
      BY <2>1 DEF Idle, Request, PC, Row
    <2>3. req' = [req EXCEPT ![r] = q]
      BY <1>7 DEF Delete
    <2> HIDE DEF q
    <2>4. QED
      BY <1>6, <2>2, <2>3
  <1>8. ASSUME NEW x \in rows, NEW o \in Objects, NEW pc \in {"put", "remove"},
               StartObject(r, x, o, pc)
        PROVE  BlobParts'
    <2> DEFINE q == [Idle EXCEPT !.pc = pc, !.name = x.name, !.swift = x.swift,
                                       !.names = {o}]
    <2>1. x \in Row
      BY <1>2 DEF TypeOK
    <2>2. q \in Request /\ q.pc = pc /\ q.name = x.name /\ q.swift = x.swift
      BY <2>1 DEF Idle, Request, PC, Row
    <2>3. req' = [req EXCEPT ![r] = q]
      BY <1>8 DEF StartObject
    <2> HIDE DEF q
    <2>4. QED
      BY <1>6, <2>2, <2>3
  <1>9. QED
    BY <1>5, <1>7, <1>8

\* A call that fails without effect; Swift that refuses the clean-up counts as one.
Refused(r) ==
    /\ req[r].pc \in {"cleanup", "undo"} /\ End(r)
    /\ reported' = reported \cup {req[r].swift}
    /\ UNCHANGED halfDone

\* The steps that leave both stores alone after that: a call fails, or the objects are
\* listed.
LEMMA BlobCalls ==
    ASSUME ContainersAssumption, BlobParts, NEW r \in Requests,
           UNCHANGED <<rows, swift, objects, forgotten, mixedUp, acked>>,
           faults' \in 0 .. MaxFaults,
           \/ CreateSwiftFails(r) \/ SaveFails(r) \/ Save(r)
           \/ ListObjects(r) \/ ListFails(r) \/ KeepRow(r) \/ ObjectFails(r)
           \/ Refused(r) /\ UNCHANGED condemned
           \/ DropFails(r) /\ UNCHANGED halfDone
    PROVE  BlobParts'
  <1> DEFINE p == req[r]
  <1>1. /\ TypeOK /\ p \in Request /\ Sees(p)
        /\ UNCHANGED <<rows, swift, objects, forgotten, mixedUp, acked>>
        /\ reported \subseteq Swift /\ halfDone \subseteq Swift
        /\ condemned \subseteq Swift \X Objects
    BY DEF BlobParts, TypeOK
  <1>2. faults' \in 0 .. MaxFaults
    OBVIOUS
  <1>3. ASSUME End(r), UNCHANGED condemned,
               reported \subseteq reported', reported' \subseteq Swift,
               halfDone \subseteq halfDone', halfDone' \subseteq Swift,
               p.pc \in Making => p.swift \in reported',
               p.pc = "deleteRow" => p.swift \in halfDone'
        PROVE  BlobParts'
    <2>1. BlobBecomes(r, Idle)
      BY <1>1, <1>3, BlobMoves
    <2>2. \A s \in Swift : /\ Makes(p, s) => s \in reported'
                           /\ Drops(p, s) => s \in halfDone'
      BY <1>3 DEF Makes, Drops
    <2>3. QED
      BY <1>1, <1>2, <1>3, <2>1, <2>2, BlobIdle, BlobQuiet
  <1>4. CASE CreateSwiftFails(r)
    BY <1>1, <1>3, <1>4 DEF CreateSwiftFails, Making
  <1>5. CASE Refused(r) /\ UNCHANGED condemned
    <2>1. p.pc \in {"cleanup", "undo"} /\ p.swift \in Swift
      BY <1>1, <1>5 DEF Refused, Sees, Making, Working
    <2>2. QED
      BY <1>1, <1>3, <1>5, <2>1 DEF Refused
  <1>6. CASE ListFails(r) \/ (DropFails(r) /\ UNCHANGED halfDone) \/ KeepRow(r)
    <2>1. p.pc \in {"list", "drop", "deleteRow"} /\ p.swift \in Swift
      BY <1>1, <1>6 DEF ListFails, DropFails, KeepRow, Sees, Working
    <2>2. QED
      BY <1>1, <1>3, <1>6, <2>1 DEF ListFails, DropFails, KeepRow, Making, history
  <1>7. CASE ObjectFails(r)
    BY <1>1, <1>3, <1>7 DEF ObjectFails, history, Making
  <1>8. CASE SaveFails(r) \/ Save(r)
    <2> DEFINE q == [p EXCEPT !.pc = "cleanup"]
    <2>1. p.pc = "save" /\ ~AddRow(r)
      <3>1. p.pc = "save"
        BY <1>8 DEF SaveFails, Save
      <3>2. PICK x : x = [name |-> p.name, swift |-> p.swift]
        OBVIOUS
      <3>3. x \notin rows
        BY <1>1, <3>1, <3>2 DEF Sees, Making, Listed
      <3>4. QED
        BY <1>1, <3>1, <3>2, <3>3 DEF AddRow
    <2>2. BlobBecomes(r, q) /\ UNCHANGED <<reported, halfDone, condemned>>
      BY <1>1, <1>8, <2>1, BlobMoves DEF SaveFails, Save, PC, history
    <2>3. q \in Request /\ q.pc = "cleanup" /\ q.swift = p.swift /\ q.name = p.name
      BY <1>1, <2>2 DEF Request, BlobBecomes
    <2>4. PICK x \in Request : x = q
      BY <2>3
    <2>5. Sees(x)
      BY <1>1, <2>1, <2>3, <2>4 DEF Sees, Making, Working
    <2>6. Sees(x)'
      BY <1>1, <2>2, <2>5 DEF Sees, Listed
    <2>7. \A s \in Swift : /\ Makes(p, s) <=> Makes(x, s)
                           /\ Has(p, s) <=> Has(x, s)
                           /\ ~Drops(p, s)
      BY <2>1, <2>3, <2>4 DEF Makes, Has, Drops, Making
    <2>8. QED
      BY <1>1, <1>2, <2>2, <2>4, <2>6, <2>7, BlobQuiet
  <1>9. CASE ListObjects(r)
    <2>1. p.pc = "list" /\ p.swift \in Swift /\ UNCHANGED <<reported, halfDone>>
      BY <1>1, <1>9 DEF ListObjects, Sees, Working
    <2>2. CASE End(r) /\ UNCHANGED condemned
      BY <1>1, <1>3, <2>1, <2>2 DEF Making
    <2>3. ASSUME NEW q \in Request, BlobBecomes(r, q), q.pc \in {"drop", "bulk"},
                 q.swift = p.swift, q.name = p.name, condemned \subseteq condemned',
                 condemned' \subseteq Swift \X Objects,
                 q.pc = "bulk" => {q.swift} \X q.names \subseteq condemned'
          PROVE  BlobParts'
      <3>1. Sees(q)'
        BY <1>1, <2>1, <2>3 DEF Sees, Making, Working
      <3>2. \A s \in Swift : /\ ~Makes(p, s) /\ ~Makes(q, s) /\ ~Drops(p, s)
                             /\ Has(p, s) <=> Has(q, s)
        BY <2>1, <2>3 DEF Makes, Has, Drops, Making, Working
      <3>3. QED
        BY <1>1, <1>2, <2>1, <2>3, <3>1, <3>2, BlobQuiet
    <2>4. CASE Go(r, "drop") /\ UNCHANGED condemned
      <3> DEFINE q == [p EXCEPT !.pc = "drop"]
      <3>1. BlobBecomes(r, q)
        BY <1>1, <2>4, BlobMoves DEF PC
      <3>2. q \in Request /\ q.pc = "drop" /\ q.swift = p.swift /\ q.name = p.name
        BY <1>1, <3>1 DEF Request, BlobBecomes
      <3>3. PICK x \in Request : x = q
        BY <3>2
      <3>4. QED
        BY <1>1, <2>3, <2>4, <3>1, <3>2, <3>3
    <2>5. CASE /\ req' = [req EXCEPT ![r].names = objects[p.swift], ![r].pc = "bulk"]
               /\ condemned' = condemned \cup ({p.swift} \X objects[p.swift])
      <3> DEFINE q == [p EXCEPT !.names = objects[p.swift], !.pc = "bulk"]
      <3>1. objects[p.swift] \subseteq Objects
        BY <1>1, <2>1 DEF TypeOK
      <3>2. /\ q \in Request /\ q.pc = "bulk" /\ q.swift = p.swift /\ q.name = p.name
            /\ q.names = objects[p.swift]
        BY <1>1, <3>1 DEF Request, PC
      <3>3. req' = [req EXCEPT ![r] = q]
        BY <1>1, <2>5 DEF TypeOK, Request
      <3>4. BlobBecomes(r, q)
        BY <1>1, <3>2, <3>3, BlobMoves
      <3>5. PICK x \in Request : x = q
        BY <3>2
      <3>6. /\ condemned \subseteq condemned' /\ condemned' \subseteq Swift \X Objects
            /\ {x.swift} \X x.names \subseteq condemned'
        BY <1>1, <2>1, <2>5, <3>1, <3>2, <3>5
      <3>7. QED
        BY <2>3, <3>2, <3>4, <3>5, <3>6
    <2>6. QED
      BY <1>9, <2>2, <2>4, <2>5 DEF ListObjects
  <1>10. QED
    BY <1>4, <1>5, <1>6, <1>7, <1>8, <1>9

\* A step on the request's own container c that keeps the rows.
LEMMA BlobWorks ==
    ASSUME BlobParts, NEW r \in Requests, NEW q \in Request, BlobBecomes(r, q),
           NEW c \in Swift, Has(req[r], c), Touches(c), UNCHANGED rows,
           TypeOK', AckedUploadKept', Sees(q)',
           \A s \in Swift : ~Makes(q, s) /\ ~Drops(req[r], s) /\ (Has(q, s) => s = c),
           UNCHANGED <<forgotten, mixedUp>>, reported \subseteq reported',
           Makes(req[r], c) => swift'[c] = "gone",
           swift'[c] = "live" => swift[c] = "live",
           swift'[c] # swift[c] => Makes(req[r], c) \/ Drops(q, c) \/ c \in halfDone'
    PROVE  BlobParts'
  <1>1. \A t \in Requests \ {r} : ~Makes(req[t], c)
    BY DEF BlobParts, Apart
  <1>2. RowsInv'
    BY DEF BlobParts, RowsInv, TypeOK, Row, Touches
  <1>3. \A s \in Swift : Listed(s)' <=> Listed(s)
    BY DEF Listed
  <1>4. \A s \in Swift \ {c} : swift'[s] = swift[s] /\ ~Makes(req[r], s)
    BY DEF Touches, Makes, Has
  <1>5. \A s \in Swift : swift'[s] = "live" /\ ~Listed(s)' =>
            swift[s] = "live" /\ ~Listed(s) /\ ~Makes(req[r], s)
    BY <1>3, <1>4
  <1>6. \A x \in rows' : swift'[x.swift] # "live" =>
            \/ x.swift \in halfDone'
            \/ Drops(q, x.swift)
            \/ x \in rows /\ swift[x.swift] # "live" /\ ~Drops(req[r], x.swift)
    <2>1. \A x \in rows : x.swift \in Swift
      BY DEF BlobParts, TypeOK, Row
    <2>2. \A x \in rows : ~Makes(req[r], x.swift)
      BY <2>1, InHand DEF Listed
    <2>3. QED
      BY <1>4, <2>1, <2>2
  <1>7. QED
    BY <1>1, <1>2, <1>5, <1>6, BlobStep

\* The clean-up, the forced delete's two calls, and the objects that come and go, with what
\* is left of them when the answer is lost.
LEMMA BlobContents ==
    ASSUME ContainersAssumption, BlobParts, NEW r \in Requests,
           \/ Cleanup(r) \/ CleanupFails(r) \/ BulkDelete(r) \/ BulkFails(r)
           \/ DropSwift(r) \/ DropFails(r)
           \/ UploadObject(r) \/ DeleteObject(r) \/ AnswerLost(r)
    PROVE  BlobParts'
  <1> DEFINE p == req[r]
  <1>1. /\ TypeOK /\ p \in Request /\ Sees(p) /\ faults' \in 0 .. MaxFaults
        /\ p.pc \in {"cleanup", "undo", "bulk", "drop", "put", "remove"}
        /\ UNCHANGED <<rows, forgotten, mixedUp>>
    <2>1. TypeOK
      BY DEF BlobParts
    <2>2. Fault \/ faults' = faults
      BY DEF Cleanup, CleanupFails, BulkDelete, BulkFails, DropSwift, DropFails, UploadObject,
             DeleteObject, AnswerLost
    <2>3. /\ p.pc \in {"cleanup", "undo", "bulk", "drop", "put", "remove"}
          /\ UNCHANGED <<rows, forgotten, mixedUp>>
      BY DEF Cleanup, CleanupFails, BulkDelete, BulkFails, DropSwift, DropFails, UploadObject,
             DeleteObject, AnswerLost, PutObject, RemoveObject, history
    <2>4. faults' \in 0 .. MaxFaults
      BY <2>1, <2>2, BlobFault DEF TypeOK
    <2>5. p \in Request /\ Sees(p)
      BY <2>1 DEF BlobParts, TypeOK
    <2>6. QED
      BY <2>1, <2>3, <2>4, <2>5
  <1>2. PICK c \in Swift : c = p.swift
    BY <1>1 DEF Sees, Making, Working
  <1>3. Has(p, c) /\ \A s \in Swift : ~Drops(p, s)
    BY <1>1, <1>2 DEF Has, Drops, Making, Working
  <1>4. /\ swift \in [Swift -> {"none", "live", "gone"}] /\ objects \in [Swift -> SUBSET Objects]
        /\ swift[c] # "none" /\ \A s \in Swift : swift[s] # "live" => objects[s] = {}
        /\ acked \subseteq Swift \X Objects /\ condemned \subseteq Swift \X Objects
        /\ p.names \subseteq Objects
    BY <1>1, <1>2, <1>3, InHand DEF TypeOK, Request
  <1>5. AckedUploadKept
    BY DEF BlobParts
  <1>6. End(r) => BlobBecomes(r, Idle)
    BY <1>1, BlobMoves
  <1>7. CASE Cleanup(r) \/ CleanupFails(r)
    <2>1. /\ p.pc \in {"cleanup", "undo"} /\ reported \subseteq reported' /\ reported' \subseteq Swift
          /\ UNCHANGED <<objects, halfDone, acked, condemned>> /\ BlobBecomes(r, Idle)
      BY <1>1, <1>2, <1>6, <1>7 DEF Cleanup, CleanupFails, TypeOK
    <2>2. CASE UNCHANGED swift
      <3>1. Refused(r)
        BY <1>2, <1>4, <1>7, <2>2 DEF Cleanup, CleanupFails, Refused, DropEmpty
      <3>2. QED
        BY <1>1, <2>1, <2>2, <3>1, BlobCalls
    <2>3. CASE DropEmpty(r)
      <3>1. swift' = [swift EXCEPT ![c] = "gone"] /\ objects[c] = {} /\ swift[c] = "live"
        BY <1>2, <2>3 DEF DropEmpty
      <3>2. Touches(c) /\ swift'[c] = "gone"
        BY <1>1, <1>4, <2>1, <3>1 DEF Touches
      <3>3. TypeOK'
        BY <1>1, <1>4, <2>1, <3>1 DEF TypeOK, BlobBecomes
      <3>4. AckedUploadKept'
        BY <1>4, <1>5, <2>1, <3>1 DEF AckedUploadKept
      <3>5. Makes(p, c) \/ c \in halfDone'
        BY <1>1, <1>2, <2>1 DEF Makes, Making, Sees
      <3>6. PICK x \in Request : x = Idle
        BY BlobIdle
      <3>7. QED
        BY <1>1, <1>3, <2>1, <3>1, <3>2, <3>3, <3>4, <3>5, <3>6, BlobIdle, BlobWorks
    <2>4. QED
      BY <1>7, <2>2, <2>3 DEF Cleanup, CleanupFails
  <1>8. CASE BulkDelete(r) \/ BulkFails(r)
    <2>1. PICK done \in SUBSET p.names : objects' = [objects EXCEPT ![c] = @ \ done]
      BY <1>2, <1>8 DEF BulkDelete, BulkFails
    <2>2. /\ p.pc = "bulk"
          /\ UNCHANGED <<swift, reported, halfDone, acked, condemned>>
      BY <1>1, <1>8 DEF BulkDelete, BulkFails, history
    <2>3. {c} \X done \subseteq condemned
      BY <1>1, <1>2, <2>1, <2>2 DEF Sees
    <2>4. Touches(c) /\ \A s \in Swift : ~Makes(p, s)
      BY <1>1, <1>4, <2>1, <2>2 DEF Touches, Makes, Making
    <2>5. AckedUploadKept'
      BY <1>4, <1>5, <2>1, <2>2, <2>3 DEF AckedUploadKept
    <2>6. ASSUME NEW q \in Request, BlobBecomes(r, q) PROVE TypeOK'
      BY <1>1, <1>4, <2>1, <2>2, <2>6 DEF TypeOK, BlobBecomes
    <2>7. CASE BulkFails(r)
      <3>1. BlobBecomes(r, Idle)
        BY <1>6, <2>7 DEF BulkFails
      <3>2. PICK x \in Request : x = Idle
        BY BlobIdle
      <3>3. QED
        BY <1>1, <1>3, <2>2, <2>4, <2>5, <2>6, <3>1, <3>2, BlobIdle, BlobWorks
    <2>8. CASE BulkDelete(r)
      <3> DEFINE q == [p EXCEPT !.pc = "drop"]
      <3>1. BlobBecomes(r, q)
        BY <1>1, <2>8, BlobMoves DEF BulkDelete, PC
      <3>2. q \in Request /\ q.pc = "drop" /\ q.swift = c /\ q.name = p.name
        BY <1>1, <1>2, <2>2, <3>1 DEF Request, BlobBecomes
      <3>3. PICK x \in Request : x = q
        BY <3>2
      <3>4. Sees(x)'
        BY <1>1, <1>2, <1>4, <2>2, <3>2, <3>3 DEF Sees, Making, Working
      <3>5. \A s \in Swift : ~Makes(x, s) /\ (Has(x, s) => s = c)
        BY <3>2, <3>3 DEF Makes, Has, Making
      <3>6. QED
        BY <1>1, <1>3, <2>2, <2>4, <2>5, <2>6, <3>1, <3>3, <3>4, <3>5, BlobWorks
    <2>9. QED
      BY <1>8, <2>7, <2>8
  <1>9. CASE DropSwift(r)
    <2>1. /\ p.pc = "drop" /\ UNCHANGED <<objects, reported, halfDone, acked, condemned>>
      BY <1>9 DEF DropSwift, history
    <2>2. \A s \in Swift : ~Makes(p, s)
      BY <2>1 DEF Makes, Making
    <2>3. CASE objects[c] # {}
      <3>1. End(r) /\ UNCHANGED swift
        BY <1>2, <1>9, <2>3 DEF DropSwift
      <3>2. Touches(c) /\ AckedUploadKept' /\ BlobBecomes(r, Idle)
        BY <1>1, <1>5, <1>6, <2>1, <3>1 DEF Touches, AckedUploadKept
      <3>3. TypeOK'
        BY <1>1, <1>4, <2>1, <3>1, <3>2 DEF TypeOK, BlobBecomes
      <3>4. PICK x \in Request : x = Idle
        BY BlobIdle
      <3>5. QED
        BY <1>1, <1>3, <2>1, <2>2, <3>1, <3>2, <3>3, <3>4, BlobIdle, BlobWorks
    <2>4. CASE objects[c] = {}
      <3> DEFINE q == [p EXCEPT !.pc = "deleteRow"]
      <3>1. swift' = [swift EXCEPT ![c] = "gone"] /\ BlobBecomes(r, q)
        BY <1>1, <1>2, <1>9, <2>4, BlobMoves DEF DropSwift, PC
      <3>2. Touches(c) /\ swift'[c] = "gone"
        BY <1>1, <1>4, <2>1, <3>1 DEF Touches
      <3>3. TypeOK'
        BY <1>1, <1>4, <2>1, <2>4, <3>1 DEF TypeOK, BlobBecomes
      <3>4. AckedUploadKept'
        BY <1>4, <1>5, <2>1, <2>4, <3>1 DEF AckedUploadKept
      <3>5. q \in Request /\ q.pc = "deleteRow" /\ q.swift = c /\ q.name = p.name
        BY <1>1, <1>2, <3>1 DEF Request, BlobBecomes
      <3>6. PICK x \in Request : x = q
        BY <3>5
      <3>7. Sees(x)'
        BY <1>1, <1>2, <2>1, <3>2, <3>5, <3>6 DEF Sees, Making, Working
      <3>8. Drops(x, c) /\ \A s \in Swift : ~Makes(x, s) /\ (Has(x, s) => s = c)
        BY <3>5, <3>6 DEF Makes, Has, Drops, Making
      <3>9. QED
        BY <1>1, <1>3, <2>1, <2>2, <3>1, <3>2, <3>3, <3>4, <3>6, <3>7, <3>8, BlobWorks
    <2>5. QED
      BY <2>3, <2>4
  <1>10. CASE DropFails(r)
    <2>1. /\ p.pc = "drop" /\ BlobBecomes(r, Idle)
          /\ UNCHANGED <<objects, reported, acked, condemned>>
      BY <1>6, <1>10 DEF DropFails
    <2>2. CASE UNCHANGED <<swift, halfDone>>
      BY <1>1, <1>10, <2>1, <2>2, BlobCalls
    <2>3. CASE DropEmpty(r) /\ halfDone' = halfDone \cup {c}
      <3>1. swift' = [swift EXCEPT ![c] = "gone"] /\ objects[c] = {} /\ swift[c] = "live"
        BY <1>2, <2>3 DEF DropEmpty
      <3>2. Touches(c) /\ swift'[c] = "gone" /\ c \in halfDone'
        BY <1>1, <1>4, <2>1, <2>3, <3>1 DEF Touches
      <3>3. TypeOK'
        BY <1>1, <1>4, <2>1, <2>3, <3>1 DEF TypeOK, BlobBecomes
      <3>4. AckedUploadKept'
        BY <1>4, <1>5, <2>1, <3>1 DEF AckedUploadKept
      <3>5. PICK x \in Request : x = Idle
        BY BlobIdle
      <3>6. QED
        BY <1>1, <1>3, <2>1, <3>1, <3>2, <3>3, <3>4, <3>5, BlobIdle, BlobWorks
    <2>4. QED
      BY <1>2, <1>10, <2>2, <2>3 DEF DropFails
  <1>11. CASE UploadObject(r) \/ DeleteObject(r) \/ AnswerLost(r)
    <2>1. /\ UNCHANGED <<swift, reported, halfDone>> /\ BlobBecomes(r, Idle)
          /\ PutObject(r) \/ RemoveObject(r)
      BY <1>6, <1>11 DEF UploadObject, DeleteObject, AnswerLost
    <2>2. \A s \in Swift : ~Makes(p, s)
      BY <2>1 DEF PutObject, RemoveObject, Makes, Making
    <2>3. ASSUME Touches(c), TypeOK', AckedUploadKept' PROVE BlobParts'
      <3>1. PICK x \in Request : x = Idle
        BY BlobIdle
      <3>2. QED
        BY <1>1, <1>3, <2>1, <2>2, <2>3, <3>1, BlobIdle, BlobWorks
    <2>4. CASE PutObject(r)
      <3>1. /\ p.pc = "put" /\ swift[c] = "live" /\ objects' = [objects EXCEPT ![c] = @ \cup p.names]
            /\ condemned' = condemned
        BY <1>2, <2>4 DEF PutObject
      <3>2. acked' = acked \cup ({c} \X p.names) \/ acked' = acked
        BY <1>2, <1>11, <3>1 DEF UploadObject, DeleteObject, AnswerLost
      <3>3. Touches(c)
        BY <1>1, <1>4, <2>1, <3>1 DEF Touches
      <3>4. TypeOK'
        BY <1>1, <1>4, <2>1, <3>1, <3>2 DEF TypeOK, BlobBecomes
      <3>5. AckedUploadKept'
        BY <1>4, <1>5, <2>1, <3>1, <3>2 DEF AckedUploadKept
      <3>6. QED
        BY <2>3, <3>3, <3>4, <3>5
    <2>5. CASE RemoveObject(r)
      <3>1. /\ p.pc = "remove" /\ objects' = [objects EXCEPT ![c] = @ \ p.names]
            /\ condemned' = condemned \cup ({c} \X p.names)
        BY <1>2, <2>5 DEF RemoveObject
      <3>2. acked' = acked
        BY <1>11, <3>1 DEF UploadObject, DeleteObject, AnswerLost, PutObject
      <3>3. Touches(c)
        BY <1>1, <1>4, <2>1, <3>1 DEF Touches
      <3>4. TypeOK'
        BY <1>1, <1>4, <2>1, <3>1, <3>2 DEF TypeOK, BlobBecomes
      <3>5. AckedUploadKept'
        BY <1>4, <1>5, <2>1, <3>1, <3>2 DEF AckedUploadKept
      <3>6. QED
        BY <2>3, <3>3, <3>4, <3>5
    <2>6. QED
      BY <2>1, <2>4, <2>5
  <1>12. QED
    BY <1>7, <1>8, <1>9, <1>10, <1>11

\* A container is made: nobody can have had it in hand, and no row names it.
LEMMA BlobMade ==
    ASSUME ContainersAssumption, BlobParts, NEW r \in Requests, NEW c \in Swift,
           CreateSwift(r, c)
    PROVE  BlobParts'
  <1> DEFINE p == req[r]
             q == [p EXCEPT !.pc = "save", !.swift = c]
  <1>1. /\ TypeOK /\ p \in Request /\ Sees(p) /\ p.pc = "create"
        /\ swift[c] = "none" /\ swift' = [swift EXCEPT ![c] = "live"]
        /\ UNCHANGED <<rows, objects, faults, reported, forgotten, mixedUp, halfDone, acked,
                       condemned>>
    BY DEF CreateSwift, history, BlobParts, TypeOK
  <1>2. /\ q \in Request /\ q.pc = "save" /\ q.swift = c /\ q.name = p.name
        /\ p.name \in Names
    BY <1>1 DEF Request, PC, Sees
  <1>3. req' = [req EXCEPT ![r] = q]
    BY <1>1 DEF CreateSwift, TypeOK, Request
  <1>4. BlobBecomes(r, q)
    BY <1>1, <1>2, <1>3, BlobMoves
  <1>5. PICK y \in Request : y = q
    BY <1>2
  <1>6. ~Listed(c) /\ objects[c] = {} /\ \A t \in Requests : ~Has(req[t], c)
    BY <1>1, InHand DEF BlobParts, RowsInv, Listed, TypeOK
  <1>7. /\ swift' \in [Swift -> {"none", "live", "gone"}] /\ swift'[c] = "live"
        /\ \A s \in Swift \ {c} : swift'[s] = swift[s]
    BY <1>1 DEF TypeOK
  <1>8. Touches(c)
    BY <1>1, <1>7 DEF Touches
  <1>9. TypeOK'
    BY <1>1, <1>4, <1>7 DEF TypeOK, BlobBecomes
  <1>10. RowsInv' /\ AckedUploadKept'
    BY <1>1, <1>7 DEF BlobParts, RowsInv, AckedUploadKept, TypeOK, Row
  <1>11. Sees(y)'
    BY <1>1, <1>2, <1>5, <1>6, <1>7 DEF Sees, Making, Working, Listed
  <1>12. /\ \A t \in Requests : ~Makes(req[t], c)
         /\ \A s \in Swift : Has(y, s) => s = c
         /\ \A s \in Swift : Makes(y, s) <=> s = c
         /\ \A s \in Swift : ~Makes(p, s) /\ ~Drops(p, s)
         /\ \A s \in Swift : Listed(s)' <=> Listed(s)
    BY <1>1, <1>2, <1>5, <1>6, InHand DEF Makes, Has, Drops, Making, Listed
  <1>13. \A s \in Swift : swift'[s] = "live" /\ ~Listed(s)' =>
            Makes(y, s) \/ (swift[s] = "live" /\ ~Listed(s) /\ ~Makes(p, s))
    BY <1>7, <1>12
  <1>14. \A x \in rows' : swift'[x.swift] # "live" =>
            x \in rows /\ swift[x.swift] # "live" /\ ~Drops(p, x.swift)
    BY <1>1, <1>6, <1>7, <1>12 DEF TypeOK, Row, Listed
  <1>15. QED
    BY <1>1, <1>4, <1>5, <1>6, <1>8, <1>9, <1>10, <1>11, <1>12, <1>13, <1>14, BlobStep

\* Swift makes a container and the answer is lost: it is forgotten at once.
LEMMA BlobLost ==
    ASSUME ContainersAssumption, BlobParts, NEW r \in Requests, NEW c \in Swift,
           CreateSwiftFails(r), swift[c] = "none", swift' = [swift EXCEPT ![c] = "live"],
           forgotten' = forgotten \cup {c}
    PROVE  BlobParts'
  <1> DEFINE p == req[r]
  <1>1. /\ TypeOK /\ p \in Request /\ Sees(p) /\ p.pc = "create"
        /\ UNCHANGED <<rows, objects, reported, mixedUp, halfDone, acked, condemned>>
        /\ faults' \in 0 .. MaxFaults /\ BlobBecomes(r, Idle)
    BY BlobFault, BlobMoves DEF CreateSwiftFails, BlobParts, TypeOK
  <1>2. /\ swift' \in [Swift -> {"none", "live", "gone"}] /\ swift'[c] = "live"
        /\ \A s \in Swift \ {c} : swift'[s] = swift[s]
    BY <1>1 DEF TypeOK
  <1>3. Touches(c)
    BY <1>1, <1>2 DEF Touches
  <1>4. TypeOK'
    BY <1>1, <1>2 DEF TypeOK, BlobBecomes
  <1>5. RowsInv' /\ AckedUploadKept'
    BY <1>1, <1>2 DEF BlobParts, RowsInv, AckedUploadKept, TypeOK, Row
  <1>6. /\ \A t \in Requests : ~Makes(req[t], c) /\ rows' \subseteq rows
        /\ \A s \in Swift : ~Makes(p, s) /\ ~Drops(p, s)
        /\ \A s \in Swift : Listed(s)' <=> Listed(s)
        /\ ~Listed(c)
    BY <1>1, InHand DEF BlobParts, RowsInv, Makes, Drops, Making, Listed
  <1>7. \A s \in Swift : swift'[s] = "live" /\ ~Listed(s)' =>
            s \in forgotten' \/ (swift[s] = "live" /\ ~Listed(s) /\ ~Makes(p, s))
    BY <1>2, <1>6
  <1>8. \A x \in rows' : swift'[x.swift] # "live" =>
            x \in rows /\ swift[x.swift] # "live" /\ ~Drops(p, x.swift)
    BY <1>1, <1>2, <1>6 DEF TypeOK, Row
  <1>9. PICK y \in Request : y = Idle
    BY BlobIdle
  <1>10. forgotten \subseteq forgotten'
    OBVIOUS
  <1>11. QED
    BY <1>1, <1>3, <1>4, <1>5, <1>6, <1>7, <1>8, <1>9, <1>10, BlobIdle, BlobStep

\* The row is saved under a name that is free: the container passes from the request that
\* made it to its row, and stays in hand to be undone if Save reports an error.
LEMMA BlobSaved ==
    ASSUME ContainersAssumption, BlobParts, NEW r \in Requests, Save(r) \/ SaveFails(r),
           AddRow(r)
    PROVE  BlobParts'
  <1> DEFINE p == req[r]
  <1>1. /\ TypeOK /\ p \in Request /\ Sees(p) /\ p.pc = "save"
        /\ UNCHANGED <<swift, objects, reported, forgotten, mixedUp, acked, condemned>>
        /\ faults' \in 0 .. MaxFaults /\ Named(p.name) = {}
    BY BlobFault DEF Save, SaveFails, AddRow, history, BlobParts, TypeOK
  <1>2. PICK c \in Swift : c = p.swift
    BY <1>1 DEF Sees, Making
  <1>3. PICK row0 \in Row : row0 = [name |-> p.name, swift |-> c]
    BY <1>1, <1>2 DEF Sees, Making, Row
  <1>4. /\ rows' = rows \cup {row0} /\ row0.swift = c /\ row0.name = p.name
        /\ \A x \in rows : x.name # row0.name
    BY <1>1, <1>2, <1>3 DEF AddRow, Named
  <1>5. /\ Makes(p, c) /\ swift[c] = "live" /\ ~Listed(c)
        /\ \A t \in Requests \ {r} : ~Has(req[t], c) /\ ~Makes(req[t], c)
    <2>1. Makes(p, c)
      BY <1>1, <1>2 DEF Makes, Making
    <2>2. QED
      BY <2>1, InHand DEF BlobParts, Apart
  <1>6. PICK y \in Request :
            /\ BlobBecomes(r, y) /\ y.pc \in {"idle", "undo"}
            /\ y.pc = "undo" => y.swift = c /\ y.name = p.name /\ c \in halfDone'
            /\ halfDone' = halfDone \/ halfDone' = halfDone \cup {c}
    <2>1. CASE End(r) /\ halfDone' = halfDone
      <3>1. BlobBecomes(r, Idle)
        BY <1>1, <2>1, BlobMoves
      <3>2. QED
        BY <2>1, <3>1, BlobIdle DEF Idle
    <2>2. CASE Go(r, "undo") /\ halfDone' = halfDone \cup {c}
      <3> DEFINE q == [p EXCEPT !.pc = "undo"]
      <3>1. BlobBecomes(r, q)
        BY <1>1, <2>2, BlobMoves DEF PC
      <3>2. q \in Request /\ q.pc = "undo" /\ q.swift = c /\ q.name = p.name
        BY <1>1, <1>2, <3>1 DEF Request, BlobBecomes
      <3>3. PICK y \in Request : y = q
        BY <3>2
      <3>4. BlobBecomes(r, y) /\ y.pc = "undo" /\ y.swift = c /\ y.name = p.name
        BY <3>1, <3>2, <3>3
      <3>5. c \in halfDone'
        BY <2>2
      <3>6. QED
        BY <2>2, <3>4, <3>5
    <2>3. CASE Go(r, "cleanup") /\ UNCHANGED rows
      <3>1. row0 \in rows /\ row0.swift = c
        BY <1>4, <2>3
      <3>2. QED
        BY <1>1, <1>2, <3>1 DEF Sees, Making, Listed
    <2>4. QED
      BY <1>1, <1>2, <2>1, <2>2, <2>3 DEF Save, SaveFails, history
  <1>7. Touches(c)
    BY <1>1, <1>4, <1>6 DEF Touches
  <1>8. TypeOK'
    <2>1. halfDone' \subseteq Swift
      BY <1>1, <1>6 DEF TypeOK
    <2>2. rows' \subseteq Row /\ \A x, z \in rows' : x.name = z.name => x = z
      BY <1>1, <1>4 DEF TypeOK
    <2>3. QED
      BY <1>1, <1>6, <2>1, <2>2 DEF TypeOK, BlobBecomes
  <1>9. RowsInv' /\ AckedUploadKept'
    BY <1>1, <1>4, <1>5 DEF BlobParts, RowsInv, AckedUploadKept, Listed
  <1>10. \A s \in Swift : /\ Listed(s)' <=> Listed(s) \/ s = c
                          /\ Makes(p, s) => s = c
                          /\ ~Drops(p, s)
    BY <1>1, <1>2, <1>4 DEF Listed, Makes, Drops
  <1>11. \A s \in Swift : swift'[s] = "live" /\ ~Listed(s)' =>
            swift[s] = "live" /\ ~Listed(s) /\ ~Makes(p, s)
    BY <1>1, <1>10
  <1>12. \A x \in rows' : swift'[x.swift] # "live" =>
            x \in rows /\ swift[x.swift] # "live" /\ ~Drops(p, x.swift)
    BY <1>1, <1>4, <1>5, <1>10 DEF TypeOK, Row
  <1>13. \A s \in Swift : ~Makes(y, s) /\ (Has(y, s) => s = c)
    BY <1>6 DEF Makes, Has, Making, Working
  <1>14. Sees(y)'
    <2>1. \A x \in rows' : x.swift = c => x.name = p.name
      BY <1>4, <1>5 DEF Listed
    <2>2. p.name \in Names
      BY <1>1 DEF Sees, Making
    <2>3. QED
      BY <1>1, <1>5, <1>6, <2>1, <2>2 DEF Sees, Making, Working
  <1>15. ASSUME NEW u \in Requests \ {r}, NEW s \in Swift
         PROVE  /\ Makes(y, s) => ~Has(req[u], s)
                /\ Makes(req[u], s) => ~Has(y, s)
    BY <1>5, <1>13
  <1>16. QED
    BY <1>1, <1>5, <1>6, <1>7, <1>8, <1>9, <1>11, <1>12, <1>14, <1>15, BlobStep

\* The row of a name is deleted, whichever container it names by now: the one this request
\* has dropped, or another one, which is mixed up with it; or the padded name is no row's.
LEMMA BlobRowDeleted ==
    ASSUME ContainersAssumption, BlobParts, NEW r \in Requests, RemoveRow(r),
           faults' = faults \/ Fault
    PROVE  BlobParts'
  <1> DEFINE p == req[r]
             hit == IF p.padded THEN {} ELSE Named(p.name)
  <1>1. /\ TypeOK /\ p \in Request /\ Sees(p) /\ p.pc = "deleteRow"
        /\ BlobBecomes(r, Idle)
        /\ UNCHANGED <<swift, objects, reported, forgotten, acked, condemned>>
        /\ faults' \in 0 .. MaxFaults
    BY BlobMoves, BlobFault DEF RemoveRow, BlobParts, TypeOK
  <1>2. PICK c \in Swift : c = p.swift
    BY <1>1 DEF Sees, Working
  <1>3. /\ swift[c] = "gone" /\ \A x \in rows : x.swift = c => x.name = p.name
    BY <1>1, <1>2 DEF Sees, Working
  <1>4. /\ rows' = rows \ hit /\ mixedUp' = mixedUp \cup ({x.swift : x \in hit} \ {c})
        /\ halfDone' = IF p.padded THEN halfDone \cup {c} ELSE halfDone
    BY <1>2 DEF RemoveRow
  <1>5. hit \subseteq rows /\ \A x \in rows : x.swift \in Swift
    BY <1>1 DEF Named, TypeOK, Row
  <1>6. \A x \in rows : x.swift = c => x \in hit \/ c \in halfDone'
    BY <1>3, <1>4 DEF Named
  <1> HIDE DEF hit
  <1>7. Touches(c) /\ rows' \subseteq rows
    BY <1>1, <1>4 DEF Touches, TypeOK
  <1>8. halfDone \subseteq halfDone' /\ halfDone' \subseteq Swift /\ mixedUp \subseteq mixedUp'
    BY <1>1, <1>4 DEF TypeOK
  <1>9. mixedUp' \subseteq Swift
    BY <1>1, <1>4, <1>5 DEF TypeOK
  <1>10. TypeOK'
    BY <1>1, <1>4, <1>8, <1>9 DEF TypeOK, BlobBecomes
  <1>11. RowsInv' /\ AckedUploadKept'
    BY <1>1, <1>4 DEF BlobParts, RowsInv, AckedUploadKept
  <1>12. \A t \in Requests : ~Makes(req[t], c)
    BY <1>3, InHand
  <1>13. \A s \in Swift : ~Makes(p, s) /\ (Drops(p, s) => s = c)
    BY <1>1, <1>2 DEF Makes, Drops, Making
  <1>14. ASSUME NEW s \in Swift, swift'[s] = "live", ~Listed(s)'
         PROVE  \/ s \in mixedUp'
                \/ swift[s] = "live" /\ ~Listed(s) /\ ~Makes(p, s)
    <2>1. CASE Listed(s)
      <3>1. PICK x \in rows : x.swift = s
        BY <2>1 DEF Listed
      <3>2. x \in hit /\ s # c
        BY <1>1, <1>3, <1>4, <1>14, <3>1 DEF Listed
      <3>3. QED
        BY <1>4, <3>1, <3>2
    <2>2. QED
      BY <1>1, <1>13, <1>14, <2>1
  <1>15. \A x \in rows' : swift'[x.swift] # "live" =>
            \/ x.swift \in halfDone'
            \/ x \in rows /\ swift[x.swift] # "live" /\ ~Drops(p, x.swift)
    BY <1>1, <1>4, <1>5, <1>6, <1>13
  <1>16. PICK y \in Request : y = Idle
    BY BlobIdle
  <1>17. QED
    BY <1>1, <1>7, <1>8, <1>10, <1>11, <1>12, <1>14, <1>15, <1>16, BlobIdle, BlobStep

\* A crash forgets the requests; the histories remember what they had in hand.
LEMMA BlobCrash ==
    ASSUME ContainersAssumption, BlobParts, Crash
    PROVE  BlobParts'
  <1> DEFINE makers == {q \in Requests : req[q].pc \in {"save", "cleanup"}}
             droppers == {q \in Requests : req[q].pc = "deleteRow"}
  <1>1. /\ TypeOK /\ req' = [t \in Requests |-> Idle]
        /\ UNCHANGED <<rows, swift, objects, reported, mixedUp, acked, condemned>>
        /\ forgotten' = forgotten \cup {req[t].swift : t \in makers}
        /\ halfDone' = halfDone \cup {req[t].swift : t \in droppers}
        /\ faults' \in 0 .. MaxFaults
    BY BlobFault DEF Crash, BlobParts, TypeOK
  <1>2. forgotten' \subseteq Swift /\ halfDone' \subseteq Swift
    <2>1. \A t \in Requests : req[t].pc \in {"save", "cleanup", "deleteRow"} =>
                req[t].swift \in Swift
      BY DEF BlobParts, Sees, Making, Working
    <2>2. QED
      BY <1>1, <2>1 DEF TypeOK
  <1>3. TypeOK'
    BY <1>1, <1>2, BlobIdle DEF TypeOK
  <1>4. RowsInv' /\ AckedUploadKept'
    BY <1>1 DEF BlobParts, RowsInv, AckedUploadKept
  <1>5. RowHasContainer'
    BY <1>1 DEF BlobParts, RowHasContainer
  <1>6. NoSilentOrphan'
    <2> SUFFICES ASSUME NEW s \in Swift, swift'[s] = "live", ~Listed(s)'
                 PROVE  s \in reported' \cup forgotten' \cup mixedUp'
      BY DEF NoSilentOrphan
    <2>1. swift[s] = "live" /\ ~Listed(s)
      BY <1>1 DEF Listed
    <2>2. QED
      BY <1>1, <2>1 DEF BlobParts, NoSilentOrphan
  <1>7. \A t \in Requests : req'[t] = Idle
    BY <1>1
  <1>8. Apart' /\ \A t \in Requests : Sees(req[t])'
    BY <1>7, BlobIdle DEF Apart, Makes, Has, Sees, Idle, Making, Working
  <1>9. QED
    BY <1>3, <1>4, <1>5, <1>6, <1>8 DEF BlobParts

\* Rows and containers belong together but for the cases the invariant names, and acknowledged
\* uploads stay, whichever call fails before or after it took effect (storage/service.go:63,
\* 68, 123, 132).  Inductive only with what each request has in hand: nobody
\* else touches a container before it has a row, a row that a delete comes back to is that of
\* its container or of a younger one, and a forced delete removes what it has listed.
THEOREM ContainersSound ==
    ASSUME ContainersAssumption
    PROVE  Spec => []ContainersInv
  <1>1. Init => BlobParts
    <2> SUFFICES ASSUME Init PROVE BlobParts
      OBVIOUS
    <2>1. TypeOK
      BY BlobIdle DEF Init, TypeOK, ContainersAssumption
    <2>2. /\ RowHasContainer /\ NoSilentOrphan /\ AckedUploadKept
          /\ RowsInv
      BY DEF Init, RowHasContainer, NoSilentOrphan, AckedUploadKept, RowsInv
    <2>3. \A t \in Requests : req[t] = Idle
      BY DEF Init
    <2>4. Apart /\ \A t \in Requests : Sees(req[t])
      BY <2>3, BlobIdle DEF Apart
    <2>5. QED
      BY <2>1, <2>2, <2>4 DEF BlobParts
  <1>2. BlobParts /\ [Next]_(vars) => BlobParts'
    <2> SUFFICES ASSUME BlobParts, [Next]_(vars) PROVE BlobParts'
      OBVIOUS
    <2>1. CASE UNCHANGED vars
      <3>1. UNCHANGED <<rows, swift, objects, req, faults, reported, forgotten, mixedUp,
                        halfDone, acked, condemned>>
        BY <2>1 DEF vars
      <3>2. TypeOK'
        BY <3>1 DEF BlobParts, TypeOK
      <3>3. RowHasContainer' /\ NoSilentOrphan' /\ AckedUploadKept'
        BY <3>1 DEF BlobParts, RowHasContainer, NoSilentOrphan, AckedUploadKept, Listed
      <3>4. RowsInv' /\ Apart'
        BY <3>1 DEF BlobParts, RowsInv, Apart, Makes, Has
      <3>5. \A t \in Requests : Sees(req[t])'
        BY <3>1 DEF BlobParts, Sees, Listed
      <3>6. QED
        BY <3>2, <3>3, <3>4, <3>5 DEF BlobParts
    <2>2. CASE Crash
      BY <2>2, BlobCrash
    <2>3. ASSUME NEW r \in Requests, Save(r) \/ SaveFails(r) PROVE BlobParts'
      <3>1. CASE AddRow(r)
        BY <2>3, <3>1, BlobSaved
      <3>2. CASE ~AddRow(r)
        <4>1. UNCHANGED <<rows, swift, objects, forgotten, mixedUp, acked>>
          BY <2>3, <3>2 DEF Save, SaveFails, history
        <4>2. faults' = faults \/ Fault
          BY <2>3 DEF Save, SaveFails
        <4>3. faults' \in 0 .. MaxFaults
          BY <4>2, BlobFault DEF BlobParts, TypeOK
        <4>4. QED
          BY <2>3, <4>1, <4>3, BlobCalls
      <3>3. QED
        BY <3>1, <3>2
    <2>4. ASSUME NEW r \in Requests, CreateSwiftFails(r) PROVE BlobParts'
      <3>1. faults' \in 0 .. MaxFaults
        BY <2>4, BlobFault DEF CreateSwiftFails, BlobParts, TypeOK
      <3>2. CASE UNCHANGED <<swift, forgotten>>
        BY <2>4, <3>1, <3>2, BlobCalls DEF CreateSwiftFails
      <3>3. QED
        BY <2>4, <3>2, BlobLost DEF CreateSwiftFails
    <2>5. ASSUME NEW r \in Requests, ListObjects(r) \/ ListFails(r) \/ ObjectFails(r)
          PROVE  BlobParts'
      <3>1. /\ UNCHANGED <<rows, swift, objects, forgotten, mixedUp, acked>>
            /\ faults' = faults \/ Fault
        BY <2>5 DEF ListObjects, ListFails, ObjectFails, history
      <3>2. faults' \in 0 .. MaxFaults
        BY <3>1, BlobFault DEF BlobParts, TypeOK
      <3>3. QED
        BY <2>5, <3>1, <3>2, BlobCalls
    <2>6. ASSUME NEW r \in Requests, DeleteRow(r) \/ DeleteRowFails(r) PROVE BlobParts'
      <3>1. CASE RemoveRow(r)
        BY <2>6, <3>1, BlobRowDeleted DEF DeleteRow, DeleteRowFails
      <3>2. CASE KeepRow(r) /\ Fault
        <4>1. UNCHANGED <<rows, swift, objects, forgotten, mixedUp, acked>>
          BY <3>2 DEF KeepRow
        <4>2. faults' \in 0 .. MaxFaults
          BY <3>2, BlobFault DEF BlobParts, TypeOK
        <4>3. QED
          BY <3>2, <4>1, <4>2, BlobCalls
      <3>3. QED
        BY <2>6, <3>1, <3>2 DEF DeleteRow, DeleteRowFails
    <2>7. CASE Next /\ ~Crash
      BY <2>3, <2>4, <2>5, <2>6, <2>7, BlobStarts, BlobMade, BlobContents DEF Next
    <2>8. QED
      BY <2>1, <2>2, <2>7
  <1>3. BlobParts <=> ContainersInv
    BY BlobInvParts
  <1>4. QED
    BY <1>1, <1>2, <1>3, PTL DEF Spec

-----------------------------------------------------------------------------
(* Bytes of objects *)

\* A version of an object, and a request, by themselves.
GoodVersion(v) ==
    v \in Bytes!Version /\ (v # Bytes!Absent => v.chunks = Bytes!File(v.size))

GoodTransfer(x) ==
    \/ x = Bytes!Ready
    \/ x = [pc |-> "list"]
    \/ x \in Bytes!Upload /\ Bytes!UploadHolds(x)
    \/ x \in Bytes!Download /\ Bytes!DownloadHolds(x)
    \/ x \in Bytes!Archive /\ Bytes!ArchiveHolds(x)

\* The invariant, object by object and request by request: neither knows of the others.
TransferParts ==
    /\ DOMAIN stored = Files /\ stored = [o \in Files |-> stored[o]]
    /\ \A o \in Files : GoodVersion(stored[o])
    /\ fileReq = [r \in Requests |-> fileReq[r]]
    /\ \A r \in Requests : GoodTransfer(fileReq[r])

\* Files of one length are the same, have that length, and grow at their end.
LEMMA FileFacts ==
    ASSUME Bytes!TransfersAssumption
    PROVE  /\ \A n \in 0 .. MaxChunks :
                 Bytes!File(n) \in Bytes!Chunks /\ Len(Bytes!File(n)) = n
           /\ \A n \in Nat : /\ Len(Bytes!File(n)) = n /\ Bytes!File(n) \in Seq(Nat)
                             /\ \A i \in 1..n : Bytes!File(n)[i] = i
                             /\ Append(Bytes!File(n), n + 1) = Bytes!File(n + 1)
           /\ Bytes!File(0) = <<>>
  <1>1. \A n \in Nat : /\ Len(Bytes!File(n)) = n /\ Bytes!File(n) \in Seq(Nat)
                       /\ \A i \in 1..n : Bytes!File(n)[i] = i
    BY DEF Bytes!File
  <1>2. \A n \in 0 .. MaxChunks : Bytes!File(n) \in Bytes!Chunks
    BY DEF Bytes!File, Bytes!Chunks, Bytes!TransfersAssumption
  <1>3. \A n \in Nat : Append(Bytes!File(n), n + 1) = Bytes!File(n + 1)
    BY DEF Bytes!File
  <1>4. Bytes!File(0) = <<>>
    BY DEF Bytes!File
  <1>5. \A n \in 0 .. MaxChunks : Len(Bytes!File(n)) = n
    BY <1>1 DEF Bytes!TransfersAssumption
  <1>6. QED
    BY <1>1, <1>2, <1>3, <1>4, <1>5

\* The kinds of a request, told apart by where it is.
LEMMA KindsApart ==
    /\ Bytes!Ready.pc = "idle" /\ [pc |-> "list"].pc = "list"
    /\ \A x \in Bytes!Upload : x.pc \in {"sniff", "read", "create"}
    /\ \A x \in Bytes!Download :
          x.pc \in {"open", "copy", "answered"} /\ x.kind = "download"
    /\ \A x \in Bytes!Archive : x.pc \in {"open", "copy", "answered"} /\ x.kind = "archive"
  BY DEF Bytes!Ready, Bytes!Upload, Bytes!Download, Bytes!Archive

\* A request is of the kind its place says.
LEMMA KindByPlace ==
    ASSUME NEW x, GoodTransfer(x)
    PROVE  /\ x.pc \in {"sniff", "read", "create"} => x \in Bytes!Upload /\ Bytes!UploadHolds(x)
           /\ x.pc \in {"open", "copy", "answered"} /\ x.kind = "download" =>
                 x \in Bytes!Download /\ Bytes!DownloadHolds(x)
           /\ x.pc \in {"open", "copy", "answered"} /\ x.kind = "archive" =>
                 x \in Bytes!Archive /\ Bytes!ArchiveHolds(x)
           /\ x.pc \in {"open", "copy", "answered"} => x.kind \in {"download", "archive"}
  BY KindsApart DEF GoodTransfer

\* The two readings agree.
LEMMA TransferInvParts ==
    ASSUME Bytes!TransfersAssumption
    PROVE  Bytes!TransferInv <=> TransferParts
  <1>1. ASSUME Bytes!TransferInv PROVE TransferParts
    <2>1. stored \in [Files -> Bytes!Version]
      BY <1>1 DEF Bytes!TransferInv, Bytes!TypeOK
    <2>2. \A o \in Files : GoodVersion(stored[o])
      BY <1>1, <2>1 DEF Bytes!TransferInv, Bytes!StoredWhole, Bytes!Exists, GoodVersion
    <2>3. \A r \in Requests : GoodTransfer(fileReq[r])
      BY <1>1 DEF Bytes!TransferInv, Bytes!TypeOK, Bytes!RequestsHold, GoodTransfer
    <2>4. fileReq = [r \in Requests |-> fileReq[r]]
      BY <1>1 DEF Bytes!TransferInv, Bytes!TypeOK
    <2>5. QED
      BY <2>1, <2>2, <2>3, <2>4 DEF TransferParts
  <1>2. ASSUME TransferParts PROVE Bytes!TransferInv
    <2>1. stored \in [Files -> Bytes!Version]
      BY <1>2 DEF TransferParts, GoodVersion
    <2>2. Bytes!StoredWhole
      BY <1>2 DEF TransferParts, GoodVersion, Bytes!StoredWhole, Bytes!Exists
    <2>3. Bytes!TypeOK
      <3>1. \A r \in Requests :
              fileReq[r] \in {Bytes!Ready, [pc |-> "list"]} \cup Bytes!Upload
                             \cup Bytes!Download \cup Bytes!Archive
        BY <1>2 DEF TransferParts, GoodTransfer
      <3>2. fileReq \in [Requests -> {Bytes!Ready, [pc |-> "list"]} \cup Bytes!Upload
                             \cup Bytes!Download \cup Bytes!Archive]
        BY <1>2, <3>1 DEF TransferParts
      <3>3. QED
        BY <2>1, <3>2 DEF Bytes!TypeOK
    <2>4. Bytes!RequestsHold
      BY <1>2, KindsApart, KindByPlace DEF TransferParts, Bytes!RequestsHold
    <2>5. Bytes!CompleteAnswers
      <3> SUFFICES ASSUME NEW r \in Requests, fileReq[r].pc = "answered", ~fileReq[r].cut,
                          ~fileReq[r].failed \/ fileReq[r].length # Bytes!Absent
                   PROVE  IF fileReq[r].kind = "download"
                          THEN fileReq[r].body = Bytes!File(fileReq[r].from.size)
                          ELSE /\ Len(fileReq[r].body) = Len(fileReq[r].matches)
                               /\ \A i \in DOMAIN fileReq[r].body :
                                     /\ fileReq[r].body[i].object = fileReq[r].matches[i]
                                     /\ fileReq[r].body[i].size = fileReq[r].body[i].copied
        BY DEF Bytes!CompleteAnswers, Bytes!Streamed
      <3>1. PICK x : x = fileReq[r]
        OBVIOUS
      <3>2. GoodTransfer(x)
        BY <1>2, <3>1 DEF TransferParts
      <3>3. CASE x.kind = "download"
        <4>1. x \in Bytes!Download /\ Bytes!DownloadHolds(x)
          BY <3>1, <3>2, <3>3, KindByPlace
        <4>2. x.body = Bytes!File(x.from.size)
          BY <3>1, <4>1 DEF Bytes!DownloadHolds, Bytes!Sends
        <4>3. QED
          BY <3>1, <3>3, <4>2
      <3>4. CASE x.kind # "download"
        <4>1. x \in Bytes!Archive /\ Bytes!ArchiveHolds(x)
          BY <3>1, <3>2, <3>4, KindByPlace
        <4>2. x.length = Bytes!Absent
          BY <4>1 DEF Bytes!Archive
        <4>3. /\ Len(x.body) = Len(x.matches)
              /\ \A i \in DOMAIN x.body :
                    x.body[i].object = x.matches[i] /\ x.body[i].size = x.body[i].copied
          BY <3>1, <4>1, <4>2 DEF Bytes!ArchiveHolds
        <4>4. QED
          BY <3>1, <3>4, <4>3
      <3>5. QED
        BY <3>3, <3>4
    <2>6. QED
      BY <2>2, <2>3, <2>4, <2>5 DEF Bytes!TransferInv
  <1>3. QED
    BY <1>1, <1>2

\* What a request becomes is all that a step changes of the requests, and a version all it
\* changes of the objects.
LEMMA TransferStep ==
    ASSUME TransferParts, NEW r \in Requests, NEW x, GoodTransfer(x), Bytes!Set(r, x),
           \/ UNCHANGED stored
           \/ \E o \in Files : \E v : GoodVersion(v) /\ Bytes!Put(o, v)
    PROVE  TransferParts'
  <1>1. \A q \in Requests : GoodTransfer(fileReq'[q])
    BY DEF TransferParts, Bytes!Set
  <1>2. fileReq' = [q \in Requests |-> fileReq'[q]]
    BY DEF TransferParts, Bytes!Set
  <1>3. /\ DOMAIN stored' = Files /\ stored' = [o \in Files |-> stored'[o]]
        /\ \A o \in Files : GoodVersion(stored'[o])
    BY DEF TransferParts, Bytes!Put
  <1>4. QED
    BY <1>1, <1>2, <1>3 DEF TransferParts

\* No object is a version like the others.
LEMMA AbsentGood ==
    ASSUME Bytes!TransfersAssumption
    PROVE  GoodVersion(Bytes!Absent)
  <1>1. 0 \in 0 .. MaxChunks
    BY DEF Bytes!TransfersAssumption
  <1>2. <<0>> \in Bytes!Chunks
    BY <1>1 DEF Bytes!Chunks
  <1>3. QED
    BY <1>1, <1>2 DEF GoodVersion, Bytes!Version, Bytes!Absent

\* An answer in JSON ends a request.
LEMMA TransferJson ==
    ASSUME TransferParts, NEW r \in Requests, Bytes!Json(r),
           \/ UNCHANGED stored
           \/ \E o \in Files : \E v : GoodVersion(v) /\ Bytes!Put(o, v)
    PROVE  TransferParts'
  BY TransferStep DEF GoodTransfer, Bytes!Json

\* A prefix that is put back in front of the rest: the whole.
LEMMA PutBack ==
    ASSUME NEW S, NEW s \in Seq(S), NEW k \in 0 .. Len(s)
    PROVE  SubSeq(s, 1, k) \o SubSeq(s, k + 1, Len(s)) = s
  <1>1. Len(s) \in Nat
    OBVIOUS
  <1>2. 1 \in 1 .. Len(s) + 1 /\ k \in 1 - 1 .. Len(s) /\ Len(s) \in k .. Len(s)
    BY <1>1
  <1>3. SubSeq(s, 1, k) \o SubSeq(s, k + 1, Len(s)) = SubSeq(s, 1, Len(s))
    BY <1>2, ConcatAdjacentSubSeq
  <1>4. QED
    BY <1>3, SubSeqFull

\* The listing is finite and is counted as sets are.
LEMMA ListingCounts ==
    ASSUME Bytes!TransfersAssumption, NEW S \in SUBSET Files
    PROVE  /\ Bytes!Cardinality(S) \in Nat
           /\ S # {} => Bytes!Cardinality(S) # 0
  <1>1. IsFiniteSet(Files)
    BY DEF Bytes!TransfersAssumption, Bytes!IsFiniteSet, IsFiniteSet
  <1>2. IsFiniteSet(S)
    BY <1>1, FS_Subset
  <1>3. Cardinality(S) \in Nat /\ (S # {} => Cardinality(S) # 0)
    BY <1>2, FS_CardinalityType, FS_EmptySet
  <1>4. Bytes!Cardinality(S) = Cardinality(S)
    BY DEF Bytes!Cardinality, Cardinality
  <1>5. QED
    BY <1>3, <1>4

\* Uploads: the client sends the beginning of its file, sniffing takes nothing of it away,
\* and what is stored is the whole.
LEMMA UploadKeeps ==
    ASSUME Bytes!TransfersAssumption, TransferParts, NEW r \in Requests,
           \/ \E o \in Files : \E n \in 0..MaxChunks : \E k \in 0..n :
                  Bytes!UploadObject(r, o, n, k)
           \/ Bytes!Sniff(r) \/ Bytes!ReadAll(r) \/ Bytes!CreateObject(r)
           \/ Bytes!CreateObjectFails(r)
    PROVE  TransferParts'
  <1>1. ASSUME NEW o \in Files, NEW n \in 0..MaxChunks, NEW k \in 0..n,
               Bytes!UploadObject(r, o, n, k)
        PROVE  TransferParts'
    <2>1. PICK pc \in {"sniff", "read"} :
            Bytes!Set(r, [pc |-> pc, object |-> o, size |-> n, sent |-> Bytes!File(k),
                          whole |-> k = n])
      BY <1>1 DEF Bytes!UploadObject
    <2>2. PICK x : x = [pc |-> pc, object |-> o, size |-> n, sent |-> Bytes!File(k),
                        whole |-> k = n]
      OBVIOUS
    <2>3. k \in 0 .. MaxChunks /\ k \in Nat /\ n \in Nat
      BY DEF Bytes!TransfersAssumption
    <2>4. Len(Bytes!File(k)) = k /\ Bytes!File(k) \in Bytes!Chunks
      BY <2>3, FileFacts
    <2>5. x \in Bytes!Upload
      BY <2>2, <2>4 DEF Bytes!Upload
    <2>6. Bytes!UploadHolds(x)
      <3>1. x.pc # "create" /\ x.sent = Bytes!File(k) /\ x.size = n
        BY <2>2
      <3>2. x.whole <=> k = n
        BY <2>2
      <3>3. QED
        BY <2>3, <2>4, <3>1, <3>2 DEF Bytes!UploadHolds
    <2>7. GoodTransfer(x) /\ Bytes!Set(r, x)
      BY <2>1, <2>2, <2>5, <2>6 DEF GoodTransfer
    <2>8. QED
      BY <1>1, <2>7, TransferStep DEF Bytes!UploadObject
  <1>2. PICK x : x = fileReq[r]
    OBVIOUS
  <1>3. GoodTransfer(x)
    BY <1>2 DEF TransferParts
  <1>4. ASSUME x.pc \in {"sniff", "read", "create"}
        PROVE  /\ x \in Bytes!Upload /\ Bytes!UploadHolds(x)
               /\ x.object \in Files /\ x.size \in 0..MaxChunks /\ x.sent \in Bytes!Chunks
    BY <1>3, <1>4, KindByPlace DEF Bytes!Upload
  <1>5. CASE Bytes!Sniff(r)
    <2>1. x.pc = "sniff"
      BY <1>2, <1>5 DEF Bytes!Sniff
    <2>2. PICK k \in 0 .. Len(x.sent) :
            Bytes!Set(r, [x EXCEPT !.pc = "read",
                  !.sent = SubSeq(@, 1, k) \o SubSeq(@, k + 1, Len(@))])
      BY <1>2, <1>5 DEF Bytes!Sniff
    <2>3. SubSeq(x.sent, 1, k) \o SubSeq(x.sent, k + 1, Len(x.sent)) = x.sent
      BY <1>4, <2>1, PutBack DEF Bytes!Chunks
    <2>4. PICK y : y = [x EXCEPT !.pc = "read", !.sent = x.sent]
      OBVIOUS
    <2>5. y \in Bytes!Upload /\ Bytes!UploadHolds(y)
      BY <1>4, <2>1, <2>4 DEF Bytes!Upload, Bytes!UploadHolds
    <2>6. Bytes!Set(r, y)
      BY <2>2, <2>3, <2>4
    <2>7. QED
      BY <1>5, <2>5, <2>6, TransferStep DEF GoodTransfer, Bytes!Sniff
  <1>6. CASE Bytes!ReadAll(r)
    <2>1. x.pc = "read" /\ UNCHANGED stored
      BY <1>2, <1>6 DEF Bytes!ReadAll
    <2>2. CASE x.whole
      <3>1. PICK y : y = [x EXCEPT !.pc = "create"]
        OBVIOUS
      <3>2. Bytes!Set(r, y)
        BY <1>2, <1>6, <2>2, <3>1 DEF Bytes!ReadAll
      <3>3. y \in Bytes!Upload /\ Bytes!UploadHolds(y)
        BY <1>4, <2>1, <2>2, <3>1 DEF Bytes!Upload, Bytes!UploadHolds
      <3>4. QED
        BY <2>1, <3>2, <3>3, TransferStep DEF GoodTransfer
    <2>3. CASE ~x.whole
      BY <1>2, <1>6, <2>1, <2>3, TransferJson DEF Bytes!ReadAll
    <2>4. QED
      BY <2>2, <2>3
  <1>7. CASE Bytes!CreateObject(r) \/ Bytes!CreateObjectFails(r)
    <2>1. PICK v : v = [size |-> x.size, chunks |-> x.sent]
      OBVIOUS
    <2>2. x.pc = "create" /\ Bytes!Json(r) /\ (UNCHANGED stored \/ Bytes!Put(x.object, v))
      BY <1>2, <1>7, <2>1 DEF Bytes!CreateObject, Bytes!CreateObjectFails
    <2>3. GoodVersion(v)
      BY <1>4, <2>1, <2>2 DEF GoodVersion, Bytes!Version, Bytes!UploadHolds
    <2>4. QED
      BY <1>4, <2>2, <2>3, TransferJson
  <1>8. QED
    BY <1>1, <1>5, <1>6, <1>7

\* Deleting an object, and the end of a stream, leave everything else as it is.
LEMMA TransferEnds ==
    ASSUME Bytes!TransfersAssumption, TransferParts,
           \/ \E o \in Files : Bytes!DeleteObject(o)
           \/ \E r \in Requests : \/ Bytes!Returns(r) \/ Bytes!ListObjectsFails(r)
                                  \/ Bytes!DownloadFails(r)
    PROVE  TransferParts'
  <1>1. GoodVersion(Bytes!Absent)
    BY AbsentGood
  <1>2. ASSUME NEW o \in Files, Bytes!DeleteObject(o) PROVE TransferParts'
    <2>1. fileReq' = fileReq /\ stored' = [stored EXCEPT ![o] = Bytes!Absent]
      BY <1>2 DEF Bytes!DeleteObject, Bytes!Put
    <2>2. QED
      BY <1>1, <2>1 DEF TransferParts
  <1>3. ASSUME NEW r \in Requests, \/ Bytes!Returns(r) \/ Bytes!ListObjectsFails(r)
                                   \/ Bytes!DownloadFails(r)
        PROVE  TransferParts'
    BY <1>3, TransferJson DEF Bytes!Returns, Bytes!ListObjectsFails, Bytes!DownloadFails,
           Bytes!Json
  <1>4. QED
    BY <1>2, <1>3

\* A stream begins: a download with nothing sent, an archive with the listing it works
\* through.
LEMMA StreamStarts ==
    ASSUME Bytes!TransfersAssumption, TransferParts, NEW r \in Requests,
           \/ \E o \in Files : Bytes!DownloadObject(r, o)
           \/ Bytes!ArchiveObjects(r) \/ Bytes!ListObjects(r)
    PROVE  TransferParts'
  <1>1. Bytes!Absent \in Bytes!Version /\ <<>> \in Bytes!Chunks
    BY AbsentGood DEF GoodVersion, Bytes!Chunks
  <1>2. ASSUME NEW o \in Files, Bytes!DownloadObject(r, o) PROVE TransferParts'
    <2>1. PICK x : x = [pc |-> "open", kind |-> "download", object |-> o,
                        from |-> Bytes!Absent, at |-> 0, body |-> <<>>,
                        length |-> Bytes!Absent, failed |-> FALSE, cut |-> FALSE]
      OBVIOUS
    <2>2. x \in Bytes!Download
      BY <1>1, <2>1 DEF Bytes!Download
    <2>3. Bytes!DownloadHolds(x)
      BY <2>1 DEF Bytes!DownloadHolds
    <2>4. Bytes!Set(r, x) /\ UNCHANGED stored
      BY <1>2, <2>1 DEF Bytes!DownloadObject
    <2>5. QED
      BY <2>2, <2>3, <2>4, TransferStep DEF GoodTransfer
  <1>3. CASE Bytes!ArchiveObjects(r)
    BY <1>3, TransferStep DEF GoodTransfer, Bytes!ArchiveObjects
  <1>4. CASE Bytes!ListObjects(r)
    <2>1. PICK found : found = {o \in Files : Bytes!Exists(o)}
      OBVIOUS
    <2>2. CASE found = {}
      <3>1. Bytes!Json(r) /\ UNCHANGED stored
        BY <1>4, <2>1, <2>2 DEF Bytes!ListObjects
      <3>2. QED
        BY <3>1, TransferJson
    <2>3. CASE found # {}
      <3>1. PICK sorted \in [1 .. Bytes!Cardinality(found) -> found] :
              Bytes!Set(r, [pc |-> "open", kind |-> "archive", matches |-> sorted, turn |-> 1,
                            from |-> Bytes!Absent, at |-> 0, body |-> <<>>,
                            length |-> Bytes!Absent, failed |-> FALSE, cut |-> FALSE])
        BY <1>4, <2>1, <2>3, Zenon DEF Bytes!ListObjects
      <3>2. found \subseteq Files
        BY <2>1
      <3>3. Bytes!Cardinality(found) \in Nat /\ Bytes!Cardinality(found) # 0
        BY <2>3, <3>2, ListingCounts
      <3>4. sorted \in Seq(Files) /\ Len(sorted) = Bytes!Cardinality(found)
        BY <3>2, <3>3
      <3>5. PICK x : x = [pc |-> "open", kind |-> "archive", matches |-> sorted, turn |-> 1,
                          from |-> Bytes!Absent, at |-> 0, body |-> <<>>,
                          length |-> Bytes!Absent, failed |-> FALSE, cut |-> FALSE]
        OBVIOUS
      <3>6. x \in Bytes!Archive
        BY <1>1, <3>4, <3>5 DEF Bytes!Archive
      <3>7. Bytes!ArchiveHolds(x)
        BY <3>3, <3>4, <3>5 DEF Bytes!ArchiveHolds
      <3>8. Bytes!Set(r, x) /\ UNCHANGED stored
        BY <1>4, <3>1, <3>5 DEF Bytes!ListObjects
      <3>9. QED
        BY <3>6, <3>7, <3>8, TransferStep DEF GoodTransfer
    <2>4. QED
      BY <2>2, <2>3
  <1>5. QED
    BY <1>2, <1>3, <1>4

\* Downloads: the body is what was read so far of one version, and a length that was
\* announced is that version's.
LEMMA DownloadKeeps ==
    ASSUME Bytes!TransfersAssumption, TransferParts, NEW r \in Requests,
           fileReq[r].kind = "download",
           \/ Bytes!DownloadBegins(r) \/ Bytes!Copy(r) \/ Bytes!CopyEnds(r)
           \/ Bytes!CopyFails(r)
    PROVE  TransferParts'
  <1>1. PICK x : x = fileReq[r]
    OBVIOUS
  <1>2. x.pc \in {"open", "copy"} /\ x.kind = "download" /\ UNCHANGED stored
    BY <1>1 DEF Bytes!DownloadBegins, Bytes!Copy, Bytes!CopyEnds, Bytes!CopyFails
  <1>3. GoodTransfer(x)
    BY <1>1 DEF TransferParts
  <1>4. x \in Bytes!Download /\ Bytes!DownloadHolds(x)
    BY <1>2, <1>3, KindByPlace
  <1>5. ASSUME NEW y \in Bytes!Download, Bytes!DownloadHolds(y), Bytes!Set(r, y)
        PROVE  TransferParts'
    BY <1>2, <1>5, TransferStep DEF GoodTransfer
  <1>6. CASE Bytes!DownloadBegins(r)
    <2>1. PICK v : v = stored[x.object]
      OBVIOUS
    <2>2. x.object \in Files
      BY <1>4 DEF Bytes!Download
    <2>3. v # Bytes!Absent /\ x.pc = "open"
      BY <1>1, <1>6, <2>1 DEF Bytes!DownloadBegins, Bytes!Exists
    <2>4. v \in Bytes!Version /\ v.chunks = Bytes!File(v.size) /\ v.size \in Nat
      BY <2>1, <2>2, <2>3 DEF TransferParts, GoodVersion, Bytes!Version, Bytes!TransfersAssumption
    <2>5. PICK l \in {v, Bytes!Absent} :
            Bytes!Set(r, [x EXCEPT !.pc = "copy", !.from = v, !.length = l])
      BY <1>1, <1>6, <2>1 DEF Bytes!DownloadBegins
    <2>6. PICK y : y = [x EXCEPT !.pc = "copy", !.from = v, !.length = l]
      OBVIOUS
    <2>7. Bytes!Absent \in Bytes!Version
      BY AbsentGood DEF GoodVersion
    <2>8. y \in Bytes!Download
      BY <1>4, <2>4, <2>6, <2>7 DEF Bytes!Download
    <2>9. /\ y.pc = "copy" /\ y.from = v /\ y.length = l /\ y.at = x.at /\ y.body = x.body
      BY <1>4, <2>6 DEF Bytes!Download
    <2>10. x.at = 0 /\ x.body = <<>>
      BY <1>4, <2>3 DEF Bytes!DownloadHolds
    <2>11. Bytes!DownloadHolds(y)
      <3>1. Bytes!File(0) = <<>>
        BY FileFacts
      <3>2. y.body = Bytes!File(y.at) /\ y.at <= v.size
        BY <2>4, <2>9, <2>10, <3>1
      <3>3. QED
        BY <2>4, <2>9, <3>2 DEF Bytes!DownloadHolds, Bytes!Sends
    <2>12. QED
      BY <1>5, <2>5, <2>6, <2>8, <2>11
  <1>7. ASSUME x.pc = "copy"
        PROVE  /\ x.from.chunks = Bytes!File(x.from.size) /\ x.at <= x.from.size
               /\ x.body = Bytes!File(x.at) /\ x.length \in {x.from, Bytes!Absent}
               /\ x.at \in Nat /\ x.from.size \in Nat /\ x.from.size \in 0 .. MaxChunks
               /\ Len(x.from.chunks) = x.from.size
               /\ x.length \in Bytes!Version /\ x.length.chunks \in Bytes!Chunks
    <2>1. /\ x.from.chunks = Bytes!File(x.from.size) /\ x.at <= x.from.size
          /\ x.body = Bytes!File(x.at) /\ x.length \in {x.from, Bytes!Absent}
      BY <1>4, <1>7 DEF Bytes!DownloadHolds, Bytes!Sends
    <2>2. x.at \in Nat /\ x.from.size \in 0 .. MaxChunks /\ x.length \in Bytes!Version
      BY <1>4 DEF Bytes!Download, Bytes!Version
    <2>3. x.from.size \in Nat
      BY <2>2 DEF Bytes!TransfersAssumption
    <2>4. Len(x.from.chunks) = x.from.size
      BY <2>1, <2>3, FileFacts
    <2>5. QED
      BY <2>1, <2>2, <2>3, <2>4 DEF Bytes!Version
  <1>8. CASE Bytes!Copy(r)
    <2>1. x.pc = "copy" /\ x.at < Len(x.from.chunks)
      BY <1>1, <1>8 DEF Bytes!Copy
    <2>2. PICK y : y = [x EXCEPT !.at = x.at + 1, !.body = Append(x.body,
        x.from.chunks[x.at + 1])]
      OBVIOUS
    <2>3. Bytes!Set(r, y)
      BY <1>1, <1>2, <1>8, <2>2 DEF Bytes!Copy
    <2>4. x.from.chunks[x.at + 1] = x.at + 1 /\ x.at + 1 <= x.from.size
      <3>1. x.at + 1 \in 1 .. x.from.size
        BY <1>7, <2>1
      <3>2. \A n \in Nat : \A i \in 1..n : Bytes!File(n)[i] = i
        BY FileFacts
      <3>3. Bytes!File(x.from.size)[x.at + 1] = x.at + 1
        BY <1>7, <2>1, <3>1, <3>2
      <3>4. QED
        BY <1>7, <2>1, <3>1, <3>3
    <2>5. Append(x.body, x.from.chunks[x.at + 1]) = Bytes!File(x.at + 1)
      BY <1>7, <2>1, <2>4, FileFacts
    <2>6. Bytes!File(x.at + 1) \in Bytes!Chunks
      <3>1. x.at + 1 \in 0 .. MaxChunks
        BY <1>7, <2>1, <2>4 DEF Bytes!TransfersAssumption
      <3>2. QED
        BY <3>1, FileFacts
    <2>7. y \in Bytes!Download
      <3>1. x.at + 1 \in Nat
        BY <1>7, <2>1
      <3>2. y = [x EXCEPT !.at = x.at + 1, !.body = Bytes!File(x.at + 1)]
        BY <2>2, <2>5
      <3>3. QED
        BY <1>4, <2>6, <3>1, <3>2 DEF Bytes!Download
    <2>8. /\ y.pc = x.pc /\ y.at = x.at + 1 /\ y.from = x.from /\ y.length = x.length
          /\ y.body = Bytes!File(x.at + 1)
      BY <1>4, <2>2, <2>5 DEF Bytes!Download
    <2>9. Bytes!DownloadHolds(y)
      BY <1>7, <2>1, <2>4, <2>8 DEF Bytes!DownloadHolds, Bytes!Sends
    <2>10. QED
      BY <1>5, <2>3, <2>7, <2>9
  <1>9. ASSUME x.pc = "copy", NEW f \in BOOLEAN, f \/ x.failed = f,
               f \/ x.at = x.from.size,
               NEW y, y = Bytes!Stops([x EXCEPT !.failed = f]), Bytes!Set(r, y)
        PROVE  TransferParts'
    <2>1. PICK c \in BOOLEAN : c <=> x.length # Bytes!Absent /\ x.body # x.length.chunks
      OBVIOUS
    <2>2. y = [x EXCEPT !.pc = "answered", !.failed = f, !.cut = c]
      BY <1>4, <1>9, <2>1 DEF Bytes!Stops, Bytes!Download
    <2>3. y \in Bytes!Download
      BY <1>4, <2>2 DEF Bytes!Download
    <2>4. /\ y.pc = "answered" /\ y.at = x.at /\ y.from = x.from /\ y.length = x.length
          /\ y.body = x.body
      BY <1>4, <2>2 DEF Bytes!Download
    <2>5. (y.failed <=> f) /\ (y.cut <=> c)
      BY <1>4, <2>2 DEF Bytes!Download
    <2>6. Bytes!DownloadHolds(y)
      BY <1>7, <1>9, <2>1, <2>4, <2>5 DEF Bytes!DownloadHolds, Bytes!Sends
    <2>7. QED
      BY <1>5, <1>9, <2>3, <2>6
  <1>10. CASE Bytes!CopyEnds(r)
    <2>1. x.pc = "copy" /\ x.at = x.from.size
      BY <1>1, <1>7, <1>10 DEF Bytes!CopyEnds
    <2>2. Bytes!Set(r, Bytes!Stops(x))
      BY <1>1, <1>2, <1>10 DEF Bytes!CopyEnds
    <2>3. x = [x EXCEPT !.failed = x.failed] /\ x.failed \in BOOLEAN
      BY <1>4 DEF Bytes!Download
    <2>4. QED
      BY <1>9, <2>1, <2>2, <2>3
  <1>11. CASE Bytes!CopyFails(r)
    <2>1. x.pc = "copy"
      BY <1>1, <1>11 DEF Bytes!CopyFails
    <2>2. CASE x.body = <<>>
      <3>1. Bytes!Json(r)
        BY <1>1, <1>2, <1>11, <2>2 DEF Bytes!CopyFails
      <3>2. QED
        BY <1>2, <3>1, TransferJson
    <2>3. CASE x.body # <<>>
      <3>1. Bytes!Set(r, Bytes!Stops([x EXCEPT !.failed = TRUE]))
        BY <1>1, <1>11, <2>3 DEF Bytes!CopyFails
      <3>2. QED
        BY <1>9, <2>1, <3>1
    <2>4. QED
      BY <2>2, <2>3
  <1>12. QED
    BY <1>6, <1>8, <1>10, <1>11

\* Archives: each turn of the loop adds the entry of its object, copies it to its end or
\* stops the archive.
LEMMA ArchiveKeeps ==
    ASSUME Bytes!TransfersAssumption, TransferParts, NEW r \in Requests,
           fileReq[r].kind = "archive",
           \/ Bytes!EntryBegins(r) \/ Bytes!EntryFails(r) \/ Bytes!Copy(r)
           \/ Bytes!CopyEnds(r) \/ Bytes!CopyFails(r)
    PROVE  TransferParts'
  <1>1. PICK x : x = fileReq[r]
    OBVIOUS
  <1>2. x.pc \in {"open", "copy"} /\ x.kind = "archive" /\ UNCHANGED stored
    BY <1>1 DEF Bytes!EntryBegins, Bytes!EntryFails, Bytes!Copy, Bytes!CopyEnds, Bytes!CopyFails
  <1>3. GoodTransfer(x)
    BY <1>1 DEF TransferParts
  <1>4. x \in Bytes!Archive /\ Bytes!ArchiveHolds(x)
    BY <1>2, <1>3, KindByPlace
  <1>5. ASSUME NEW y \in Bytes!Archive, Bytes!ArchiveHolds(y), Bytes!Set(r, y)
        PROVE  TransferParts'
    BY <1>2, <1>5, TransferStep DEF GoodTransfer
  <1>6. /\ x.matches \in Seq(Files) /\ x.turn \in Nat /\ x.body \in Seq(Bytes!Entry)
        /\ x.at \in Nat /\ x.length = Bytes!Absent /\ x.failed \in BOOLEAN
        /\ x.from \in Bytes!Version /\ x.from.size \in Nat
    BY <1>4 DEF Bytes!Archive, Bytes!Version, Bytes!TransfersAssumption
  <1>7. /\ x.turn \in 1 .. Len(x.matches)
        /\ \A i \in DOMAIN x.body : x.body[i].object = x.matches[i]
        /\ \A i \in DOMAIN x.body : i < x.turn => x.body[i].size = x.body[i].copied
    BY <1>4 DEF Bytes!ArchiveHolds
  <1>8. PICK o : o = x.matches[x.turn]
    OBVIOUS
  <1>9. o \in Files
    BY <1>6, <1>7, <1>8
  \* an entry is added
  <1>10. ASSUME x.pc = "open", NEW e \in Bytes!Entry, e.object = o
         PROVE  /\ Append(x.body, e) \in Seq(Bytes!Entry)
                /\ Len(Append(x.body, e)) = x.turn
                /\ Append(x.body, e)[x.turn] = e
                /\ \A i \in DOMAIN Append(x.body, e) :
                      /\ Append(x.body, e)[i].object = x.matches[i]
                      /\ i < x.turn => Append(x.body, e)[i].size = Append(x.body, e)[i].copied
    <2>1. Len(x.body) = x.turn - 1
      BY <1>4, <1>10 DEF Bytes!ArchiveHolds
    <2>2. PICK b : b = Append(x.body, e)
      OBVIOUS
    <2>3. /\ b \in Seq(Bytes!Entry) /\ Len(b) = x.turn /\ b[x.turn] = e
          /\ \A i \in 1 .. x.turn - 1 : b[i] = x.body[i]
      BY <1>6, <1>10, <2>1, <2>2
    <2>4. DOMAIN b = 1 .. x.turn /\ DOMAIN x.body = 1 .. x.turn - 1
      BY <1>6, <2>1, <2>3
    <2>5. ASSUME NEW i \in 1 .. x.turn
          PROVE  b[i].object = x.matches[i] /\ (i < x.turn => b[i].size = b[i].copied)
      <3>1. CASE i = x.turn
        BY <1>6, <1>8, <1>10, <2>3, <3>1
      <3>2. CASE i # x.turn
        <4>1. i \in 1 .. x.turn - 1
          BY <1>6, <3>2
        <4>2. QED
          BY <1>7, <2>3, <2>4, <4>1
      <3>3. QED
        BY <3>1, <3>2
    <2>6. QED
      BY <2>2, <2>3, <2>4, <2>5
  <1>11. CASE Bytes!EntryBegins(r)
    <2>1. PICK v : v = stored[o]
      OBVIOUS
    <2>2. x.pc = "open" /\ v # Bytes!Absent
      BY <1>1, <1>8, <1>11, <2>1 DEF Bytes!EntryBegins, Bytes!Exists
    <2>3. v \in Bytes!Version /\ v.chunks = Bytes!File(v.size) /\ v.size \in Nat
      BY <1>9, <2>1, <2>2 DEF TransferParts, GoodVersion, Bytes!Version, Bytes!TransfersAssumption
    <2>4. PICK e : e = [object |-> o, size |-> v.size, copied |-> 0]
      OBVIOUS
    <2>5. e \in Bytes!Entry /\ e.object = o /\ e.size = v.size /\ e.copied = 0
      BY <1>9, <2>3, <2>4 DEF Bytes!Entry
    <2>6. PICK b : b = Append(x.body, e)
      OBVIOUS
    <2>7. PICK y : y = [x EXCEPT !.pc = "copy", !.from = v, !.at = 0, !.body = b]
      OBVIOUS
    <2>8. Bytes!Set(r, y)
      BY <1>1, <1>8, <1>11, <2>1, <2>4, <2>6, <2>7 DEF Bytes!EntryBegins
    <2>9. /\ b \in Seq(Bytes!Entry) /\ Len(b) = x.turn /\ b[x.turn] = e
          /\ \A i \in DOMAIN b : /\ b[i].object = x.matches[i]
                                 /\ i < x.turn => b[i].size = b[i].copied
      BY <1>10, <2>2, <2>5, <2>6
    <2>10. y \in Bytes!Archive
      BY <1>4, <2>3, <2>7, <2>9 DEF Bytes!Archive
    <2>11. /\ y.pc = "copy" /\ y.from = v /\ y.at = 0 /\ y.body = b
           /\ y.matches = x.matches /\ y.turn = x.turn
      BY <1>4, <2>7 DEF Bytes!Archive
    <2>12. Bytes!ArchiveHolds(y)
      BY <1>7, <2>3, <2>5, <2>9, <2>11 DEF Bytes!ArchiveHolds, Bytes!Sends
    <2>13. QED
      BY <1>5, <2>8, <2>10, <2>12
  <1>12. CASE Bytes!EntryFails(r)
    <2>1. x.pc = "open"
      BY <1>1, <1>12 DEF Bytes!EntryFails
    <2>2. PICK e : e = [object |-> o, size |-> 1, copied |-> 0]
      OBVIOUS
    <2>3. e \in Bytes!Entry /\ e.object = o
      BY <1>9, <2>2 DEF Bytes!Entry
    <2>4. PICK b \in {x.body, Append(x.body, e)} :
            Bytes!Set(r, [x EXCEPT !.pc = "answered", !.failed = TRUE, !.body = b])
      BY <1>1, <1>8, <1>12, <2>2 DEF Bytes!EntryFails
    <2>5. /\ b \in Seq(Bytes!Entry)
          /\ \A i \in DOMAIN b : /\ b[i].object = x.matches[i]
                                 /\ i < x.turn => b[i].size = b[i].copied
      <3>1. CASE b = x.body
        BY <1>6, <1>7, <3>1
      <3>2. CASE b = Append(x.body, e)
        BY <1>10, <2>1, <2>3, <3>2
      <3>3. QED
        BY <3>1, <3>2
    <2>6. PICK y : y = [x EXCEPT !.pc = "answered", !.failed = TRUE, !.body = b]
      OBVIOUS
    <2>7. y \in Bytes!Archive
      BY <1>4, <2>5, <2>6 DEF Bytes!Archive
    <2>8. /\ y.pc = "answered" /\ y.body = b /\ y.matches = x.matches /\ y.turn = x.turn
      BY <1>4, <2>6 DEF Bytes!Archive
    <2>9. y.failed
      BY <1>4, <2>6 DEF Bytes!Archive
    <2>10. Bytes!ArchiveHolds(y)
      BY <1>7, <2>5, <2>8, <2>9 DEF Bytes!ArchiveHolds
    <2>11. QED
      BY <1>5, <2>4, <2>6, <2>7, <2>10
  <1>13. ASSUME x.pc = "copy"
         PROVE  /\ x.from.chunks = Bytes!File(x.from.size) /\ x.at <= x.from.size
                /\ Len(x.from.chunks) = x.from.size
                /\ Len(x.body) = x.turn /\ DOMAIN x.body = 1 .. x.turn
                /\ x.body[x.turn].size = x.from.size /\ x.body[x.turn].copied = x.at
    <2>1. /\ x.from.chunks = Bytes!File(x.from.size) /\ x.at <= x.from.size
          /\ Len(x.body) = x.turn
          /\ x.body[x.turn].size = x.from.size /\ x.body[x.turn].copied = x.at
      BY <1>4, <1>13 DEF Bytes!ArchiveHolds, Bytes!Sends
    <2>2. Len(x.from.chunks) = x.from.size
      BY <1>6, <2>1, FileFacts
    <2>3. DOMAIN x.body = 1 .. x.turn
      BY <1>6, <2>1
    <2>4. QED
      BY <2>1, <2>2, <2>3
  <1>14. CASE Bytes!Copy(r)
    <2>1. x.pc = "copy" /\ x.at < Len(x.from.chunks)
      BY <1>1, <1>14 DEF Bytes!Copy
    <2>2. PICK e : e = [x.body[x.turn] EXCEPT !.copied = x.at + 1]
      OBVIOUS
    <2>3. PICK b : b = [x.body EXCEPT ![x.turn] = e]
      OBVIOUS
    <2>4. PICK y : y = [x EXCEPT !.at = x.at + 1, !.body = b]
      OBVIOUS
    <2>5. Len(x.body) = x.turn /\ x.turn \in 1 .. x.turn
      BY <1>6, <1>7, <1>13, <2>1
    <2>6. Bytes!Set(r, y)
      BY <1>1, <1>2, <1>14, <2>2, <2>3, <2>4, <2>5 DEF Bytes!Copy
    <2>7. x.body[x.turn] \in Bytes!Entry
      BY <1>6, <1>13, <2>1, <2>5
    <2>8. /\ e \in Bytes!Entry /\ e.copied = x.at + 1
          /\ e.size = x.body[x.turn].size /\ e.object = x.body[x.turn].object
      <3>1. PICK d \in Bytes!Entry : d = x.body[x.turn]
        BY <2>7
      <3>2. PICK n \in Nat : n = x.at + 1
        BY <1>6
      <3>3. e = [d EXCEPT !.copied = n]
        BY <2>2, <3>1, <3>2
      <3>4. e \in Bytes!Entry /\ e.copied = n /\ e.size = d.size /\ e.object = d.object
        BY <3>3 DEF Bytes!Entry
      <3>5. QED
        BY <3>1, <3>2, <3>4
    <2>9. /\ b \in Seq(Bytes!Entry) /\ Len(b) = x.turn /\ DOMAIN b = 1 .. x.turn
          /\ b[x.turn] = e /\ \A i \in 1 .. x.turn : i # x.turn => b[i] = x.body[i]
      BY <1>6, <1>13, <2>1, <2>3, <2>5, <2>8
    <2>10. y \in Bytes!Archive
      <3>1. x.at + 1 \in Nat
        BY <1>6
      <3>2. QED
        BY <1>4, <2>4, <2>9, <3>1 DEF Bytes!Archive
    <2>11. /\ y.pc = "copy" /\ y.from = x.from /\ y.at = x.at + 1 /\ y.body = b
           /\ y.matches = x.matches /\ y.turn = x.turn
      BY <1>4, <2>1, <2>4 DEF Bytes!Archive
    <2>12. x.at + 1 <= x.from.size
      BY <1>6, <1>13, <2>1
    <2>13. \A i \in DOMAIN b : /\ b[i].object = x.matches[i]
                              /\ i < x.turn => b[i].size = b[i].copied
      BY <1>6, <1>7, <1>13, <2>1, <2>8, <2>9
    <2>14. Bytes!ArchiveHolds(y)
      BY <1>7, <1>13, <2>1, <2>8, <2>9, <2>11, <2>12, <2>13, SMTT(30)
         DEF Bytes!ArchiveHolds, Bytes!Sends
    <2>15. QED
      BY <1>5, <2>6, <2>10, <2>14
  \* the archive ends, well only after its last object
  <1>15. ASSUME x.pc = "copy", NEW f \in BOOLEAN,
                f \/ (x.at = x.from.size /\ x.turn = Len(x.matches)),
                NEW y, y = Bytes!Stops([x EXCEPT !.failed = f]), Bytes!Set(r, y)
         PROVE  TransferParts'
    <2>1. y = [x EXCEPT !.pc = "answered", !.failed = f, !.cut = FALSE]
      BY <1>4, <1>6, <1>15 DEF Bytes!Stops, Bytes!Archive
    <2>2. y \in Bytes!Archive
      BY <1>4, <2>1 DEF Bytes!Archive
    <2>3. /\ y.pc = "answered" /\ y.body = x.body /\ y.matches = x.matches /\ y.turn = x.turn
      BY <1>4, <2>1 DEF Bytes!Archive
    <2>4. y.failed <=> f
      BY <1>4, <2>1 DEF Bytes!Archive
    <2>5. ~f => \A i \in DOMAIN x.body : x.body[i].size = x.body[i].copied
      BY <1>6, <1>7, <1>13, <1>15
    <2>6. Bytes!ArchiveHolds(y)
      BY <1>7, <1>13, <1>15, <2>3, <2>4, <2>5 DEF Bytes!ArchiveHolds
    <2>7. QED
      BY <1>5, <1>15, <2>2, <2>6
  <1>16. CASE Bytes!CopyEnds(r)
    <2>1. x.pc = "copy" /\ x.at = x.from.size
      BY <1>1, <1>13, <1>16 DEF Bytes!CopyEnds
    <2>2. CASE x.turn < Len(x.matches)
      <3>1. PICK y : y = [x EXCEPT !.pc = "open", !.turn = x.turn + 1]
        OBVIOUS
      <3>2. Bytes!Set(r, y)
        BY <1>1, <1>2, <1>16, <2>2, <3>1 DEF Bytes!CopyEnds
      <3>3. x.turn + 1 \in Nat /\ x.turn + 1 \in 1 .. Len(x.matches)
        BY <1>6, <1>7, <2>2
      <3>4. y \in Bytes!Archive
        BY <1>4, <3>1, <3>3 DEF Bytes!Archive
      <3>5. /\ y.pc = "open" /\ y.body = x.body /\ y.matches = x.matches
            /\ y.turn = x.turn + 1
        BY <1>4, <3>1 DEF Bytes!Archive
      <3>6. \A i \in DOMAIN x.body : x.body[i].size = x.body[i].copied
        BY <1>6, <1>7, <1>13, <2>1
      <3>7. Len(x.body) = (x.turn + 1) - 1
        BY <1>6, <1>13, <2>1
      <3>8. Bytes!ArchiveHolds(y)
        BY <1>7, <3>3, <3>5, <3>6, <3>7 DEF Bytes!ArchiveHolds
      <3>9. QED
        BY <1>5, <3>2, <3>4, <3>8
    <2>3. CASE ~(x.turn < Len(x.matches))
      <3>1. Bytes!Set(r, Bytes!Stops(x))
        BY <1>1, <1>2, <1>16, <2>3 DEF Bytes!CopyEnds
      <3>2. x.turn = Len(x.matches)
        BY <1>6, <1>7, <2>3
      <3>3. x = [x EXCEPT !.failed = x.failed]
        BY <1>4 DEF Bytes!Archive
      <3>4. QED
        BY <1>6, <1>15, <2>1, <3>1, <3>2, <3>3
    <2>4. QED
      BY <2>2, <2>3
  <1>17. CASE Bytes!CopyFails(r)
    <2>1. x.pc = "copy"
      BY <1>1, <1>17 DEF Bytes!CopyFails
    <2>2. Bytes!Set(r, Bytes!Stops([x EXCEPT !.failed = TRUE]))
      BY <1>1, <1>2, <1>17 DEF Bytes!CopyFails
    <2>3. QED
      BY <1>15, <2>1, <2>2
  <1>18. QED
    BY <1>11, <1>12, <1>14, <1>16, <1>17

\* Objects are stored whole or not at all, and a body that ends well after no failure, or
\* under an announced length, is complete (storage/content_type.go:110, handler.go:193).
\* Inductive with what each request holds: an upload the beginning of its file, a download
\* what it read of one version, an archive an entry for each turn of its loop.
THEOREM TransfersSound ==
    ASSUME Bytes!TransfersAssumption
    PROVE  Bytes!Spec => []TransferInv
  <1>1. Bytes!Init => TransferParts
    BY AbsentGood DEF Bytes!Init, TransferParts, GoodTransfer
  <1>2. TransferParts /\ [Bytes!Next]_(Bytes!vars) => TransferParts'
    <2> SUFFICES ASSUME TransferParts, [Bytes!Next]_(Bytes!vars) PROVE TransferParts'
      OBVIOUS
    <2>1. CASE UNCHANGED Bytes!vars
      BY <2>1 DEF Bytes!vars, TransferParts
    <2>2. CASE \E o \in Files : Bytes!DeleteObject(o)
      BY <2>2, TransferEnds
    <2>3. ASSUME NEW r \in Requests,
                 \/ Bytes!DownloadBegins(r) \/ Bytes!EntryBegins(r) \/ Bytes!EntryFails(r)
                 \/ Bytes!Copy(r) \/ Bytes!CopyEnds(r) \/ Bytes!CopyFails(r)
          PROVE  TransferParts'
      <3>1. fileReq[r].pc \in {"open", "copy"}
        BY <2>3 DEF Bytes!DownloadBegins, Bytes!EntryBegins, Bytes!EntryFails, Bytes!Copy,
               Bytes!CopyEnds, Bytes!CopyFails
      <3>2. fileReq[r].kind \in {"download", "archive"}
        BY <3>1, KindByPlace DEF TransferParts
      <3>3. CASE fileReq[r].kind = "download"
        <4>1. ~Bytes!EntryBegins(r) /\ ~Bytes!EntryFails(r)
          BY <3>3 DEF Bytes!EntryBegins, Bytes!EntryFails
        <4>2. QED
          BY <2>3, <3>3, <4>1, DownloadKeeps
      <3>4. CASE fileReq[r].kind = "archive"
        <4>1. ~Bytes!DownloadBegins(r)
          BY <3>4 DEF Bytes!DownloadBegins
        <4>2. QED
          BY <2>3, <3>4, <4>1, ArchiveKeeps
      <3>5. QED
        BY <3>2, <3>3, <3>4
    <2>4. QED
      BY <2>1, <2>2, <2>3, UploadKeeps, StreamStarts, TransferEnds DEF Bytes!Next
  <1>3. TransferParts <=> Bytes!TransferInv
    BY TransferInvParts
  <1>4. QED
    BY <1>1, <1>2, <1>3, PTL DEF Bytes!Spec, TransferInv
===============================================================================
