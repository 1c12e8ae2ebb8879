----------------------------- MODULE MCResources -----------------------------
(***************************************************************************)
(* Resources that live in OpenStack: object storage (Containers, and the   *)
(* bytes of objects in Transfers), key pairs (KeyPairs) and block storage  *)
(* (Volumes).  The modules have no state in common: one moves while the    *)
(* others rest in their initial states.  So they may share their requests, *)
(* the volumes and the Swift containers one set, and the owners and the    *)
(* objects another one; members of each are interchangeable everywhere.    *)
(* The run gives each owner of volumes one instance.                       *)
(***************************************************************************)
EXTENDS Containers, TLC

CONSTANTS
    Keys,                       \* KeyPairs
    Snapshots, MaxDeleted,      \* Volumes
    OwnerOf,                    \* Volumes: the owner of each instance
    Files, Unsafe, MaxChunks    \* Transfers

ASSUME ResourcesAssumption == ContainersAssumption

VARIABLES
    row, nova, keyReq, keyFaults, made, keyAcked, keyCondemned, left, keyHalfDone, struck,
    undone, unlisted,
    volume, snapshot, instanceRows, server, volReq,
    stored, fileReq

Pairs == INSTANCE KeyPairs WITH
    Owners <- Objects, req <- keyReq, faults <- keyFaults, acked <- keyAcked,
    condemned <- keyCondemned, halfDone <- keyHalfDone
Block == INSTANCE Volumes WITH
    Volumes <- Swift, Owners <- Objects, Instances <- Objects, rows <- instanceRows, req <- volReq
Bytes == INSTANCE Transfers WITH Objects <- Files, req <- fileReq

ASSUME BlockAssumption == Block!VolumesAssumption
ASSUME PairsAssumption == Pairs!KeyPairsAssumption
ASSUME BytesAssumption == Bytes!TransfersAssumption

pairsVars == <<row, nova, keyReq, keyFaults, made, keyAcked, keyCondemned, left, keyHalfDone,
               struck, undone, unlisted>>
blockVars == <<volume, snapshot, instanceRows, server, volReq>>
bytesVars == <<stored, fileReq>>
allVars == <<vars, pairsVars, blockVars, bytesVars>>

AllInit == Init /\ Pairs!Init /\ Block!Init /\ Bytes!Init

ContainersMove ==
    /\ Pairs!Init /\ Block!Init /\ Bytes!Init
    /\ Next
    /\ UNCHANGED <<pairsVars, blockVars, bytesVars>>

PairsMove ==
    /\ Init /\ Block!Init /\ Bytes!Init
    /\ Pairs!Next
    /\ UNCHANGED <<vars, blockVars, bytesVars>>

BlockMoves ==
    /\ Init /\ Pairs!Init /\ Bytes!Init
    /\ Block!Next
    /\ UNCHANGED <<vars, pairsVars, bytesVars>>

BytesMove ==
    /\ Init /\ Pairs!Init /\ Block!Init
    /\ Bytes!Next
    /\ UNCHANGED <<vars, pairsVars, blockVars>>

AllNext == ContainersMove \/ PairsMove \/ BlockMoves \/ BytesMove

AllSpec == AllInit /\ [][AllNext]_allVars

EachItsOwn == [o \in Objects |-> o]

Symm == Permutations(Requests) \cup Permutations(Swift) \cup Permutations(Objects)

-----------------------------------------------------------------------------

\* Key pairs in Nova and rows belong together, whatever requests of other owners do
\* under the same name (access/service.go:62).
KeyPairsInv == Pairs!KeyPairsInv

\* What an owner's instances have written reaches nobody else through volumes and
\* snapshots (blockstorage/service.go:229).
DataStaysWithOwner == Block!DataStaysWithOwner

\* Objects are stored whole or not at all, and an answer that says it is complete is
\* (storage/content_type.go:110, storage/client.go:60).
TransferInv == Bytes!TransferInv
=============================================================================
