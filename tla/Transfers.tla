------------------------------ MODULE Transfers ------------------------------
(***************************************************************************)
(* Objects on their way through the API (internal/domain/storage): the     *)
(* upload of a multipart file whose first bytes are read to guess its      *)
(* type, the download of an object and the archive of all objects under a  *)
(* prefix, both streamed into the response while Swift is still sending.   *)
(* A response that has begun cannot take its status back: what the client  *)
(* can tell of a failure is how the body ends.  Content is a sequence of   *)
(* chunks; the container exists (Containers has its life).                 *)
(***************************************************************************)
EXTENDS Naturals, Sequences, FiniteSets

CONSTANTS
    Objects,    \* names under the prefix, numbers in the order of the names
    Unsafe,     \* those of them safeZipEntryName refuses ("docs/", "a/../b")
    Requests,
    MaxChunks   \* bound on the length of a file

TransfersAssumption == MaxChunks \in Nat /\ Objects \subseteq Nat /\ IsFiniteSet(Objects)

VARIABLES
    stored,     \* stored[o]: the chunks of o and how many its file had, or Absent
    req         \* the requests

vars == <<stored, req>>

Absent == [size |-> 0, chunks |-> <<0>>]
Ready == [pc |-> "idle"]

\* The chunks of a file of length n.
File(n) == [i \in 1..n |-> i]
Exists(o) == stored[o] # Absent

\* The requests: an upload; a download of an object, whose body is chunks; and the archive
\* of a listing, whose body is entries and whose loop is at one of the matches.
Chunks == Seq(0..MaxChunks)
Version == [size : 0..MaxChunks, chunks : Chunks]
Entry == [object : Objects, size : Nat, copied : Nat]
Upload == [pc : {"sniff", "read", "create"}, object : Objects, size : 0..MaxChunks,
           sent : Chunks, whole : BOOLEAN]
Download == [pc : {"open", "copy", "answered"}, kind : {"download"}, object : Objects,
             from : Version, at : Nat, body : Chunks, length : Version,
             failed : BOOLEAN, cut : BOOLEAN]
Archive == [pc : {"open", "copy", "answered"}, kind : {"archive"}, matches : Seq(Objects),
            turn : Nat, from : Version, at : Nat, body : Seq(Entry), length : {Absent},
            failed : BOOLEAN, cut : BOOLEAN]

TypeOK ==
    /\ stored \in [Objects -> Version]
    /\ req \in [Requests -> {Ready, [pc |-> "list"]} \cup Upload \cup Download \cup Archive]

Init ==
    /\ stored = [o \in Objects |-> Absent]
    /\ req = [r \in Requests |-> Ready]

safeZipEntryName(o) == o \notin Unsafe

Set(r, x) == req' = [req EXCEPT ![r] = x]
Put(o, x) == stored' = [stored EXCEPT ![o] = x]

\* An answer without a stream, 201 or a JSON error, is over at once.
Json(r) == Set(r, Ready)

\* The end of a body: the connection is cut if the body is shorter than the Content-Length
\* it was announced with.
Stops(x) ==
    [x EXCEPT !.pc = "answered", !.cut = x.length # Absent /\ x.body # x.length.chunks]

-----------------------------------------------------------------------------
(* Seeded faults. *)

\* The bytes that were read to guess the type are not put back.
SniffKeepsPrefix(r) ==
    /\ req[r].pc = "sniff"
    /\ \E k \in 0 .. Len(req[r].sent) :
          Set(r, [req[r] EXCEPT !.pc = "read", !.sent = SubSeq(@, k + 1, Len(@))])
    /\ UNCHANGED stored

-----------------------------------------------------------------------------
(* UploadObject                                                            *)

\* The part named "file" begins: n chunks, of which the client sends the first k.  The
\* type is guessed if neither the part nor the names tell it.
UploadObject(r, o, n, k) ==
    /\ req[r].pc = "idle"
    /\ \E pc \in {"sniff", "read"} :
          Set(r, [pc |-> pc, object |-> o, size |-> n, sent |-> File(k), whole |-> k = n])
    /\ UNCHANGED stored

\* sniffObjectContentType: one read takes some of what was sent, or fails; either way a
\* reader that begins with what was taken replaces the part.
Sniff(r) ==
    /\ req[r].pc = "sniff"
    /\ \E k \in 0 .. Len(req[r].sent) :
          Set(r, [req[r] EXCEPT !.pc = "read",
                  !.sent = SubSeq(@, 1, k) \o SubSeq(@, k + 1, Len(@))])
    /\ UNCHANGED stored

\* objects.Create reads everything for its checksum; a part that breaks off is an error
\* of the read, and nothing has been sent to Swift.
ReadAll(r) ==
    /\ req[r].pc = "read"
    /\ IF req[r].whole THEN Set(r, [req[r] EXCEPT !.pc = "create"]) ELSE Json(r)
    /\ UNCHANGED stored

CreateObject(r) ==
    /\ req[r].pc = "create"
    /\ Put(req[r].object, [size |-> req[r].size, chunks |-> req[r].sent])
    /\ Json(r)

\* Swift fails, or its answer is lost.
CreateObjectFails(r) ==
    /\ req[r].pc = "create"
    /\ \/ UNCHANGED stored
       \/ Put(req[r].object, [size |-> req[r].size, chunks |-> req[r].sent])
    /\ Json(r)

DeleteObject(o) ==
    /\ Exists(o)
    /\ Put(o, Absent)
    /\ UNCHANGED req

-----------------------------------------------------------------------------
(* DownloadObject and ArchiveObjects                                       *)

DownloadObject(r, o) ==
    /\ req[r].pc = "idle"
    /\ Set(r, [pc |-> "open", kind |-> "download", object |-> o, from |-> Absent, at |-> 0,
               body |-> <<>>, length |-> Absent, failed |-> FALSE, cut |-> FALSE])
    /\ UNCHANGED stored

ArchiveObjects(r) ==
    /\ req[r].pc = "idle"
    /\ Set(r, [pc |-> "list"])
    /\ UNCHANGED stored

\* The objects under the prefix in the order of their names, or none: 404.
ListObjects(r) ==
    LET found == {o \in Objects : Exists(o)} IN
    /\ req[r].pc = "list"
    /\ \/ found = {} /\ Json(r)
       \/ found # {} /\ \E sorted \in [1 .. Cardinality(found) -> found] :
             /\ \A i, j \in DOMAIN sorted : i < j => sorted[i] < sorted[j]
             /\ Set(r, [pc |-> "open", kind |-> "archive", matches |-> sorted, turn |-> 1,
                        from |-> Absent, at |-> 0, body |-> <<>>, length |-> Absent,
                        failed |-> FALSE, cut |-> FALSE])
    /\ UNCHANGED stored

ListObjectsFails(r) ==
    /\ req[r].pc = "list"
    /\ Json(r)
    /\ UNCHANGED stored

\* Swift begins to send the object.  Its Content-Length is passed on to the client of a
\* download, if there is one: a response the transport had to decompress has none.
\* Swift sends one version of the object to the end.
DownloadBegins(r) ==
    LET o == req[r].object IN
    /\ req[r].pc = "open" /\ req[r].kind = "download" /\ Exists(o)
    /\ \E length \in {stored[o], Absent} :
          Set(r, [req[r] EXCEPT !.pc = "copy", !.from = stored[o], !.length = length])
    /\ UNCHANGED stored

DownloadFails(r) ==
    /\ req[r].pc = "open" /\ req[r].kind = "download"
    /\ Json(r)
    /\ UNCHANGED stored

\* zw.Create writes the entry's header, then the object is opened.
EntryBegins(r) ==
    LET o == req[r].matches[req[r].turn] IN
    /\ req[r].pc = "open" /\ req[r].kind = "archive" /\ safeZipEntryName(o) /\ Exists(o)
    /\ Set(r, [req[r] EXCEPT !.pc = "copy", !.from = stored[o], !.at = 0,
                !.body = Append(@, [object |-> o, size |-> stored[o].size, copied |-> 0])])
    /\ UNCHANGED stored

\* The name is refused, or the object cannot be opened, also because it is gone since the
\* listing.  zw.Close writes the directory of what the archive has so far, so something
\* has been written in any case and the handler adds nothing.
EntryFails(r) ==
    LET o == req[r].matches[req[r].turn] IN
    /\ req[r].pc = "open" /\ req[r].kind = "archive"
    /\ Set(r, [req[r] EXCEPT !.pc = "answered", !.failed = TRUE,
                !.body = IF safeZipEntryName(o)
                         THEN Append(@, [object |-> o, size |-> 1, copied |-> 0]) ELSE @])
    /\ UNCHANGED stored

\* io.Copy, a chunk at a time; an entry counts its chunks.
Copy(r) ==
    /\ req[r].pc = "copy" /\ req[r].at < Len(req[r].from.chunks)
    /\ Set(r, [req[r] EXCEPT !.at = @ + 1,
                !.body = IF req[r].kind = "download"
                         THEN Append(@, req[r].from.chunks[req[r].at + 1])
                         ELSE [@ EXCEPT ![Len(@)].copied = req[r].at + 1]])
    /\ UNCHANGED stored

\* The object is complete: the response of a download is, and an archive goes on with its
\* next object or is closed.
CopyEnds(r) ==
    /\ req[r].pc = "copy" /\ req[r].at = Len(req[r].from.chunks)
    /\ Set(r, IF req[r].kind = "archive" /\ req[r].turn < Len(req[r].matches)
              THEN [req[r] EXCEPT !.pc = "open", !.turn = @ + 1]
              ELSE Stops(req[r]))
    /\ UNCHANGED stored

\* Swift breaks off.  A download that has written nothing is answered with JSON after all
\* (below the headers of the object, which are not taken back).
CopyFails(r) ==
    /\ req[r].pc = "copy"
    /\ IF req[r].kind = "download" /\ req[r].body = <<>>
       THEN Json(r)
       ELSE Set(r, Stops([req[r] EXCEPT !.failed = TRUE]))
    /\ UNCHANGED stored

Returns(r) ==
    /\ req[r].pc = "answered"
    /\ Set(r, Ready)
    /\ UNCHANGED stored

-----------------------------------------------------------------------------

Next ==
    \/ \E r \in Requests :
          \/ \E o \in Objects :
                \/ DownloadObject(r, o)
                \/ \E n \in 0..MaxChunks : \E k \in 0..n : UploadObject(r, o, n, k)
          \/ Sniff(r) \/ ReadAll(r) \/ CreateObject(r) \/ CreateObjectFails(r)
          \/ ArchiveObjects(r) \/ ListObjects(r) \/ ListObjectsFails(r)
          \/ DownloadBegins(r) \/ DownloadFails(r) \/ EntryBegins(r) \/ EntryFails(r)
          \/ Copy(r) \/ CopyEnds(r) \/ CopyFails(r) \/ Returns(r)
    \/ \E o \in Objects : DeleteObject(o)

Spec == Init /\ [][Next]_vars

-----------------------------------------------------------------------------
(* Properties.                                                             *)

\* What is stored is a file as its client sent it, to its end, although some of it was read
\* before to guess the type (content_type.go:110).
StoredWhole == \A o \in Objects : Exists(o) => stored[o].chunks = File(stored[o].size)

Streamed(r) == req[r].pc = "answered"

\* A body that ends well is complete if nothing failed or its length was announced: one
\* version of the object, or each object of the listing as it was when its turn came
\* (handler.go:193).
CompleteAnswers ==
    \A r \in Requests :
        Streamed(r) /\ ~req[r].cut /\ (~req[r].failed \/ req[r].length # Absent) =>
            IF req[r].kind = "download"
            THEN req[r].body = File(req[r].from.size)
            ELSE /\ Len(req[r].body) = Len(req[r].matches)
                 /\ \A i \in DOMAIN req[r].body :
                       /\ req[r].body[i].object = req[r].matches[i]
                       /\ req[r].body[i].size = req[r].body[i].copied

\* What an upload holds is the first chunks of its file, all of them once it calls Swift
\* (service.go:150).
UploadHolds(x) ==
    /\ x.sent = File(Len(x.sent)) /\ Len(x.sent) <= x.size
    /\ x.whole <=> Len(x.sent) = x.size
    /\ x.pc = "create" => x.whole

\* A stream that has begun sends a whole file, and is where its reader is.
Sends(x) == x.from.chunks = File(x.from.size) /\ x.at <= x.from.size

\* The body of a download is what was read so far; it ended without a failure, or with a
\* length that tells, only where the file did (handler.go:193).
DownloadHolds(x) ==
    /\ x.pc = "open" => x.at = 0 /\ x.body = <<>>
    /\ x.pc # "open" => /\ Sends(x) /\ x.body = File(x.at)
                        /\ x.length \in {x.from, Absent}
    /\ x.pc = "answered" => /\ x.failed \/ x.at = x.from.size
                            /\ x.cut <=> x.length # Absent /\ x.body # x.length.chunks

\* The archive has an entry for each object its loop has been at, all of them complete
\* but the one that is being copied or failed (service.go:201).
ArchiveHolds(x) ==
    /\ x.turn \in 1 .. Len(x.matches)
    /\ \A i \in DOMAIN x.body : x.body[i].object = x.matches[i]
    /\ x.pc = "open" => Len(x.body) = x.turn - 1
    /\ x.pc = "copy" => /\ Sends(x) /\ Len(x.body) = x.turn
                        /\ x.body[x.turn].size = x.from.size /\ x.body[x.turn].copied = x.at
    /\ x.pc = "answered" /\ ~x.failed => Len(x.body) = Len(x.matches)
    /\ \A i \in DOMAIN x.body :
          i < x.turn \/ (x.pc = "answered" /\ ~x.failed) => x.body[i].size = x.body[i].copied

RequestsHold ==
    \A r \in Requests :
        /\ req[r] \in Upload => UploadHolds(req[r])
        /\ req[r] \in Download => DownloadHolds(req[r])
        /\ req[r] \in Archive => ArchiveHolds(req[r])

TransferInv == TypeOK /\ StoredWhole /\ RequestsHold /\ CompleteAnswers

\* "이미 응답 본문이 흘러나간 뒤라면 JSON 에러를 덧붙이지 않고 스트림을 중단한다"
\* (handler.go:194): after a failure the stream is broken off, it does not end as a
\* complete one does.
FailedStreamAborted == \A r \in Requests : Streamed(r) /\ req[r].failed => req[r].cut
=============================================================================
