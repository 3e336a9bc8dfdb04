------------------------------ MODULE BlobStores ------------------------------
(***************************************************************************)
(* S3BlobStore and DiskBlobStore under the calls of write_new_sst and the  *)
(* readers: an object is put once under a number no put of this instance   *)
(* has used, read by range, and removed.  A put to S3 is one conditional   *)
(* request or a multipart upload that a conditional request completes; a   *)
(* put to disk writes a temporary file and links it into place.  Two       *)
(* instances may count the same numbers.                                   *)
(***************************************************************************)
EXTENDS RemoteService, Sequences

CONSTANTS
    MaxName,       \* bound: object numbers
    PerShard       \* OpenFileCache::per_shard_capacity

ASSUME BlobAssumption == MaxName \in Nat /\ PerShard \in Nat \ {0}

VARIABLES
    at, put,       \* where each instance's put is, and its locals
    number,        \* the number its next put takes
    puts,          \* ids used, per instance
    uploads,       \* S3: multipart uploads that are neither completed nor aborted
    temps,         \* disk: temporary files
    descriptors,   \* disk: the open-file cache, most recently used first
    reading,       \* disk: the file a get has opened and not yet read
    kept,          \* history: name -> id of the put that returned Ok
    adrift,        \* history: uploads whose create or abort was not answered
    removed,       \* history: names a remove was called for
    got            \* history: what the last get returned

blobVars == <<at, put, number, puts, uploads, temps, descriptors, reading>>
blobHistory == <<kept, adrift, removed, got>>

NoPut == [name |-> 0, id |-> NoId, parts |-> 0, sent |-> 0, answer |-> "Ok"]
NoFile == [name |-> 0, id |-> NoId]
NothingGot == [name |-> 0, status |-> "none", id |-> NoId]

ObjectAt(n) == Address("object", 0, n, NoId, 0)
Stored(n) == ObjectAt(n) \in DOMAIN table
list == {a.seq : a \in DOMAIN table}
ObjectWrite(p) == [at |-> ObjectAt(put[p].name), item |-> [id |-> put[p].id, round |-> 1, total |-> 1]]

StoreStep(p, l) ==
    /\ at' = [at EXCEPT ![p] = l]
    /\ UNCHANGED <<put, number, puts, descriptors, reading>>

\* write_new_sst on what put returned: a taken name is stepped over after a
\* listing, a failed one is abandoned
PutReturns(p, status) ==
    /\ at' = [at EXCEPT ![p] = "none"]
    /\ put' = [put EXCEPT ![p] = NoPut]
    /\ kept' = IF status = "Ok" THEN With(kept, put[p].name, put[p].id) ELSE kept
    /\ \E m \in 1..(MaxName + 1) :
          /\ number' = [number EXCEPT ![p] = m]
          /\ LET past == {put[p].name} \cup (IF status = "Unusable" THEN list ELSE {})
             IN m - 1 \in past /\ \A n \in past : n < m
    /\ UNCHANGED <<puts, descriptors, reading, removed, got>>

\* over the threshold an object goes up in parts
CallPut(p) ==
    /\ at[p] = "none" /\ number[p] <= MaxName /\ puts[p] < options.calls
    /\ puts' = [puts EXCEPT ![p] = @ + 1]
    /\ \E n \in IF options.backend = "s3blob" THEN options.snaps ELSE {0} :
          /\ at' = [at EXCEPT ![p] = CASE options.backend = "disk" -> "temp"
                                       [] n = 0 -> "object"
                                       [] OTHER -> "create"]
          /\ put' = [put EXCEPT ![p] = [NoPut EXCEPT !.name = number[p], !.parts = n,
                                                     !.id = <<p, puts[p] + 1>>]]
    /\ UNCHANGED <<serviceVars, number, uploads, temps, descriptors, reading, blobHistory>>

-----------------------------------------------------------------------------
(* S3BlobStore::put and multipart_put.                                     *)

\* owns: the object there carries this put's write id
Owns(p) == Stored(put[p].name) /\ table[ObjectAt(put[p].name)] = ObjectWrite(p).item

PutObject(p) ==
    /\ at[p] = "object"
    /\ \E answer \in {"Ok", "Taken", "Io"} :
       /\ ConditionalPut(ObjectWrite(p), answer)
       /\ CASE answer = "Ok" -> PutReturns(p, "Ok")
            [] answer = "Taken" -> PutReturns(p, "Unusable")
            [] OTHER -> StoreStep(p, "objectAgain") /\ UNCHANGED <<kept, removed, got>>
    /\ UNCHANGED <<uploads, temps, adrift>>

Remember(p, l, answer) ==
    /\ at' = [at EXCEPT ![p] = l]
    /\ put' = [put EXCEPT ![p].answer = answer]
    /\ UNCHANGED <<number, puts, descriptors, reading, kept, removed, got>>

PutObjectAgain(p) ==
    /\ at[p] = "objectAgain"
    /\ \E answer \in {"Ok", "Taken", "Io"} :
       /\ ConditionalPut(ObjectWrite(p), answer)
       /\ IF answer = "Ok" THEN PutReturns(p, "Ok") ELSE Remember(p, "owns", answer)
    /\ UNCHANGED <<uploads, temps, adrift>>

Classified(answer) == IF answer = "Taken" THEN "Unusable" ELSE "Io"

\* a multipart put that does not own the object aborts its upload first
HeadObject(p) ==
    /\ at[p] = "owns"
    /\ \E look \in {"Ok", "Io"} :
       /\ Looked(look)
       /\ IF look = "Ok" /\ Owns(p) THEN PutReturns(p, "Ok")
          ELSE IF put[p].parts > 0 THEN Remember(p, "abort", put[p].answer)
          ELSE PutReturns(p, Classified(put[p].answer))
    /\ UNCHANGED <<uploads, temps, adrift>>

\* a create that was carried out but not answered leaves an upload nobody knows
CreateUpload(p) ==
    /\ at[p] = "create"
    /\ \E answer \in {"Ok", "Io"} :
       /\ Looked(answer)
       /\ IF answer = "Ok"
          THEN /\ uploads' = uploads \cup {put[p].id}
               /\ StoreStep(p, "part") /\ UNCHANGED <<kept, adrift, removed, got>>
          ELSE /\ uploads' \in {uploads, uploads \cup {put[p].id}}
               /\ adrift' = adrift \cup {put[p].id}
               /\ PutReturns(p, "Io")
    /\ UNCHANGED temps

UploadPart(p) ==
    /\ at[p] = "part"
    /\ \E answer \in {"Ok", "Io"} :
       /\ Looked(answer)
       /\ IF answer = "Io" THEN Remember(p, "abort", "Io")
          ELSE /\ at' = [at EXCEPT ![p] = IF put[p].sent + 1 = put[p].parts THEN "complete" ELSE "part"]
               /\ put' = [put EXCEPT ![p].sent = @ + 1]
               /\ UNCHANGED <<number, puts, descriptors, reading, kept, removed, got>>
    /\ UNCHANGED <<uploads, temps, adrift>>

\* CompleteMultipartUpload with If-None-Match: an upload is completed once
Completes(p, answer) ==
    LET open == put[p].id \in uploads
        free == ~Stored(put[p].name)
        done == /\ table' = Put(ObjectWrite(p)) /\ uploads' = uploads \ {put[p].id}
    IN /\ \/ /\ answer = "Ok" /\ open /\ free
             /\ done /\ NoFault
          \/ /\ answer = "Taken" /\ ~free
             /\ NoFault /\ UNCHANGED <<table, uploads>>
          \/ /\ answer = "Io" /\ ~open /\ free              \* no such upload
             /\ NoFault /\ UNCHANGED <<table, uploads>>
          \/ /\ answer = "Io" /\ Fault
             /\ \/ UNCHANGED <<table, uploads>>
                \/ open /\ free /\ done
       /\ UNCHANGED <<options, pointer, late>>

CompleteUpload(p) ==
    /\ at[p] \in {"complete", "completeAgain"}
    /\ \E answer \in {"Ok", "Taken", "Io"} :
       /\ Completes(p, answer)
       /\ IF answer = "Ok" THEN PutReturns(p, "Ok")
          ELSE Remember(p, CASE at[p] = "completeAgain" -> "owns"
                             [] answer = "Taken" -> "abort"
                             [] OTHER -> "completeAgain", answer)
    /\ UNCHANGED <<temps, adrift>>

\* every failing path aborts; whether the abort was answered is not looked at
AbortUpload(p) ==
    /\ at[p] = "abort"
    /\ \E answer \in {"Ok", "Io"} :
       /\ Looked(answer)
       /\ IF answer = "Ok" THEN uploads' = uploads \ {put[p].id} /\ UNCHANGED adrift
          ELSE /\ uploads' \in {uploads, uploads \ {put[p].id}}
               /\ adrift' = adrift \cup {put[p].id}
    /\ PutReturns(p, Classified(put[p].answer))
    /\ UNCHANGED temps

\* do_get on an object a put returned Ok for
GetObject(n) ==
    /\ n \in DOMAIN kept
    /\ \E answer \in {"Ok", "Io"} :
       /\ Looked(answer)
       /\ got' = [name |-> n, status |-> IF answer = "Io" THEN "Io"
                                        ELSE IF Stored(n) THEN "Ok" ELSE "NotFound",
                  id |-> IF answer = "Ok" /\ Stored(n) THEN table[ObjectAt(n)].id ELSE NoId]
    /\ UNCHANGED <<blobVars, kept, adrift, removed>>

-----------------------------------------------------------------------------
(* remove, and DiskBlobStore: put, and get through the open-file cache.    *)

\* what a put returned Ok for is removed once; a failed removal is reported,
\* the names it did not reach still there
RemoveMany(N) ==
    /\ N # {} /\ N \subseteq DOMAIN kept /\ N \cap removed = {}
    /\ removed' = removed \cup N
    /\ descriptors' = SelectSeq(descriptors, LAMBDA d : d.name \notin N)
    /\ \E answer \in {"Ok", "Io"} : Deleted({ObjectAt(n) : n \in N}, answer)
    /\ UNCHANGED <<at, put, number, puts, uploads, temps, reading, kept, adrift, got>>

\* the temporary file is written and synced, or unlinked again
WriteTemp(p) ==
    /\ at[p] = "temp"
    /\ \E answer \in {"Ok", "Io"} :
       /\ Looked(answer)
       /\ IF answer = "Io" THEN PutReturns(p, "Io") /\ UNCHANGED temps
          ELSE /\ temps' = temps \cup {put[p].id}
               /\ StoreStep(p, "link") /\ UNCHANGED <<kept, removed, got>>
    /\ UNCHANGED <<uploads, adrift>>

\* link() makes it visible unless the name is taken; the directory is synced
\* after the temporary name is gone
LinkByRename(p) == With(table, ObjectWrite(p).at, ObjectWrite(p).item)
Link(p) == Put(ObjectWrite(p))
LinkIntoPlace(p) ==
    /\ at[p] = "link"
    /\ table' = Link(p)
    /\ temps' = temps \ {put[p].id}
    /\ \/ /\ NoFault
          /\ PutReturns(p, IF Stored(put[p].name) THEN "Unusable" ELSE "Ok")
       \/ /\ Fault
          /\ PutReturns(p, "Io")
    /\ UNCHANGED <<options, pointer, late, uploads, adrift>>

\* killed in the middle of a put: the file is under its temporary name, whole or not
CrashInPut(p) ==
    /\ at[p] \in {"temp", "link"} /\ Fault
    /\ temps' = temps \cup {put[p].id}
    /\ PutReturns(p, "Io")
    /\ UNCHANGED <<options, table, pointer, late, uploads, adrift>>

Returns(n, status, id) == got' = [name |-> n, status |-> status, id |-> id]

\* open_for_read: the descriptor held, or a fresh one; out of descriptors, the
\* cache gives all of its own back first
OpenForRead(n) ==
    /\ reading = NoFile /\ n \in DOMAIN kept
    /\ LET held == {i \in DOMAIN descriptors : descriptors[i].name = n} IN
       \/ /\ held # {}
          /\ reading' = descriptors[CHOOSE i \in held : TRUE]
          /\ UNCHANGED <<descriptors, got, faults>>
       \/ /\ held = {} /\ Stored(n)
          /\ reading' = [name |-> n, id |-> table[ObjectAt(n)].id]
          /\ descriptors' \in {descriptors} \cup (IF faults < MaxFaults THEN {<<>>} ELSE {})
          /\ faults' = IF descriptors' = descriptors THEN faults ELSE faults + 1
          /\ UNCHANGED got
       \/ /\ held = {} /\ ~Stored(n)
          /\ Returns(n, "NotFound", NoId)
          /\ UNCHANGED <<reading, descriptors, faults>>
    /\ UNCHANGED <<options, table, pointer, late, at, put, number, puts, uploads, temps,
                   kept, adrift, removed>>

\* lookup's splice or insert's push to the front, the last one evicted; then pread
ReadAndKeep ==
    /\ reading # NoFile
    /\ LET others == SelectSeq(descriptors, LAMBDA d : d.name # reading.name)
       IN descriptors' = SubSeq(<<reading>> \o others, 1,
                                IF Len(others) < PerShard THEN Len(others) + 1 ELSE PerShard)
    /\ Returns(reading.name, "Ok", reading.id)
    /\ reading' = NoFile
    /\ UNCHANGED <<serviceVars, at, put, number, puts, uploads, temps, kept, adrift, removed>>

-----------------------------------------------------------------------------
BlobInit ==
    /\ at = [p \in Instances |-> "none"]
    /\ put = [p \in Instances |-> NoPut]
    /\ number = [p \in Instances |-> 1]
    /\ puts = [p \in Instances |-> 0]
    /\ uploads = {} /\ temps = {} /\ descriptors = <<>> /\ reading = NoFile
    /\ kept = [n \in {} |-> NoId] /\ adrift = {} /\ removed = {} /\ got = NothingGot

BlobNext ==
    \/ \E p \in Instances :
          \/ CallPut(p) \/ PutObject(p) \/ PutObjectAgain(p) \/ HeadObject(p)
          \/ CreateUpload(p) \/ UploadPart(p) \/ CompleteUpload(p) \/ AbortUpload(p)
          \/ WriteTemp(p) \/ LinkIntoPlace(p) \/ CrashInPut(p)
    \/ \E N \in SUBSET (1..MaxName) : RemoveMany(N)
    \/ LateArrives /\ UNCHANGED <<blobVars, blobHistory>>
    \/ options.backend = "s3blob" /\ \E n \in 1..MaxName : GetObject(n)
    \/ options.backend = "disk" /\ (ReadAndKeep \/ \E n \in 1..MaxName : OpenForRead(n))

\* An object whose put returned Ok is there, as that put wrote it, until it is
\* removed: no retry, rival of the same number, late request or upload
\* completed twice replaces or tears it; a get, through a cached descriptor
\* too, returns it or fails.
ObjectsAreExact ==
    /\ \A n \in DOMAIN kept \ removed : Stored(n) /\ table[ObjectAt(n)].id = kept[n]
    /\ \/ got = NothingGot
       \/ got.name \in removed \/ got.status = "Io"
       \/ got.status = "Ok" /\ got.id = kept[got.name]

\* A multipart upload does not outlive its put, whose parts would be billed
\* until something removed them, unless the request that created or aborted it
\* went unanswered.
UploadsAreClosed ==
    \A u \in uploads : u \in adrift \/ \E p \in Instances : put[p].id = u

=============================================================================
