---------------------------- MODULE RemoteCatalog ----------------------------
(***************************************************************************)
(* DynamoManifestCatalog and S3ManifestCatalog, each call one round trip   *)
(* at a time, under the calls VersionSet makes of them: put_edit at the    *)
(* next sequence number, put_snapshot and compare_and_set to roll, the     *)
(* deletion of the generation rolled away from, and the reads of an open.  *)
(* Two instances may work on one store: nothing but these calls keeps them *)
(* apart.  A payload is abstracted to the call that wrote it.              *)
(***************************************************************************)
EXTENDS RemoteService

CONSTANTS
    MaxGen       \* bound: generations

VARIABLES
    pc, job,     \* where each instance's call is, and its locals
    entry, seq,  \* VersionSet's entry_ and next_seq_
    written,     \* written_attempts: generation -> the attempt last written
    pointed,     \* pointer_attempts: generation -> the attempt the pointer named
    calls,       \* ids used, per instance
    answered,    \* history: what each compare_and_set was answered
    installed,   \* history: generation -> id of the install that made it live
    acked,       \* history: address of an edit put_edit returned Ok for -> its id
    dropped,     \* history: generations a delete_generation was called for
    loaded       \* history: what the last get_snapshot of an open returned

catalogVars == <<pc, job, entry, seq, written, pointed, calls>>
historyVars == <<answered, acked, dropped, loaded>>

Nowhere == [gen |-> 0, token |-> <<0, NoId>>]
NoPointer == [gen |-> 0, token |-> <<0, NoId>>, attempt |-> NoId, id |-> NoId]
NoJob == [kind |-> "none", gen |-> 0, seq |-> 0, attempt |-> NoId, id |-> NoId, round |-> 1,
          chunk |-> 0, total |-> 1, answer |-> "Ok", found |-> {}]
NothingLoaded == [gen |-> 0, status |-> "none", id |-> NoId]
NoMap == [g \in {} |-> NoId]

Dynamo == options.backend = "dynamo"

-----------------------------------------------------------------------------
(* What is stored, as the catalogs read it.                                *)

ChunksOf(kind, g, s, attempt) ==
    {a \in DOMAIN table : a.kind = kind /\ a.gen = g /\ a.seq = s /\ a.attempt = attempt}
First(A) == CHOOSE a \in A : \A b \in A : a.chunk <= b.chunk
\* the set is as large as its first chunk declares
WholeSet(A) == A # {} /\ table[First(A)].total = Cardinality(A)

\* get_chunked, and the frame the engine checks: chunks of two writes do not decode
Chunked(A) ==
    IF A = {} THEN [status |-> "NotFound", id |-> NoId]
    ELSE IF WholeSet(A) /\ \A a \in A : table[a].id = table[First(A)].id
    THEN [status |-> "Ok", id |-> table[First(A)].id]
    ELSE [status |-> "Corrupt", id |-> NoId]

EditAt(g, s) == ChunksOf("edit", g, s, NoId)
get_edit(g, s) == Chunked(EditAt(g, s))
list_edits(g) == {a.seq : a \in {x \in DOMAIN table : x.kind = "edit" /\ x.gen = g}}
list_generations == {a.gen : a \in DOMAIN table}
GenerationItems(g) == {a \in DOMAIN table : a.gen = g}

Attempts(g) == {a.attempt : a \in {x \in DOMAIN table : x.kind = "snap" /\ x.gen = g}}
CompleteAttempts(g) == {t \in Attempts(g) : WholeSet(ChunksOf("snap", g, 0, t))}

\* get_snapshot_attempt: the attempt the pointer named, or the only complete one
AnyCompleteAttempt(p, g) == CompleteAttempts(g)
Candidates(p, g) ==
    IF g \in DOMAIN pointed[p] THEN CompleteAttempts(g) \cap {pointed[p][g]}
    ELSE IF Cardinality(CompleteAttempts(g)) = 1 THEN CompleteAttempts(g) ELSE {}
get_snapshot(p, g, r) ==
    \/ Attempts(g) = {} /\ r = [status |-> "NotFound", id |-> NoId]
    \/ \E t \in Candidates(p, g) : r = Chunked(ChunksOf("snap", g, 0, t))
    \/ /\ Attempts(g) # {} /\ Candidates(p, g) = {}
       /\ r = [status |-> "Corrupt", id |-> NoId]

-----------------------------------------------------------------------------
(* The calls and what they return to the engine.                           *)

Goto(p, l) == pc' = [pc EXCEPT ![p] = l]
Id(p) == <<p, calls[p] + 1>>
TakeId(p) == calls[p] < options.calls /\ calls' = [calls EXCEPT ![p] = @ + 1]

\* the call is over, and with it its locals
Return(p, l) == Goto(p, l) /\ job' = [job EXCEPT ![p] = NoJob]

\* VersionSet::apply on what put_edit returned: Config means another writer
EditEnds(p, status) ==
    /\ Return(p, IF status = "Config" THEN "fenced" ELSE "idle")
    /\ IF status = "Ok"
       THEN /\ acked' = With(acked, <<job[p].gen, job[p].seq>>, job[p].id)
            /\ seq' = [seq EXCEPT ![p] = @ + 1]
       ELSE UNCHANGED <<acked, seq>>
    /\ UNCHANGED <<entry, written, pointed, calls, answered, dropped, loaded>>

\* put_snapshot returned: on to the install, to another generation, or give up
SnapshotEnds(p, status) ==
    /\ CASE status = "Ok" -> /\ Goto(p, "cas") /\ UNCHANGED job
                             /\ written' = [written EXCEPT ![p] = With(@, job[p].gen, job[p].id)]
         [] status = "Config" -> Goto(p, "collided") /\ UNCHANGED <<job, written>>
         [] OTHER -> Return(p, IF entry[p] = Nowhere THEN "down" ELSE "idle") /\ UNCHANGED written
    /\ UNCHANGED <<entry, seq, pointed, calls, historyVars>>

\* put_edit_chunked takes one look at what its first put_chunked collided with
PutEnds(p, status) ==
    CASE job[p].kind = "snap" -> SnapshotEnds(p, status)
      [] job[p].kind = "edit" /\ status = "Config" /\ Dynamo /\ job[p].round = 1 ->
            Goto(p, "partial") /\ UNCHANGED <<job, entry, seq, written, pointed, calls, historyVars>>
      [] OTHER -> EditEnds(p, status)

Step(p, l) ==
    Goto(p, l) /\ UNCHANGED <<job, entry, seq, written, pointed, calls, historyVars>>
StepWith(p, l, j) ==
    /\ Goto(p, l) /\ job' = [job EXCEPT ![p] = j]
    /\ UNCHANGED <<entry, seq, written, pointed, calls, historyVars>>

CallPutEdit(p) ==
    /\ pc[p] = "idle"
    /\ TakeId(p)
    /\ Goto(p, "put")
    /\ \E n \in options.edits :
          job' = [job EXCEPT ![p] = [NoJob EXCEPT !.kind = "edit", !.gen = entry[p].gen,
                                     !.seq = seq[p], !.id = Id(p), !.total = n]]
    /\ UNCHANGED <<serviceVars, entry, seq, written, pointed, historyVars>>

\* has_complete_snapshot is asked first by the catalog that addresses by attempt
CallPutSnapshot(p) ==
    /\ pc[p] = "idle" /\ entry[p].gen < MaxGen
    /\ TakeId(p)
    /\ Goto(p, IF Dynamo THEN "complete" ELSE "put")
    /\ \E n \in options.snaps :
          job' = [job EXCEPT ![p] =
                    [NoJob EXCEPT !.kind = "snap", !.gen = entry[p].gen + 1, !.id = Id(p),
                                  !.total = n, !.attempt = IF Dynamo THEN Id(p) ELSE NoId]]
    /\ UNCHANGED <<serviceVars, entry, seq, written, pointed, historyVars>>

HasCompleteSnapshot(p) ==
    /\ pc[p] = "complete"
    /\ \E look \in {"Ok", "Io"} :
       /\ Looked(look)
       /\ IF look = "Io" THEN SnapshotEnds(p, "Io")
          ELSE IF CompleteAttempts(job[p].gen) # {} THEN SnapshotEnds(p, "Config")
          ELSE Step(p, "put")

-----------------------------------------------------------------------------
(* put_once: a conditional put, one retry, and a look at whose item it is. *)

Write(p) ==
    [at |-> Address(job[p].kind, job[p].gen, job[p].seq, job[p].attempt, job[p].chunk),
     item |-> [id |-> job[p].id, round |-> job[p].round, total |-> job[p].total]]

ChunkWritten(p) ==
    IF job[p].chunk + 1 < job[p].total
    THEN StepWith(p, "put", [job[p] EXCEPT !.chunk = @ + 1])
    ELSE PutEnds(p, "Ok")

Refusal(answer) == IF answer = "Taken" THEN "Config" ELSE "Io"

PutFirst(p) ==
    /\ pc[p] = "put"
    /\ \E answer \in {"Ok", "Taken", "Io"} :
       /\ ConditionalPut(Write(p), answer)
       /\ CASE answer = "Ok" -> ChunkWritten(p)
            [] answer = "Taken" -> PutEnds(p, "Config")
            [] OTHER -> Step(p, "again")

PutAgain(p) ==
    /\ pc[p] = "again"
    /\ \E answer \in {"Ok", "Taken", "Io"} :
       /\ ConditionalPut(Write(p), answer)
       /\ IF answer = "Ok" THEN ChunkWritten(p)
          ELSE StepWith(p, "check", [job[p] EXCEPT !.answer = answer])

\* operation_landed, or the HEAD of the write id: the item at the address is this call's
LandedIfPresent(p) == Write(p).at \in DOMAIN table
Landed(p) == Write(p).at \in DOMAIN table /\ table[Write(p).at] = Write(p).item

\* a look that fails is Io for DynamoDB, and no look at all for S3
PutCheck(p) ==
    /\ pc[p] = "check"
    /\ \E look \in {"Ok", "Io"} :
       /\ Looked(look)
       /\ IF look = "Io" /\ Dynamo THEN PutEnds(p, "Io")
          ELSE IF look = "Ok" /\ Landed(p) THEN ChunkWritten(p)
          ELSE PutEnds(p, Refusal(job[p].answer))

-----------------------------------------------------------------------------
(* put_edit_chunked over residue at its address (DynamoDB).                *)

\* is_partial: the set there is unfinished
IsPartial(p) ==
    /\ pc[p] = "partial"
    /\ \E look \in {"Ok", "Io"} :
       /\ Looked(look)
       /\ LET there == EditAt(job[p].gen, job[p].seq) IN
          IF look = "Io" THEN EditEnds(p, "Io")
          ELSE IF there # {} /\ ~WholeSet(there) THEN Step(p, "ours")
          ELSE EditEnds(p, "Config")

\* written_by_us: its first chunk carries this instance's id, or is gone
Ours(p, a) == a \in DOMAIN table => table[a].id[1] = p
WrittenByUs(p) ==
    /\ pc[p] = "ours"
    /\ \E look \in {"Ok", "Io"} :
       /\ Looked(look)
       /\ IF look = "Io" THEN EditEnds(p, "Io")
          ELSE IF Ours(p, Address("edit", job[p].gen, job[p].seq, NoId, 0)) THEN Step(p, "query")
          ELSE EditEnds(p, "Config")

\* delete_prefix: the items found by the query, removed in batches
DeletePrefixQuery(p) ==
    /\ pc[p] = "query"
    /\ \E look \in {"Ok", "Io"} :
       /\ Looked(look)
       /\ CASE job[p].kind = "edit" /\ look = "Ok" ->
                 StepWith(p, "delete", [job[p] EXCEPT !.found = EditAt(job[p].gen, job[p].seq)])
            [] job[p].kind = "edit" /\ look = "Io" -> EditEnds(p, "Io")
            [] OTHER ->
                 /\ IF look = "Ok"
                    THEN /\ Goto(p, "delete")
                         /\ job' = [job EXCEPT ![p].found = GenerationItems(job[p].gen)]
                    ELSE Return(p, "idle")
                 /\ UNCHANGED <<entry, seq, written, pointed, calls, historyVars>>

DeletePrefixBatch(p) ==
    /\ pc[p] = "delete"
    /\ \E answer \in {"Ok", "Io"} :
       /\ Deleted(job[p].found, answer)
       /\ CASE job[p].kind = "edit" /\ answer = "Ok" ->
                 StepWith(p, "put", [job[p] EXCEPT !.round = 2, !.chunk = 0, !.found = {}])
            [] job[p].kind = "edit" /\ answer = "Io" -> EditEnds(p, "Io")
            [] OTHER -> /\ Return(p, "idle")
                        /\ UNCHANGED <<entry, seq, written, pointed, calls, historyVars>>

-----------------------------------------------------------------------------
(* write_snapshot_and_install: a taken generation, the install, a lost one. *)

Sees(p) == [gen |-> pointer.gen, token |-> pointer.token]
NotePointer(p, g, attempt) ==
    pointed' = IF attempt = NoId THEN pointed ELSE [pointed EXCEPT ![p] = With(@, g, attempt)]
\* read() remembers the attempt the pointer names
ReadNotes(p, look) ==
    IF look = "Ok" /\ pointer # NoPointer THEN NotePointer(p, pointer.gen, pointer.attempt)
    ELSE UNCHANGED pointed

Homeless(p) == IF entry[p] = Nowhere THEN "down" ELSE "idle"

Collided(p) ==
    /\ pc[p] = "collided"
    /\ \E look \in {"Ok", "Io"} :
       /\ Looked(look) /\ ReadNotes(p, look)
       /\ IF look = "Io" THEN Return(p, Homeless(p))
          ELSE IF Sees(p) # entry[p] THEN Return(p, "fenced")
          ELSE Goto(p, "relist") /\ UNCHANGED job
    /\ UNCHANGED <<entry, seq, written, calls, historyVars>>

\* past every generation the catalog can list; DynamoDB lists none
Relist(p) ==
    /\ pc[p] = "relist"
    /\ \E look \in {"Ok", "Io"}, g \in 1..MaxGen :
       /\ Looked(look) /\ (Dynamo => look = "Ok")
       /\ IF look = "Io" THEN g = 1 /\ Return(p, Homeless(p))
          ELSE /\ LET seen == {job[p].gen} \cup (IF Dynamo THEN {} ELSE list_generations)
                  IN g - 1 \in seen /\ \A x \in seen : x < g
               /\ Goto(p, IF Dynamo THEN "complete" ELSE "put")
               /\ job' = [job EXCEPT ![p].gen = g, ![p].chunk = 0]
    /\ UNCHANGED <<entry, seq, written, pointed, calls, historyVars>>

\* DynamoDB's token is a version one higher than the expected one; S3's is the
\* ETag of a body that carries a fresh id
Install(p) ==
    [expected |-> entry[p].token,
     entry |-> [gen |-> job[p].gen,
                token |-> IF Dynamo THEN <<entry[p].token[1] + 1, NoId>> ELSE <<job[p].gen, job[p].id>>,
                attempt |-> IF Dynamo THEN written[p][job[p].gen] ELSE NoId,
                id |-> job[p].id]]

Answer(p, a) == answered' = answered \cup {[id |-> job[p].id, expected |-> entry[p].token, answer |-> a]}

\* the entry is this instance's: the generation before it is deleted
InstallEnds(p, e) ==
    /\ entry' = [entry EXCEPT ![p] = e]
    /\ seq' = [seq EXCEPT ![p] = 1]
    /\ IF entry[p] = Nowhere THEN Return(p, "idle") /\ UNCHANGED dropped
       ELSE /\ Goto(p, "query")
            /\ job' = [job EXCEPT ![p] = [NoJob EXCEPT !.kind = "drop", !.gen = entry[p].gen]]
            /\ dropped' = dropped \cup {entry[p].gen}
    /\ UNCHANGED <<written, calls, acked, loaded>>

CasWon(p) ==
    /\ LET e == Install(p).entry IN
       /\ InstallEnds(p, [gen |-> e.gen, token |-> e.token])
       /\ NotePointer(p, e.gen, e.attempt)
    /\ Answer(p, "Ok")
CasLost(p) ==
    /\ Return(p, "fenced") /\ Answer(p, "Lost")
    /\ UNCHANGED <<entry, seq, written, pointed, calls, acked, dropped, loaded>>

CasFirst(p) ==
    /\ pc[p] = "cas"
    /\ \E answer \in {"Ok", "Taken", "Io"} :
       /\ ConditionalSwap(Install(p), answer)
       /\ CASE answer = "Ok" -> CasWon(p)
            [] answer = "Taken" -> CasLost(p)
            [] OTHER -> Step(p, "casAgain")

CasAgain(p) ==
    /\ pc[p] = "casAgain"
    /\ \E answer \in {"Ok", "Taken", "Io"} :
       /\ ConditionalSwap(Install(p), answer)
       /\ IF answer = "Ok" THEN CasWon(p)
          ELSE StepWith(p, "casCheck", [job[p] EXCEPT !.answer = answer])

\* the pointer carries this call's id: the first try was carried out after all
CarriedOutByGeneration(p) == pointer.gen = job[p].gen
CarriedOut(p) == pointer.id = job[p].id

CasCheck(p) ==
    /\ pc[p] = "casCheck"
    /\ \E look \in {"Ok", "Io"} :
       /\ Looked(look)
       /\ IF look = "Io" /\ Dynamo THEN Step(p, "settle")
          ELSE IF look = "Ok" /\ CarriedOut(p) THEN CasWon(p)
          ELSE IF job[p].answer = "Taken" THEN CasLost(p)
          ELSE Step(p, "settle")

\* the engine reads the pointer to settle an ambiguous install
Settle(p) ==
    /\ pc[p] = "settle"
    /\ \E look \in {"Ok", "Io"} :
       /\ Looked(look) /\ ReadNotes(p, look)
       /\ IF look = "Ok" /\ pointer.gen = job[p].gen THEN InstallEnds(p, Sees(p))
          ELSE /\ Return(p, IF look = "Ok" /\ Sees(p) # entry[p] THEN "fenced" ELSE Homeless(p))
               /\ UNCHANGED <<entry, seq, written, calls, acked, dropped, loaded>>
    /\ UNCHANGED answered

-----------------------------------------------------------------------------
(* An open: the pointer, its snapshot, the edits listed under it.          *)

\* a fresh store is created: generation 1 against no pointer
Open(p) ==
    /\ pc[p] \in {"down", "fenced"}
    /\ TakeId(p)
    /\ \E look \in {"Ok", "Io"} :
       /\ Looked(look) /\ ReadNotes(p, look)
       /\ CASE look = "Io" -> Return(p, "down") /\ UNCHANGED entry
            [] pointer = NoPointer ->
                 /\ entry' = [entry EXCEPT ![p] = Nowhere]
                 /\ Goto(p, IF Dynamo THEN "complete" ELSE "put")
                 /\ \E n \in options.snaps :
                       job' = [job EXCEPT ![p] =
                                 [NoJob EXCEPT !.kind = "snap", !.gen = 1, !.id = Id(p), !.total = n,
                                               !.attempt = IF Dynamo THEN Id(p) ELSE NoId]]
            [] OTHER -> Return(p, "load") /\ entry' = [entry EXCEPT ![p] = Sees(p)]
    /\ seq' = [seq EXCEPT ![p] = 1]
    /\ UNCHANGED <<written, historyVars>>

\* the pointer did not move while the snapshot was missing: that is damage
Load(p) ==
    /\ pc[p] = "load"
    /\ \E look \in {"Ok", "Io"}, r \in [status : {"Ok", "NotFound", "Corrupt"}, id : {NoId} \cup
                                         {table[a].id : a \in DOMAIN table}] :
       /\ Looked(look)
       /\ get_snapshot(p, entry[p].gen, r)
       /\ Return(p, IF look = "Ok" /\ r.status = "Ok" THEN "replay" ELSE "down")
       /\ loaded' = [loaded EXCEPT ![p] = IF look = "Io" THEN NothingLoaded
                                         ELSE [gen |-> entry[p].gen, status |-> r.status, id |-> r.id]]
    /\ UNCHANGED <<entry, seq, written, pointed, calls, answered, acked, dropped>>

\* an unreadable last edit is a torn tail; below the tail it is damage
Replay(p) ==
    /\ pc[p] = "replay"
    /\ \E look \in {"Ok", "Io"} :
       /\ Looked(look)
       /\ LET listed == list_edits(entry[p].gen)
              readable == get_edit(entry[p].gen, seq[p]).status = "Ok"
          IN IF look = "Io" THEN Goto(p, "down") /\ UNCHANGED seq
             ELSE IF seq[p] \in listed /\ readable THEN seq' = [seq EXCEPT ![p] = @ + 1] /\ UNCHANGED pc
             ELSE /\ Goto(p, IF \E s \in listed : s > seq[p] THEN "down" ELSE "idle")
                  /\ UNCHANGED seq
    /\ UNCHANGED <<job, entry, written, pointed, calls, historyVars>>

-----------------------------------------------------------------------------
Running == {p \in Instances : p <= options.instances}

\* a store with one generation that every instance has open, or none at all
CatalogInit ==
    /\ LET first == [gen |-> 1, token |-> IF Dynamo THEN <<1, NoId>> ELSE <<1, <<0, 1>>>>,
                     attempt |-> IF Dynamo THEN <<0, 1>> ELSE NoId, id |-> <<0, 1>>]
           live == [gen |-> 1, token |-> first.token]
           snapshot == Address("snap", 1, 0, first.attempt, 0)
       IN /\ pointer = IF options.fresh THEN NoPointer ELSE first
          /\ table = IF options.fresh THEN [a \in {} |-> 0]
                     ELSE [a \in {snapshot} |-> [id |-> <<0, 1>>, round |-> 1, total |-> 1]]
          /\ entry = [p \in Instances |-> IF options.fresh THEN Nowhere ELSE live]
          /\ pointed = [p \in Instances |-> IF options.fresh \/ ~Dynamo THEN NoMap
                                            ELSE [g \in {1} |-> first.attempt]]
          /\ installed = IF options.fresh THEN NoMap ELSE [g \in {1} |-> <<0, 1>>]
    /\ pc = [p \in Instances |-> IF options.fresh THEN "down" ELSE "idle"]
    /\ job = [p \in Instances |-> NoJob]
    /\ seq = [p \in Instances |-> 1]
    /\ written = [p \in Instances |-> NoMap]
    /\ calls = [p \in Instances |-> 0]
    /\ answered = {} /\ dropped = {} /\ acked = [a \in {} |-> NoId]
    /\ loaded = [p \in Instances |-> NothingLoaded]

CatalogStep(p) ==
    \/ CallPutEdit(p) \/ CallPutSnapshot(p) \/ HasCompleteSnapshot(p)
    \/ PutFirst(p) \/ PutAgain(p) \/ PutCheck(p)
    \/ IsPartial(p) \/ WrittenByUs(p) \/ DeletePrefixQuery(p) \/ DeletePrefixBatch(p)
    \/ Collided(p) \/ Relist(p)
    \/ CasFirst(p) \/ CasAgain(p) \/ CasCheck(p) \/ Settle(p)
    \/ Open(p) \/ Load(p) \/ Replay(p)

CatalogNext ==
    /\ \/ \E p \in Running : CatalogStep(p)
       \/ LateArrives /\ UNCHANGED <<catalogVars, historyVars>>
    /\ installed' = IF pointer' = pointer THEN installed
                    ELSE With(installed, pointer'.gen, pointer'.id)

-----------------------------------------------------------------------------
(* Properties.                                                             *)

\* compare_and_set tells the truth however its requests were lost, repeated
\* or delayed: an instance told it installed a generation did, by that call, and
\* one told it lost can never install from the entry it holds.  With DynamoDB
\* it was not fenced by its own install.
CasAnswersAreTrue ==
    \A c \in answered :
       /\ c.answer = "Ok" => \E g \in DOMAIN installed : installed[g] = c.id
       /\ c.answer = "Lost" => pointer.token # c.expected
       /\ c.answer = "Lost" /\ Dynamo => pointer.id # c.id

\* What an open reads as the snapshot of the generation the pointer names is
\* the one the winning install put, though two writers may both have written a
\* complete one: it is another, missing or damaged only once the pointer has
\* moved on and that generation was dropped, which recover looks for before it
\* installs anything.
SnapshotIsTheInstallers ==
    \A p \in Instances :
       LET l == loaded[p] IN
       \/ l = NothingLoaded \/ l.gen \in dropped
       \/ l.status = "Ok" /\ l.id = installed[l.gen]

\* An edit put_edit returned Ok for is read back, whole and unchanged, for as
\* long as its generation is not dropped: nothing a retry clears or a delayed
\* request leaves behind takes it away.
AckedIsReadBack ==
    \A a \in DOMAIN acked :
       a[1] \in dropped \/ get_edit(a[1], a[2]) = [status |-> "Ok", id |-> acked[a]]

=============================================================================
