------------------------------- MODULE RagSync -------------------------------
(***************************************************************************)
(* The retailer's documents on their way from Google Drive to pgvector:    *)
(* sync_from_drive (rag_indexer.py), the start of the agent and the manual *)
(* resync (main.py).                                                       *)
(*                                                                         *)
(* A sync deletes every chunk and inserts the chunks of one file after the *)
(* other.  Each statement commits on its own, so the index is seen, and a  *)
(* crash leaves it, between any two of them; nothing keeps a second manual *)
(* sync from running at the same time.  A file that cannot be read or      *)
(* inserted is logged and skipped.                                         *)
(*                                                                         *)
(* A chunk is known by its file, the version of the file it was read from, *)
(* and its index, counted from 1.                                          *)
(***************************************************************************)
EXTENDS Naturals, Sequences, FiniteSets

CONSTANTS
    Files,      \* what the Drive folder may hold
    NoFile,     \* no file is being indexed
    NameOf,     \* the name of each file: rag_documents.source
    Facts,      \* what PolicyLoader looks for
    Contents,   \* the chunks of each version of a file, as the facts they state
    Articles,   \* catalog articles that want an embedding
    Jobs,       \* syncs that may be under way together
    Movable     \* bound: the files that may leave the folder and come back

ASSUME SyncAssumption ==
    /\ NoFile \notin Files
    /\ \A f \in Files : Contents[f] \in Seq(Seq(SUBSET Facts)) /\ Contents[f] # <<>>
    /\ Movable \subseteq Files

VARIABLES
    folder,     \* Drive: the files in the folder
    version,    \* Drive: the current version of each file
    phase,      \* the agent: down, starting (startup_rag_sync), serving
    job,        \* the syncs: local variables of sync_from_drive
    rows,       \* PostgreSQL: rag_documents
    vectors,    \* PostgreSQL: articles with an embedding
    shared,     \* history: two syncs wrote since the index was last emptied
    whole       \* history: the files the last sync indexed alone and without
                \* an error, at the version they had when they were listed

drive == <<folder, version>>
vars == <<drive, phase, job, rows, vectors, shared, whole>>

Versions == [Files -> Nat]
NoVersions == [f \in Files |-> 0]

Rows == [source : {NameOf[f] : f \in Files}, index : Nat, file : Files, version : Nat]

\* A sync: file, text and next are the loop variables file, text and i;
\* listed and missed are history.
Idle == [pc |-> "idle", todo |-> {}, file |-> NoFile, text |-> 0, next |-> 0,
         listed |-> NoVersions, missed |-> FALSE]

Sync == [pc : {"idle", "list", "delete", "extract", "insert", "embed"},
         todo : SUBSET Files, file : Files \union {NoFile}, text : Nat, next : Nat,
         listed : Versions, missed : BOOLEAN]

\* Type invariant: the folder, the syncs and the two tables.
TypeOK ==
    /\ folder \subseteq Files
    /\ version \in Versions
    /\ phase \in {"down", "starting", "serving"}
    /\ job \in [Jobs -> Sync]
    /\ rows \subseteq Rows
    /\ vectors \subseteq Articles
    /\ shared \in BOOLEAN
    /\ whole \in Versions

Init ==
    /\ folder = Files
    /\ version = [f \in Files |-> 1]
    /\ phase = "down"
    /\ job = [j \in Jobs |-> Idle]
    /\ rows = {}
    /\ vectors = {}
    /\ shared = FALSE
    /\ whole = NoVersions

-----------------------------------------------------------------------------
(* The retailer.                                                           *)

Edit(f) ==
    /\ version[f] < Len(Contents[f])
    /\ version' = [version EXCEPT ![f] = @ + 1]
    /\ UNCHANGED <<folder, phase, job, rows, vectors, shared, whole>>

\* A file leaves the folder or comes back.
Move(f) ==
    /\ f \in Movable
    /\ folder' = IF f \in folder THEN folder \ {f} ELSE folder \union {f}
    /\ UNCHANGED <<version, phase, job, rows, vectors, shared, whole>>

-----------------------------------------------------------------------------
(* The agent.                                                              *)

\* sync_from_drive is called.
Begin(j) == job' = [job EXCEPT ![j] = [Idle EXCEPT !.pc = "list"]]

\* startup_rag_sync: an index that holds anything is taken as it is.
Boot ==
    /\ phase = "down"
    /\ \/ /\ rows # {}
          /\ phase' = "serving"
          /\ UNCHANGED job
       \/ /\ rows = {}
          /\ phase' = "starting"
          /\ \E j \in Jobs : Begin(j)
    /\ UNCHANGED <<drive, rows, vectors, shared, whole>>

\* trigger_rag_sync: POST /internal/rag/sync.
Trigger(j) ==
    /\ phase = "serving"
    /\ job[j] = Idle
    /\ Begin(j)
    /\ UNCHANGED <<drive, phase, rows, vectors, shared, whole>>

\* list_drive_files.
List(j) ==
    /\ job[j].pc = "list"
    /\ job' = [job EXCEPT ![j].pc = "delete",
                          ![j].todo = folder,
                          ![j].listed = [f \in Files |-> IF f \in folder THEN version[f] ELSE 0]]
    /\ UNCHANGED <<drive, phase, rows, vectors, shared, whole>>

Writing(j) == job[j].pc \in {"extract", "insert"}

\* sync_from_drive: DELETE FROM rag_documents.
Delete(j) ==
    /\ job[j].pc = "delete"
    /\ rows' = {}
    /\ job' = [job EXCEPT ![j].pc = "extract"]
    /\ shared' = (\E k \in Jobs : k # j /\ Writing(k))
    /\ whole' = NoVersions
    /\ UNCHANGED <<drive, phase, vectors>>

\* The next file of the loop: without a chunk, or with its chunks.
Passed(s, f) == [s EXCEPT !.todo = s.todo \ {f}]

Taken(s, f, v) ==
    [s EXCEPT !.todo = s.todo \ {f}, !.pc = "insert", !.file = f, !.text = v, !.next = 1]

\* Mutant: the text is read once and kept.
ExtractCached(j) ==
    /\ job[j].pc = "extract"
    /\ \E f \in job[j].todo : job' = [job EXCEPT ![j] = Taken(@, f, 1)]
    /\ UNCHANGED <<drive, phase, rows, vectors, shared, whole>>

\* extract_text_from_drive and chunk_text; a text of no chunk is done at once.
Extract(j) ==
    /\ job[j].pc = "extract"
    /\ \E f \in job[j].todo :
          job' = [job EXCEPT ![j] =
                     IF Contents[f][version[f]] = <<>> THEN Passed(@, f)
                     ELSE Taken(@, f, version[f])]
    /\ UNCHANGED <<drive, phase, rows, vectors, shared, whole>>

\* Drive does not answer, or the file cannot be read: the exception is logged
\* and the next file follows.
FailExtract(j) ==
    /\ job[j].pc = "extract"
    /\ \E f \in job[j].todo :
          job' = [job EXCEPT ![j] = [Passed(@, f) EXCEPT !.missed = TRUE]]
    /\ UNCHANGED <<drive, phase, rows, vectors, shared, whole>>

\* The row that is inserted, and ON CONFLICT (tenant_id, source, chunk_index).
Chunk(j) == [source |-> NameOf[job[j].file], index |-> job[j].next,
             file |-> job[j].file, version |-> job[j].text]

Upsert(r) == {q \in rows : ~(q.source = r.source /\ q.index = r.index)} \union {r}

Last(j) == job[j].next = Len(Contents[job[j].file][job[j].text])

Loop(s) == [s EXCEPT !.pc = "extract", !.file = NoFile, !.text = 0, !.next = 0]

More(s) == [s EXCEPT !.next = s.next + 1]

\* One INSERT ... ON CONFLICT; after the last chunk the next file follows.
Insert(j) ==
    /\ job[j].pc = "insert"
    /\ rows' = Upsert(Chunk(j))
    /\ job' = [job EXCEPT ![j] = IF Last(j) THEN Loop(@) ELSE More(@)]
    /\ UNCHANGED <<drive, phase, vectors, shared, whole>>

\* Mutant: a failing INSERT skips its chunk only.
FailInsertSkipping(j) ==
    /\ job[j].pc = "insert"
    /\ job' = [job EXCEPT ![j] = IF Last(j) THEN [Loop(@) EXCEPT !.missed = TRUE]
                                  ELSE [More(@) EXCEPT !.missed = TRUE]]
    /\ UNCHANGED <<drive, phase, rows, vectors, shared, whole>>

\* Mutant: a failing INSERT makes the sync read the file again.
FailInsertRetried(j) ==
    /\ job[j].pc = "insert"
    /\ job' = [job EXCEPT ![j] = [Loop(@) EXCEPT !.todo = @ \union {job[j].file}]]
    /\ UNCHANGED <<drive, phase, rows, vectors, shared, whole>>

\* An INSERT fails: the rest of the file is skipped.
FailInsert(j) ==
    /\ job[j].pc = "insert"
    /\ job' = [job EXCEPT ![j] = [Loop(@) EXCEPT !.missed = TRUE]]
    /\ UNCHANGED <<drive, phase, rows, vectors, shared, whole>>

\* Mutant: the sync ends before the articles are embedded.
FinishAndStop(j) ==
    /\ job[j].pc = "extract"
    /\ job[j].todo = {}
    /\ job' = [job EXCEPT ![j].pc = "done"]
    /\ whole' = IF shared \/ job[j].missed THEN whole ELSE job[j].listed
    /\ UNCHANGED <<drive, phase, rows, vectors, shared>>

\* UPDATE tenant_config ... last_sync_status = 'success', whatever was skipped.
Finish(j) ==
    /\ job[j].pc = "extract"
    /\ job[j].todo = {}
    /\ job' = [job EXCEPT ![j].pc = "embed"]
    /\ whole' = IF shared \/ job[j].missed THEN whole ELSE job[j].listed
    /\ UNCHANGED <<drive, phase, rows, vectors, shared>>

\* embed_seed_articles: one UPDATE.
Embed(j) ==
    /\ job[j].pc = "embed"
    /\ \E a \in Articles \ vectors : vectors' = vectors \union {a}
    /\ UNCHANGED <<drive, phase, job, rows, shared, whole>>

\* The sync answers the operator, or the agent starts to serve.
Done(j) ==
    /\ job[j].pc = "embed"
    /\ vectors = Articles
    /\ job' = [job EXCEPT ![j] = Idle]
    /\ phase' = "serving"
    /\ UNCHANGED <<drive, rows, vectors, shared, whole>>

\* Drive cannot be listed, or a statement outside the loop over the files
\* fails: the operator gets an error, an agent that starts gives up.
Raise(j) ==
    /\ \/ job[j].pc \in {"list", "delete", "embed"}
       \/ job[j].pc = "extract" /\ job[j].todo = {}
    /\ job' = [job EXCEPT ![j] = Idle]
    /\ phase' = IF phase = "starting" THEN "down" ELSE phase
    /\ UNCHANGED <<drive, rows, vectors, shared, whole>>

\* The process ends between two statements.
Crash ==
    /\ phase # "down"
    /\ phase' = "down"
    /\ job' = [j \in Jobs |-> Idle]
    /\ UNCHANGED <<drive, rows, vectors, shared, whole>>

-----------------------------------------------------------------------------
Step(j) ==
    \/ List(j) \/ Delete(j) \/ Extract(j) \/ FailExtract(j)
    \/ Insert(j) \/ FailInsert(j) \/ Finish(j) \/ Embed(j) \/ Done(j) \/ Raise(j)

Next ==
    \/ \E f \in Files : Edit(f) \/ Move(f)
    \/ Boot \/ Crash
    \/ \E j \in Jobs : Trigger(j) \/ Step(j)

Spec == Init /\ [][Next]_vars

\* A sync is a coroutine: each call to Drive and each statement answers or
\* breaks its connection.  Operators, the retailer and Drive owe nothing.
Fairness == \A j \in Jobs : WF_vars(Step(j))

FairSpec == Spec /\ Fairness

-----------------------------------------------------------------------------
\* No other file of the folder has this name: two would overwrite each
\* other's chunks in every sync.
Sole(n) == \A f, g \in Files : NameOf[f] = n /\ NameOf[g] = n => f = g

\* The rows of the first m chunks of a version of a file.
Chunks(f, v, m) ==
    {[source |-> NameOf[f], index |-> i, file |-> f, version |-> v] : i \in 1..m}

\* At every moment, in the middle of a sync and after a crash, the chunks of a
\* document are of one version of it, without a gap from the first; unless two
\* syncs wrote at the same time (sync_from_drive takes no lock).
DocumentsDoNotMix ==
    ~shared =>
        \A r \in rows : Sole(r.source) =>
            /\ \A q \in rows : q.source = r.source => q.version = r.version
            /\ \A i \in 1..r.index : \E q \in rows : q.source = r.source /\ q.index = i

\* A sync that wrote alone and skipped nothing leaves each listed document in
\* full, in the version it was listed with or a later one, until the next sync
\* deletes it; a crash, a sync that cannot list or one that is still listing
\* takes nothing away (startup_rag_sync skips the sync on this ground).
CleanSyncsAreWhole ==
    \A f \in Files : whole[f] > 0 /\ Sole(NameOf[f]) =>
        \E v \in whole[f]..version[f] :
            {r \in rows : r.source = NameOf[f]} = Chunks(f, v, Len(Contents[f][v]))

\* Every sync ends, the one an agent starts with included: a file that cannot
\* be read does not hold it up.
SyncsEnd == \A j \in Jobs : job[j].pc # "idle" ~> job[j].pc = "idle"

-----------------------------------------------------------------------------
(* What the documents say and the code does not do.                        *)

\* constitution VIII.4: an agent whose index is empty and whose Drive is
\* unreachable, so that files were listed and none was read, does not start.
EmptyStartIsFatal ==
    [][phase = "starting" /\ rows = {} /\ (\E j \in Jobs : job[j].missed) =>
          phase' # "serving"]_vars
=============================================================================
