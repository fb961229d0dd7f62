---------------------------- MODULE RagSyncProofs ----------------------------
(***************************************************************************)
(* Theorems about RagSync, for every folder, every content of its files    *)
(* and any number of syncs under way together.                             *)
(***************************************************************************)
EXTENDS RagSync, TLAPS

\* Every file has a current version, and its chunks can be counted.
Readable ==
    \A f \in Files :
        /\ version[f] \in 1..Len(Contents[f])
        /\ \A v \in 1..Len(Contents[f]) : Len(Contents[f][v]) \in Nat

LEMMA ContentsAreSequences ==
    ASSUME NEW f \in Files
    PROVE  /\ Len(Contents[f]) \in Nat \ {0}
           /\ \A v \in 1..Len(Contents[f]) :
                 /\ Len(Contents[f][v]) \in Nat
                 /\ Contents[f][v] # <<>> => Len(Contents[f][v]) > 0
                 /\ Contents[f][v] = <<>> => Len(Contents[f][v]) = 0
<1>1. Contents[f] \in Seq(Seq(SUBSET Facts)) /\ Contents[f] # <<>>
  BY SyncAssumption
<1>2. \A v \in 1..Len(Contents[f]) : Contents[f][v] \in Seq(SUBSET Facts)
  BY <1>1
<1> QED
  BY <1>1, <1>2

\* The local variables of a sync are those of a sync.
LEMMA IdleIsSync == Idle \in Sync
BY DEF Idle, Sync, NoVersions, Versions

\* What a sync knows of the folder, and of the file whose chunks it inserts.
Sound(s) ==
    /\ \A f \in Files : s.listed[f] <= version[f]
    /\ s.pc = "delete" => s.todo = {f \in Files : s.listed[f] > 0}
    /\ s.pc # "insert" => s.file = NoFile
    /\ s.pc = "insert" =>
          /\ s.file \in Files
          /\ s.file \notin s.todo
          /\ s.text \in 1..version[s.file]
          /\ s.listed[s.file] <= s.text
          /\ s.next \in 1..Len(Contents[s.file][s.text])

Typed ==
    /\ TypeOK
    /\ Readable
    /\ \A j \in Jobs : Sound(job[j])

LEMMA BegunIsSound ==
    ASSUME TypeOK
    PROVE  [Idle EXCEPT !.pc = "list"] \in Sync /\ Sound([Idle EXCEPT !.pc = "list"])
<1> DEFINE s == [Idle EXCEPT !.pc = "list"]
<1>1. s \in Sync
  BY IdleIsSync DEF Sync
<1>2. \A f \in Files : s.listed[f] = 0 /\ version[f] \in Nat
  BY DEF Idle, NoVersions, TypeOK, Versions
<1>3. s.pc = "list" /\ s.file = NoFile
  BY DEF Idle
<1> QED
  BY <1>1, <1>2, <1>3 DEF Sound

\* A step of one sync leaves the others as they are.
LEMMA SoundFrame ==
    ASSUME Typed, UNCHANGED version, NEW j \in Jobs, NEW s \in Sync,
           job' = [job EXCEPT ![j] = s], Sound(s)
    PROVE  \A k \in Jobs : Sound(job[k])'
<1> SUFFICES ASSUME NEW k \in Jobs PROVE Sound(job[k])'
  OBVIOUS
<1>1. CASE k = j
  <2>1. job'[k] = s
    BY <1>1 DEF Typed, TypeOK
  <2> QED
    BY <2>1 DEF Sound
<1>2. CASE k # j
  <2>1. job'[k] = job[k]
    BY <1>2 DEF Typed, TypeOK
  <2> QED
    BY <2>1 DEF Sound, Typed
<1> QED
  BY <1>1, <1>2

LEMMA TypedInit == Init => Typed
<1> SUFFICES ASSUME Init PROVE Typed
  OBVIOUS
<1>1. TypeOK
  BY IdleIsSync DEF Init, TypeOK, Versions, NoVersions
<1>2. Readable
  BY ContentsAreSequences DEF Init, Readable
<1>3. \A j \in Jobs : Sound(job[j])
  BY DEF Init, Sound, Idle, NoVersions
<1> QED
  BY <1>1, <1>2, <1>3 DEF Typed

\* The variables of the agent and the tables keep their types, whatever becomes
\* of the syncs.
LEMMA TypedStep == Typed /\ [Next]_vars => Typed'
<1> SUFFICES ASSUME Typed, [Next]_vars PROVE Typed'
  OBVIOUS
<1>0. TypeOK /\ Readable /\ \A j \in Jobs : job[j] \in Sync /\ Sound(job[j])
  BY DEF Typed, TypeOK
<1>1. ASSUME NEW f \in Files, Edit(f) PROVE Typed'
  <2>1. /\ version' \in Versions
        /\ \A g \in Files : version[g] <= version'[g] /\ version'[g] \in 1..Len(Contents[g])
    BY <1>0, <1>1, ContentsAreSequences DEF Edit, TypeOK, Readable, Versions
  <2>2. TypeOK' /\ Readable'
    BY <1>0, <1>1, <2>1 DEF Edit, TypeOK, Readable
  <2>3. \A j \in Jobs : Sound(job[j])'
    <3> SUFFICES ASSUME NEW j \in Jobs PROVE Sound(job[j])'
      OBVIOUS
    <3>1. job' = job /\ job[j].listed \in Versions
      BY <1>0, <1>1 DEF Edit, Sync
    <3>2. \A g \in Files : job[j].listed[g] <= version'[g]
      BY <1>0, <2>1, <3>1 DEF Sound, Versions, TypeOK
    <3>3. job[j].pc = "insert" => job[j].text \in 1..version'[job[j].file]
      BY <1>0, <2>1, <3>1 DEF Sound, Versions, TypeOK
    <3> QED
      BY <1>0, <3>1, <3>2, <3>3 DEF Sound
  <2> QED
    BY <2>2, <2>3 DEF Typed
<1>2. ASSUME NEW f \in Files, Move(f) PROVE Typed'
  BY <1>0, <1>2 DEF Move, TypeOK, Readable, Sound, Typed
<1>3. CASE UNCHANGED vars
  BY <1>0, <1>3 DEF vars, drive, TypeOK, Readable, Sound, Typed
<1>4. CASE Crash
  <2>1. TypeOK' /\ Readable'
    BY <1>0, <1>4, IdleIsSync DEF Crash, TypeOK, Readable, drive
  <2>2. \A j \in Jobs : Sound(job[j])'
    BY <1>0, <1>4 DEF Crash, Sound, Idle, NoVersions, TypeOK, Versions, drive
  <2> QED
    BY <2>1, <2>2 DEF Typed
<1>5. CASE Boot
  <2>1. CASE rows # {}
    BY <1>0, <1>5, <2>1 DEF Boot, TypeOK, Readable, Sound, Typed, drive
  <2>2. CASE rows = {}
    <3> DEFINE s == [Idle EXCEPT !.pc = "list"]
    <3>1. PICK j \in Jobs : job' = [job EXCEPT ![j] = s]
      BY <1>5, <2>2 DEF Boot, Begin
    <3>2. s \in Sync /\ Sound(s)
      BY <1>0, IdleIsSync, BegunIsSound
    <3> HIDE DEF s
    <3>3. \A k \in Jobs : Sound(job[k])'
      BY <1>5, <3>1, <3>2, SoundFrame DEF Boot, drive
    <3> QED
      BY <1>0, <1>5, <3>1, <3>2, <3>3 DEF Boot, TypeOK, Readable, Typed, drive
  <2> QED
    BY <2>1, <2>2
<1>6. ASSUME NEW j \in Jobs, Trigger(j) \/ Step(j) PROVE Typed'
  <2>1. UNCHANGED drive
    BY <1>6 DEF Trigger, Step, List, Delete, Extract, FailExtract, Insert, FailInsert,
                Finish, Embed, Done, Raise
  <2>2. /\ phase' \in {"down", "starting", "serving"}
        /\ vectors' \subseteq Articles
        /\ shared' \in BOOLEAN
        /\ whole' \in Versions
    <3>1. phase' \in {"down", "starting", "serving"}
      BY <1>0, <1>6 DEF TypeOK, Trigger, Step, List, Delete, Extract, FailExtract, Insert,
                        FailInsert, Finish, Embed, Done, Raise
    <3>2. vectors' \subseteq Articles
      BY <1>0, <1>6 DEF TypeOK, Trigger, Step, List, Delete, Extract, FailExtract, Insert,
                        FailInsert, Finish, Embed, Done, Raise
    <3>3. shared' \in BOOLEAN
      BY <1>0, <1>6 DEF TypeOK, Trigger, Step, List, Delete, Extract, FailExtract, Insert,
                        FailInsert, Finish, Embed, Done, Raise
    <3>4. NoVersions \in Versions
      BY DEF NoVersions, Versions
    <3>5. job[j].listed \in Versions /\ whole \in Versions
      BY <1>0 DEF Sync, TypeOK
    <3>6. whole' \in {whole, NoVersions, job[j].listed}
      BY <1>6 DEF Trigger, Step, List, Delete, Extract, FailExtract, Insert,
                  FailInsert, Finish, Embed, Done, Raise
    <3>7. whole' \in Versions
      BY <3>4, <3>5, <3>6
    <3> QED
      BY <3>1, <3>2, <3>3, <3>7
  <2>3. rows' \subseteq Rows
    <3>1. CASE Insert(j)
      <4>1. Chunk(j) \in Rows
        BY <1>0, <3>1 DEF Sync, Sound, Chunk, Rows, Insert
      <4> QED
        BY <1>0, <3>1, <4>1 DEF Insert, Upsert, TypeOK
    <3> QED
      BY <1>0, <1>6, <3>1 DEF TypeOK, Trigger, Step, List, Delete, Extract, FailExtract,
                              FailInsert, Finish, Embed, Done, Raise
  <2>4. \E s \in Sync : job' = [job EXCEPT ![j] = s] /\ Sound(s)
    <3> DEFINE t == job[j]
    <3>0. t \in Sync /\ Sound(t)
      BY <1>0
    <3>1. CASE Trigger(j)
      <4>1. [Idle EXCEPT !.pc = "list"] \in Sync /\ Sound([Idle EXCEPT !.pc = "list"])
        BY <1>0, BegunIsSound
      <4> QED
        BY <3>1, <4>1 DEF Trigger, Begin
    <3>2. CASE List(j)
      <4> DEFINE now == [f \in Files |-> IF f \in folder THEN version[f] ELSE 0]
                 s == [t EXCEPT !.pc = "delete", !.todo = folder, !.listed = now]
      <4>1. now \in Versions /\ \A f \in Files : now[f] <= version[f]
        BY <1>0 DEF TypeOK, Versions
      <4>2. folder = {f \in Files : now[f] > 0}
        BY <1>0 DEF TypeOK, Readable
      <4>3. s \in Sync
        BY <1>0, <3>0, <4>1 DEF Sync, TypeOK
      <4>4. Sound(s)
        BY <3>0, <3>2, <4>1, <4>2 DEF Sound, Sync, List
      <4> QED
        BY <3>2, <4>3, <4>4 DEF List
    <3>3. CASE Delete(j)
      <4>1. [t EXCEPT !.pc = "extract"] \in Sync /\ Sound([t EXCEPT !.pc = "extract"])
        BY <3>0, <3>3 DEF Delete, Sync, Sound
      <4> QED
        BY <3>3, <4>1 DEF Delete
    <3>4. CASE Extract(j)
      <4>1. PICK f \in t.todo :
              job' = [job EXCEPT ![j] = IF Contents[f][version[f]] = <<>> THEN Passed(t, f)
                                        ELSE Taken(t, f, version[f])]
        BY <3>4 DEF Extract
      <4>2. f \in Files /\ version[f] \in Nat /\ version[f] \in 1..Len(Contents[f])
        BY <1>0, <3>0 DEF TypeOK, Sync, Versions, Readable
      <4>3. Passed(t, f) \in Sync /\ Sound(Passed(t, f))
        BY <3>0, <3>4 DEF Extract, Sync, Sound, Passed
      <4>4. Taken(t, f, version[f]) \in Sync
        BY <3>0, <4>2 DEF Sync, Taken
      <4>5. Contents[f][version[f]] # <<>> => 1 \in 1..Len(Contents[f][version[f]])
        BY <4>2, ContentsAreSequences
      <4>6. Contents[f][version[f]] # <<>> => Sound(Taken(t, f, version[f]))
        BY <3>0, <4>2, <4>5 DEF Sound, Sync, Taken
      <4> QED
        BY <4>1, <4>3, <4>4, <4>6
    <3>5. CASE FailExtract(j)
      <4>1. PICK f \in t.todo :
              job' = [job EXCEPT ![j] = [Passed(t, f) EXCEPT !.missed = TRUE]]
        BY <3>5 DEF FailExtract
      <4> DEFINE s == [Passed(t, f) EXCEPT !.missed = TRUE]
      <4>2. s \in Sync /\ Sound(s)
        BY <3>0, <3>5 DEF FailExtract, Sync, Sound, Passed
      <4> QED
        BY <4>1, <4>2
    <3>6. CASE Insert(j)
      <4>1. Loop(t) \in Sync /\ Sound(Loop(t))
        BY <3>0 DEF Loop, Sync, Sound
      <4>2. /\ t.pc = "insert"
            /\ t.file \in Files
            /\ t.text \in 1..version[t.file]
            /\ t.next \in 1..Len(Contents[t.file][t.text])
        BY <3>0, <3>6 DEF Insert, Sound
      <4>3. version[t.file] \in 1..Len(Contents[t.file])
        BY <1>0, <4>2 DEF Readable
      <4>4. t.text \in 1..Len(Contents[t.file])
        BY <4>2, <4>3
      <4>5. Len(Contents[t.file][t.text]) \in Nat
        BY <4>2, <4>4, ContentsAreSequences
      <4>6. More(t) \in Sync
        BY <3>0 DEF Sync, More
      <4>7. ~Last(j) => t.next + 1 \in 1..Len(Contents[t.file][t.text])
        BY <3>0, <4>2, <4>5 DEF Last, Sync
      <4>8. ~Last(j) => Sound(More(t))
        BY <3>0, <4>2, <4>7 DEF Sound, Sync, More
      <4>9. job' = [job EXCEPT ![j] = IF Last(j) THEN Loop(t) ELSE More(t)]
        BY <3>6 DEF Insert
      <4> QED
        BY <4>1, <4>6, <4>8, <4>9
    <3>7. CASE FailInsert(j)
      <4> DEFINE s == [Loop(t) EXCEPT !.missed = TRUE]
      <4>1. s \in Sync /\ Sound(s)
        BY <3>0 DEF Loop, Sync, Sound
      <4> QED
        BY <3>7, <4>1 DEF FailInsert
    <3>8. CASE Finish(j)
      <4>1. [t EXCEPT !.pc = "embed"] \in Sync /\ Sound([t EXCEPT !.pc = "embed"])
        BY <3>0, <3>8 DEF Finish, Sync, Sound
      <4> QED
        BY <3>8, <4>1 DEF Finish
    <3>9. CASE Embed(j)
      <4>1. job' = [job EXCEPT ![j] = t]
        BY <1>0, <3>9 DEF Embed, TypeOK
      <4> QED
        BY <3>0, <4>1
    <3>10. CASE Done(j) \/ Raise(j)
      <4>1. Sound(Idle)
        BY <1>0 DEF Sound, Idle, NoVersions, TypeOK, Versions
      <4> QED
        BY <3>10, <4>1, IdleIsSync DEF Done, Raise
    <3> QED
      BY <1>6, <3>1, <3>2, <3>3, <3>4, <3>5, <3>6, <3>7, <3>8, <3>9, <3>10 DEF Step
  <2>5. PICK s \in Sync : job' = [job EXCEPT ![j] = s] /\ Sound(s)
    BY <2>4
  <2>6. \A k \in Jobs : Sound(job[k])'
    BY <2>1, <2>5, SoundFrame DEF drive
  <2>7. job' \in [Jobs -> Sync]
    BY <1>0, <2>5 DEF TypeOK
  <2>8. TypeOK' /\ Readable'
    BY <1>0, <2>1, <2>2, <2>3, <2>7 DEF TypeOK, Readable, drive
  <2> QED
    BY <2>6, <2>8 DEF Typed
<1> QED
  BY <1>1, <1>2, <1>3, <1>4, <1>5, <1>6 DEF Next

\* The tables and the syncs keep their types, whatever is crashed or skipped.
THEOREM TypeCorrect == Spec => []TypeOK
<1>1. Typed => TypeOK
  BY DEF Typed
<1> QED
  BY TypedInit, TypedStep, <1>1, PTL DEF Spec

-----------------------------------------------------------------------------
(* What the syncs leave in the index.                                      *)

\* The rows under the name of a file.
Mine(f) == {r \in rows : r.source = NameOf[f]}

Complete(f, l) == \E v \in l..version[f] : Mine(f) = Chunks(f, v, Len(Contents[f][v]))

\* What a sync has inserted so far: nothing of the files to come, the chunks
\* up to the next of the file at hand, all chunks of the others.
Progress(s) ==
    \A f \in Files : Sole(NameOf[f]) =>
        /\ f \in s.todo => Mine(f) = {}
        /\ s.pc = "insert" /\ s.file = f => Mine(f) = Chunks(f, s.text, s.next - 1)
        /\ ~s.missed /\ s.listed[f] > 0 /\ f \notin s.todo /\ f # s.file =>
              Complete(f, s.listed[f])

Named == \A r \in rows : r.source = NameOf[r.file]

Alone == ~shared => \A j, k \in Jobs : Writing(j) /\ Writing(k) => j = k

Progressing == ~shared => \A j \in Jobs : Writing(j) => Progress(job[j])

Prefix ==
    ~shared => \A f \in Files : Sole(NameOf[f]) =>
                   \E v \in Nat, m \in Nat : Mine(f) = Chunks(f, v, m)

Whole ==
    /\ \A f \in Files : whole[f] > 0 /\ Sole(NameOf[f]) => Complete(f, whole[f])
    /\ \A f \in Files, j \in Jobs : whole[f] > 0 => ~Writing(j)

Clean == Named /\ Alone /\ Progressing /\ Prefix /\ Whole

LEMMA NoChunks == ASSUME NEW f, NEW v PROVE Chunks(f, v, 0) = {}
BY DEF Chunks

LEMMA OneChunkMore ==
    ASSUME NEW f, NEW v, NEW n \in Nat \ {0}
    PROVE  Chunks(f, v, n) = Chunks(f, v, n - 1) \union
               {[source |-> NameOf[f], index |-> n, file |-> f, version |-> v]}
<1>1. 1..n = (1..(n - 1)) \union {n}
  OBVIOUS
<1> QED
  BY <1>1 DEF Chunks

LEMMA ChunkMembers ==
    ASSUME NEW f, NEW v, NEW m \in Nat
    PROVE  /\ \A r \in Chunks(f, v, m) : r.index \in 1..m /\ r.version = v
           /\ \A i \in 1..m : \E r \in Chunks(f, v, m) : r.index = i
<1> DEFINE chunk(i) == [source |-> NameOf[f], index |-> i, file |-> f, version |-> v]
<1>1. Chunks(f, v, m) = {chunk(i) : i \in 1..m}
  BY DEF Chunks
<1>2. \A i \in 1..m : chunk(i).index = i /\ chunk(i).version = v
  OBVIOUS
<1> HIDE DEF chunk
<1> QED
  BY <1>1, <1>2

\* An INSERT changes the rows of its own file only, by one chunk.
LEMMA InsertedRows ==
    ASSUME Typed, Named, NEW j \in Jobs, Insert(j)
    PROVE  /\ Named'
           /\ \A f \in Files : Sole(NameOf[f]) /\ f # job[j].file => Mine(f)' = Mine(f)
           /\ \A f \in Files :
                 f = job[j].file /\ Mine(f) = Chunks(f, job[j].text, job[j].next - 1) =>
                     Mine(f)' = Chunks(f, job[j].text, job[j].next)
<1> DEFINE c == Chunk(j)
<1>1. /\ job[j].file \in Files /\ job[j].next \in Nat \ {0}
      /\ c.source = NameOf[job[j].file] /\ c.file = job[j].file /\ c.index = job[j].next
  BY DEF Typed, TypeOK, Sync, Sound, Insert, Chunk
<1>2. rows' = {q \in rows : ~(q.source = c.source /\ q.index = c.index)} \union {c}
  BY DEF Insert, Upsert
<1>3. Named'
  <2> SUFFICES ASSUME NEW r \in rows' PROVE r.source = NameOf[r.file]
    BY DEF Named
  <2> QED
    BY <1>1, <1>2 DEF Named
<1>4. ASSUME NEW f \in Files, Sole(NameOf[f]), f # job[j].file PROVE Mine(f)' = Mine(f)
  <2>1. c.source # NameOf[f]
    BY <1>1, <1>4 DEF Sole
  <2> HIDE DEF c
  <2> QED
    BY <1>2, <2>1 DEF Mine
<1>5. ASSUME NEW f \in Files, f = job[j].file,
             Mine(f) = Chunks(f, job[j].text, job[j].next - 1)
      PROVE  Mine(f)' = Chunks(f, job[j].text, job[j].next)
  <2> DEFINE old == Chunks(f, job[j].text, job[j].next - 1)
  <2>1. \A q \in old : q.index # c.index
    BY <1>1 DEF Chunks
  <2>2. Mine(f)' = Mine(f) \union {c}
    <3> HIDE DEF c
    <3>1. \A q \in rows : q.source = NameOf[f] => q.index # c.index
      BY <1>5, <2>1 DEF Mine
    <3> QED
      BY <1>1, <1>2, <1>5, <3>1 DEF Mine
  <2>3. Chunks(f, job[j].text, job[j].next) = old \union {c}
    BY <1>1, <1>5, OneChunkMore DEF Chunk
  <2> QED
    BY <1>5, <2>2, <2>3
<1> QED
  BY <1>3, <1>4, <1>5

LEMMA CompleteFrame ==
    ASSUME NEW f \in Files, NEW l \in Nat, Complete(f, l), Mine(f)' = Mine(f),
           version[f] \in Nat, version'[f] \in Nat, version[f] <= version'[f]
    PROVE  Complete(f, l)'
<1>1. PICK v \in l..version[f] : Mine(f) = Chunks(f, v, Len(Contents[f][v]))
  BY DEF Complete
<1>2. v \in l..version'[f]
  BY <1>1
<1> QED
  BY <1>1, <1>2 DEF Complete

LEMMA ProgressFrame ==
    ASSUME NEW s \in Sync, Progress(s), Typed, Typed',
           \A f \in Files : version[f] <= version'[f],
           \A f \in Files : Mine(f)' = Mine(f)
    PROVE  Progress(s)'
<1>1. ASSUME NEW f \in Files, Sole(NameOf[f])
      PROVE  /\ f \in s.todo => Mine(f)' = {}
             /\ s.pc = "insert" /\ s.file = f => Mine(f)' = Chunks(f, s.text, s.next - 1)
             /\ ~s.missed /\ s.listed[f] > 0 /\ f \notin s.todo /\ f # s.file =>
                   Complete(f, s.listed[f])'
  <2>1. s.listed[f] \in Nat /\ version[f] \in Nat /\ version'[f] \in Nat
    BY DEF Sync, Versions, Typed, TypeOK
  <2>2. Complete(f, s.listed[f]) => Complete(f, s.listed[f])'
    BY <2>1, CompleteFrame
  <2> QED
    BY <1>1, <2>2 DEF Progress
<1> QED
  BY <1>1 DEF Progress

LEMMA CleanInit == Init => Clean
<1> SUFFICES ASSUME Init PROVE Clean
  OBVIOUS
<1>1. Named /\ Alone /\ Progressing
  BY DEF Init, Named, Alone, Progressing, Writing, Idle
<1>2. \A f \in Files : Mine(f) = Chunks(f, 0, 0)
  BY NoChunks DEF Init, Mine
<1>3. Prefix
  BY <1>2 DEF Prefix
<1>4. Whole
  BY DEF Init, Whole, NoVersions
<1> QED
  BY <1>1, <1>3, <1>4 DEF Clean

\* A step that writes nothing and makes nobody a writer.
LEMMA QuietStep ==
    ASSUME Typed, Typed', Clean, UNCHANGED <<rows, shared, whole>>,
           \A f \in Files : version[f] <= version'[f],
           \A k \in Jobs : Writing(k)' => job'[k] = job[k]
    PROVE  Clean'
<1>1. \A f \in Files : Mine(f)' = Mine(f)
  BY DEF Mine
<1>2. \A k \in Jobs : Writing(k)' => Writing(k)
  BY DEF Writing
<1>3. Named' /\ Alone'
  BY <1>2 DEF Clean, Named, Alone
<1>4. Progressing'
  <2> SUFFICES ASSUME ~shared, NEW k \in Jobs, Writing(k)' PROVE Progress(job[k])'
    BY DEF Progressing
  <2>1. job'[k] = job[k] /\ job[k] \in Sync /\ Progress(job[k])
    BY <1>2 DEF Clean, Progressing, Typed, TypeOK
  <2> DEFINE s == job[k]
  <2>2. PICK u \in Sync : u = job[k]
    BY <2>1
  <2>3. Progress(u)'
    BY <1>1, <2>1, <2>2, ProgressFrame
  <2> QED
    BY <2>1, <2>2, <2>3 DEF Progress
<1>5. Prefix'
  BY <1>1 DEF Clean, Prefix
<1>6. Whole'
  <2>1. ASSUME NEW f \in Files, whole[f] > 0, Sole(NameOf[f]) PROVE Complete(f, whole[f])'
    <3>1. PICK l \in Nat : l = whole[f]
      BY DEF Typed, TypeOK, Versions
    <3>2. Complete(f, l) /\ version[f] \in Nat /\ version'[f] \in Nat
      BY <2>1, <3>1 DEF Clean, Whole, Typed, TypeOK, Versions
    <3>3. Complete(f, l)'
      BY <1>1, <3>2, CompleteFrame
    <3> QED
      BY <3>1, <3>3
  <2> QED
    BY <1>2, <2>1 DEF Clean, Whole
<1> QED
  BY <1>3, <1>4, <1>5, <1>6 DEF Clean

\* A step of a sync that writes and goes on writing.
LEMMA WriterStep ==
    ASSUME Typed, Clean, NEW j \in Jobs, NEW s \in Sync,
           Writing(j), s.pc \in {"extract", "insert"}, job' = [job EXCEPT ![j] = s],
           UNCHANGED <<shared, whole>>,
           Named', Prefix', ~shared => Progress(s)'
    PROVE  Clean'
<1>1. job'[j] = s /\ \A k \in Jobs : k # j => job'[k] = job[k]
  BY DEF Typed, TypeOK
<1>2. \A k \in Jobs : Writing(k)' => Writing(k)
  BY <1>1 DEF Writing
<1>3. Alone'
  BY <1>2 DEF Clean, Alone
<1>4. Progressing'
  <2> SUFFICES ASSUME ~shared, NEW k \in Jobs, Writing(k)' PROVE Progress(job[k])'
    BY DEF Progressing
  <2>1. k = j
    BY <1>2 DEF Clean, Alone
  <2> QED
    BY <1>1, <2>1 DEF Progress
<1>5. \A f \in Files : ~(whole[f] > 0)
  BY DEF Clean, Whole
<1>6. Whole'
  BY <1>5 DEF Whole
<1> QED
  BY <1>3, <1>4, <1>6 DEF Clean

\* A sync that passes over a file or takes it up.
LEMMA ExtractClean ==
    ASSUME Typed, Typed', Clean, NEW j \in Jobs, Extract(j)
    PROVE  Clean'
<1>1. PICK t \in Sync : t = job[j]
  BY DEF Typed, TypeOK
<1>2. PICK f \in t.todo :
        job' = [job EXCEPT ![j] = IF Contents[f][version[f]] = <<>> THEN Passed(t, f)
                                  ELSE Taken(t, f, version[f])]
  BY <1>1 DEF Extract
<1>3. /\ t.pc = "extract" /\ f \in Files /\ NoFile \notin Files
      /\ version[f] \in Nat
  BY <1>1, SyncAssumption DEF Extract, Typed, TypeOK, Sync, Versions
<1>4. t.file = NoFile /\ \A g \in Files : t.listed[g] <= version[g]
  BY <1>1, <1>3 DEF Typed, Sound
<1>5. \A g \in Files : t.listed[g] \in Nat /\ version[g] \in Nat /\ version'[g] = version[g]
  BY DEF Typed, TypeOK, Sync, Versions, Extract, drive
<1>6. PICK s \in Sync : s = IF Contents[f][version[f]] = <<>> THEN Passed(t, f)
                          ELSE Taken(t, f, version[f])
  BY <1>3 DEF Sync, Passed, Taken
<1>7. /\ s.pc \in {"extract", "insert"} /\ s.todo = t.todo \ {f}
      /\ s.missed = t.missed /\ s.listed = t.listed
      /\ s.pc = "insert" => s.next = 1 /\ s.file = f
      /\ s.file # f => Contents[f][version[f]] = <<>>
  BY <1>3, <1>6 DEF Sync, Passed, Taken
<1>8. \A g \in Files : Mine(g)' = Mine(g)
  BY DEF Mine, Extract
<1>9. ASSUME ~shared PROVE Progress(s)'
  <2>1. Progress(t)
    BY <1>1, <1>3, <1>9 DEF Clean, Progressing, Writing
  <2>2. ASSUME NEW g \in Files, Sole(NameOf[g])
        PROVE  /\ g \in s.todo => Mine(g)' = {}
               /\ s.pc = "insert" /\ s.file = g => Mine(g)' = Chunks(g, s.text, s.next - 1)
               /\ ~s.missed /\ s.listed[g] > 0 /\ g \notin s.todo /\ g # s.file =>
                     Complete(g, s.listed[g])'
    <3>1. g \in s.todo => Mine(g)' = {}
      BY <1>7, <1>8, <2>1, <2>2 DEF Progress
    <3>2. ASSUME s.pc = "insert", s.file = g PROVE Mine(g)' = Chunks(g, s.text, s.next - 1)
      <4>1. s.next - 1 = 0 /\ g \in t.todo
        BY <1>2, <1>7, <3>2
      <4>2. Mine(g) = {}
        BY <2>1, <2>2, <4>1 DEF Progress
      <4> QED
        BY <1>8, <4>1, <4>2, NoChunks
    <3>3. ASSUME ~t.missed, t.listed[g] > 0, g \notin t.todo \ {f}, g # s.file
          PROVE  Complete(g, t.listed[g])
      <4>1. CASE g = f
        <5>1. Contents[f][version[f]] = <<>>
          BY <1>7, <3>3, <4>1
        <5>2. Mine(f) = {}
          BY <1>2, <2>1, <2>2, <4>1 DEF Progress
        <5>3. Len(Contents[f][version[f]]) = 0
          BY <1>3, <5>1, ContentsAreSequences DEF Typed, Readable
        <5>4. Mine(f) = Chunks(f, version[f], Len(Contents[f][version[f]]))
          BY <5>2, <5>3, NoChunks
        <5>5. version[f] \in t.listed[f]..version[f]
          BY <1>3, <1>4, <1>5
        <5> QED
          BY <4>1, <5>4, <5>5 DEF Complete
      <4>2. CASE g # f
        BY <1>3, <1>4, <2>1, <2>2, <3>3, <4>2 DEF Progress
      <4> QED
        BY <4>1, <4>2
    <3>4. PICK l \in Nat : l = t.listed[g]
      BY <1>5
    <3>5. Complete(g, l) => Complete(g, l)'
      BY <1>5, <1>8, CompleteFrame
    <3> QED
      BY <1>7, <3>1, <3>2, <3>3, <3>4, <3>5
  <2> QED
    BY <2>2 DEF Progress
<1>10. Named' /\ Prefix'
  BY <1>8 DEF Extract, Clean, Named, Prefix
<1>11. Writing(j) /\ UNCHANGED <<shared, whole>> /\ job' = [job EXCEPT ![j] = s]
  BY <1>2, <1>6 DEF Extract, Writing
<1> QED
  BY <1>7, <1>9, <1>10, <1>11, WriterStep

\* A sync that skips a file, or the rest of one.
LEMMA FailClean ==
    ASSUME Typed, Typed', Clean, NEW j \in Jobs, FailExtract(j) \/ FailInsert(j)
    PROVE  Clean'
<1>1. PICK t \in Sync : t = job[j]
  BY DEF Typed, TypeOK
<1>2. /\ Writing(j)
      /\ UNCHANGED <<version, rows, shared, whole>>
  BY DEF FailExtract, FailInsert, Writing, drive
<1>3. \E s \in Sync :
         /\ job' = [job EXCEPT ![j] = s]
         /\ s.pc = "extract" /\ s.missed /\ s.todo \subseteq t.todo
  <2>1. CASE FailExtract(j)
    <3>1. PICK f \in t.todo : job' = [job EXCEPT ![j] = [Passed(t, f) EXCEPT !.missed = TRUE]]
      BY <1>1, <2>1 DEF FailExtract
    <3> DEFINE s == [Passed(t, f) EXCEPT !.missed = TRUE]
    <3>2. s \in Sync /\ s.pc = "extract" /\ s.missed /\ s.todo \subseteq t.todo
      BY <1>1, <2>1 DEF FailExtract, Passed, Sync
    <3> QED
      BY <3>1, <3>2
  <2>2. CASE FailInsert(j)
    <3> DEFINE s == [Loop(t) EXCEPT !.missed = TRUE]
    <3>1. s \in Sync /\ s.pc = "extract" /\ s.missed /\ s.todo \subseteq t.todo
      BY DEF Loop, Sync
    <3> QED
      BY <1>1, <2>2, <3>1 DEF FailInsert
  <2> QED
    BY <2>1, <2>2
<1>4. PICK s \in Sync :
         /\ job' = [job EXCEPT ![j] = s]
         /\ s.pc = "extract" /\ s.missed /\ s.todo \subseteq t.todo
  BY <1>3
<1>5. \A g \in Files : Mine(g)' = Mine(g)
  BY <1>2 DEF Mine
<1>6. ASSUME ~shared PROVE Progress(s)'
  <2>1. Progress(t)
    BY <1>1, <1>2, <1>6 DEF Clean, Progressing
  <2> QED
    BY <1>4, <1>5, <2>1 DEF Progress
<1>7. Named' /\ Prefix'
  BY <1>2, <1>5 DEF Clean, Named, Prefix
<1> QED
  BY <1>2, <1>4, <1>6, <1>7, WriterStep

\* A sync that inserts a chunk: the next of its file, or the last.
LEMMA InsertClean ==
    ASSUME Typed, Typed', Clean, NEW j \in Jobs, Insert(j)
    PROVE  Clean'
<1>1. PICK t \in Sync : t = job[j]
  BY DEF Typed, TypeOK
<1>2. /\ Writing(j)
      /\ UNCHANGED <<version, shared, whole>>
  BY DEF Insert, Writing, drive
<1>3. /\ t.pc = "insert" /\ t.file \in Files /\ t.file \notin t.todo
      /\ t.text \in 1..version[t.file] /\ t.listed[t.file] <= t.text
      /\ t.next \in Nat \ {0} /\ t.text \in Nat
      /\ NoFile \notin Files
  BY <1>1, SyncAssumption DEF Insert, Typed, Sound, Sync
<1>4. /\ Named'
      /\ \A f \in Files : Sole(NameOf[f]) /\ f # t.file => Mine(f)' = Mine(f)
      /\ Mine(t.file) = Chunks(t.file, t.text, t.next - 1) =>
            Mine(t.file)' = Chunks(t.file, t.text, t.next)
  BY <1>1, <1>3, InsertedRows DEF Clean
<1>5. PICK s \in Sync : s = IF Last(j) THEN Loop(t) ELSE More(t)
  <2>1. Loop(t) \in Sync
    BY DEF Loop, Sync
  <2>2. More(t) \in Sync
    BY <1>3 DEF More, Sync
  <2> QED
    BY <2>1, <2>2
<1>6. /\ s.pc \in {"extract", "insert"} /\ s.todo = t.todo
      /\ s.missed = t.missed /\ s.listed = t.listed
      /\ s.pc = "insert" => s.file = t.file /\ s.text = t.text /\ s.next - 1 = t.next
      /\ s.file # t.file => t.next = Len(Contents[t.file][t.text])
  BY <1>1, <1>3, <1>5 DEF Loop, More, Sync, Last
<1>7. \A g \in Files : t.listed[g] \in Nat /\ version[g] \in Nat /\ version'[g] = version[g]
  BY <1>2 DEF Typed, TypeOK, Sync, Versions
<1>8. ASSUME ~shared, Sole(NameOf[t.file])
      PROVE  Mine(t.file)' = Chunks(t.file, t.text, t.next)
  BY <1>1, <1>2, <1>3, <1>4, <1>8 DEF Clean, Progressing, Progress
<1>9. ASSUME ~shared PROVE Progress(s)'
  <2>1. Progress(t)
    BY <1>1, <1>2, <1>9 DEF Clean, Progressing
  <2>2. ASSUME NEW g \in Files, Sole(NameOf[g])
        PROVE  /\ g \in s.todo => Mine(g)' = {}
               /\ s.pc = "insert" /\ s.file = g => Mine(g)' = Chunks(g, s.text, s.next - 1)
               /\ ~s.missed /\ s.listed[g] > 0 /\ g \notin s.todo /\ g # s.file =>
                     Complete(g, s.listed[g])'
    <3>1. CASE g = t.file
      <4>1. Mine(g)' = Chunks(g, t.text, t.next)
        BY <1>8, <1>9, <2>2, <3>1
      <4>2. ASSUME g # s.file PROVE Complete(g, t.listed[g])'
        <5>1. Mine(g)' = Chunks(g, t.text, Len(Contents[g][t.text]))
          BY <1>6, <3>1, <4>1, <4>2
        <5>2. t.text \in t.listed[g]..version'[g]
          BY <1>3, <1>7, <3>1
        <5> QED
          BY <5>1, <5>2 DEF Complete
      <4> QED
        BY <1>3, <1>6, <3>1, <4>1, <4>2
    <3>2. CASE g # t.file
      <4>1. Mine(g)' = Mine(g)
        BY <1>4, <2>2, <3>2
      <4>2. PICK l \in Nat : l = t.listed[g]
        BY <1>7
      <4>3. Complete(g, l) => Complete(g, l)'
        BY <1>7, <4>1, CompleteFrame
      <4>4. g \in s.todo => Mine(g)' = {}
        BY <1>6, <2>1, <2>2, <4>1 DEF Progress
      <4>5. ~s.missed /\ s.listed[g] > 0 /\ g \notin s.todo => Complete(g, l)
        BY <1>6, <2>1, <2>2, <3>2, <4>2 DEF Progress
      <4> QED
        BY <1>6, <3>2, <4>2, <4>3, <4>4, <4>5
    <3> QED
      BY <3>1, <3>2
  <2> QED
    BY <2>2 DEF Progress
<1>10. Prefix'
  <2> SUFFICES ASSUME ~shared, NEW f \in Files, Sole(NameOf[f])
               PROVE  \E v \in Nat, m \in Nat : Mine(f)' = Chunks(f, v, m)
    BY <1>2 DEF Prefix
  <2>1. CASE f = t.file
    BY <1>3, <1>8, <2>1
  <2>2. CASE f # t.file
    BY <1>4, <2>2 DEF Clean, Prefix
  <2> QED
    BY <2>1, <2>2
<1>11. job' = [job EXCEPT ![j] = s]
  BY <1>1, <1>5 DEF Insert
<1> QED
  BY <1>2, <1>4, <1>6, <1>9, <1>10, <1>11, WriterStep

\* A sync that empties the index: it may find another that writes.
LEMMA DeleteClean ==
    ASSUME Typed, Typed', Clean, NEW j \in Jobs, Delete(j)
    PROVE  Clean'
<1>1. PICK t \in Sync : t = job[j]
  BY DEF Typed, TypeOK
<1>2. PICK s \in Sync : s = [t EXCEPT !.pc = "extract"]
  BY DEF Sync
<1>3. /\ t.pc = "delete" /\ t.todo = {f \in Files : t.listed[f] > 0}
      /\ s.pc = "extract" /\ s.todo = t.todo /\ s.listed = t.listed
  BY <1>1, <1>2 DEF Delete, Typed, Sound, Sync
<1>4. job'[j] = s /\ \A k \in Jobs : k # j => job'[k] = job[k]
  BY <1>1, <1>2 DEF Delete, Typed, TypeOK
<1>5. \A f \in Files : Mine(f)' = {}
  BY DEF Delete, Mine
<1>6. ~shared' => \A k \in Jobs : Writing(k)' => k = j
  BY <1>4 DEF Delete, Writing
<1>7. Named' /\ Alone'
  BY <1>6 DEF Delete, Named, Alone
<1>8. Progress(s)'
  BY <1>3, <1>5 DEF Progress
<1>9. Progressing'
  BY <1>4, <1>6, <1>8 DEF Progressing, Progress
<1>10. Prefix'
  BY <1>5, NoChunks DEF Prefix
<1>11. Whole'
  BY DEF Delete, Whole, NoVersions
<1> QED
  BY <1>7, <1>9, <1>10, <1>11 DEF Clean

\* A sync that ends: if it was alone and skipped nothing, it indexed all.
LEMMA FinishClean ==
    ASSUME Typed, Typed', Clean, NEW j \in Jobs, Finish(j)
    PROVE  Clean'
<1>1. PICK t \in Sync : t = job[j]
  BY DEF Typed, TypeOK
<1>2. /\ t.pc = "extract" /\ t.todo = {} /\ t.file = NoFile /\ Writing(j)
      /\ NoFile \notin Files
  BY <1>1, SyncAssumption DEF Finish, Typed, Sound, Writing
<1>3. /\ \A k \in Jobs : k # j => job'[k] = job[k]
      /\ job'[j].pc = "embed"
      /\ UNCHANGED <<version, rows, shared>>
  BY <1>1 DEF Finish, Typed, TypeOK, Sync, drive
<1>4. \A k \in Jobs : Writing(k)' => Writing(k) /\ k # j /\ job'[k] = job[k]
  BY <1>3 DEF Writing
<1>5. \A f \in Files : Mine(f)' = Mine(f) /\ version'[f] = version[f]
  BY <1>3 DEF Mine
<1>6. Named' /\ Alone' /\ Prefix'
  BY <1>3, <1>4, <1>5 DEF Clean, Named, Alone, Prefix
<1>7. Progressing'
  BY <1>2, <1>3, <1>4 DEF Clean, Progressing, Alone
<1>8. Whole'
  <2>1. CASE shared \/ t.missed
    <3>1. \A f \in Files : ~(whole'[f] > 0)
      BY <1>1, <1>2, <2>1 DEF Finish, Clean, Whole
    <3> QED
      BY <3>1 DEF Whole
  <2>2. CASE ~shared /\ ~t.missed
    <3>1. whole' = t.listed
      BY <1>1, <2>2 DEF Finish
    <3>2. \A k \in Jobs : ~Writing(k)'
      BY <1>2, <1>4, <2>2 DEF Clean, Alone
    <3>3. ASSUME NEW f \in Files, t.listed[f] > 0, Sole(NameOf[f])
          PROVE  Complete(f, t.listed[f])'
      <4>1. PICK l \in Nat : l = t.listed[f]
        BY DEF Sync, Versions
      <4>2. Complete(f, l)
        BY <1>1, <1>2, <2>2, <3>3, <4>1 DEF Clean, Progressing, Progress
      <4>3. version[f] \in Nat
        BY DEF Typed, TypeOK, Versions
      <4>4. Complete(f, l)'
        BY <1>5, <4>2, <4>3, CompleteFrame
      <4> QED
        BY <4>1, <4>4
    <3>4. \A f \in Files : whole'[f] > 0 /\ Sole(NameOf[f]) => Complete(f, whole[f])'
      BY <3>1, <3>3 DEF Complete
    <3> QED
      BY <3>2, <3>4 DEF Whole
  <2> QED
    BY <2>1, <2>2
<1> QED
  BY <1>6, <1>7, <1>8 DEF Clean

LEMMA CleanStep == Typed /\ Typed' /\ Clean /\ [Next]_vars => Clean'
<1> SUFFICES ASSUME Typed, Typed', Clean, [Next]_vars PROVE Clean'
  OBVIOUS
<1>1. CASE \E j \in Jobs : \/ Extract(j) \/ FailExtract(j) \/ FailInsert(j)
                            \/ Insert(j) \/ Delete(j) \/ Finish(j)
  BY <1>1, ExtractClean, FailClean, InsertClean, DeleteClean, FinishClean
<1>2. CASE \/ \E f \in Files : Edit(f) \/ Move(f)
           \/ UNCHANGED vars
           \/ Boot \/ Crash
           \/ \E j \in Jobs : Trigger(j) \/ List(j) \/ Embed(j) \/ Done(j) \/ Raise(j)
  <2>1. UNCHANGED <<rows, shared, whole>>
    BY <1>2 DEF Edit, Move, vars, Boot, Crash, Trigger, List, Embed, Done, Raise
  <2>2. \A f \in Files : version[f] <= version'[f]
    <3>1. \A f \in Files : version[f] \in Nat
      BY DEF Typed, TypeOK, Versions
    <3>2. CASE \E g \in Files : Edit(g)
      BY <3>1, <3>2 DEF Edit, Typed, TypeOK, Versions
    <3>3. CASE UNCHANGED version
      BY <3>1, <3>3
    <3> QED
      BY <1>2, <3>2, <3>3 DEF Move, vars, drive, Boot, Crash, Trigger, List, Embed, Done, Raise
  <2>3. \A k \in Jobs : Writing(k)' => job'[k] = job[k]
    <3>1. CASE Crash
      BY <3>1 DEF Crash, Writing, Idle
    <3>2. CASE UNCHANGED job
      BY <3>2
    <3>3. CASE \E j \in Jobs : \E s : /\ job' = [job EXCEPT ![j] = s]
                                     /\ s.pc \notin {"extract", "insert"}
      BY <3>3 DEF Writing, Typed, TypeOK
    <3>4. CASE \E j \in Jobs : Trigger(j) \/ Done(j) \/ Raise(j)
      BY <3>3, <3>4 DEF Trigger, Done, Raise, Begin, Idle
    <3>5. CASE Boot
      BY <3>2, <3>3, <3>5 DEF Boot, Begin, Idle
    <3>6. ASSUME NEW j \in Jobs, List(j)
          PROVE  \A k \in Jobs : Writing(k)' => job'[k] = job[k]
      <4>1. PICK t \in Sync : t = job[j]
        BY DEF Typed, TypeOK
      <4>2. PICK now : now = [f \in Files |-> IF f \in folder THEN version[f] ELSE 0]
        OBVIOUS
      <4> DEFINE s == [t EXCEPT !.pc = "delete", !.todo = folder, !.listed = now]
      <4>3. job' = [job EXCEPT ![j] = s]
        BY <3>6, <4>1, <4>2 DEF List
      <4>4. s.pc = "delete"
        BY DEF Sync
      <4> HIDE DEF s
      <4> QED
        BY <3>3, <4>3, <4>4
    <3> QED
      BY <1>2, <3>1, <3>2, <3>4, <3>5, <3>6 DEF Edit, Move, vars, Embed
  <2> QED
    BY <2>1, <2>2, <2>3, QuietStep
<1> QED
  BY <1>1, <1>2 DEF Next, Step

LEMMA Invariance == Spec => [](Typed /\ Clean)
BY TypedInit, TypedStep, CleanInit, CleanStep, PTL DEF Spec

LEMMA PrefixesDoNotMix == Typed /\ Clean => DocumentsDoNotMix
<1> SUFFICES ASSUME Typed, Clean, ~shared, NEW r \in rows, Sole(r.source)
             PROVE  /\ \A q \in rows : q.source = r.source => q.version = r.version
                    /\ \A i \in 1..r.index : \E q \in rows : q.source = r.source /\ q.index = i
  BY DEF DocumentsDoNotMix
<1>1. PICK f \in Files : r.source = NameOf[f]
  BY DEF Typed, TypeOK, Rows
<1>2. PICK v \in Nat, m \in Nat : Mine(f) = Chunks(f, v, m)
  BY <1>1 DEF Clean, Prefix
<1>3. \A q \in rows : q.source = r.source => q \in Chunks(f, v, m)
  BY <1>1, <1>2 DEF Mine
<1>4. \A q \in Chunks(f, v, m) : q \in rows /\ q.source = r.source
  BY <1>1, <1>2 DEF Mine
<1> QED
  BY <1>3, <1>4, ChunkMembers

\* A reader of the index never finds chunks of two versions of a document, or
\* a gap between them, at any moment of any sync and after any crash; unless
\* two syncs wrote at the same time.
THEOREM DocumentsNeverMix == Spec => []DocumentsDoNotMix
BY Invariance, PrefixesDoNotMix, PTL

\* What a sync indexed alone and without an error stays, in full, until the
\* next sync empties the index.
THEOREM CleanSyncsStayWhole == Spec => []CleanSyncsAreWhole
<1>1. Typed /\ Clean => CleanSyncsAreWhole
  BY DEF Clean, Whole, CleanSyncsAreWhole, Complete, Mine
<1> QED
  BY Invariance, <1>1, PTL

-----------------------------------------------------------------------------
(* What holds however many syncs write together: every row is a chunk of    *)
(* its file, and no two rows have the same key.                             *)

Real ==
    \A r \in rows :
        /\ r.file \in Files
        /\ r.source = NameOf[r.file]
        /\ r.version \in 1..version[r.file]
        /\ r.index \in 1..Len(Contents[r.file][r.version])

Keyed == \A q, r \in rows : q.source = r.source /\ q.index = r.index => q = r

Indexed == Real /\ Keyed

LEMMA IndexedStep == Typed /\ Typed' /\ Indexed /\ [Next]_vars => Indexed'
<1> SUFFICES ASSUME Typed, Typed', Indexed, [Next]_vars PROVE Indexed'
  OBVIOUS
<1>1. ASSUME NEW j \in Jobs, Insert(j) PROVE Indexed'
  <2>1. PICK c : c = Chunk(j)
    OBVIOUS
  <2>2. rows' = {q \in rows : ~(q.source = c.source /\ q.index = c.index)} \union {c}
    BY <1>1, <2>1 DEF Insert, Upsert
  <2>3. Keyed'
    BY <2>2 DEF Indexed, Keyed
  <2>4. /\ job[j].file \in Files
        /\ job[j].text \in 1..version[job[j].file]
        /\ job[j].next \in 1..Len(Contents[job[j].file][job[j].text])
    BY <1>1 DEF Insert, Typed, Sound
  <2>5. /\ c.file \in Files /\ c.source = NameOf[c.file]
        /\ c.version \in 1..version[c.file]
        /\ c.index \in 1..Len(Contents[c.file][c.version])
    BY <2>1, <2>4 DEF Chunk
  <2>6. Real'
    BY <1>1, <2>2, <2>5 DEF Indexed, Real, Insert, drive
  <2> QED
    BY <2>3, <2>6 DEF Indexed
<1>2. ASSUME NEW f \in Files, Edit(f) PROVE Indexed'
  <2>1. \A g \in Files : version[g] \in Nat /\ version'[g] \in Nat /\ version[g] <= version'[g]
    BY <1>2 DEF Edit, Typed, TypeOK, Versions
  <2>2. \A r \in rows : r.version \in 1..version[r.file] => r.version \in 1..version'[r.file]
    BY <2>1 DEF Indexed, Real
  <2> QED
    BY <1>2, <2>2 DEF Edit, Indexed, Real, Keyed
<1>3. CASE UNCHANGED version /\ (rows' = rows \/ rows' = {})
  BY <1>3 DEF Indexed, Real, Keyed
<1> QED
  BY <1>1, <1>2, <1>3 DEF Next, Step, vars, drive, Move, Boot, Crash, Trigger, List, Delete,
                          Extract, FailExtract, FailInsert, Finish, Embed, Done, Raise

LEMMA RowsAreChunks == Spec => [](Typed /\ Clean /\ Indexed)
<1>1. Init => Indexed
  BY DEF Init, Indexed, Real, Keyed
<1> QED
  BY TypedInit, TypedStep, CleanInit, CleanStep, <1>1, IndexedStep, PTL DEF Spec
=============================================================================
