------------------------------ MODULE DocIndex ------------------------------
(***************************************************************************)
(* The documents of the knowledge base: their files in the object store,   *)
(* their rows, and the chunks that retrieval reads.                        *)
(*                                                                         *)
(* apps/backend/app/api/v1/routes/docs.py (upload, bootstrap-seed,         *)
(* reindex), libs/common/rag_chunking.py and rag_docs.py.                  *)
(*                                                                         *)
(* Every request commits several times and keeps what it has read: upload  *)
(* and seed the bytes of the file, reindex the rows of all its documents   *)
(* with their storage keys.  SessionLocal does not expire what it read, so *)
(* a column is written only if it differs from what was read.              *)
(*                                                                         *)
(* A file is its name, the ID in its text and the blocks extracted from    *)
(* it; a length is counted in units of about the overlap.                  *)
(***************************************************************************)
EXTENDS Naturals, Sequences, FiniteSets, SequencesExt

CONSTANTS Requests,    \* requests that run at once
          Files,       \* files: [name, id, blocks], id # None or the name stands for it
          SeedDirs,    \* the lists of files a seed directory may hold
          Uploads,     \* the files an operator uploads
          NewIds,      \* the ids made for uploads, one for each request
          None,        \* no ID in the text, no row
          BatchSize,   \* chunks embedded with one call (128)
          MaxChars,    \* max_chars, in units of length
          Overlap,     \* overlap, in units of length
          Samples,     \* bound: the lists of blocks chunk_blocks is checked on
          MaxRequests, \* bound: requests in all
          MaxFaults    \* bound: calls that raise, processes that die

AreBlocks(blocks) ==
    /\ Len(blocks) \in Nat /\ DOMAIN blocks = 1 .. Len(blocks)
    /\ \A i \in DOMAIN blocks : blocks[i].text \in Nat /\ blocks[i].mandatory \in BOOLEAN

ASSUME ConstantsAssumption ==
    /\ Uploads \subseteq Files
    /\ SeedDirs \subseteq Seq(Files) /\ NewIds \in Seq(ToSet(NewIds))
    /\ BatchSize \in Nat \ {0}
    /\ MaxChars \in Nat /\ Overlap \in Nat
    /\ MaxRequests \in 0 .. Len(NewIds) /\ MaxFaults \in Nat
    /\ Cardinality(ToSet(NewIds)) = Len(NewIds)
    /\ \A f \in Files : {f.id, f.name} \intersect ToSet(NewIds) = {}
    /\ \A blocks \in Samples \union {f.blocks : f \in Files} : AreBlocks(blocks)

VARIABLES objects,  \* the file stored under a key
          row,      \* the document of an id: its key and the file its metadata are of
          chunks,   \* the chunks of an id, by their own id
          req,      \* the requests
          count,    \* how many began: bounds them, and names the uploads
          spoiled,  \* history: documents the last to index failed on or shared
          met,      \* history: documents two were at since one alone cleared them
          faults    \* how much of the bound was used

vars == <<objects, row, chunks, req, count, spoiled, met, faults>>

----------------------------------------------------------------------------
(* clean_blocks and chunk_blocks                                           *)

\* clean_blocks drops the front matter and the headings, chunk_blocks what is empty.
Kept(block) == block.text > 0 /\ ~ block.front

\* What chunk_blocks has collected: the chunks that are closed, and of the next one
\* its section, the length of its text, its blocks and those its tags are of.
Empty == [section |-> "none", size |-> 0, parts |-> <<>>, metas |-> <<>>, done |-> <<>>]

ChunkOf(blocks, s) ==
    [section |-> s.section, size |-> s.size, parts |-> s.parts,
     mandatory |-> \E n \in DOMAIN s.metas : blocks[s.metas[n]].mandatory]

\* flush
Flushed(blocks, s) == Append(s.done, ChunkOf(blocks, s))

\* The tail of a chunk that the next one begins with
Tailing(s) == IF s.size < Overlap THEN s.size ELSE Overlap

\* Mutant of Restarted: cur_meta is kept over a flush.
RestartedTagged(blocks, s, i) ==
    [section |-> blocks[i].section, size |-> Tailing(s) + blocks[i].text,
     parts |-> <<i>>, metas |-> Append(s.metas, i), done |-> Flushed(blocks, s)]

\* The chunk is closed and the next one begins with its tail.
Restarted(blocks, s, i) ==
    [section |-> blocks[i].section, size |-> Tailing(s) + blocks[i].text,
     parts |-> <<i>>, metas |-> <<i>>, done |-> Flushed(blocks, s)]

\* A block joins the chunk of its section while that is not too long.
Fits(blocks, s, i) ==
    blocks[i].section = s.section /\ s.size + blocks[i].text <= MaxChars

Taken(blocks, s, i) ==
    IF ~ Kept(blocks[i]) THEN s
    ELSE IF s.parts = <<>>
    THEN [section |-> blocks[i].section, size |-> blocks[i].text,
          parts |-> <<i>>, metas |-> <<i>>, done |-> s.done]
    ELSE IF Fits(blocks, s, i)
    THEN [section |-> s.section, size |-> s.size + blocks[i].text,
          parts |-> Append(s.parts, i), metas |-> Append(s.metas, i), done |-> s.done]
    ELSE Restarted(blocks, s, i)

\* What is collected after each of the blocks
Collected(blocks) ==
    LET after[i \in 0 .. Len(blocks)] ==
            IF i = 0 THEN Empty ELSE Taken(blocks, after[i - 1], i)
    IN  after

Closed(blocks, s) == IF s.parts = <<>> THEN s.done ELSE Flushed(blocks, s)

ChunkBlocks(blocks) == Closed(blocks, Collected(blocks)[Len(blocks)])

\* _meta_and_chunks: how many chunks a file gives, and the code of its document
Chunked(file) == ChunkBlocks(file.blocks)
DocCode(file) == IF file.id # None THEN file.id ELSE file.name

----------------------------------------------------------------------------
(* The rows a request writes                                               *)

\* A chunk has its text and its metadata of one file.
ChunksOf(file, from, to) ==
    [i \in 1 .. (to - from + 1) |-> [of |-> file, no |-> from + i - 1]]

Whole(file) == ChunksOf(file, 1, Len(Chunked(file)))

Docs == {DocCode(f) : f \in Files} \union ToSet(NewIds)
Keys == Docs \X {f.name : f \in Files}

Idle == [pc |-> "idle", doc |-> None, file |-> None, seen |-> None, next |-> 1,
         seeds |-> <<>>, docs |-> {}, shared |-> {}]

\* The documents a request has read, or is at.
Holds(r) == {d.id : d \in req[r].docs} \union ({req[r].doc} \ {None})

Rows == [key : Keys, meta : Files]
Held == [id : Docs, row : Rows]

ASSUME NoneAssumption ==
    Files # {} /\ None \notin Files /\ None \notin Docs /\ None \notin Rows

RequestType ==
    [pc : {"idle", "put", "select", "upsert", "load", "meta", "clear", "insert"},
     doc : Docs \union {None}, file : Files \union {None}, seen : Rows \union {None},
     next : Nat \ {0}, seeds : Seq(Files), docs : SUBSET Held, shared : SUBSET Docs]

TypeOK ==
    /\ DOMAIN objects \subseteq Keys
    /\ objects \in [DOMAIN objects -> Files]
    /\ row \in [Docs -> Rows \union {None}]
    /\ chunks \in [Docs -> Seq([of : Files, no : Nat])]
    /\ \A d \in Docs : \A i \in DOMAIN chunks[d] :
         chunks[d][i].no \in 1 .. Len(Chunked(chunks[d][i].of))
    /\ req \in [Requests -> RequestType]
    /\ count \in 0 .. MaxRequests
    /\ spoiled \subseteq Docs /\ met \subseteq Docs
    /\ faults \in 0 .. MaxFaults

\* Request r goes on as s: what it takes is shared with whoever holds it too.
Take(r, s) ==
    LET mine    == {d.id : d \in s.docs} \union ({s.doc} \ {None})
        both(q) == mine \intersect Holds(q)
        all     == UNION {both(q) : q \in Requests \ {r}}
    IN  /\ met' = met \union all
        /\ req' = [q \in Requests |->
                  IF q = r
                  THEN [s EXCEPT !.shared = @ \union all]
                  ELSE [req[q] EXCEPT !.shared = @ \union both(q)]]

Go(r, pc) == req' = [req EXCEPT ![r].pc = pc]

\* The handler is done with its document: the next seed, the next row, the end.
NextDoc(r) ==
    LET s == [req[r] EXCEPT !.doc = None, !.file = None, !.seen = None, !.next = 1]
    IN  /\ spoiled' = IF req[r].doc \in req[r].shared THEN spoiled \union {req[r].doc}
                      ELSE spoiled \ {req[r].doc}
        /\ IF s.seeds # <<>>
           THEN Take(r, [s EXCEPT !.pc = "put", !.seeds = Tail(@), !.file = Head(s.seeds),
                                  !.doc = DocCode(Head(s.seeds)),
                                  !.shared = @ \ {DocCode(Head(s.seeds))}])
           ELSE /\ req' = [req EXCEPT ![r] = IF s.docs # {} THEN [s EXCEPT !.pc = "load"] ELSE Idle]
                /\ UNCHANGED met

----------------------------------------------------------------------------
(* upload, bootstrap-seed, reindex                                         *)

Begin(r) ==
    /\ req[r].pc = "idle"
    /\ count < MaxRequests
    /\ count' = count + 1
    /\ UNCHANGED <<objects, row, chunks, spoiled, faults>>

\* The id of an upload is new, whatever the ID in its text.
Upload(r) ==
    /\ Begin(r)
    /\ \E f \in Uploads :
          Take(r, [Idle EXCEPT !.pc = "put", !.file = f, !.doc = NewIds[count + 1]])

\* The id of a seed is the code of the document.
Seed(r) ==
    /\ Begin(r)
    /\ \E dir \in SeedDirs \ {<<>>} :
          Take(r, [Idle EXCEPT !.pc = "put", !.file = Head(dir), !.doc = DocCode(Head(dir)),
                               !.seeds = Tail(dir)])

\* All rows, or the one that was named.
Reindex(r) ==
    /\ Begin(r)
    /\ LET there == {[id |-> d, row |-> row[d]] : d \in {d \in Docs : row[d] # None}}
       IN  \E docs \in {there} \union {{d} : d \in there} :
              /\ docs # {}
              /\ Take(r, [Idle EXCEPT !.pc = "load", !.docs = docs])

\* _store_doc_bytes
Put(r) ==
    /\ req[r].pc = "put"
    /\ LET key == <<req[r].doc, req[r].file.name>>
       IN  objects' = [k \in DOMAIN objects \union {key} |->
                         IF k = key THEN req[r].file ELSE objects[k]]
    /\ Go(r, "select")
    /\ UNCHANGED <<row, chunks, count, spoiled, met, faults>>

\* _upsert_document: the row is read ...
SelectRow(r) ==
    /\ req[r].pc = "select"
    /\ req' = [req EXCEPT ![r].pc = "upsert", ![r].seen = row[req[r].doc]]
    /\ UNCHANGED <<objects, row, chunks, count, spoiled, met, faults>>

\* ... and inserted or changed.
Upsert(r) ==
    /\ req[r].pc = "upsert"
    /\ LET d   == req[r].doc
           new == [key |-> <<d, req[r].file.name>>, meta |-> req[r].file]
           old == req[r].seen
       IN  /\ old = None => row[d] = None
           /\ row' = [row EXCEPT ![d] =
                        IF old = None THEN new
                        ELSE [key  |-> IF new.key = old.key THEN @.key ELSE new.key,
                              meta |-> IF new.meta = old.meta THEN @.meta ELSE new.meta]]
    /\ Go(r, "clear")
    /\ UNCHANGED <<objects, chunks, count, spoiled, met, faults>>

\* Two requests insert one id: the second meets the primary key and fails.
InsertTwice(r) ==
    /\ req[r].pc = "upsert"
    /\ req[r].seen = None
    /\ row[req[r].doc] # None
    /\ req' = [req EXCEPT ![r] = Idle]
    /\ spoiled' = spoiled \union {req[r].doc}
    /\ UNCHANGED <<objects, row, chunks, count, met, faults>>

\* _load_doc_bytes, by the key that was read with the row
Load(r) ==
    /\ req[r].pc = "load"
    /\ \E d \in req[r].docs :
          req' = [req EXCEPT ![r].pc = "meta", ![r].docs = @ \ {d}, ![r].doc = d.id,
                             ![r].seen = d.row, ![r].file = objects[d.row.key]]
    /\ UNCHANGED <<objects, row, chunks, count, spoiled, met, faults>>

\* Mutant of SetMeta: the metadata are left as they are.
SetMetaNever(r) ==
    /\ req[r].pc = "meta"
    /\ Go(r, "clear")
    /\ UNCHANGED <<objects, row, chunks, count, spoiled, met, faults>>

\* The columns that differ from what was read; the key is not among them.
SetMeta(r) ==
    /\ req[r].pc = "meta"
    /\ row' = [row EXCEPT ![req[r].doc].meta =
                 IF req[r].file = req[r].seen.meta THEN @ ELSE req[r].file]
    /\ Go(r, "clear")
    /\ UNCHANGED <<objects, chunks, count, spoiled, met, faults>>

\* Mutant of Clear: what is there is added to.
ClearNothing(r) ==
    /\ req[r].pc = "clear"
    /\ IF Chunked(req[r].file) # <<>>
       THEN /\ Go(r, "insert")
            /\ met' = IF req[r].doc \in req[r].shared THEN met ELSE met \ {req[r].doc}
            /\ UNCHANGED spoiled
       ELSE NextDoc(r)
    /\ UNCHANGED <<objects, row, chunks, count, faults>>

\* _index_document: the old chunks are deleted, and committed ...
Clear(r) ==
    /\ req[r].pc = "clear"
    /\ chunks' = [chunks EXCEPT ![req[r].doc] = <<>>]
    /\ IF Chunked(req[r].file) # <<>>
       THEN /\ Go(r, "insert")
            /\ met' = IF req[r].doc \in req[r].shared THEN met ELSE met \ {req[r].doc}
            /\ UNCHANGED spoiled
       ELSE NextDoc(r)
    /\ UNCHANGED <<objects, row, count, faults>>

\* Mutant of LastOf: the last batch is taken for a full one.
LastOfFull(r) == req[r].next + BatchSize - 1

LastOf(r) ==
    LET n == Len(Chunked(req[r].file))
    IN  IF req[r].next + BatchSize - 1 < n THEN req[r].next + BatchSize - 1 ELSE n

\* ... the new ones embedded and committed batch by batch.
InsertBatch(r) ==
    /\ req[r].pc = "insert"
    /\ LET d == req[r].doc  f == req[r].file
       IN  /\ chunks' = [chunks EXCEPT ![d] = @ \o ChunksOf(f, req[r].next, LastOf(r))]
           /\ IF LastOf(r) = Len(Chunked(f)) THEN NextDoc(r)
              ELSE /\ req' = [req EXCEPT ![r].next = LastOf(r) + 1]
                   /\ UNCHANGED <<spoiled, met>>
    /\ UNCHANGED <<objects, row, count, faults>>

\* The object store, the database or the embedding call raises, or the process
\* dies: what was committed stays.
Fail(r) ==
    /\ req[r].pc # "idle"
    /\ faults < MaxFaults
    /\ faults' = faults + 1
    /\ spoiled' = IF req[r].pc \in {"put", "load"} THEN spoiled
                  ELSE spoiled \union {req[r].doc}
    /\ req' = [req EXCEPT ![r] = Idle]
    /\ UNCHANGED <<objects, row, chunks, count, met>>

----------------------------------------------------------------------------
Init ==
    /\ objects = <<>>
    /\ row = [d \in Docs |-> None]
    /\ chunks = [d \in Docs |-> <<>>]
    /\ req = [r \in Requests |-> Idle]
    /\ count = 0
    /\ spoiled = {} /\ met = {}
    /\ faults = 0

Next ==
    \E r \in Requests :
        \/ Upload(r) \/ Seed(r) \/ Reindex(r) \/ Put(r) \/ SelectRow(r) \/ Upsert(r)
        \/ InsertTwice(r) \/ Load(r) \/ SetMeta(r) \/ Clear(r) \/ InsertBatch(r) \/ Fail(r)

Spec == Init /\ [][Next]_vars

----------------------------------------------------------------------------
(* Properties                                                              *)

Busy(d) == \E r \in Requests : d \in Holds(r)

\* A document nobody is at has every chunk of the file under its key, once and
\* in order, with the metadata of that file, and so has its row, unless the
\* last request at it failed or met another one there.  Any request that
\* indexes it alone and to the end makes it whole again.
IndexedAsStored ==
    \A d \in Docs :
        row[d] # None /\ ~ Busy(d) /\ d \notin spoiled =>
            LET file == objects[row[d].key]
            IN  row[d].meta = file /\ chunks[d] = Whole(file)

\* Retrieval finds no chunk twice, and none of two files under one document,
\* unless two requests met at it: a failure or a crash alone leaves a part of
\* one file, its first batches.
TwinsNeedTwoRequests ==
    \A d \in Docs \ met : \E f \in Files : IsPrefix(chunks[d], Whole(f))

\* A chunk is of blocks in their order, of the section it names, and marked as a
\* mandatory step exactly if one of them is; it is too long only if it is of one.
RightChunk(blocks, chunk) ==
    LET parts == chunk.parts IN
    /\ parts # <<>> /\ ToSet(parts) \subseteq DOMAIN blocks
    /\ \A m, n \in DOMAIN parts : m < n => parts[m] < parts[n]
    /\ chunk.size <= MaxChars \/ Len(parts) = 1
    /\ \A i \in ToSet(parts) : blocks[i].section = chunk.section
    /\ chunk.mandatory <=> \E i \in ToSet(parts) : blocks[i].mandatory

CutRight(blocks, done) ==
    /\ \A i \in DOMAIN blocks :
         Kept(blocks[i]) <=> \E k \in DOMAIN done : i \in ToSet(done[k].parts)
    /\ \A k \in DOMAIN done : RightChunk(blocks, done[k])
    /\ \A k, l \in DOMAIN done :
         k < l => \A i \in ToSet(done[k].parts), j \in ToSet(done[l].parts) : i < j

\* chunk_blocks loses no block, repeats none but for the tail, and keeps their
\* order; and every chunk is right, whatever was flushed before.  No state bears on
\* it: the samples are gone through once, before the first request.
ChunksCutRight == count = 0 => \A blocks \in Samples : CutRight(blocks, ChunkBlocks(blocks))
=============================================================================
