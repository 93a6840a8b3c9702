-------------------------------- MODULE Pool --------------------------------
(* The buffer pool (bpm.rs) over the two-tier page file (disk.rs, page.rs).   *)
(* Threads fetch, write, create and flush pages.  Every block of the code     *)
(* that holds the frames lock is one action; what happens between two such    *)
(* blocks of one call is open to the other threads.  A page's bytes are a     *)
(* number: 0 is the zeroed page, and each write stores the next number.       *)
EXTENDS Integers, Sequences, SequencesExt, FiniteSetsExt

CONSTANTS
    Threads,        \* callers of the pool
    PoolSize,       \* frames
    LruK,           \* the K of LRU-K
    PagesPerChunk,  \* pages in one remote object
    Stored,         \* pages the store holds when it is opened
    Scripts         \* the calls each thread makes: a set of [Threads -> Seq(call)]

VARIABLES
    frames,   \* frame -> its page, pin count, dirty flag, data, access history
    table,    \* the page table: a set of <<page, frame>>
    free,     \* the free list
    clock,    \* the access clock
    disk,     \* local file, remote chunks, V1 blob, next page id, chunks migrated
    thr,      \* thread -> where its call stands
    script,   \* thread -> the calls it has still to make, the current one first
    latest,   \* history: page -> the number last written to it
    calm      \* history: none of the overlaps named below has happened

vars == <<frames, table, free, clock, disk, thr, script, latest, calm>>

Frames == 1..PoolSize
NoPage == -1          \* INVALID_PAGE_ID
Empty == [page |-> NoPage, pins |-> 0, dirty |-> FALSE, data |-> 0, hist |-> <<>>]
Idle == [pc |-> "idle", page |-> NoPage, frame |-> 0, snap |-> {}, todo |-> {}, blob |-> <<>>]

Call(t) == Head(script[t])
At(t, pc) == script[t] # <<>> /\ thr[t].pc = pc
Done(t) == /\ thr' = [thr EXCEPT ![t] = Idle]
           /\ script' = [script EXCEPT ![t] = Tail(@)]
FrameOf(p) == CHOOSE f \in Frames : <<p, f>> \in table
Resident(p) == \E f \in Frames : <<p, f>> \in table
Occupied(f) == frames[f].page # NoPage

---------------------------------------------------------------------------
(* The disk manager. *)

Chunk(p) == p \div PagesPerChunk
Slot(p) == (p % PagesPerChunk) + 1

\* A file or object grown with zeroes so that it has slot i, holding v there.
Overlay(s, i, v) ==
    [j \in 1..Max({i, Len(s)}) |-> IF j = i THEN v ELSE IF j <= Len(s) THEN s[j] ELSE 0]

InLocal(d, p) == p < Len(d.local)
InRemote(d, p) == Chunk(p) \in DOMAIN d.remote /\ Slot(p) <= Len(d.remote[Chunk(p)])

\* read_page: the local file as far as it reaches, else the chunk, else zeroes.
ReadPage(d, p) == CASE InLocal(d, p) -> d.local[p + 1]
                    [] ~InLocal(d, p) /\ InRemote(d, p) -> d.remote[Chunk(p)][Slot(p)]
                    [] OTHER -> 0

\* A page read from its chunk is written to the local file.
Hydrate(d, p) ==
    IF ~InLocal(d, p) /\ InRemote(d, p)
    THEN [d EXCEPT !.local = Overlay(@, p + 1, ReadPage(d, p))] ELSE d

ChunkBlob(d, c) == IF c \in DOMAIN d.remote THEN d.remote[c] ELSE <<>>
PutChunk(d, c, blob) ==
    [d EXCEPT !.remote = [x \in DOMAIN @ \union {c} |-> IF x = c THEN blob ELSE @[x]]]

\* Mutant: only the remote chunk is written.
WritePageRemote(d, p, v) == PutChunk(d, Chunk(p), Overlay(ChunkBlob(d, Chunk(p)), Slot(p), v))

\* write_page: the local file, then the page's chunk read, overlaid and put back.
WritePage(d, p, v) ==
    PutChunk([d EXCEPT !.local = Overlay(@, p + 1, v)],
             Chunk(p), Overlay(ChunkBlob(d, Chunk(p)), Slot(p), v))

\* The pages a write of page p to the local file would leave as zeroes although
\* their chunks hold data.
Gap(d, p) == \E q \in Len(d.local)..(p - 1) : InRemote(d, q)

---------------------------------------------------------------------------
(* The four ways the code can lose a write, which turn calm off: a guard's    *)
(* write overlaps a flush of its page; a page is evicted while another miss   *)
(* holds an older copy it has not published; the local file grows past pages  *)
(* that only the chunks hold; the process dies while it splits a V1 blob.     *)

Flushing(t) == thr[t].pc \in {"snapped", "stored", "chunk", "uploaded"}
InFlush(t) == \E u \in Threads \ {t} : Flushing(u)
MidWrite(p) == \E u \in Threads : At(u, "marked") /\ thr[u].page = p
Loading(p) == \E u \in Threads : At(u, "loaded") /\ thr[u].page = p

---------------------------------------------------------------------------
\* remote_num_pages.
RemotePages(remote) == Max({0} \union {c * PagesPerChunk + Len(remote[c]) : c \in DOMAIN remote})

Full == [i \in 1..Stored |-> 1]
DiskOf(local, blob, v1) ==
    LET chunked == [c \in 0..((Len(blob) - 1) \div PagesPerChunk) |->
                      SubSeq(blob, c * PagesPerChunk + 1,
                             Min({Len(blob), (c + 1) * PagesPerChunk}))]
        remote == IF blob = <<>> THEN <<>> ELSE chunked
    IN [local |-> local, remote |-> remote, v1 |-> v1,
        next |-> IF local # <<>> THEN Len(local) ELSE RemotePages(remote), open |-> v1 = <<>>]

\* A warm start (local file and chunks agree), a cold start (no local file), or
\* a store from before chunks, which open must split first.
Init ==
    /\ frames = [f \in Frames |-> Empty]
    /\ table = {}
    /\ free = [f \in Frames |-> f]
    /\ clock = 1
    /\ disk \in {DiskOf(Full, Full, <<>>), DiskOf(<<>>, Full, <<>>), DiskOf(<<>>, <<>>, Full)}
    /\ thr = [t \in Threads |-> Idle]
    /\ script \in Scripts
    /\ latest = [p \in 0..Stored |-> IF p < Stored THEN 1 ELSE 0]
    /\ calm = TRUE

\* migrate_v1_blob_if_needed: one chunk of the V1 blob is put; with the last one
\* the store is open, and its length is what the chunks hold.
MigrateChunk ==
    LET c == Cardinality(DOMAIN disk.remote)
        start == c * PagesPerChunk
        end == Min({start + PagesPerChunk, Len(disk.v1)})
        put == PutChunk(disk, c, SubSeq(disk.v1, start + 1, end))
    IN /\ ~disk.open
       /\ disk' = [put EXCEPT !.open = end = Len(disk.v1), !.next = RemotePages(put.remote)]
       /\ UNCHANGED <<frames, table, free, clock, thr, script, latest, calm>>

\* The process dies between two chunks.  The next open finds a chunk, takes the
\* store for migrated and sizes it by the chunks there are.
CrashInMigration ==
    /\ ~disk.open /\ disk.remote # <<>>
    /\ disk' = [disk EXCEPT !.open = TRUE]
    /\ calm' = FALSE
    /\ UNCHANGED <<frames, table, free, clock, thr, script, latest>>

---------------------------------------------------------------------------
(* fetch_page and new_page. *)

\* record_access on an access history.
Accessed(hist) == Append(IF Len(hist) = LruK THEN Tail(hist) ELSE hist, clock)

Hit(t) ==
    LET p == Call(t)[2]
        f == FrameOf(p)
    IN /\ At(t, "idle") /\ disk.open /\ Call(t)[1] \in {"read", "write"} /\ Resident(p)
       /\ frames' = [frames EXCEPT ![f].pins = @ + 1, ![f].hist = Accessed(@)]
       /\ clock' = clock + 1
       /\ thr' = [thr EXCEPT ![t].pc = "held", ![t].page = p, ![t].frame = f]
       /\ UNCHANGED <<table, free, disk, script, latest, calm>>

Miss(t) ==
    /\ At(t, "idle") /\ disk.open /\ Call(t)[1] \in {"read", "write"} /\ ~Resident(Call(t)[2])
    /\ thr' = [thr EXCEPT ![t].pc = "alloc", ![t].page = Call(t)[2]]
    /\ UNCHANGED <<frames, table, free, clock, disk, script, latest, calm>>

\* new_page takes the next page id, then allocates a frame as a miss does.
AllocatePage(t) ==
    /\ At(t, "idle") /\ disk.open /\ Call(t)[1] = "new"
    /\ thr' = [thr EXCEPT ![t].pc = "alloc", ![t].page = disk.next]
    /\ disk' = [disk EXCEPT !.next = @ + 1]
    /\ UNCHANGED <<frames, table, free, clock, script, latest, calm>>

Claimed(f) == [frames EXCEPT ![f] = [Empty EXCEPT !.pins = 1]]

\* allocate_frame, its free-list block: stale entries are dropped on the way.
Usable(f) == frames[f].pins = 0 /\ ~Occupied(f)
PopFree(t) ==
    LET ix == {i \in 1..Len(free) : Usable(free[i])}
    IN /\ At(t, "alloc")
       /\ IF ix = {}
          THEN /\ free' = <<>>
               /\ thr' = [thr EXCEPT ![t].pc = "evict"]
               /\ UNCHANGED frames
          ELSE /\ free' = SubSeq(free, Min(ix) + 1, Len(free))
               /\ frames' = Claimed(free[Min(ix)])
               /\ thr' = [thr EXCEPT ![t].pc = "claimed", ![t].frame = free[Min(ix)]]
       /\ UNCHANGED <<table, clock, disk, script, latest, calm>>

\* backward_k_distance: a page with fewer than K accesses is infinitely far.
KDistance(f) == IF Len(frames[f].hist) < LruK THEN 1000 ELSE clock - Head(frames[f].hist)

\* evict_victim: an unlisted free frame, else the unpinned frame farthest back
\* (the first of equals), written back if dirty; else the call fails.
EvictVictim(t) ==
    LET unpinned == {f \in Frames : frames[f].pins = 0}
        bare == {f \in unpinned : ~Occupied(f)}
        far == Max({KDistance(f) : f \in unpinned})
        victim == IF bare # {} THEN Min(bare)
                  ELSE Min({f \in unpinned : KDistance(f) = far})
        p == frames[victim].page
        writes == frames[victim].dirty
    IN /\ At(t, "evict")
       /\ IF unpinned = {}
          THEN Done(t) /\ UNCHANGED <<frames, table, disk, calm>>
          ELSE /\ frames' = Claimed(victim)
               /\ table' = table \ {<<p, victim>>}
               /\ disk' = IF writes THEN WritePage(disk, p, frames[victim].data) ELSE disk
               /\ calm' = (calm /\ ~(writes /\ Gap(disk, p)) /\ ~Loading(p))
               /\ thr' = [thr EXCEPT ![t].pc = "claimed", ![t].frame = victim]
               /\ UNCHANGED script
       /\ UNCHANGED <<free, clock, latest>>

\* The miss reads the page into its claimed frame, which is not yet published.
LoadPage(t) ==
    LET p == thr[t].page
    IN /\ At(t, "claimed") /\ Call(t)[1] # "new"
       /\ frames' = [frames EXCEPT ![thr[t].frame] =
                       [Empty EXCEPT !.page = p, !.pins = 1, !.data = ReadPage(disk, p),
                                     !.hist = <<clock>>]]
       /\ clock' = clock + 1
       /\ disk' = Hydrate(disk, p)
       /\ calm' = (calm /\ (Hydrate(disk, p) = disk \/ ~Gap(disk, p)))
       /\ thr' = [thr EXCEPT ![t].pc = "loaded"]
       /\ UNCHANGED <<table, free, script, latest>>

\* Mutant: the page table is not looked at again after the read.
PublishUnchecked(t) ==
    /\ At(t, "loaded")
    /\ table' = table \union {<<thr[t].page, thr[t].frame>>}
    /\ thr' = [thr EXCEPT ![t].pc = "held"]
    /\ UNCHANGED <<frames, free, clock, disk, script, latest, calm>>

Publish(t) ==
    /\ At(t, "loaded") /\ ~Resident(thr[t].page)
    /\ table' = table \union {<<thr[t].page, thr[t].frame>>}
    /\ thr' = [thr EXCEPT ![t].pc = "held"]
    /\ UNCHANGED <<frames, free, clock, disk, script, latest, calm>>

\* Another miss published the page first: the frame is reset, and listed as free
\* in a step of its own before the call tries again.
LoseRace(t) ==
    /\ At(t, "loaded") /\ Resident(thr[t].page)
    /\ frames' = [frames EXCEPT ![thr[t].frame] = Empty]
    /\ thr' = [thr EXCEPT ![t].pc = "relist"]
    /\ UNCHANGED <<table, free, clock, disk, script, latest, calm>>

Relist(t) ==
    /\ At(t, "relist")
    /\ free' = Append(free, thr[t].frame)
    /\ thr' = [thr EXCEPT ![t] = Idle]
    /\ UNCHANGED <<frames, table, clock, disk, script, latest, calm>>

InstallNew(t) ==
    /\ At(t, "claimed") /\ Call(t)[1] = "new"
    /\ frames' = [frames EXCEPT ![thr[t].frame] =
                    [Empty EXCEPT !.page = thr[t].page, !.pins = 1, !.dirty = TRUE,
                                  !.hist = <<clock>>]]
    /\ clock' = clock + 1
    /\ table' = table \union {<<thr[t].page, thr[t].frame>>}
    /\ thr' = [thr EXCEPT ![t].pc = "held"]
    /\ UNCHANGED <<free, disk, script, latest, calm>>

---------------------------------------------------------------------------
(* PageGuard: write marks the page dirty, then changes it under a second lock. *)

MarkDirty(t) ==
    /\ At(t, "held") /\ Call(t)[1] = "write"
    /\ frames' = [frames EXCEPT ![FrameOf(thr[t].page)].dirty = TRUE]
    /\ calm' = (calm /\ ~InFlush(t))
    /\ thr' = [thr EXCEPT ![t].pc = "marked"]
    /\ UNCHANGED <<table, free, clock, disk, script, latest>>

Mutate(t) ==
    LET p == thr[t].page
    IN /\ At(t, "marked")
       /\ latest' = [latest EXCEPT ![p] = @ + 1]
       /\ frames' = [frames EXCEPT ![thr[t].frame].data = latest[p] + 1]
       /\ calm' = (calm /\ ~InFlush(t))
       /\ thr' = [thr EXCEPT ![t].pc = "written"]
       /\ UNCHANGED <<table, free, clock, disk, script>>

\* The guard is dropped: unpin.
Unpin(t) ==
    /\ \/ At(t, "written")
       \/ At(t, "held") /\ Call(t)[1] # "write"
    /\ frames' = [frames EXCEPT ![FrameOf(thr[t].page)].pins = @ - 1]
    /\ Done(t)
    /\ UNCHANGED <<table, free, clock, disk, latest, calm>>

---------------------------------------------------------------------------
(* Flushes. *)

\* flush_page: one block, under both locks.
FlushPage(t) ==
    LET p == Call(t)[2]
        f == FrameOf(p)
    IN /\ At(t, "idle") /\ disk.open /\ Call(t)[1] = "flush"
       /\ IF Resident(p) /\ frames[f].dirty
          THEN /\ disk' = WritePage(disk, p, frames[f].data)
               /\ frames' = [frames EXCEPT ![f].dirty = FALSE]
               /\ calm' = (calm /\ ~MidWrite(p) /\ ~Gap(disk, p))
          ELSE UNCHANGED <<disk, frames, calm>>
       /\ Done(t)
       /\ UNCHANGED <<table, free, clock, latest>>

\* flush_all copies the dirty pages under the frames lock ...
Snapshot(t) ==
    LET snap == {<<frames[f].page, frames[f].data>> : f \in
                   {g \in Frames : Occupied(g) /\ frames[g].dirty}}
    IN /\ At(t, "idle") /\ disk.open /\ Call(t)[1] = "checkpoint"
       /\ thr' = [thr EXCEPT ![t].pc = IF snap = {} THEN "uploaded" ELSE "snapped",
                             ![t].snap = snap]
       /\ calm' = (calm /\ \A x \in snap : ~MidWrite(x[1]))
       /\ UNCHANGED <<frames, table, free, clock, disk, script, latest>>

\* ... writes the copies to the local file without it ...
StoreLocal(t) ==
    LET snap == thr[t].snap
        top == Max({x[1] : x \in snap})
        written(p) == CHOOSE x \in snap : x[1] = p
    IN /\ At(t, "snapped")
       /\ disk' = [disk EXCEPT !.local =
                     [i \in 1..Max({top + 1, Len(@)}) |->
                        IF \E x \in snap : x[1] = i - 1 THEN written(i - 1)[2]
                        ELSE IF i <= Len(@) THEN @[i] ELSE 0]]
       /\ calm' = (calm /\ ~\E q \in Len(disk.local)..top :
                      InRemote(disk, q) /\ ~\E x \in snap : x[1] = q)
       /\ thr' = [thr EXCEPT ![t].pc = "stored", ![t].todo = {Chunk(x[1]) : x \in snap}]
       /\ UNCHANGED <<frames, table, free, clock, script, latest>>

\* ... and, chunk by chunk, reads the remote object and puts it back overlaid.
ReadChunk(t) ==
    /\ At(t, "stored")
    /\ thr' = [thr EXCEPT ![t].pc = "chunk", ![t].blob = ChunkBlob(disk, Min(thr[t].todo))]
    /\ UNCHANGED <<frames, table, free, clock, disk, script, latest, calm>>

UploadChunk(t) ==
    LET c == Min(thr[t].todo)
        blob == FoldLeft(LAMBDA b, x : Overlay(b, Slot(x[1]), x[2]), thr[t].blob,
                         SetToSeq({x \in thr[t].snap : Chunk(x[1]) = c}))
    IN /\ At(t, "chunk")
       /\ disk' = PutChunk(disk, c, blob)
       /\ thr' = [thr EXCEPT ![t].todo = @ \ {c},
                             ![t].pc = IF thr[t].todo = {c} THEN "uploaded" ELSE "stored"]
       /\ UNCHANGED <<frames, table, free, clock, script, latest, calm>>

\* Then every dirty flag is cleared.
ClearDirty(t) ==
    /\ At(t, "uploaded")
    /\ frames' = [f \in Frames |-> [frames[f] EXCEPT !.dirty = FALSE]]
    /\ Done(t)
    /\ UNCHANGED <<table, free, clock, disk, latest, calm>>

Next ==
    \/ MigrateChunk \/ CrashInMigration
    \/ \E t \in Threads :
         \/ Hit(t) \/ Miss(t) \/ AllocatePage(t) \/ PopFree(t) \/ EvictVictim(t)
         \/ LoadPage(t) \/ Publish(t) \/ LoseRace(t) \/ Relist(t) \/ InstallNew(t)
         \/ MarkDirty(t) \/ Mutate(t) \/ Unpin(t) \/ FlushPage(t)
         \/ Snapshot(t) \/ StoreLocal(t) \/ ReadChunk(t) \/ UploadChunk(t) \/ ClearDirty(t)

---------------------------------------------------------------------------
(* Properties. *)

Holding(t, f) == thr[t].frame = f /\ thr[t].pc \in {"held", "marked", "written"}
Filling(t, f) == thr[t].frame = f /\ thr[t].pc \in {"claimed", "loaded"}

\* Every frame is accounted for: its pin count is the number of guards and
\* misses that hold it, at most one miss fills a frame, a page with a guard
\* stays in that guard's frame (the code's "frame recycled under pin"
\* assertions, and the stale table entry it says cannot happen), no page is in
\* two frames of the table, and an occupied frame is in the table or being
\* filled, so that it can be found and evicted.
FramesAccounted ==
    /\ \A f \in Frames :
         /\ frames[f].pins = Cardinality({t \in Threads : Holding(t, f) \/ Filling(t, f)})
         /\ (\E t \in Threads : Filling(t, f)) => frames[f].pins = 1 /\ ~\E p \in 0..Stored : <<p, f>> \in table
         /\ Occupied(f) => <<frames[f].page, f>> \in table \/ \E t \in Threads : Filling(t, f)
    /\ \A x \in table : frames[x[2]].page = x[1]
    /\ \A x, y \in table : x[1] = y[1] => x = y
    /\ \A t \in Threads : \A f \in Frames : Holding(t, f) => <<thr[t].page, f>> \in table

\* What a fetch of page p would find.
Served(p) == IF Resident(p) THEN frames[FrameOf(p)].data ELSE ReadPage(disk, p)

\* Outside the overlaps, no write is lost: the pool or the disk serves the last
\* write to every page, and a page that is resident and clean is on disk, in the
\* local file and, when no flush is at work, in its remote chunk as well (what a
\* cold start would read).
NoWriteLost ==
    calm /\ disk.open =>
      \A p \in 0..(disk.next - 1) :
        /\ Served(p) = latest[p]
        /\ (Resident(p) /\ ~frames[FrameOf(p)].dirty) => ReadPage(disk, p) = latest[p]
        /\ (InLocal(disk, p) /\ ~\E t \in Threads : Flushing(t)) =>
             InRemote(disk, p) /\ disk.remote[Chunk(p)][Slot(p)] = disk.local[p + 1]
=============================================================================
