------------------------------- MODULE BCache -------------------------------
(***************************************************************************)
(* The buffer cache of src/src/fs/bcache.c over a block device that may    *)
(* fail, with the callers of src/src/fs/ext2.c: get a buffer, read it or   *)
(* write it and mark it dirty, put it back.                                *)
(*                                                                         *)
(* An action is a section of code under g_lock, or one transfer of a       *)
(* sector, for which the lock is released: between two actions of a thread *)
(* others may act.  A system call runs with interrupts off, so that system *)
(* calls alone make one thread; kernel tasks are preempted and make        *)
(* several.  A sector is one value.  The statistics are left out.          *)
(***************************************************************************)
EXTENDS Integers, Sequences, FiniteSets, SequencesExt

CONSTANTS
  Threads,  \* the callers
  Devices,  \* the device IDs, 0 among them
  Keys,     \* pairs << dev_id, block_num >>
  Values,   \* the contents of a sector
  NBufs,    \* BCACHE_NBUFS (128 in the code)
  Buckets,  \* the buckets of the hash table (16 in the code)
  Hash      \* bcache_hash: from keys to buckets

Bufs == 0..(NBufs - 1)

NIL == -1

ASSUME PoolIsNotEmpty == NBufs \in Nat \ {0}
ASSUME UnusedKeys == \A d \in Devices : << d, 0 >> \in Keys
ASSUME HashMapsKeys == Hash \in [Keys -> Buckets]

VARIABLES
  pool,    \* g_pool[]
  hash,    \* g_hash[] and the hash_next links
  lru,     \* the LRU list, most recently used first
  disk,    \* the sectors of the devices
  pc,      \* where each thread is
  loc,     \* the local variables of each thread
  ideal,   \* what each sector should hold: the last value a caller wrote to it
  unsaved  \* the sectors whose last transfer to the device failed

vars == << pool, hash, lru, disk, pc, loc, ideal, unsaved >>

-----------------------------------------------------------------------------
(***************************************************************************)
(* The hash table, with its links, as a record h, and the LRU list.        *)
(***************************************************************************)

\* The chain of bucket c, link by link; NIL from its end on.
Walk(h, c) ==
  LET at[i \in 0..NBufs] ==
        IF i = 0 THEN h.head[c]
        ELSE IF at[i - 1] = NIL THEN NIL ELSE h.next[at[i - 1]]
  IN  at

OnChain(h, c) == {Walk(h, c)[i] : i \in 0..NBufs} \ {NIL}

\* Does a walk along the chain come to an end?
Terminates(h, c) == Walk(h, c)[NBufs] = NIL

hash_find(k) ==
  LET found == {i \in 0..NBufs : Walk(hash, Hash[k])[i] \in {b \in Bufs : pool[b].key = k}}
  IN  IF found = {} THEN NIL ELSE Walk(hash, Hash[k])[Min(found)]

\* Wrong: the two assignments in the other order.
BadInsert(h, b, k) ==
  [head |-> [h.head EXCEPT ![Hash[k]] = b], next |-> [h.next EXCEPT ![b] = b]]

hash_insert(h, b, k) ==
  [head |-> [h.head EXCEPT ![Hash[k]] = b],
   next |-> [h.next EXCEPT ![b] = h.head[Hash[k]]]]

\* Wrong: the removal of the first buffer drops the rest of the chain.
BadRemove(h, b, k) ==
  IF h.head[Hash[k]] = b
  THEN [head |-> [h.head EXCEPT ![Hash[k]] = NIL], next |-> [h.next EXCEPT ![b] = NIL]]
  ELSE [h EXCEPT !.next = [p \in Bufs |-> IF p = b THEN NIL
                                         ELSE IF h.next[p] = b THEN h.next[b] ELSE h.next[p]]]

hash_remove(h, b, k) ==
  LET before == {p \in OnChain(h, Hash[k]) : h.next[p] = b}
  IN  IF h.head[Hash[k]] = b
      THEN [head |-> [h.head EXCEPT ![Hash[k]] = h.next[b]], next |-> [h.next EXCEPT ![b] = NIL]]
      ELSE IF before = {} THEN h
      ELSE [h EXCEPT !.next = [@ EXCEPT ![CHOOSE p \in before : TRUE] = h.next[b], ![b] = NIL]]

\* Wrong: the buffer is pushed without being unlinked.
BadTouch(s, b) == << b >> \o s

lru_touch(s, b) == << b >> \o SelectSeq(s, LAMBDA x : x # b)

\* The buffer nearest to the tail that nobody holds.
find_evictable ==
  LET free == {i \in 1..NBufs : pool[lru[i]].ref = 0}
  IN  IF free = {} THEN NIL ELSE lru[Max(free)]

bcache_init ==
  /\ pool = [b \in Bufs |-> [key |-> << 0, 0 >>, valid |-> FALSE, dirty |-> FALSE, ref |-> 0,
                             data |-> CHOOSE v \in Values : TRUE]]
  /\ hash = [head |-> [c \in Buckets |-> NIL], next |-> [b \in Bufs |-> NIL]]
  /\ lru = [i \in 1..NBufs |-> i - 1]
  /\ disk \in [Keys -> {CHOOSE v \in Values : TRUE}]
  /\ pc = [t \in Threads |-> "idle"]
  /\ loc = [t \in Threads |-> [buf |-> 0, key |-> << 0, 0 >>, copy |-> CHOOSE v \in Values : TRUE,
                               devs |-> {}]]
  /\ ideal = disk
  /\ unsaved = {}

-----------------------------------------------------------------------------
(***************************************************************************)
(* bcache_get.                                                             *)
(***************************************************************************)

Goto(t, where) == pc' = [pc EXCEPT ![t] = where]

GetHit(t, k) ==
  LET b == hash_find(k)
  IN  /\ pc[t] = "idle"
      /\ b # NIL
      /\ pool' = [pool EXCEPT ![b].ref = @ + 1]
      /\ lru' = lru_touch(lru, b)
      /\ Goto(t, "holding")
      /\ loc' = [loc EXCEPT ![t].buf = b, ![t].key = k]
      /\ UNCHANGED << hash, disk, ideal, unsaved >>

\* Steps 4 and 5: buffer b leaves its old chain and stands for sector k.
TakeOver(t, b, k) ==
  LET old == IF pool[b].valid THEN hash_remove(hash, b, pool[b].key) ELSE hash
  IN  /\ hash' = hash_insert(old, b, k)
      /\ pool' = [pool EXCEPT ![b] = [@ EXCEPT !.key = k, !.valid = FALSE, !.dirty = FALSE,
                                               !.ref = 1]]
      /\ lru' = lru_touch(lru, b)
      /\ Goto(t, "read")

\* Wrong: a dirty victim is not written back.
BadGetMiss(t, k) ==
  LET b == find_evictable
  IN  /\ pc[t] = "idle"
      /\ hash_find(k) = NIL
      /\ b # NIL
      /\ loc' = [loc EXCEPT ![t].buf = b, ![t].key = k]
      /\ TakeOver(t, b, k)
      /\ UNCHANGED << disk, ideal, unsaved >>

\* No chain has the sector.  A dirty victim is written back first, without the
\* lock.  (If every buffer is held the call returns NULL and changes nothing.)
GetMiss(t, k) ==
  LET b == find_evictable
  IN  /\ pc[t] = "idle"
      /\ hash_find(k) = NIL
      /\ Terminates(hash, Hash[k])
      /\ b # NIL
      /\ loc' = [loc EXCEPT ![t].buf = b, ![t].key = k]
      /\ IF pool[b].valid /\ pool[b].dirty
         THEN Goto(t, "evict") /\ UNCHANGED << pool, hash, lru >>
         ELSE TakeOver(t, b, k)
      /\ UNCHANGED << disk, ideal, unsaved >>

\* One sector goes to the device, or the device fails.
Transfer(k, v, ok) ==
  /\ disk' = IF ok THEN [disk EXCEPT ![k] = v] ELSE disk
  /\ unsaved' = IF ok THEN unsaved \ {k} ELSE unsaved \cup {k}

EvictWrite(t, ok) ==
  LET b == loc[t].buf
  IN  /\ pc[t] = "evict"
      /\ Transfer(pool[b].key, pool[b].data, ok)
      /\ Goto(t, "relock")
      /\ UNCHANGED << pool, hash, lru, loc, ideal >>

\* The buffer is taken over whether it could be saved or not: "we discard the
\* dirty data".
EvictDone(t) ==
  LET b == loc[t].buf
  IN  /\ pc[t] = "relock"
      /\ TakeOver(t, b, loc[t].key)
      /\ IF pool[b].key \in unsaved
         THEN /\ ideal' = [ideal EXCEPT ![pool[b].key] = disk[pool[b].key]]
              /\ unsaved' = unsaved \ {pool[b].key}
         ELSE UNCHANGED << ideal, unsaved >>
      /\ UNCHANGED << disk, loc >>

ReadSector(t, ok) ==
  /\ pc[t] = "read"
  /\ pool' = IF ok THEN [pool EXCEPT ![loc[t].buf].data = disk[loc[t].key]] ELSE pool
  /\ Goto(t, IF ok THEN "readDone" ELSE "readFailed")
  /\ UNCHANGED << hash, lru, disk, loc, ideal, unsaved >>

GetDone(t) ==
  /\ pc[t] = "readDone"
  /\ pool' = [pool EXCEPT ![loc[t].buf].valid = TRUE]
  /\ Goto(t, "holding")
  /\ UNCHANGED << hash, lru, disk, loc, ideal, unsaved >>

\* Wrong: the reference is not given back.
BadGetFailed(t) ==
  LET b == loc[t].buf
  IN  /\ pc[t] = "readFailed"
      /\ pool' = [pool EXCEPT ![b] = [@ EXCEPT !.valid = FALSE, !.dirty = FALSE]]
      /\ hash' = hash_remove(hash, b, pool[b].key)
      /\ lru' = lru_touch(lru, b)
      /\ Goto(t, "idle")
      /\ UNCHANGED << disk, loc, ideal, unsaved >>

GetFailed(t) ==
  LET b == loc[t].buf
  IN  /\ pc[t] = "readFailed"
      /\ pool' = [pool EXCEPT ![b] = [@ EXCEPT !.valid = FALSE, !.dirty = FALSE, !.ref = 0]]
      /\ hash' = hash_remove(hash, b, pool[b].key)
      /\ lru' = lru_touch(lru, b)
      /\ Goto(t, "idle")
      /\ UNCHANGED << disk, loc, ideal, unsaved >>

-----------------------------------------------------------------------------
(***************************************************************************)
(* The holder of a buffer.                                                 *)
(***************************************************************************)

\* ext2_write_block copies into the buffer and calls bcache_dirty next.
Modify(t, v) ==
  /\ pc[t] = "holding"
  /\ pool' = [pool EXCEPT ![loc[t].buf].data = v]
  /\ ideal' = [ideal EXCEPT ![loc[t].key] = v]
  /\ Goto(t, "modified")
  /\ UNCHANGED << hash, lru, disk, loc, unsaved >>

bcache_dirty(t) ==
  /\ pc[t] = "modified"
  /\ pool' = [pool EXCEPT ![loc[t].buf].dirty = TRUE]
  /\ Goto(t, "holding")
  /\ UNCHANGED << hash, lru, disk, loc, ideal, unsaved >>

\* Wrong: a cache that writes on flush and eviction only.
BadPut(t) ==
  /\ pc[t] = "holding"
  /\ pool' = [pool EXCEPT ![loc[t].buf].ref = @ - 1]
  /\ Goto(t, "idle")
  /\ UNCHANGED << hash, lru, disk, loc, ideal, unsaved >>

\* The last holder of a dirty buffer writes a copy of it through.
bcache_put(t) ==
  LET b == loc[t].buf
      r == IF pool[b].ref > 0 THEN pool[b].ref - 1 ELSE 0
  IN  /\ pc[t] = "holding"
      /\ pool' = [pool EXCEPT ![b].ref = r]
      /\ IF r = 0 /\ pool[b].valid /\ pool[b].dirty
         THEN /\ loc' = [loc EXCEPT ![t].key = pool[b].key, ![t].copy = pool[b].data]
              /\ Goto(t, "put")
         ELSE Goto(t, "idle") /\ UNCHANGED loc
      /\ UNCHANGED << hash, lru, disk, ideal, unsaved >>

\* Wrong: the result of the write is not looked at.
BadPutWrite(t, ok) ==
  /\ pc[t] = "put"
  /\ Transfer(loc[t].key, loc[t].copy, ok)
  /\ Goto(t, "putDone")
  /\ UNCHANGED << pool, hash, lru, loc, ideal >>

PutWrite(t, ok) ==
  /\ pc[t] = "put"
  /\ Transfer(loc[t].key, loc[t].copy, ok)
  /\ Goto(t, IF ok THEN "putDone" ELSE "idle")
  /\ UNCHANGED << pool, hash, lru, loc, ideal >>

PutDone(t) ==
  /\ pc[t] = "putDone"
  /\ pool' = [pool EXCEPT ![loc[t].buf].dirty = FALSE]
  /\ Goto(t, "idle")
  /\ UNCHANGED << hash, lru, disk, loc, ideal, unsaved >>

-----------------------------------------------------------------------------
(***************************************************************************)
(* bcache_flush_dev and bcache_flush_all, for a set of devices.            *)
(***************************************************************************)

\* The scan under the lock, from buffer i on, of the pool as p has it.
FlushScan(t, p, i, devs) ==
  LET found == {b \in i..(NBufs - 1) : p[b].key[1] \in devs /\ p[b].valid /\ p[b].dirty}
  IN  IF found = {}
      THEN Goto(t, "idle") /\ UNCHANGED loc
      ELSE /\ Goto(t, "flush")
           /\ loc' = [loc EXCEPT ![t] = [@ EXCEPT !.buf = Min(found), !.key = p[Min(found)].key,
                                                  !.devs = devs]]

bcache_flush(t, devs) ==
  /\ pc[t] = "idle"
  /\ FlushScan(t, pool, 0, devs)
  /\ UNCHANGED << pool, hash, lru, disk, ideal, unsaved >>

\* The first failure ends the call.
FlushWrite(t, ok) ==
  /\ pc[t] = "flush"
  /\ Transfer(loc[t].key, pool[loc[t].buf].data, ok)
  /\ Goto(t, IF ok THEN "flushDone" ELSE "idle")
  /\ UNCHANGED << pool, hash, lru, loc, ideal >>

FlushNext(t) ==
  LET p == [pool EXCEPT ![loc[t].buf].dirty = FALSE]
  IN  /\ pc[t] = "flushDone"
      /\ pool' = p
      /\ FlushScan(t, p, loc[t].buf + 1, loc[t].devs)
      /\ UNCHANGED << hash, lru, disk, ideal, unsaved >>

(***************************************************************************)
(* bcache_invalidate_dev and bcache_invalidate_all, which are called when  *)
(* no other call is in progress and no buffer is held.                     *)
(***************************************************************************)

AllIdle == \A t \in Threads : pc[t] = "idle"

\* Unsaved data of the discarded buffers is gone.
Discard(bs) ==
  LET lost == {pool[b].key : b \in {x \in bs : pool[x].valid /\ pool[x].dirty}}
  IN  /\ ideal' = [k \in Keys |-> IF k \in lost THEN disk[k] ELSE ideal[k]]
      /\ unsaved' = unsaved \ lost

bcache_invalidate_dev(d) ==
  LET bs  == {b \in Bufs : pool[b].key[1] = d /\ pool[b].ref = 0}
      seq == SelectSeq([i \in 1..NBufs |-> i - 1], LAMBDA b : b \in bs)
  IN  /\ AllIdle
      /\ hash' = FoldLeft(LAMBDA h, b : hash_remove(h, b, pool[b].key), hash, seq)
      /\ pool' = [b \in Bufs |-> IF b \in bs THEN [pool[b] EXCEPT !.key = << d, 0 >>,
                                                     !.valid = FALSE, !.dirty = FALSE]
                                 ELSE pool[b]]
      /\ lru' = FoldLeft(lru_touch, lru, seq)
      /\ Discard(bs)
      /\ UNCHANGED << disk, pc, loc >>

bcache_invalidate_all ==
  /\ AllIdle
  /\ hash' = [head |-> [c \in Buckets |-> NIL], next |-> [b \in Bufs |-> NIL]]
  /\ pool' = [b \in Bufs |-> [pool[b] EXCEPT !.key = << 0, 0 >>, !.valid = FALSE,
                                             !.dirty = FALSE]]
  /\ lru' = Reverse([i \in 1..NBufs |-> i - 1])
  /\ Discard(Bufs)
  /\ UNCHANGED << disk, pc, loc >>

-----------------------------------------------------------------------------
Next ==
  \/ \E t \in Threads :
       \/ \E k \in Keys : GetHit(t, k) \/ GetMiss(t, k)
       \/ \E ok \in BOOLEAN : EvictWrite(t, ok) \/ ReadSector(t, ok) \/ PutWrite(t, ok)
                              \/ FlushWrite(t, ok)
       \/ EvictDone(t) \/ GetDone(t) \/ GetFailed(t)
       \/ \E v \in Values : Modify(t, v)
       \/ bcache_dirty(t) \/ bcache_put(t) \/ PutDone(t)
       \/ \E d \in Devices : bcache_flush(t, {d})
       \/ bcache_flush(t, Devices)
       \/ FlushNext(t)
  \/ \E d \in Devices : bcache_invalidate_dev(d)
  \/ bcache_invalidate_all

Spec == bcache_init /\ [][Next]_vars
-----------------------------------------------------------------------------
Stages == {"idle", "evict", "relock", "read", "readDone", "readFailed", "holding", "modified",
           "put", "putDone", "flush", "flushDone"}

\* The fields of the buffers, the links and the local variables keep their
\* types, and every buffer is on the LRU list once.
TypeOK ==
  /\ pool \in [Bufs -> [key : Keys, valid : BOOLEAN, dirty : BOOLEAN, ref : Nat, data : Values]]
  /\ hash \in [head : [Buckets -> Bufs \cup {NIL}], next : [Bufs -> Bufs \cup {NIL}]]
  /\ lru \in Seq(Bufs) /\ Len(lru) = NBufs /\ Range(lru) = Bufs
  /\ disk \in [Keys -> Values]
  /\ pc \in [Threads -> Stages]
  /\ loc \in [Threads -> [buf : Bufs, key : Keys, copy : Values, devs : SUBSET Devices]]
  /\ ideal \in [Keys -> Values]
  /\ unsaved \in SUBSET Keys

\* Every walk along a chain of the hash table ends (hash_find and hash_remove
\* walk with the lock held and interrupts off).
ChainsEnd == \A c \in Buckets : Terminates(hash, c)

\* A sector has at most one buffer, hash_find finds every valid buffer, and a
\* chain holds only buffers that belong in its bucket.
HashExact ==
  \A c \in Buckets :
    /\ \A b \in OnChain(hash, c) : Hash[pool[b].key] = c
    /\ \A b, d \in OnChain(hash, c) : pool[b].key = pool[d].key => b = d
    /\ \A b \in Bufs : pool[b].valid /\ Hash[pool[b].key] = c => b \in OnChain(hash, c)

\* The cache is transparent: a caller who gets a sector sees the last value
\* written to it, from a buffer or from the device.
ReadsLastWrite ==
  \A k \in Keys :
    LET b == hash_find(k)
    IN  IF b # NIL /\ pool[b].valid THEN pool[b].data = ideal[k] ELSE disk[k] = ideal[k]

\* bcache_put writes through, so that between calls what was written is on the
\* device, but for the sectors whose last transfer failed.
WrittenThrough == AllIdle => \A k \in Keys \ unsaved : disk[k] = ideal[k]

\* A sector whose transfer failed is dirty still, so that a later flush or
\* eviction tries it again.
FailedStaysDirty ==
  AllIdle => \A k \in unsaved : \E b \in Bufs : /\ hash_find(k) = b
                                                /\ pool[b].valid /\ pool[b].dirty

Holds(t, b) ==
  pc[t] \in {"read", "readDone", "readFailed", "holding", "modified"} /\ loc[t].buf = b

\* The reference counts are the numbers of holders: no reference is leaked, on
\* the error paths either, and none is dropped while someone holds the buffer.
RefsExact == \A b \in Bufs : pool[b].ref = Cardinality({t \in Threads : Holds(t, b)})

(***************************************************************************)
(* What the comments say, and the code does not do for several threads.    *)
(***************************************************************************)

\* bcache.h: a dirty buffer "will be written to disk when the last reference is
\* released": a buffer that is clean, with no operation on it under way, is as
\* on the device.
CleanIsSaved ==
  \A b \in Bufs : pool[b].valid /\ ~pool[b].dirty
                  /\ (\A t \in Threads : loc[t].buf = b => pc[t] \in {"idle", "holding"})
    => pool[b].data = disk[pool[b].key]
=============================================================================
