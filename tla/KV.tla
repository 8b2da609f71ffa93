--------------------------------- MODULE KV ---------------------------------
(***************************************************************************)
(* cloudflarekv: one binding, with its local LRU cache in front of a       *)
(* store.  Every asynchronous get, put or delete is a goroutine of its own *)
(* (newPromise); a bulk get without a BulkGetter hands its keys to a pool  *)
(* of workers.  A section under cache.mu is one step.                      *)
(*                                                                         *)
(* The store is external: its operations are atomic and may fail, a failed *)
(* write with or without effect.  A record carries the number of the write *)
(* that made it instead of a value.  Time is left out: an entry of the     *)
(* cache may have expired whenever it is looked up, and the interval of    *)
(* the write rate may have passed at any time.  What RunOnLoop does with a *)
(* result is in Scheduler.                                                 *)
(***************************************************************************)
EXTENDS Integers, Sequences, FiniteSets

CONSTANTS Keys,
          Calls,        \* single gets, puts and deletes, each made once
          BulkKeys,     \* the keys of the bulk get, in order
          Concurrency,  \* bulkFallbackConcurrency
          Sizes,        \* sizes of a record with its key and metadata
          Capacity      \* of the cache

ASSUME KVAssumption ==
  /\ IsFiniteSet(Keys) /\ IsFiniteSet(Calls)
  /\ BulkKeys \in Seq(Keys)
  /\ Sizes \subseteq Nat /\ 1 \in Sizes /\ Capacity \in Nat /\ Concurrency \in Nat \ {0}

Workers == 1..Concurrency

VARIABLES
  order,        \* cache.order (and entries): the records, most recently used first
  size,         \* cache.size
  last,         \* state.last: keys written less than writeRateInterval ago
  call,         \* the goroutine of each call
  \* the bulk get
  bulk,         \* where it is
  next,         \* the next of BulkKeys to look up
  misses,       \* keys that were not in the cache, without duplicates
  sent,         \* how many of them were handed to a worker
  worker,       \* per worker, where it is and its key
  cancelled,    \* the pool's context
  firstErr,
  records,      \* what the bulk get has found, by key
  \* external
  store,        \* per key, the record last written
  writes        \* number of writes so far

cache == <<order, size>>
bulkVars == <<bulk, next, misses, sent, worker, cancelled, firstErr, records>>
ext == <<store, writes>>
vars == <<cache, last, call, bulkVars, ext>>

\* written: which write; found: FALSE for a deleted or never written key.
Record == [written : Nat, found : BOOLEAN, size : Nat]
Missing == [written |-> 0, found |-> FALSE, size |-> 1]

Init ==
  /\ order = <<>> /\ size = 0 /\ last = {}
  /\ call = [c \in Calls |-> [at |-> "new"]]
  /\ bulk = "new" /\ next = 1 /\ misses = <<>> /\ sent = 0
  /\ worker = [w \in Workers |-> [at |-> "none"]]
  /\ cancelled = FALSE /\ firstErr = FALSE /\ records = [k \in {} |-> Missing]
  /\ store = [k \in Keys |-> Missing] /\ writes = 0

-----------------------------------------------------------------------------
(* lruCache.                                                               *)

Position(k) == {i \in DOMAIN order : order[i].key = k}
Cached(k) == Position(k) # {}
Element(k) == CHOOSE i \in Position(k) : TRUE
Entry(k) == order[Element(k)]
SizeOf(k) == IF Cached(k) THEN Entry(k).record.size ELSE 0

\* remove: the element of k leaves the list.
Without(k) ==
  IF Cached(k)
    THEN [i \in 1..(Len(order) - 1) |-> IF i < Element(k) THEN order[i] ELSE order[i+1]]
    ELSE order

\* The size of the entries of s at the given positions: how many (entry, byte) pairs
\* there are.
Bytes(s, I) == UNION {{i} \X (1..s[i].record.size) : i \in I}
Weight(s, I) == Cardinality(Bytes(s, I))

\* The last entries of s are removed, each from the recorded size, until that is
\* within the capacity: n of them stay, and one more would be too many.
Left(s, total, n) == total - Weight(s, (n+1)..Len(s))
Evict(s, total) ==
  \E n \in 0..Len(s) :
    /\ Left(s, total, n) <= Capacity
    /\ n < Len(s) => Left(s, total, n + 1) > Capacity
    /\ order' = SubSeq(s, 1, n)
    /\ size' = Left(s, total, n)

\* get: a hit moves to the front, an expired entry is removed.
CacheHit(k) ==
  /\ Cached(k)
  /\ order' = <<Entry(k)>> \o Without(k)
  /\ UNCHANGED size
CacheMiss(k) ==
  /\ order' = Without(k)
  /\ size' = size - SizeOf(k)

\* Faulty variant: an entry that is replaced stays accounted for.
CachePutLeaks(k, rec, overlaps) ==
  /\ rec.size <= Capacity
  /\ Evict(<<[key |-> k, record |-> rec, overlaps |-> overlaps]>> \o Without(k), size + rec.size)

\* put: an old entry is replaced and the last ones make room. Nothing happens if the
\* record is too large, has expired, or the ttl is not positive.
CachePut(k, rec, overlaps) ==
  \/ UNCHANGED cache
  \/ /\ rec.size <= Capacity
     /\ Evict(<<[key |-> k, record |-> rec, overlaps |-> overlaps]>> \o Without(k),
              size - SizeOf(k) + rec.size)

CacheDelete(k) == order' = Without(k) /\ size' = size - SizeOf(k)

-----------------------------------------------------------------------------
(* The calls.                                                              *)

Goto(c, where) == call' = [call EXCEPT ![c].at = where]

Get(c, k) ==
  /\ call[c].at = "new"
  /\ call' = [call EXCEPT ![c] =
       [at |-> "lookup", op |-> "get", key |-> k, record |-> Missing, overlaps |-> FALSE]]
  /\ UNCHANGED <<cache, last, bulkVars, ext>>

Delete(c, k) ==
  /\ call[c].at = "new"
  /\ call' = [call EXCEPT ![c] = [at |-> "write", op |-> "delete", key |-> k]]
  /\ UNCHANGED <<cache, last, bulkVars, ext>>

\* beginWrite: if writeRateInterval has not passed since the last put, it is refused.
Put(c, k) ==
  /\ call[c].at = "new"
  /\ \/ /\ last' = last \cup {k}
        /\ call' = [call EXCEPT ![c] = [at |-> "write", op |-> "put", key |-> k]]
     \/ /\ k \in last
        /\ call' = [call EXCEPT ![c] = [at |-> "done"]]
        /\ UNCHANGED last
  /\ UNCHANGED <<cache, bulkVars, ext>>

-----------------------------------------------------------------------------
(* getStorageValueCached, getRecordCached.                                 *)

Lookup(c) ==
  /\ call[c].at = "lookup"
  /\ \/ CacheHit(call[c].key) /\ Goto(c, "done")
     \/ CacheMiss(call[c].key) /\ Goto(c, "read")
  /\ UNCHANGED <<last, bulkVars, ext>>

\* ns.Get, or GetStream.
Read(c) ==
  /\ call[c].at = "read"
  /\ \/ Goto(c, "done")
     \/ call' = [call EXCEPT ![c].at = "fill", ![c].record = store[call[c].key]]
  /\ UNCHANGED <<cache, last, bulkVars, ext>>

\* The record is cached; that of a stream when its consumer has read it to the end.
Fill(c) ==
  /\ call[c].at = "fill"
  /\ CachePut(call[c].key, call[c].record, call[c].overlaps)
  /\ Goto(c, "done")
  /\ UNCHANGED <<last, bulkVars, ext>>

-----------------------------------------------------------------------------
(* put and delete.                                                         *)

\* ns.Put, ns.Delete: done, failed without effect, or failed after taking effect.
StoreWrite(c) ==
  /\ call[c].at = "write"
  /\ \E took, ok \in BOOLEAN, s \in Sizes :
       /\ ok => took
       /\ call[c].op = "delete" \/ ~took => s = Missing.size
       /\ store' = IF took THEN [store EXCEPT ![call[c].key] =
                          [written |-> writes + 1, found |-> call[c].op = "put", size |-> s]] ELSE store
       /\ writes' = IF took THEN writes + 1 ELSE writes
       /\ Goto(c, IF ok THEN "invalidate" ELSE "failed")
  /\ UNCHANGED <<cache, last, bulkVars>>

\* Faulty variant: the cache keeps the old record.
InvalidateNothing(c) ==
  /\ call[c].at = "invalidate"
  /\ Goto(c, "done")
  /\ UNCHANGED <<cache, last, bulkVars, ext>>

\* state.cache.delete(key). Reads of the key that are between the store and the
\* cache from now on carry an old record (overlaps is not in the code).
Invalidate(c) ==
  LET k == call[c].key IN
  /\ call[c].at = "invalidate"
  /\ CacheDelete(k)
  /\ call' = [d \in Calls |->
       IF d = c THEN [call[d] EXCEPT !.at = "done"]
       ELSE IF call[d].at = "fill" /\ call[d].key = k
         THEN [call[d] EXCEPT !.overlaps = TRUE] ELSE call[d]]
  /\ records' = [j \in DOMAIN records |->
       IF j = k THEN [records[j] EXCEPT !.overlaps = TRUE] ELSE records[j]]
  /\ UNCHANGED <<last, bulk, next, misses, sent, worker, cancelled, firstErr, ext>>

-----------------------------------------------------------------------------
(* getManyPromise, getManyFromStore.                                       *)

FromCache(k) == [record |-> Entry(k).record, overlaps |-> FALSE]
FromStore(k) == [record |-> store[k], overlaps |-> FALSE]
With(f, k, v) == [j \in DOMAIN f \cup {k} |-> IF j = k THEN v ELSE f[j]]

GetMany ==
  /\ bulk = "new" /\ bulk' = "lookup"
  /\ UNCHANGED <<cache, last, call, next, misses, sent, worker, cancelled,
                 firstErr, records, ext>>

BulkLookup ==
  LET k == BulkKeys[next] IN
  /\ bulk = "lookup" /\ next <= Len(BulkKeys)
  /\ next' = next + 1
  /\ \/ /\ CacheHit(k)
        /\ records' = With(records, k, FromCache(k))
        /\ UNCHANGED misses
     \/ /\ CacheMiss(k)
        /\ misses' = IF \E i \in DOMAIN misses : misses[i] = k THEN misses ELSE Append(misses, k)
        /\ UNCHANGED records
  /\ UNCHANGED <<last, call, bulk, sent, worker, cancelled, firstErr, ext>>

\* getManyFromStore starts min(len(keys), 8) workers.
StartWorkers ==
  /\ bulk = "lookup" /\ next > Len(BulkKeys)
  /\ bulk' = "produce"
  /\ worker' = [w \in Workers |-> [at |-> IF w <= Len(misses) THEN "idle" ELSE "none"]]
  /\ UNCHANGED <<cache, last, call, next, misses, sent, cancelled, firstErr,
                 records, ext>>

\* jobs <- key: the producer meets an idle worker.
Produce(w) ==
  /\ bulk = "produce" /\ sent < Len(misses) /\ worker[w].at = "idle"
  /\ sent' = sent + 1
  /\ worker' = [worker EXCEPT ![w] = [at |-> "read", key |-> misses[sent + 1]]]
  /\ UNCHANGED <<cache, last, call, bulk, next, misses, cancelled, firstErr,
                 records, ext>>

\* The end of the keys, or <-ctx.Done(); then close(jobs).
CloseJobs ==
  /\ bulk = "produce" /\ (sent = Len(misses) \/ cancelled)
  /\ bulk' = "wait"
  /\ UNCHANGED <<cache, last, call, next, misses, sent, worker, cancelled,
                 firstErr, records, ext>>

\* Faulty variant: the context is cancelled without recording the error.
WorkerReadSilent(w) ==
  /\ worker[w].at = "read"
  /\ \/ /\ records' = With(records, worker[w].key, FromStore(worker[w].key))
        /\ worker' = [worker EXCEPT ![w] = [at |-> "idle"]]
        /\ UNCHANGED <<cancelled, firstErr>>
     \/ /\ worker' = [worker EXCEPT ![w] = [at |-> "done"]]
        /\ cancelled' = TRUE
        /\ UNCHANGED <<records, firstErr>>
  /\ UNCHANGED <<cache, last, call, bulk, next, misses, sent, ext>>

\* Faulty variant: the context is not cancelled.
WorkerReadKeepsContext(w) ==
  /\ worker[w].at = "read"
  /\ \/ /\ records' = With(records, worker[w].key, FromStore(worker[w].key))
        /\ worker' = [worker EXCEPT ![w] = [at |-> "idle"]]
        /\ UNCHANGED firstErr
     \/ /\ worker' = [worker EXCEPT ![w] = [at |-> "done"]]
        /\ firstErr' = TRUE
        /\ UNCHANGED records
  /\ UNCHANGED <<cache, last, call, bulk, next, misses, sent, cancelled, ext>>

\* ns.Get of a worker: a result, or an error, which cancels the others and ends the
\* worker.
WorkerRead(w) ==
  /\ worker[w].at = "read"
  /\ \/ /\ records' = With(records, worker[w].key, FromStore(worker[w].key))
        /\ worker' = [worker EXCEPT ![w] = [at |-> "idle"]]
        /\ UNCHANGED <<cancelled, firstErr>>
     \/ /\ worker' = [worker EXCEPT ![w] = [at |-> "done"]]
        /\ cancelled' = TRUE /\ firstErr' = TRUE
        /\ UNCHANGED records
  /\ UNCHANGED <<cache, last, call, bulk, next, misses, sent, ext>>

\* The range over jobs ends.
WorkerEnds(w) ==
  /\ worker[w].at = "idle" /\ bulk = "wait"
  /\ worker' = [worker EXCEPT ![w] = [at |-> "done"]]
  /\ UNCHANGED <<cache, last, call, bulk, next, misses, sent, cancelled, firstErr,
                 records, ext>>

\* workers.Wait() returns.
PoolReturns ==
  /\ bulk = "wait" /\ \A w \in Workers : worker[w].at \in {"none", "done"}
  /\ bulk' = IF firstErr THEN "done" ELSE "fill"
  /\ next' = 1
  /\ UNCHANGED <<cache, last, call, misses, sent, worker, cancelled, firstErr,
                 records, ext>>

\* The misses are cached, found or not.
BulkFill ==
  /\ bulk = "fill" /\ next <= Len(misses)
  /\ LET r == records[misses[next]] IN CachePut(misses[next], r.record, r.overlaps)
  /\ next' = next + 1
  /\ UNCHANGED <<last, call, bulk, misses, sent, worker, cancelled, firstErr,
                 records, ext>>

\* MaxBulkResponseBytes may refuse the result.
BulkFilled ==
  /\ bulk = "fill" /\ next > Len(misses)
  /\ bulk' = "done"
  /\ firstErr' \in BOOLEAN
  /\ UNCHANGED <<cache, last, call, next, misses, sent, worker, cancelled,
                 records, ext>>

-----------------------------------------------------------------------------
CallStep(c) == Lookup(c) \/ Read(c) \/ Fill(c) \/ StoreWrite(c) \/ Invalidate(c)
WorkerStep(w) == WorkerRead(w) \/ WorkerEnds(w)
BulkStep == BulkLookup \/ StartWorkers \/ CloseJobs \/ PoolReturns \/ BulkFill \/ BulkFilled
              \/ \E w \in Workers : Produce(w)

Next ==
  \/ \E c \in Calls, k \in Keys :
       Get(c, k) \/ Put(c, k) \/ Delete(c, k)
  \/ \E c \in Calls : CallStep(c)
  \/ GetMany \/ BulkStep
  \/ \E w \in Workers : WorkerStep(w)

\* Goroutines run and the store answers.
Fairness ==
  /\ \A c \in Calls : WF_vars(CallStep(c))
  /\ WF_vars(BulkStep)
  /\ \A w \in Workers : WF_vars(WorkerStep(w))

Spec == Init /\ [][Next]_vars
FairSpec == Spec /\ Fairness

-----------------------------------------------------------------------------
\* cache.size is the size of what is cached, within the capacity, with one entry
\* per key, after any sequence of puts, replacements, evictions, expiries and
\* deletes; a size that drifts disables the cache or makes eviction spin.
CacheAccounted ==
  /\ size = Weight(order, DOMAIN order) /\ size <= Capacity
  /\ \A i, j \in DOMAIN order : order[i].key = order[j].key => i = j

\* Where a cached record may differ from the store: a write of the key is under way
\* or has failed, or the read that filled the entry overlapped a finished write.
StaleOnlyByOverlap ==
  \A i \in DOMAIN order :
    \/ order[i].record = store[order[i].key]
    \/ order[i].overlaps
    \/ \E c \in Calls : /\ call[c].at \in {"invalidate", "failed"}
                        /\ call[c].key = order[i].key

\* A bulk get that succeeds has asked for every key, though workers end early.
BulkComplete ==
  bulk \in {"fill", "done"} /\ ~firstErr =>
    \A i \in DOMAIN BulkKeys : BulkKeys[i] \in DOMAIN records

\* Every call ends: the producer and the workers of the pool never wait for each
\* other, whichever of them fail.
CallsEnd ==
  /\ (bulk = "lookup") ~> (bulk = "done")
  /\ \A c \in Calls : (call[c].at # "new") ~> (call[c].at \in {"done", "failed"})
=============================================================================
