---------------------------- MODULE DatasetBuild ---------------------------
(* RandomXDataset::generate: scoped threads fill disjoint chunks of the     *)
(* dataset and report progress through a shared atomic counter.  An item is *)
(* a function of the cache, the programs and its number; the first two are  *)
(* fixed for one dataset, so an item is the record of its number.           *)
EXTENDS Integers, FiniteSets

CONSTANTS
  ItemCount,     \* DATASET_ITEM_COUNT, 34,078,720
  ProgressStep,  \* the 500,000 items between two reports
  ThreadCounts   \* values tried for num_threads

VARIABLES
  num_threads,  \* as requested
  cache_empty,  \* cache_memory.is_empty(): a full-mode VM passes no cache
  pc,           \* "called", "running", "returned" or "panicked"
  next,         \* per running chunk, the next i of its thread's loop
  due,          \* per running chunk, whether item i - 1 is still to be reported
  items,        \* the dataset; Unset is the zero fill
  progress

vars == <<num_threads, cache_empty, pc, next, due, items, progress>>

Unset == [number |-> -1]
Items == 0 .. ItemCount - 1
DivCeil(a, b) == (a + b - 1) \div b
AtMost(a, b) == IF a < b THEN a ELSE b

\* num_threads.max(1)
Requested == IF num_threads = 0 THEN 1 ELSE num_threads

chunk_size == DivCeil(ItemCount, Requested)

\* chunks_mut: every chunk has chunk_size items but the last, which has the rest.
Chunks == 0 .. DivCeil(ItemCount, chunk_size) - 1
ChunkLen(t) == AtMost(chunk_size, ItemCount - t * chunk_size)

(* Faulty variant: the offset of a chunk is its length times its index. *)
StartByOwnLength(t) == t * ChunkLen(t)

start_item(t) == t * chunk_size

\* init_dataset_item, with the cache and the programs fixed.
init_dataset_item(n) == [number |-> n]

\* Whether a thread reports a step after it filled slot i.
Reports(i) == i % ProgressStep = 0 /\ i > 0

Init ==
  /\ num_threads \in ThreadCounts
  /\ cache_empty \in BOOLEAN
  /\ pc = "called"
  /\ next = <<>>
  /\ due = <<>>
  /\ items = [n \in Items |-> Unset]
  /\ progress = 0

\* The assertion at the entry of generate.
EmptyCache ==
  /\ pc = "called" /\ cache_empty
  /\ pc' = "panicked"
  /\ UNCHANGED <<num_threads, cache_empty, next, due, items, progress>>

SpawnThreads ==
  /\ pc = "called" /\ ~cache_empty
  /\ pc' = "running"
  /\ next' = [t \in Chunks |-> 0]
  /\ due' = [t \in Chunks |-> FALSE]
  /\ UNCHANGED <<num_threads, cache_empty, items, progress>>

\* A thread fills the next slot of its chunk.
FillItem(t) ==
  /\ pc = "running" /\ ~due[t] /\ next[t] < ChunkLen(t)
  /\ items' = [items EXCEPT ![t * chunk_size + next[t]] =
                 init_dataset_item(start_item(t) + next[t])]
  /\ next' = [next EXCEPT ![t] = @ + 1]
  /\ due' = [due EXCEPT ![t] = Reports(next[t])]
  /\ UNCHANGED <<num_threads, cache_empty, pc, progress>>

\* progress.fetch_add inside the loop.
ReportStep(t) ==
  /\ pc = "running" /\ due[t]
  /\ progress' = progress + ProgressStep
  /\ due' = [due EXCEPT ![t] = FALSE]
  /\ UNCHANGED <<num_threads, cache_empty, pc, next, items>>

\* The remainder is added after the loop; next beyond the chunk marks the thread
\* as finished.
FinishChunk(t) ==
  /\ pc = "running" /\ ~due[t] /\ next[t] = ChunkLen(t)
  /\ progress' = progress + (ChunkLen(t) % ProgressStep)
  /\ next' = [next EXCEPT ![t] = @ + 1]
  /\ UNCHANGED <<num_threads, cache_empty, pc, due, items>>

Finished(t) == next[t] > ChunkLen(t)

\* thread::scope returns when every thread has.
ScopeJoined ==
  /\ pc = "running"
  /\ \A t \in Chunks : Finished(t)
  /\ pc' = "returned"
  /\ UNCHANGED <<num_threads, cache_empty, next, due, items, progress>>

Next ==
  \/ EmptyCache \/ SpawnThreads \/ ScopeJoined
  \/ \E t \in DOMAIN next : FillItem(t) \/ ReportStep(t) \/ FinishChunk(t)

Spec == Init /\ [][Next]_vars

-----------------------------------------------------------------------------
Filled == {n \in Items : items[n] # Unset}

\* Every slot a thread has filled holds the item of its own number, whatever the
\* division leaves for the last chunk, and the dataset handed out is full.
ItemsInPlace ==
  /\ \A n \in Filled : items[n].number = n
  /\ pc = "returned" => Filled = Items
=============================================================================
