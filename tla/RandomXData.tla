---------------------------- MODULE RandomXData ----------------------------
(* The data of one key, as get_or_generate_dataset builds it: a light-mode  *)
(* VM fills the Argon2d cache, then the dataset is generated from it.  A    *)
(* full-mode VM has no cache; its call is refused.                          *)
EXTENDS Argon2Cache

CONSTANTS ItemCount, ProgressStep, ThreadCounts

ASSUME DatasetAssumption ==
  /\ ItemCount \in Nat \ {0}
  /\ ProgressStep \in Nat \ {0}
  /\ ThreadCounts \subseteq Nat

VARIABLES num_threads, cache_empty, stage, next, due, items, progress

datasetVars == <<num_threads, cache_empty, stage, next, due, items, progress>>

Dataset == INSTANCE DatasetBuild WITH pc <- stage

DataInit == Init /\ Dataset!Init

\* RandomXVm::new, for the light-mode caller.
BuildCache ==
  /\ ~cache_empty
  /\ Next
  /\ UNCHANGED datasetVars

\* RandomXDataset::generate, with the cache or without one.
Generate ==
  /\ cache_empty \/ pc = "done"
  /\ Dataset!Next
  /\ UNCHANGED vars

DataNext == BuildCache \/ Generate

DataSpec == DataInit /\ [][DataNext]_<<vars, datasetVars>>

-----------------------------------------------------------------------------
\* Every slot a thread of generate has filled holds the item of its own number,
\* and a dataset that is handed out is full and was made from a cache written
\* completely in its last pass, after as many writes as passes over the lane.
DatasetComplete ==
  /\ Dataset!ItemsInPlace
  /\ stage = "returned" => pc = "done" /\ CacheComplete
=============================================================================
