--------------------------- MODULE MiningWorkers ---------------------------
(***************************************************************************)
(* The mining threads of miner.rs: worker_loop, the dataset cache they     *)
(* share, the share verifier each of them owns, and Miner::stop.           *)
(*                                                                         *)
(* A step is what a worker does between two accesses to state another      *)
(* thread can see: the pool's current job, the cache's mutex, the pool's   *)
(* submit_share.  A hash is represented by what determines it: the blob    *)
(* and nonce that filled the scratchpad, the seed of the dataset it was    *)
(* executed against, and what miscomputed it, if anything did.             *)
(***************************************************************************)
EXTENDS Naturals, Sequences, FiniteSets, FiniteSetsExt

CONSTANTS Threads,      \* thread_count
          NonceSpace,    \* values of the 4-byte nonce field, 2^32 in the code
          Seeds,         \* seed hashes, numbered in the order of their epochs
          JobIds,        \* job ids the pool uses; it may use one again
          SeedsReturn,   \* may the pool go back to an earlier seed?
          NativeLoop,    \* --native-loop
          VerifyShares,  \* --verify-shares
          Faults,        \* the parts of the emitted code that may miscompute
          MaxJobs,       \* bound: jobs installed
          MaxNonce       \* bound: nonce past which no worker goes on

ASSUME MinerAssumption ==
    /\ Threads \in Nat \ {0} /\ NonceSpace \in Nat \ {0}
    /\ Seeds \subseteq Nat \ {0} /\ 0 \notin JobIds
    /\ SeedsReturn \in BOOLEAN /\ NativeLoop \in BOOLEAN
    /\ VerifyShares \in BOOLEAN /\ Faults \subseteq {"loop", "frame", "body"}
    /\ MaxJobs \in Nat /\ MaxNonce \in Nat

VARIABLES
    current_job,    \* PoolConnection's current job, or NoJob
    installed,      \* jobs installed so far; a job's Arc is its number
    epoch,          \* the seed of the last job installed
    mining_active, main,
    cache,          \* the dataset in the cache, 0 for None
    cache_lock,     \* the worker inside get_or_generate_dataset, or Free
    generated,      \* seeds of the datasets generated, in order
    pc,
    job,            \* the job fetched in this iteration
    blob,           \* the job the two blob buffers were copied from
    nonce, pipeline_ready,
    current_key,    \* the seed of the last re-initialisation
    dataset,        \* the dataset get_or_generate_dataset returned
    vm,             \* the mining VM
    verifier,       \* the ShareVerifier
    hash,           \* the hash of this iteration
    local_hashes, total_hashes,
    submitted, withheld

poolVars == <<current_job, installed, epoch>>
mainVars == <<mining_active, main>>
cacheVars == <<cache, cache_lock, generated>>
iterVars == <<job, blob, nonce, pipeline_ready, hash>>
engineVars == <<current_key, dataset, vm, verifier>>
statVars == <<local_hashes, total_hashes, submitted, withheld>>
vars == <<poolVars, mainVars, cacheVars, pc, iterVars, engineVars, statVars>>
-----------------------------------------------------------------------------
Workers == 0 .. Threads - 1
Free == Threads

Job == [arc : Nat \ {0}, job_id : JobIds, seed_hash : Seeds,
        short : BOOLEAN]
NoJob == [arc |-> 0, job_id |-> 0, seed_hash |-> 0, short |-> FALSE]

(* What fills a scratchpad, and a hash computed from it. *)
Input == [blob : Nat, nonce : Nat]
Hash == [blob : Nat, nonce : Nat, seed : Seeds, fault : SUBSET Faults]

Vm == [dataset : Nat, scratchpad : Input, jit : BOOLEAN]
ShareVerifier == [enabled : BOOLEAN, dataset : Nat, vm : Nat, jit : BOOLEAN]

(* A dataset is named by its place in `generated`; 0 stands for None. *)
SeedOf(d) == generated[d]

pcLabels == {"top", "cache", "generate", "rekey", "hash", "share", "end",
             "stopped"}

(* Faulty variant: every worker counts by one. *)
StrideOfOne == 1

(* Workers start at their thread id and step by the number of threads. *)
Stride == Threads
FirstNonce(w) == w

NoInput == [blob |-> 0, nonce |-> 0]
NoVm == [dataset |-> 0, scratchpad |-> NoInput, jit |-> FALSE]
NoHash == [blob |-> 0, nonce |-> 0, seed |-> 0, fault |-> {}]
NewVerifier(d) == [enabled |-> FALSE, dataset |-> d, vm |-> 0, jit |-> FALSE]

Init ==
    /\ current_job = NoJob /\ installed = 0 /\ epoch = 0
    /\ mining_active = TRUE /\ main = "running"
    /\ cache = 0 /\ cache_lock = Free /\ generated = <<>>
    /\ pc = [w \in Workers |-> "top"]
    /\ job = [w \in Workers |-> NoJob]
    /\ blob = [w \in Workers |-> NoJob]
    /\ nonce = [w \in Workers |-> FirstNonce(w)]
    /\ pipeline_ready = [w \in Workers |-> FALSE]
    /\ current_key = [w \in Workers |-> 0]
    /\ dataset = [w \in Workers |-> 0]
    /\ vm = [w \in Workers |-> NoVm]
    /\ verifier = [w \in Workers |-> NewVerifier(0)]
    /\ hash = [w \in Workers |-> NoHash]
    /\ local_hashes = [w \in Workers |-> 0]
    /\ total_hashes = 0
    /\ submitted = {} /\ withheld = {}
-----------------------------------------------------------------------------
(***************************************************************************)
(* The pool's side, as the workers see it: login and handle_pool_message   *)
(* install a fresh job, reconnect and relogin_as clear it.                 *)
(***************************************************************************)
InstallJob(i, seed, short) ==
    /\ installed < MaxJobs
    /\ SeedsReturn \/ epoch <= seed
    /\ epoch' = seed
    /\ installed' = installed + 1
    /\ current_job' = [arc |-> installed + 1, job_id |-> i,
                       seed_hash |-> seed, short |-> short]
    /\ UNCHANGED <<mainVars, cacheVars, pc, iterVars, engineVars, statVars>>

ClearJob ==
    /\ current_job # NoJob
    /\ current_job' = NoJob
    /\ UNCHANGED <<installed, epoch, mainVars, cacheVars, pc, iterVars, engineVars,
                   statVars>>

(* Miner::stop: clear the flag, then join every worker. *)
Stop ==
    /\ main = "running"
    /\ mining_active' = FALSE
    /\ main' = "joining"
    /\ UNCHANGED <<poolVars, cacheVars, pc, iterVars, engineVars, statVars>>

Joined ==
    /\ main = "joining" /\ \A w \in Workers : pc[w] = "stopped"
    /\ main' = "done"
    /\ UNCHANGED <<poolVars, mining_active, cacheVars, pc, iterVars,
                   engineVars, statVars>>
-----------------------------------------------------------------------------
(***************************************************************************)
(* worker_loop, one iteration.                                             *)
(***************************************************************************)

(* Faulty variant: jobs are told apart by their id (before #53). *)
IsNewJobById(w, fetched) == blob[w].job_id # fetched.job_id \/ blob[w] = NoJob

(* is_new_job: identity of the Arc, not content. *)
IsNewJob(w, fetched) == blob[w].arc # fetched.arc

NeedsDataset(w, fetched) ==
    vm[w].dataset = 0 \/ fetched.seed_hash # current_key[w]

(* The blob-length check after the VM is in place. *)
Ready(fetched) == IF fetched.short THEN "top" ELSE "hash"

PipelineAfterFetch(w, fetched) == pipeline_ready[w] /\ ~IsNewJob(w, fetched)

(* get_work and the new-job block. *)
FetchJob(w) ==
    /\ pc[w] = "top" /\ mining_active /\ current_job # NoJob
    /\ nonce[w] <= MaxNonce
    /\ job' = [job EXCEPT ![w] = current_job]
    /\ blob' = [blob EXCEPT ![w] = IF IsNewJob(w, current_job)
                                     THEN current_job ELSE @]
    /\ pipeline_ready' = [pipeline_ready EXCEPT ![w] =
                            PipelineAfterFetch(w, current_job)]
    /\ pc' = [pc EXCEPT ![w] = IF NeedsDataset(w, current_job)
                                 THEN "cache" ELSE Ready(blob'[w])]
    /\ UNCHANGED <<poolVars, mainVars, cacheVars, nonce, hash, engineVars,
                   statVars>>

Cached(seed) == IF cache = 0 THEN FALSE ELSE SeedOf(cache) = seed

(* get_or_generate_dataset takes the mutex and finds the seed cached. *)
CacheHit(w) ==
    /\ pc[w] = "cache" /\ cache_lock = Free
    /\ Cached(job[w].seed_hash)
    /\ dataset' = [dataset EXCEPT ![w] = cache]
    /\ pc' = [pc EXCEPT ![w] = "rekey"]
    /\ UNCHANGED <<poolVars, mainVars, cacheVars, iterVars, current_key, vm,
                   verifier, statVars>>

LockToGenerate(w) == w

CacheMiss(w) ==
    /\ pc[w] = "cache" /\ cache_lock = Free
    /\ ~Cached(job[w].seed_hash)
    /\ cache_lock' = LockToGenerate(w)
    /\ pc' = [pc EXCEPT ![w] = "generate"]
    /\ UNCHANGED <<poolVars, mainVars, cache, generated, iterVars,
                   engineVars, statVars>>

(* Faulty variant: the mutex is not released. *)
LockLeaked(w) == w

LockAfterGenerate(w) == Free

(* The mutex is held all along; the cached entry is replaced. *)
Generate(w) ==
    /\ pc[w] = "generate"
    /\ generated' = Append(generated, job[w].seed_hash)
    /\ cache' = Len(generated) + 1
    /\ dataset' = [dataset EXCEPT ![w] = Len(generated) + 1]
    /\ cache_lock' = LockAfterGenerate(w)
    /\ pc' = [pc EXCEPT ![w] = "rekey"]
    /\ UNCHANGED <<poolVars, mainVars, iterVars, current_key, vm, verifier,
                   statVars>>

(* The code a hash goes through, each part of which may miscompute it: the *)
(* instructions emit_body emits, and around them the scaffolding of the    *)
(* native loop or the frame of a body called once an iteration.  Without a *)
(* JIT the interpreter runs, which is taken as correct.                    *)
PathFaults(loop, jit) ==
    Faults \cap (IF jit THEN {"body", IF loop THEN "loop" ELSE "frame"} ELSE {})

(* native_loop_applies: the switch, a JIT, a dataset; the version is rx/0. *)
NativeLoopEffective(jit) == NativeLoop /\ jit

(* Faulty variant: the verifier keeps what it has over a rotation. *)
VerifierKept(w, d) ==
    IF verifier[w].dataset # 0 THEN verifier[w] ELSE NewVerifier(d)

(* ShareVerifier::rekey drops the cached VM. *)
RekeyedVerifier(w, d) == NewVerifier(d)

Armed(jit) == VerifyShares /\ NativeLoopEffective(jit)

(* The VM is created, with or without a JIT, or re-initialised; the        *)
(* verifier is re-pointed and armed from what the VM really does.          *)
Rekey(w) ==
    /\ pc[w] = "rekey"
    /\ \E jit \in IF vm[w].dataset = 0 THEN BOOLEAN ELSE {vm[w].jit} :
        /\ vm' = [vm EXCEPT ![w].dataset = dataset[w], ![w].jit = jit]
        /\ verifier' = [verifier EXCEPT ![w] =
             [RekeyedVerifier(w, dataset[w]) EXCEPT !.enabled = Armed(jit)]]
    /\ current_key' = [current_key EXCEPT ![w] = job[w].seed_hash]
    /\ dataset' = [dataset EXCEPT ![w] = 0]
    /\ pipeline_ready' = [pipeline_ready EXCEPT ![w] = FALSE]
    /\ pc' = [pc EXCEPT ![w] = Ready(blob[w])]
    /\ UNCHANGED <<poolVars, mainVars, cacheVars, job, blob, nonce, hash,
                   statVars>>

WriteNonce(n) == n % NonceSpace

(* prepare_scratchpad, unless the previous iteration left the scratchpad   *)
(* filled, then calculate_hash_pipelined: hash it and fill it for the next *)
(* nonce.  The hash meets the job's target or not.                         *)
ComputeHash(w) ==
    /\ pc[w] = "hash"
    /\ LET current == [blob |-> blob[w].arc, nonce |-> WriteNonce(nonce[w])]
           next == [blob |-> blob[w].arc,
                    nonce |-> WriteNonce(nonce[w] + Stride)]
           input == IF pipeline_ready[w] THEN vm[w].scratchpad ELSE current
       IN /\ \E fault \in SUBSET PathFaults(NativeLoopEffective(vm[w].jit),
                                           vm[w].jit) :
               hash' = [hash EXCEPT ![w] =
                 [blob |-> input.blob, nonce |-> input.nonce,
                  seed |-> SeedOf(vm[w].dataset), fault |-> fault]]
          /\ vm' = [vm EXCEPT ![w].scratchpad = next]
    /\ pipeline_ready' = [pipeline_ready EXCEPT ![w] = TRUE]
    /\ nonce' = [nonce EXCEPT ![w] = @ + Stride]
    /\ local_hashes' = [local_hashes EXCEPT ![w] = @ + 1]
    /\ \E label \in {"share", "end"} : pc' = [pc EXCEPT ![w] = label]
    /\ UNCHANGED <<poolVars, mainVars, cacheVars, job, blob, current_key,
                   dataset, verifier, total_hashes, submitted, withheld>>

(* The counter whose low bytes job_blob_current holds when a share is      *)
(* handled.                                                                *)
Tick(w) == nonce[w] - Stride

(* ShareVerifier::reference answers only if it is enabled and has a        *)
(* dataset.  Its VM is built on the first share, on the dataset it was     *)
(* re-pointed to, with or without a JIT and without the native loop.       *)
Answers(w) == verifier[w].enabled /\ verifier[w].dataset # 0
ReferenceDataset(w) == IF verifier[w].vm # 0 THEN verifier[w].vm
                                             ELSE verifier[w].dataset
ReferenceJit(w) == IF verifier[w].vm # 0 THEN {verifier[w].jit} ELSE BOOLEAN

(* The reference is no more trusted than the mining path: its frame may    *)
(* miscompute, and emit_body miscomputes the same input in both.           *)
ReferenceFaults(w, jit) ==
    {f \in SUBSET PathFaults(FALSE, jit) :
        "body" \in f <=> jit /\ "body" \in hash[w].fault}

reference(w, fault) ==
    [blob |-> blob[w].arc, nonce |-> WriteNonce(Tick(w)),
     seed |-> SeedOf(ReferenceDataset(w)), fault |-> fault]

(* The third parameter is an Option: <<>> or <<hash>>. *)
classify_share(verification_applies, mined, answer) ==
    CASE ~verification_applies  -> "SubmitUnverified"
      [] verification_applies /\ answer = <<>> -> "SubmitVerifierUnavailable"
      [] verification_applies /\ answer = <<mined>> -> "SubmitVerified"
      [] OTHER -> "Withhold"

(* What submit_share is called with; the other fields are for the          *)
(* properties.                                                             *)
Claim(w, verdict, answer) ==
    [job |-> job[w], nonce |-> WriteNonce(Tick(w)), hash |-> hash[w],
     by |-> w, tick |-> Tick(w), verdict |-> verdict, reference |-> answer]

(* Fails open: every verdict but Withhold submits. *)
Decide(w, answer) ==
    LET verdict == classify_share(verifier[w].enabled, hash[w], answer)
        claim == Claim(w, verdict, answer)
    IN  IF verdict = "Withhold"
          THEN withheld' = withheld \cup {claim} /\ submitted' = submitted
          ELSE submitted' = submitted \cup {claim} /\ withheld' = withheld

HandleShare(w) ==
    /\ pc[w] = "share"
    /\ \/ /\ ~Answers(w)
          /\ Decide(w, <<>>)
          /\ verifier' = verifier
       \/ /\ Answers(w)
          /\ \E jit \in ReferenceJit(w) :
              /\ \E fault \in ReferenceFaults(w, jit) :
                   Decide(w, <<reference(w, fault)>>)
              /\ verifier' = [verifier EXCEPT ![w].vm = ReferenceDataset(w),
                                              ![w].jit = jit]
    /\ pc' = [pc EXCEPT ![w] = "end"]
    /\ UNCHANGED <<poolVars, mainVars, cacheVars, iterVars, current_key,
                   dataset, vm, local_hashes, total_hashes>>

(* Faulty variant: the worker's count is not cleared by the flush. *)
CountKept(w) == local_hashes[w]

CountAfterFlush(w) == 0

(* The end of an iteration: every five seconds the count is flushed. *)
EndIteration(w) ==
    /\ pc[w] = "end"
    /\ pc' = [pc EXCEPT ![w] = "top"]
    /\ \/ UNCHANGED <<local_hashes, total_hashes>>
       \/ /\ total_hashes' = total_hashes + local_hashes[w]
          /\ local_hashes' = [local_hashes EXCEPT ![w] = CountAfterFlush(w)]
    /\ UNCHANGED <<poolVars, mainVars, cacheVars, iterVars, engineVars,
                   submitted, withheld>>

(* The flag is seen: flush what is left and end. *)
Quit(w) ==
    /\ pc[w] = "top" /\ ~mining_active
    /\ total_hashes' = total_hashes + local_hashes[w]
    /\ local_hashes' = [local_hashes EXCEPT ![w] = 0]
    /\ pc' = [pc EXCEPT ![w] = "stopped"]
    /\ UNCHANGED <<poolVars, mainVars, cacheVars, iterVars, engineVars,
                   submitted, withheld>>
-----------------------------------------------------------------------------
Pool == \/ \E i \in JobIds, seed \in Seeds, short \in BOOLEAN :
             InstallJob(i, seed, short)
        \/ ClearJob
Setup(w) == \/ FetchJob(w) \/ CacheHit(w) \/ CacheMiss(w) \/ Generate(w)
            \/ Rekey(w)
Mine(w) == \/ ComputeHash(w) \/ HandleShare(w) \/ EndIteration(w) \/ Quit(w)
Worker(w) == Setup(w) \/ Mine(w)

Done == main = "done" /\ UNCHANGED vars

Next == Pool \/ Stop \/ Joined \/ (\E w \in Workers : Worker(w)) \/ Done

Spec == Init /\ [][Next]_vars

(* Every worker thread keeps running; nothing else is assumed fair except  *)
(* that stop() goes on joining.  A worker that waits for the cache's mutex *)
(* is only assumed to get it once it stays free.                           *)
FairSpec == Spec /\ WF_vars(Joined) /\ \A w \in Workers : WF_vars(Worker(w))
-----------------------------------------------------------------------------
(* Type invariant: the locals of worker_loop, the cache and the counters.  *)
TypeOK ==
    /\ current_job \in Job \cup {NoJob} /\ installed \in Nat
    /\ epoch \in Seeds \cup {0}
    /\ mining_active \in BOOLEAN /\ main \in {"running", "joining", "done"}
    /\ generated \in Seq(Seeds) /\ cache \in Nat
    /\ cache_lock \in Workers \cup {Free}
    /\ pc \in [Workers -> pcLabels]
    /\ job \in [Workers -> Job \cup {NoJob}]
    /\ blob \in [Workers -> Job \cup {NoJob}]
    /\ nonce \in [Workers -> Nat] /\ pipeline_ready \in [Workers -> BOOLEAN]
    /\ current_key \in [Workers -> Seeds \cup {0}]
    /\ dataset \in [Workers -> Nat]
    /\ vm \in [Workers -> Vm] /\ verifier \in [Workers -> ShareVerifier]
    /\ hash \in [Workers -> Hash \cup {NoHash}]
    /\ local_hashes \in [Workers -> Nat] /\ total_hashes \in Nat

(* Whatever job changes, seed rotations, short blobs and id reuse happen   *)
(* between iterations, the hash a worker submits (or withholds) for a job  *)
(* and a nonce was computed from that very job's blob with that very       *)
(* nonce, on the dataset of that job's seed: the pipelined scratchpad, the *)
(* blob buffers, the VM and the job never drift apart.                     *)
ClaimsHold ==
    \A c \in submitted \cup withheld :
        /\ c.hash.blob = c.job.arc
        /\ c.hash.nonce = c.nonce
        /\ c.hash.seed = c.job.seed_hash

(* The verifier never raises a false alarm: a share is withheld only when  *)
(* emitted code really miscomputed a hash, the share's or the reference's, *)
(* as the log then says; never because the two were computed on different  *)
(* blobs, nonces or datasets, also after seed rotations.                   *)
NoFalseAlarm ==
    \A c \in withheld : c.hash.fault # {} \/ c.reference[1].fault # {}

(* With --verify-shares on, no hash the native loop's scaffolding          *)
(* miscomputed is submitted.                                               *)
LoopFaultNeverSent ==
    VerifyShares => \A c \in submitted : "loop" \notin c.hash.fault

(* The fail-open branch of classify_share stays unused: a verifier that is *)
(* switched on always has a dataset when a share is found.                 *)
VerifierNeverMissing ==
    \A c \in submitted : c.verdict # "SubmitVerifierUnavailable"

(* The verifier does what its comments promise and no more, over seed      *)
(* rotations, a failed JIT on either path and faults anywhere in the       *)
(* emitted code: it withholds only when a path miscomputed, lets no fault  *)
(* of the native loop's scaffolding through, and is never switched on      *)
(* without a dataset.  A fault of the emitter that both paths share may    *)
(* pass, as worker_loop says.                                              *)
VerdictsAreRight ==
    NoFalseAlarm /\ LoopFaultNeverSent /\ VerifierNeverMissing

(* No two workers ever submit the same nonce for the same job, although    *)
(* the nonce is never reset between jobs and wraps round its four bytes.   *)
NoDuplicateShare ==
    \A c, d \in submitted \cup withheld :
        c.job = d.job /\ c.nonce = d.nonce => c.by = d.by

(* get_or_generate_dataset never generates the dataset that is already     *)
(* cached: the threads that wait for the mutex find the one that the first *)
(* of them made.                                                           *)
NeverGeneratedTwiceInARow ==
    \A i \in 2 .. Len(generated) : generated[i] # generated[i - 1]

(* No hash is lost or counted twice by the periodic and the final flush:   *)
(* when stop() returns, total_hashes is the number of hashes computed.     *)
HashesAllCounted ==
    main = "done" =>
        total_hashes = MapThenSumSet(LAMBDA w : (nonce[w] - FirstNonce(w)) \div Stride,
                                     Workers)

(* stop() returns: no worker is left waiting for the cache's mutex, for a  *)
(* job or in its loop once the flag is cleared.                            *)
StopReturns == main = "joining" ~> main = "done"

(* What the comment on DatasetCache says: generated once per seed_hash.    *)
GeneratedOncePerSeed ==
    \A i, j \in 1 .. Len(generated) : generated[i] = generated[j] => i = j
=============================================================================
