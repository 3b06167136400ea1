------------------------ MODULE MiningWorkers_proofs ------------------------
(***************************************************************************)
(* Proofs about MiningWorkers, for every number of threads, every set of   *)
(* seeds and job ids and every bound.                                      *)
(***************************************************************************)
EXTENDS MiningWorkers, FoldLemmas

(* A job's Arc identifies it. *)
ArcInv ==
    /\ current_job.arc <= installed
    /\ \A w \in Workers :
        /\ blob[w].arc <= installed
        /\ current_job # NoJob /\ blob[w].arc = current_job.arc
             => blob[w] = current_job

(* Past the new-job block the buffers hold the fetched job's blob. *)
BlobInv ==
    \A w \in Workers : pc[w] \notin {"top", "stopped"} =>
        job[w] \in Job /\ blob[w] = job[w]

(* The mutex protects the cache, which holds the last dataset generated. *)
CacheInv ==
    /\ cache = Len(generated)
    /\ \A w \in Workers : pc[w] = "generate" <=> cache_lock = w
    /\ \A w \in Workers :
        pc[w] = "generate" => ~Cached(job[w].seed_hash)
    /\ NeverGeneratedTwiceInARow

(* The VM, its key and the verifier stay on one dataset. *)
EngineInv ==
    \A w \in Workers :
        /\ vm[w].dataset <= Len(generated) /\ dataset[w] <= Len(generated)
        /\ vm[w].dataset # 0 => /\ SeedOf(vm[w].dataset) = current_key[w]
                                /\ verifier[w].enabled = Armed(vm[w].jit)
        /\ verifier[w].dataset = vm[w].dataset
        /\ verifier[w].vm \in {0, vm[w].dataset}
        /\ pc[w] = "rekey" => /\ dataset[w] # 0
                              /\ SeedOf(dataset[w]) = job[w].seed_hash
        /\ pc[w] \in {"hash", "share"} => /\ vm[w].dataset # 0
                                          /\ current_key[w] = job[w].seed_hash

(* A scratchpad left ready was filled for the next hash of this blob. *)
PipelineInv ==
    \A w \in Workers : pipeline_ready[w] =>
        vm[w].scratchpad = [blob |-> blob[w].arc, nonce |-> WriteNonce(nonce[w])]

(* The hash of a share being handled. *)
HashInv ==
    \A w \in Workers : pc[w] = "share" =>
        /\ nonce[w] >= Stride
        /\ hash[w] = [blob |-> job[w].arc, nonce |-> WriteNonce(Tick(w)),
                      seed |-> job[w].seed_hash, fault |-> hash[w].fault]
        /\ "loop" \in hash[w].fault => NativeLoopEffective(vm[w].jit)

MinerInv ==
    /\ TypeOK /\ ArcInv /\ BlobInv /\ CacheInv /\ EngineInv /\ PipelineInv
    /\ HashInv /\ ClaimsHold /\ VerdictsAreRight
-----------------------------------------------------------------------------
USE DEF poolVars, mainVars, cacheVars, iterVars, engineVars, statVars

LEMMA WorkerFacts == Free \notin Workers /\ \A w \in Workers : w \in Nat
BY MinerAssumption DEF Workers, Free

LEMMA ModType == \A n \in Nat : WriteNonce(n) \in Nat
BY MinerAssumption DEF WriteNonce

(* A VM whose scratchpad was filled, a verifier whose VM was built. *)
LEMMA Refilled ==
    ASSUME NEW v \in Vm, NEW i \in Input
    PROVE  [v EXCEPT !.scratchpad = i] \in Vm
BY DEF Vm

LEMMA VerifierBuilt ==
    ASSUME NEW v \in ShareVerifier, NEW d \in Nat, NEW jit \in BOOLEAN
    PROVE  [v EXCEPT !.vm = d, !.jit = jit] \in ShareVerifier
BY DEF ShareVerifier

LEMMA InitMiner == Init => MinerInv
<1> SUFFICES ASSUME Init PROVE MinerInv
  OBVIOUS
<1> USE MinerAssumption DEF Init, NoJob, NoVm, NoInput, NoHash, NewVerifier
<1>1. TypeOK
  BY WorkerFacts DEF TypeOK, pcLabels, Input, FirstNonce, Vm, ShareVerifier
<1>2. ArcInv /\ BlobInv /\ EngineInv /\ PipelineInv /\ HashInv
  BY DEF ArcInv, BlobInv, EngineInv, PipelineInv, HashInv
<1>3. CacheInv
  BY WorkerFacts DEF CacheInv, NeverGeneratedTwiceInARow
<1>4. ClaimsHold /\ VerdictsAreRight
  BY DEF ClaimsHold, VerdictsAreRight, NoFalseAlarm, LoopFaultNeverSent,
     VerifierNeverMissing
<1>5. QED
  BY <1>1, <1>2, <1>3, <1>4 DEF MinerInv

LEMMA TypeStep == MinerInv /\ [Next]_vars => TypeOK'
<1> SUFFICES ASSUME MinerInv, [Next]_vars PROVE TypeOK'
  OBVIOUS
<1> USE MinerAssumption DEF MinerInv, TypeOK, pcLabels
<1>1. CASE Pool
  <2>1. CASE \E i \in JobIds, seed \in Seeds, short \in BOOLEAN :
               InstallJob(i, seed, short)
    <3>1. PICK i \in JobIds, seed \in Seeds, short \in BOOLEAN :
            InstallJob(i, seed, short)
      BY <2>1
    <3>2. current_job' \in Job
      BY <3>1 DEF InstallJob, Job
    <3>3. QED
      BY <3>1, <3>2 DEF InstallJob
  <2>2. CASE ClearJob
    BY <2>2 DEF ClearJob
  <2>3. QED
    BY <1>1, <2>1, <2>2 DEF Pool
<1>2. CASE Stop \/ Joined
  BY <1>2 DEF Stop, Joined
<1>3. ASSUME NEW w \in Workers, Setup(w) PROVE TypeOK'
  <2>1. CASE FetchJob(w)
    BY <2>1 DEF FetchJob, Ready, PipelineAfterFetch
  <2>2. CASE CacheHit(w)
    BY <2>2 DEF CacheHit
  <2>6. CASE CacheMiss(w)
    BY <2>6 DEF CacheMiss, LockToGenerate
  <2>3. CASE Generate(w)
    <3>1. job[w].seed_hash \in Seeds
      BY <2>3 DEF Generate, BlobInv, Job
    <3>2. generated' \in Seq(Seeds) /\ Len(generated) + 1 \in Nat
      BY <2>3, <3>1 DEF Generate
    <3>3. QED
      BY <2>3, <3>2 DEF Generate, LockAfterGenerate
  <2>4. CASE Rekey(w)
    <3>1. PICK jit \in BOOLEAN :
            /\ vm' = [vm EXCEPT ![w].dataset = dataset[w], ![w].jit = jit]
            /\ verifier' = [verifier EXCEPT ![w] =
                 [RekeyedVerifier(w, dataset[w]) EXCEPT !.enabled = Armed(jit)]]
      BY <2>4 DEF Rekey, Vm
    <3>2. vm' \in [Workers -> Vm]
      BY <3>1, ZenonT(30) DEF Vm
    <3>3. Armed(jit) \in BOOLEAN
      BY DEF Armed, NativeLoopEffective
    <3>4. verifier' \in [Workers -> ShareVerifier]
      BY <3>1, <3>3 DEF RekeyedVerifier, NewVerifier, ShareVerifier
    <3>5. job[w].seed_hash \in Seeds
      BY <2>4 DEF Rekey, BlobInv, Job
    <3>6. QED
      BY <2>4, <3>2, <3>4, <3>5 DEF Rekey, Ready
  <2>5. QED
    BY <1>3, <2>1, <2>2, <2>3, <2>4, <2>6 DEF Setup
<1>4. ASSUME NEW w \in Workers, Mine(w) PROVE TypeOK'
  <2>1. CASE ComputeHash(w)
    <3> DEFINE current == [blob |-> blob[w].arc, nonce |-> WriteNonce(nonce[w])]
               next == [blob |-> blob[w].arc,
                        nonce |-> WriteNonce(nonce[w] + Stride)]
               input == IF pipeline_ready[w] THEN vm[w].scratchpad ELSE current
    <3>8. blob[w] \in Job
      BY <2>1 DEF ComputeHash, BlobInv
    <3>9. nonce[w] \in Nat /\ nonce[w] + Stride \in Nat
      BY DEF Stride
    <3>1. blob[w].arc \in Nat /\ nonce[w] \in Nat /\ nonce[w] + Stride \in Nat
      BY <3>8, <3>9 DEF Job
    <3>2. current \in Input /\ next \in Input
      BY <3>1, ModType DEF Input
    <3>3. input \in Input
      BY <3>2 DEF Vm
    <3>4. SeedOf(vm[w].dataset) \in Seeds
      BY <2>1 DEF ComputeHash, EngineInv, SeedOf, Vm
    <3>5. hash' \in [Workers -> Hash \cup {NoHash}]
      <4>1. PICK fault \in SUBSET Faults : hash' = [hash EXCEPT ![w] =
                 [blob |-> input.blob, nonce |-> input.nonce,
                  seed |-> SeedOf(vm[w].dataset), fault |-> fault]]
        BY <2>1 DEF ComputeHash, PathFaults
      <4>2. [blob |-> input.blob, nonce |-> input.nonce,
             seed |-> SeedOf(vm[w].dataset), fault |-> fault] \in Hash
        BY <3>3, <3>4 DEF Input, Hash
      <4>3. QED
        BY <4>1, <4>2
    <3>6. vm' \in [Workers -> Vm]
      <4>1. vm' = [vm EXCEPT ![w].scratchpad = next]
        BY <2>1 DEF ComputeHash
      <4>2. next \in Input /\ vm \in [Workers -> Vm]
        BY <3>2
      <4> HIDE DEF next
      <4>3. [vm[w] EXCEPT !.scratchpad = next] \in Vm
        BY <4>2, Refilled
      <4>4. QED
        BY <4>1, <4>2, <4>3
    <3>7. QED
      <4>1. /\ nonce' = [nonce EXCEPT ![w] = @ + Stride]
            /\ local_hashes' = [local_hashes EXCEPT ![w] = @ + 1]
            /\ pipeline_ready' = [pipeline_ready EXCEPT ![w] = TRUE]
            /\ pc' = [pc EXCEPT ![w] = "share"] \/ pc' = [pc EXCEPT ![w] = "end"]
            /\ UNCHANGED <<poolVars, mainVars, cacheVars, job, blob,
                           current_key, dataset, verifier, total_hashes>>
        BY <2>1 DEF ComputeHash
      <4>2. nonce' \in [Workers -> Nat] /\ local_hashes' \in [Workers -> Nat]
        BY <3>1, <4>1
      <4>3. pc' \in [Workers -> pcLabels] /\ pipeline_ready' \in [Workers -> BOOLEAN]
        BY <4>1
      <4>4. QED
        BY <3>5, <3>6, <4>1, <4>2, <4>3
  <2>2. CASE HandleShare(w)
    <3>1. verifier' \in [Workers -> ShareVerifier]
      <4>1. CASE verifier' = verifier
        BY <4>1
      <4>2. ASSUME NEW jit \in ReferenceJit(w),
                   verifier' = [verifier EXCEPT ![w].vm = ReferenceDataset(w),
                                                ![w].jit = jit]
            PROVE  verifier' \in [Workers -> ShareVerifier]
        <5>1. ReferenceDataset(w) \in Nat /\ jit \in BOOLEAN
          BY DEF ReferenceDataset, ReferenceJit, ShareVerifier
        <5>2. [verifier[w] EXCEPT !.vm = ReferenceDataset(w), !.jit = jit]
                \in ShareVerifier
          BY <5>1, VerifierBuilt
        <5>3. verifier' = [verifier EXCEPT ![w] =
                [verifier[w] EXCEPT !.vm = ReferenceDataset(w), !.jit = jit]]
          BY <4>2
        <5>4. QED
          BY <5>2, <5>3
      <4>3. QED
        BY <2>2, <4>1, <4>2 DEF HandleShare
    <3>2. QED
      BY <2>2, <3>1 DEF HandleShare
  <2>3. CASE EndIteration(w)
    BY <2>3 DEF EndIteration, CountAfterFlush
  <2>4. CASE Quit(w)
    BY <2>4 DEF Quit
  <2>5. QED
    BY <1>4, <2>1, <2>2, <2>3, <2>4 DEF Mine
<1>5. CASE Done \/ UNCHANGED vars
  BY <1>5 DEF Done, vars
<1>6. QED
  BY <1>1, <1>2, <1>3, <1>4, <1>5 DEF Next, Worker

LEMMA ArcStep == MinerInv /\ [Next]_vars => ArcInv'
<1> SUFFICES ASSUME MinerInv, [Next]_vars PROVE ArcInv'
  OBVIOUS
<1> USE DEF MinerInv, TypeOK, ArcInv
<1>1. CASE Pool
  <2>1. CASE ClearJob
    BY <2>1 DEF ClearJob, NoJob
  <2>2. CASE \E i \in JobIds, seed \in Seeds, short \in BOOLEAN :
               InstallJob(i, seed, short)
    <3>1. PICK i \in JobIds, seed \in Seeds, short \in BOOLEAN :
            InstallJob(i, seed, short)
      BY <2>2
    <3>2. current_job'.arc = installed + 1 /\ installed' = installed + 1
      BY <3>1 DEF InstallJob
    <3>3. \A w \in Workers : blob[w].arc \in Nat
      BY DEF Job, NoJob
    <3>4. QED
      BY <3>1, <3>2, <3>3 DEF InstallJob
  <2>3. QED
    BY <1>1, <2>1, <2>2 DEF Pool
<1>2. ASSUME NEW w \in Workers, FetchJob(w) PROVE ArcInv'
  BY <1>2 DEF FetchJob, IsNewJob
<1>3. CASE UNCHANGED <<current_job, installed, blob>>
  BY <1>3
<1>4. ASSUME NEW w \in Workers, Worker(w), ~FetchJob(w)
      PROVE  UNCHANGED <<current_job, installed, blob>>
  BY <1>4 DEF Worker, Setup, CacheHit, CacheMiss, Generate, Rekey, Mine,
     ComputeHash, HandleShare, EndIteration, Quit
<1>5. CASE Stop \/ Joined \/ Done \/ UNCHANGED vars
  BY <1>3, <1>5 DEF Stop, Joined, Done, vars
<1>6. QED
  BY <1>1, <1>2, <1>3, <1>4, <1>5 DEF Next

LEMMA BlobStep == MinerInv /\ [Next]_vars => BlobInv'
<1> SUFFICES ASSUME MinerInv, [Next]_vars PROVE BlobInv'
  OBVIOUS
<1> USE DEF MinerInv, TypeOK, BlobInv
<1>1. ASSUME NEW w \in Workers, FetchJob(w) PROVE BlobInv'
  <2>1. blob'[w] = current_job /\ job'[w] = current_job /\ current_job \in Job
    BY <1>1 DEF FetchJob, IsNewJob, ArcInv
  <2>2. \A v \in Workers \ {w} :
          blob'[v] = blob[v] /\ job'[v] = job[v] /\ pc'[v] = pc[v]
    BY <1>1 DEF FetchJob
  <2>3. QED
    BY <2>1, <2>2
<1>2. ASSUME NEW w \in Workers, Worker(w), ~FetchJob(w)
      PROVE  /\ UNCHANGED <<job, blob>>
             /\ \A v \in Workers : pc'[v] \notin {"top", "stopped"} =>
                  pc[v] \notin {"top", "stopped"}
  BY <1>2 DEF Worker, Setup, CacheHit, CacheMiss, Generate, Rekey, Mine,
     ComputeHash, HandleShare, EndIteration, Quit
<1>3. CASE Pool \/ Stop \/ Joined \/ Done \/ UNCHANGED vars
  BY <1>3 DEF Pool, InstallJob, ClearJob, Stop, Joined, Done, vars
<1>4. QED
  BY <1>1, <1>2, <1>3 DEF Next

LEMMA CacheStep == MinerInv /\ [Next]_vars => CacheInv'
<1> SUFFICES ASSUME MinerInv, [Next]_vars PROVE CacheInv'
  OBVIOUS
<1> USE WorkerFacts DEF MinerInv, TypeOK, CacheInv, Cached, SeedOf
<1>1. ASSUME NEW w \in Workers, FetchJob(w) PROVE CacheInv'
  BY <1>1 DEF FetchJob, NeverGeneratedTwiceInARow, Ready
<1>2. ASSUME NEW w \in Workers, CacheMiss(w) PROVE CacheInv'
  BY <1>2 DEF CacheMiss, LockToGenerate, NeverGeneratedTwiceInARow
<1>3. ASSUME NEW w \in Workers, Generate(w) PROVE CacheInv'
  <2> DEFINE n == Len(generated)
  <2>1. n \in Nat /\ job[w].seed_hash \in Seeds
    BY <1>3 DEF Generate, BlobInv, Job
  <2>2. /\ generated' = Append(generated, job[w].seed_hash)
        /\ Len(generated') = n + 1 /\ cache' = n + 1
    BY <1>3, <2>1 DEF Generate
  <2>3. /\ \A i \in 1 .. n : generated'[i] = generated[i]
        /\ generated'[n + 1] = job[w].seed_hash
    BY <2>1, <2>2
  <2>4. n # 0 => generated[n] # job[w].seed_hash
    BY <1>3 DEF Generate
  <2>5. NeverGeneratedTwiceInARow'
    <3> SUFFICES ASSUME NEW i \in 2 .. n + 1
                 PROVE  generated'[i] # generated'[i - 1]
      BY <2>2 DEF NeverGeneratedTwiceInARow
    <3>1. CASE i = n + 1
      BY <2>1, <2>3, <2>4, <3>1
    <3>2. CASE i \in 2 .. n
      <4>1. i \in 1 .. n /\ i - 1 \in 1 .. n
        BY <2>1, <3>2
      <4>2. generated[i] # generated[i - 1]
        BY <3>2 DEF NeverGeneratedTwiceInARow
      <4>3. QED
        BY <2>3, <4>1, <4>2
    <3>3. QED
      BY <2>1, <3>1, <3>2
  <2>6. cache_lock = w
    BY <1>3 DEF Generate
  <2>7. \A v \in Workers : pc'[v] # "generate" /\ cache_lock' # v
    BY <1>3, <2>6 DEF Generate, LockAfterGenerate
  <2>8. QED
    BY <2>2, <2>5, <2>7
<1>4. ASSUME NEW w \in Workers, Worker(w),
             ~FetchJob(w), ~CacheMiss(w), ~Generate(w)
      PROVE  /\ UNCHANGED <<cacheVars, job>>
             /\ \A v \in Workers : pc'[v] = "generate" <=> pc[v] = "generate"
  BY <1>4 DEF Worker, Setup, CacheHit, Rekey, Ready, Mine, ComputeHash,
     HandleShare, EndIteration, Quit
<1>5. CASE /\ UNCHANGED <<cacheVars, job>>
           /\ \A v \in Workers : pc'[v] = "generate" <=> pc[v] = "generate"
  BY <1>5 DEF NeverGeneratedTwiceInARow
<1>6. CASE Pool \/ Stop \/ Joined \/ Done \/ UNCHANGED vars
  BY <1>5, <1>6 DEF Pool, InstallJob, ClearJob, Stop, Joined, Done, vars
<1>7. QED
  BY <1>1, <1>2, <1>3, <1>4, <1>5, <1>6 DEF Next

(* A dataset keeps its seed while further ones are generated. *)
LEMMA SeedsKept ==
    MinerInv /\ [Next]_vars =>
        /\ Len(generated) <= Len(generated')
        /\ \A d \in 1 .. Len(generated) : generated'[d] = generated[d]
<1> SUFFICES ASSUME MinerInv, [Next]_vars
             PROVE  /\ Len(generated) <= Len(generated')
                    /\ \A d \in 1 .. Len(generated) : generated'[d] = generated[d]
  OBVIOUS
<1> USE DEF MinerInv, TypeOK
<1>1. ASSUME NEW w \in Workers, Generate(w)
      PROVE  /\ Len(generated) <= Len(generated')
             /\ \A d \in 1 .. Len(generated) : generated'[d] = generated[d]
  <2>1. /\ generated' = Append(generated, job[w].seed_hash)
        /\ job[w].seed_hash \in Seeds
    BY <1>1 DEF Generate, BlobInv, Job
  <2>2. QED
    BY <2>1
<1>2. ASSUME NEW w \in Workers, Worker(w), ~Generate(w)
      PROVE  UNCHANGED generated
  BY <1>2 DEF Worker, Setup, FetchJob, CacheHit, CacheMiss, Rekey, Mine,
     ComputeHash, HandleShare, EndIteration, Quit
<1>3. CASE Pool \/ Stop \/ Joined \/ Done \/ UNCHANGED vars
  BY <1>3 DEF Pool, InstallJob, ClearJob, Stop, Joined, Done, vars
<1>4. CASE UNCHANGED generated
  BY <1>4
<1>5. QED
  BY <1>1, <1>2, <1>3, <1>4 DEF Next, Worker, Setup

(* A worker's step leaves the locals of the others alone. *)
LEMMA OthersKeep ==
    ASSUME TypeOK, NEW w \in Workers, Worker(w), NEW v \in Workers \ {w}
    PROVE  /\ pc'[v] = pc[v] /\ job'[v] = job[v] /\ blob'[v] = blob[v]
           /\ nonce'[v] = nonce[v] /\ pipeline_ready'[v] = pipeline_ready[v]
           /\ hash'[v] = hash[v] /\ current_key'[v] = current_key[v]
           /\ dataset'[v] = dataset[v] /\ vm'[v] = vm[v]
           /\ verifier'[v] = verifier[v]
<1> USE DEF TypeOK
<1>1. CASE FetchJob(w) \/ CacheHit(w) \/ CacheMiss(w) \/ Generate(w)
  BY <1>1 DEF FetchJob, CacheHit, CacheMiss, Generate
<1>2. CASE Rekey(w)
  BY <1>2 DEF Rekey
<1>3. CASE ComputeHash(w)
  BY <1>3 DEF ComputeHash
<1>4. CASE HandleShare(w) \/ EndIteration(w) \/ Quit(w)
  BY <1>4 DEF HandleShare, EndIteration, Quit
<1>5. QED
  BY <1>1, <1>2, <1>3, <1>4 DEF Worker, Setup, Mine

(* No other step touches a worker's locals. *)
LEMMA LocalsKept ==
    ASSUME Pool \/ Stop \/ Joined \/ Done \/ UNCHANGED vars
    PROVE  UNCHANGED <<pc, iterVars, engineVars, submitted, withheld>>
BY DEF Pool, InstallJob, ClearJob, Stop, Joined, Done, vars

LEMMA EngineStep == MinerInv /\ [Next]_vars => EngineInv'
<1> SUFFICES ASSUME MinerInv, [Next]_vars PROVE EngineInv'
  OBVIOUS
<1> DEFINE Engine(w) ==
      /\ vm[w].dataset <= Len(generated) /\ dataset[w] <= Len(generated)
      /\ vm[w].dataset # 0 => /\ SeedOf(vm[w].dataset) = current_key[w]
                              /\ verifier[w].enabled = Armed(vm[w].jit)
      /\ verifier[w].dataset = vm[w].dataset
      /\ verifier[w].vm \in {0, vm[w].dataset}
      /\ pc[w] = "rekey" => /\ dataset[w] # 0
                            /\ SeedOf(dataset[w]) = job[w].seed_hash
      /\ pc[w] \in {"hash", "share"} => /\ vm[w].dataset # 0
                                        /\ current_key[w] = job[w].seed_hash
<1>1. \A w \in Workers : Engine(w)
  BY DEF MinerInv, EngineInv
<1>2. /\ Len(generated) \in Nat /\ Len(generated') \in Nat
      /\ Len(generated) <= Len(generated')
      /\ \A d \in 1 .. Len(generated) : generated'[d] = generated[d]
  <2>1. TypeOK /\ TypeOK'
    BY TypeStep DEF MinerInv
  <2>2. generated \in Seq(Seeds) /\ generated' \in Seq(Seeds)
    BY <2>1 DEF TypeOK
  <2>3. QED
    BY SeedsKept, <2>2
<1>3. \A w \in Workers : vm[w].dataset \in Nat /\ dataset[w] \in Nat
  BY DEF MinerInv, TypeOK, Vm
(* A worker that does not move, or moves elsewhere in the loop. *)
<1>4. ASSUME NEW w \in Workers,
             UNCHANGED <<vm[w], verifier[w], dataset[w], current_key[w]>>,
             \/ pc'[w] \notin {"rekey", "hash", "share"}
             \/ pc'[w] = pc[w] /\ job'[w] = job[w]
      PROVE  Engine(w)'
  <2>1. vm[w].dataset # 0 =>
          generated'[vm[w].dataset] = generated[vm[w].dataset]
    BY <1>1, <1>2, <1>3
  <2>2. dataset[w] # 0 => generated'[dataset[w]] = generated[dataset[w]]
    BY <1>1, <1>2, <1>3
  <2>3. /\ vm[w].dataset <= Len(generated') /\ dataset[w] <= Len(generated')
    BY <1>1, <1>2, <1>3
  <2>4. vm'[w] = vm[w] /\ dataset'[w] = dataset[w] /\ verifier'[w] = verifier[w]
        /\ current_key'[w] = current_key[w]
    BY <1>4
  <2>5. QED
    BY <1>1, <1>4, <2>1, <2>2, <2>3, <2>4 DEF SeedOf, Armed, NativeLoopEffective
<1>5. ASSUME NEW w \in Workers, Worker(w) PROVE Engine(w)'
  <2> USE DEF MinerInv, TypeOK
  <2>1. CASE FetchJob(w)
    <3>1. /\ vm'[w] = vm[w] /\ verifier'[w] = verifier[w]
          /\ dataset'[w] = dataset[w] /\ current_key'[w] = current_key[w]
          /\ job'[w] = current_job /\ UNCHANGED generated
      BY <2>1 DEF FetchJob
    <3>2. pc'[w] \in {"cache", "top", "hash"}
      BY <2>1 DEF FetchJob, Ready
    <3>3. pc'[w] = "hash" =>
            vm[w].dataset # 0 /\ current_key[w] = current_job.seed_hash
      BY <2>1 DEF FetchJob, NeedsDataset
    <3>4. QED
      BY <1>1, <3>1, <3>2, <3>3 DEF SeedOf, Armed, NativeLoopEffective
  <2>2. CASE CacheHit(w)
    <3>1. /\ vm'[w] = vm[w] /\ verifier'[w] = verifier[w]
          /\ dataset'[w] = cache /\ current_key'[w] = current_key[w]
          /\ UNCHANGED <<generated, job>> /\ pc'[w] = "rekey"
          /\ cache # 0 /\ SeedOf(cache) = job[w].seed_hash
      BY <2>2 DEF CacheHit, Cached
    <3>2. QED
      BY <1>1, <1>2, <3>1 DEF SeedOf, Armed, NativeLoopEffective, CacheInv
  <2>3. CASE CacheMiss(w) \/ EndIteration(w) \/ Quit(w)
    BY <1>4, <2>3 DEF CacheMiss, EndIteration, Quit
  <2>4. CASE Generate(w)
    <3>1. /\ vm'[w] = vm[w] /\ verifier'[w] = verifier[w]
          /\ dataset'[w] = Len(generated) + 1
          /\ current_key'[w] = current_key[w] /\ job' = job
          /\ generated' = Append(generated, job[w].seed_hash)
          /\ pc'[w] = "rekey" /\ job[w].seed_hash \in Seeds
      BY <2>4 DEF Generate, BlobInv, Job
    <3>2. /\ Len(generated') = Len(generated) + 1
          /\ generated'[Len(generated) + 1] = job[w].seed_hash
      BY <3>1
    <3>3. vm[w].dataset # 0 =>
            generated'[vm[w].dataset] = generated[vm[w].dataset]
      BY <1>1, <1>2, <1>3
    <3>4. QED
      BY <1>1, <1>2, <1>3, <3>1, <3>2, <3>3
         DEF SeedOf, Armed, NativeLoopEffective
  <2>5. CASE Rekey(w)
    <3>1. PICK jit \in BOOLEAN :
            /\ vm' = [vm EXCEPT ![w].dataset = dataset[w], ![w].jit = jit]
            /\ verifier' = [verifier EXCEPT ![w] =
                 [RekeyedVerifier(w, dataset[w]) EXCEPT !.enabled = Armed(jit)]]
      BY <2>5 DEF Rekey, Vm
    <3>2. vm'[w].dataset = dataset[w] /\ vm'[w].jit = jit
      BY <3>1 DEF Vm
    <3>3. /\ verifier'[w].dataset = dataset[w] /\ verifier'[w].vm = 0
          /\ verifier'[w].enabled = Armed(jit)
      BY <3>1 DEF RekeyedVerifier, NewVerifier
    <3>4. /\ current_key'[w] = job[w].seed_hash /\ dataset'[w] = 0
          /\ pc'[w] \in {"top", "hash"} /\ UNCHANGED <<generated, job>>
      BY <2>5 DEF Rekey, Ready
    <3>5. dataset[w] # 0 /\ SeedOf(dataset[w]) = job[w].seed_hash
      BY <1>1, <2>5 DEF Rekey
    <3>6. QED
      BY <1>1, <1>2, <3>2, <3>3, <3>4, <3>5
         DEF SeedOf, Armed, NativeLoopEffective
  <2>6. CASE ComputeHash(w)
    <3>1. vm'[w].dataset = vm[w].dataset /\ vm'[w].jit = vm[w].jit
      BY <2>6 DEF ComputeHash, Vm
    <3>2. /\ verifier'[w] = verifier[w] /\ dataset'[w] = dataset[w]
          /\ current_key'[w] = current_key[w] /\ UNCHANGED <<generated, job>>
          /\ pc[w] = "hash" /\ pc'[w] \in {"share", "end"}
      BY <2>6 DEF ComputeHash
    <3>3. QED
      BY <1>1, <3>1, <3>2 DEF SeedOf, Armed, NativeLoopEffective
  <2>7. CASE HandleShare(w)
    <3>1. /\ vm'[w] = vm[w] /\ dataset'[w] = dataset[w] /\ pc'[w] = "end"
          /\ current_key'[w] = current_key[w] /\ UNCHANGED <<generated, job>>
      BY <2>7 DEF HandleShare
    <3>2. /\ verifier'[w].enabled = verifier[w].enabled
          /\ verifier'[w].dataset = verifier[w].dataset
          /\ verifier'[w].vm \in {verifier[w].vm, verifier[w].dataset}
      <4>1. CASE verifier' = verifier
        BY <4>1
      <4>2. ASSUME NEW jit \in ReferenceJit(w),
                   verifier' = [verifier EXCEPT ![w].vm = ReferenceDataset(w),
                                                ![w].jit = jit]
            PROVE  /\ verifier'[w].enabled = verifier[w].enabled
                   /\ verifier'[w].dataset = verifier[w].dataset
                   /\ verifier'[w].vm \in {verifier[w].vm, verifier[w].dataset}
        BY <4>2 DEF ReferenceDataset, ShareVerifier
      <4>3. QED
        BY <2>7, <4>1, <4>2 DEF HandleShare
    <3>3. QED
      BY <1>1, <3>1, <3>2 DEF SeedOf, Armed, NativeLoopEffective
  <2>8. QED
    BY <1>5, <2>1, <2>2, <2>3, <2>4, <2>5, <2>6, <2>7
       DEF Worker, Setup, Mine
<1>6. ASSUME NEW w \in Workers, Worker(w), NEW v \in Workers \ {w}
      PROVE  Engine(v)'
  BY <1>4, <1>6, OthersKeep DEF MinerInv
<1>7. ASSUME Pool \/ Stop \/ Joined \/ Done \/ UNCHANGED vars,
             NEW v \in Workers
      PROVE  Engine(v)'
  BY <1>4, <1>7, LocalsKept
<1> HIDE DEF Engine
<1>8. \A v \in Workers : Engine(v)'
  BY <1>5, <1>6, <1>7 DEF Next
<1>9. QED
  BY <1>8 DEF EngineInv, Engine

LEMMA PipelineStep == MinerInv /\ [Next]_vars => PipelineInv'
<1> SUFFICES ASSUME MinerInv, [Next]_vars, NEW v \in Workers,
                    pipeline_ready'[v]
             PROVE  vm'[v].scratchpad =
                      [blob |-> blob'[v].arc, nonce |-> WriteNonce(nonce'[v])]
  BY DEF PipelineInv, WriteNonce
<1> USE DEF MinerInv, TypeOK
<1>1. CASE /\ vm'[v] = vm[v] /\ blob'[v] = blob[v] /\ nonce'[v] = nonce[v]
           /\ pipeline_ready'[v] = pipeline_ready[v]
  BY <1>1 DEF PipelineInv
<1>2. CASE FetchJob(v)
  BY <1>2 DEF FetchJob, PipelineAfterFetch, PipelineInv
<1>3. CASE Rekey(v)
  BY <1>3 DEF Rekey
<1>4. CASE ComputeHash(v)
  <2>1. /\ vm' = [vm EXCEPT ![v].scratchpad =
                    [blob |-> blob[v].arc,
                     nonce |-> WriteNonce(nonce[v] + Stride)]]
        /\ blob' = blob /\ nonce' = [nonce EXCEPT ![v] = @ + Stride]
    BY <1>4 DEF ComputeHash
  <2>2. QED
    BY <2>1 DEF Vm
<1>5. CASE Worker(v)
  BY <1>1, <1>2, <1>3, <1>4, <1>5 DEF Worker, Setup, CacheHit, CacheMiss,
     Generate, Mine, HandleShare, EndIteration, Quit
<1>6. ASSUME NEW w \in Workers \ {v}, Worker(w) PROVE
        /\ vm'[v] = vm[v] /\ blob'[v] = blob[v] /\ nonce'[v] = nonce[v]
        /\ pipeline_ready'[v] = pipeline_ready[v]
  <2>1. v \in Workers \ {w}
    OBVIOUS
  <2>2. QED
    BY <1>6, <2>1, OthersKeep
<1>7. CASE Pool \/ Stop \/ Joined \/ Done \/ UNCHANGED vars
  BY <1>1, <1>7, LocalsKept
<1>8. QED
  BY <1>1, <1>5, <1>6, <1>7 DEF Next

LEMMA HashStep == MinerInv /\ [Next]_vars => HashInv'
<1> DEFINE HashOf(v) ==
      /\ nonce[v] >= Stride
      /\ hash[v] = [blob |-> job[v].arc, nonce |-> WriteNonce(Tick(v)),
                    seed |-> job[v].seed_hash, fault |-> hash[v].fault]
      /\ "loop" \in hash[v].fault => NativeLoopEffective(vm[v].jit)
<1> SUFFICES ASSUME MinerInv, [Next]_vars, NEW v \in Workers,
                    pc'[v] = "share"
             PROVE  HashOf(v)'
  BY DEF HashInv
<1> USE DEF MinerInv, TypeOK
<1>1. CASE /\ pc'[v] = pc[v] /\ nonce'[v] = nonce[v] /\ hash'[v] = hash[v]
           /\ job'[v] = job[v] /\ vm'[v] = vm[v]
  BY <1>1 DEF HashInv, Tick, WriteNonce, NativeLoopEffective, Stride
<1>2. CASE ComputeHash(v)
  <2> DEFINE current == [blob |-> blob[v].arc, nonce |-> WriteNonce(nonce[v])]
             input == IF pipeline_ready[v] THEN vm[v].scratchpad ELSE current
  <2>1. PICK fault \in SUBSET PathFaults(NativeLoopEffective(vm[v].jit),
                                         vm[v].jit) :
          hash' = [hash EXCEPT ![v] =
            [blob |-> input.blob, nonce |-> input.nonce,
             seed |-> SeedOf(vm[v].dataset), fault |-> fault]]
    BY <1>2 DEF ComputeHash
  <2>2. input = current
    BY DEF PipelineInv
  <2>3. /\ nonce'[v] = nonce[v] + Stride /\ job' = job
        /\ blob[v] = job[v] /\ SeedOf(vm[v].dataset) = job[v].seed_hash
    BY <1>2 DEF ComputeHash, BlobInv, EngineInv
  <2>4. vm'[v].jit = vm[v].jit
    BY <1>2 DEF ComputeHash, Vm
  <2>5. Stride \in Nat /\ nonce[v] \in Nat
    BY MinerAssumption DEF Stride
  <2>6. nonce'[v] >= Stride /\ nonce'[v] - Stride = nonce[v]
    BY <2>3, <2>5
  <2>7. hash'[v] = [blob |-> job[v].arc, nonce |-> WriteNonce(nonce[v]),
                    seed |-> job[v].seed_hash, fault |-> fault]
    <3>1. input.blob = job[v].arc /\ input.nonce = WriteNonce(nonce[v])
      BY <2>2, <2>3
    <3> HIDE DEF input
    <3>2. QED
      BY <2>1, <2>3, <3>1
  <2>8. "loop" \in fault => NativeLoopEffective(vm[v].jit)
    BY <2>1 DEF PathFaults
  <2>9. QED
    BY <2>3, <2>4, <2>6, <2>7, <2>8
       DEF Tick, WriteNonce, NativeLoopEffective, Stride
<1>3. CASE Worker(v)
  BY <1>2, <1>3 DEF Worker, Setup, FetchJob, Ready, CacheHit, CacheMiss,
     Generate, Rekey, Mine, HandleShare, EndIteration, Quit
<1>4. ASSUME NEW w \in Workers \ {v}, Worker(w)
      PROVE  HashOf(v)'
  <2>1. v \in Workers \ {w}
    OBVIOUS
  <2>2. QED
    BY <1>1, <1>4, <2>1, OthersKeep
<1>5. CASE Pool \/ Stop \/ Joined \/ Done \/ UNCHANGED vars
  BY <1>1, <1>5, LocalsKept
<1> HIDE DEF HashOf
<1>6. QED
  BY <1>3, <1>4, <1>5 DEF Next

(* A verifier that is switched on answers a share with a hash of the same  *)
(* input on the same dataset, computed outside the native loop.            *)
LEMMA ShareDecided ==
    ASSUME MinerInv, NEW w \in Workers, HandleShare(w)
    PROVE  \/ ~verifier[w].enabled /\ Decide(w, <<>>)
           \/ /\ verifier[w].enabled
              /\ \E f : /\ "loop" \notin f
                        /\ Decide(w, <<[blob |-> job[w].arc,
                                        nonce |-> WriteNonce(Tick(w)),
                                        seed |-> job[w].seed_hash,
                                        fault |-> f]>>)
<1> USE DEF MinerInv
<1>1. /\ vm[w].dataset # 0 /\ verifier[w].dataset = vm[w].dataset
      /\ SeedOf(vm[w].dataset) = job[w].seed_hash /\ blob[w] = job[w]
      /\ ReferenceDataset(w) = vm[w].dataset
  BY DEF HandleShare, EngineInv, BlobInv, ReferenceDataset
<1>2. CASE ~Answers(w)
  BY <1>1, <1>2 DEF HandleShare, Answers
<1>3. CASE Answers(w)
  <2>1. PICK jit \in ReferenceJit(w) :
          \E f \in ReferenceFaults(w, jit) : Decide(w, <<reference(w, f)>>)
    BY <1>3 DEF HandleShare
  <2>2. PICK f \in ReferenceFaults(w, jit) : Decide(w, <<reference(w, f)>>)
    BY <2>1
  <2>3. "loop" \notin f
    BY DEF ReferenceFaults, PathFaults
  <2>4. reference(w, f) = [blob |-> job[w].arc, nonce |-> WriteNonce(Tick(w)),
                           seed |-> job[w].seed_hash, fault |-> f]
    BY <1>1 DEF reference
  <2>5. QED
    BY <1>3, <2>2, <2>3, <2>4 DEF Answers
<1>4. QED
  BY <1>2, <1>3

(* What a share's handling adds to the submitted and withheld claims. *)
LEMMA ClaimStep ==
    MinerInv /\ [Next]_vars => ClaimsHold' /\ VerdictsAreRight'
<1> SUFFICES ASSUME MinerInv, [Next]_vars
             PROVE  ClaimsHold' /\ VerdictsAreRight'
  OBVIOUS
<1> USE DEF MinerInv, ClaimsHold, VerdictsAreRight, NoFalseAlarm,
            LoopFaultNeverSent, VerifierNeverMissing
<1>1. CASE UNCHANGED <<submitted, withheld>>
  BY <1>1
<1>2. ASSUME NEW w \in Workers, HandleShare(w)
      PROVE  ClaimsHold' /\ VerdictsAreRight'
  <2>1. /\ hash[w] = [blob |-> job[w].arc, nonce |-> WriteNonce(Tick(w)),
                      seed |-> job[w].seed_hash, fault |-> hash[w].fault]
        /\ "loop" \in hash[w].fault => NativeLoopEffective(vm[w].jit)
    BY <1>2 DEF HandleShare, HashInv
  <2>2. /\ hash[w].blob = job[w].arc /\ hash[w].nonce = WriteNonce(Tick(w))
        /\ hash[w].seed = job[w].seed_hash
    BY <2>1
  <2>3. VerifyShares /\ "loop" \in hash[w].fault => verifier[w].enabled
    BY <1>2, <2>1 DEF HandleShare, EngineInv, Armed
  <2>4. ASSUME NEW verdict, NEW answer
        PROVE  LET c == Claim(w, verdict, answer) IN
               /\ c.hash.blob = c.job.arc /\ c.hash.nonce = c.nonce
               /\ c.hash.seed = c.job.seed_hash /\ c.hash = hash[w]
               /\ c.verdict = verdict /\ c.reference = answer
    BY <2>2 DEF Claim
  <2>5. CASE ~verifier[w].enabled /\ Decide(w, <<>>)
    <3> DEFINE c == Claim(w, "SubmitUnverified", <<>>)
    <3>1. submitted' = submitted \cup {c} /\ withheld' = withheld
      BY <2>5 DEF Decide, classify_share
    <3>2. "loop" \in c.hash.fault => ~VerifyShares
      BY <2>3, <2>4, <2>5
    <3>3. /\ c.hash.blob = c.job.arc /\ c.hash.nonce = c.nonce
          /\ c.hash.seed = c.job.seed_hash /\ c.verdict = "SubmitUnverified"
      BY <2>4
    <3> HIDE DEF c
    <3>4. QED
      BY <3>1, <3>2, <3>3
  <2>6. ASSUME verifier[w].enabled, NEW f, "loop" \notin f,
               Decide(w, <<[blob |-> job[w].arc, nonce |-> WriteNonce(Tick(w)),
                            seed |-> job[w].seed_hash, fault |-> f]>>)
        PROVE  ClaimsHold' /\ VerdictsAreRight'
    <3> DEFINE ref == [blob |-> job[w].arc, nonce |-> WriteNonce(Tick(w)),
                       seed |-> job[w].seed_hash, fault |-> f]
               verdict == classify_share(verifier[w].enabled, hash[w], <<ref>>)
               c == Claim(w, verdict, <<ref>>)
    <3>1. ref.fault = f
      OBVIOUS
    <3>2. /\ c.hash.blob = c.job.arc /\ c.hash.nonce = c.nonce
          /\ c.hash.seed = c.job.seed_hash /\ c.hash = hash[w]
          /\ c.verdict = verdict /\ c.reference = <<ref>>
      BY <2>4
    <3>3. hash[w].fault = f => ref = hash[w]
      BY <2>1
    <3>4. IF verdict = "Withhold"
            THEN withheld' = withheld \cup {c} /\ submitted' = submitted
            ELSE submitted' = submitted \cup {c} /\ withheld' = withheld
      BY <2>6 DEF Decide
    <3>5. verdict = IF ref = hash[w] THEN "SubmitVerified" ELSE "Withhold"
      <4> HIDE DEF ref
      <4>1. <<ref>> # <<>> /\ (<<ref>> = <<hash[w]>> <=> ref = hash[w])
        OBVIOUS
      <4>2. QED
        BY <2>6, <4>1 DEF classify_share
    <3> HIDE DEF ref, verdict, c
    <3>6. CASE ref = hash[w]
      <4>1. "loop" \notin c.hash.fault /\ c.verdict # "SubmitVerifierUnavailable"
        BY <2>6, <3>1, <3>2, <3>5, <3>6
      <4>2. submitted' = submitted \cup {c} /\ withheld' = withheld
        BY <3>4, <3>5, <3>6
      <4>3. QED
        BY <3>2, <4>1, <4>2
    <3>7. CASE ref # hash[w]
      <4>1. c.hash.fault # {} \/ c.reference[1].fault # {}
        <5>1. c.reference[1] = ref
          BY <3>2
        <5>2. QED
          BY <3>1, <3>2, <3>3, <3>7, <5>1
      <4>2. withheld' = withheld \cup {c} /\ submitted' = submitted
        BY <3>4, <3>5, <3>7
      <4>3. QED
        BY <3>2, <4>1, <4>2
    <3>8. QED
      BY <3>6, <3>7
  <2>7. QED
    BY <1>2, <2>5, <2>6, ShareDecided
<1>3. ASSUME NEW w \in Workers, Worker(w), ~HandleShare(w)
      PROVE  UNCHANGED <<submitted, withheld>>
  BY <1>3 DEF Worker, Setup, FetchJob, CacheHit, CacheMiss, Generate, Rekey,
     Mine, ComputeHash, EndIteration, Quit
<1>4. CASE Pool \/ Stop \/ Joined \/ Done \/ UNCHANGED vars
  BY <1>1, <1>4, LocalsKept
<1>5. QED
  BY <1>1, <1>2, <1>3, <1>4 DEF Next
-----------------------------------------------------------------------------
THEOREM MinerInvariant == Spec => []MinerInv
<1>1. MinerInv /\ [Next]_vars => MinerInv'
  BY TypeStep, ArcStep, BlobStep, CacheStep, EngineStep, PipelineStep,
     HashStep, ClaimStep DEF MinerInv
<1>2. QED
  BY InitMiner, <1>1, PTL DEF Spec

(* Every hash submitted for a job and a nonce was computed from that job's *)
(* blob with that nonce, on the dataset of that job's seed.                *)
THEOREM ClaimsAlwaysHold == Spec => []ClaimsHold
<1>1. MinerInv => ClaimsHold
  BY DEF MinerInv
<1>2. QED
  BY MinerInvariant, <1>1, PTL

(* For any threads, jobs, seeds and faults of the emitted code: a share is *)
(* withheld only when the mining or the reference path miscomputed, with   *)
(* --verify-shares no fault of the native loop's scaffolding is submitted, *)
(* and a verifier that is switched on is never without its dataset.        *)
THEOREM VerdictsAlwaysRight == Spec => []VerdictsAreRight
<1>1. MinerInv => VerdictsAreRight
  BY DEF MinerInv
<1>2. QED
  BY MinerInvariant, <1>1, PTL

(* Threads racing for a new seed generate its dataset once between them. *)
THEOREM CacheNeverRegenerates == Spec => []NeverGeneratedTwiceInARow
<1>1. MinerInv => NeverGeneratedTwiceInARow
  BY DEF MinerInv, CacheInv
<1>2. QED
  BY MinerInvariant, <1>1, PTL
-----------------------------------------------------------------------------
(***************************************************************************)
(* Nonces.  Each worker keeps to its own residue class modulo the number   *)
(* of threads.                                                             *)
(***************************************************************************)

(* The classes stay apart when the nonce field wraps, or it does not wrap. *)
LanesKeepApart == NonceSpace % Threads = 0 \/ MaxNonce < NonceSpace

Lane(w, n) == \E k \in Nat : n = w + k * Threads

ClaimInLane(c) ==
    /\ c.by \in Workers /\ c.tick \in 0 .. MaxNonce /\ Lane(c.by, c.tick)
    /\ c.nonce = WriteNonce(c.tick)

LaneInv ==
    /\ \A w \in Workers :
        /\ Lane(w, nonce[w])
        /\ pc[w] \in {"cache", "generate", "rekey", "hash"} => nonce[w] <= MaxNonce
        /\ pc[w] = "share" => Tick(w) \in 0 .. MaxNonce /\ Lane(w, Tick(w))
    /\ \A c \in submitted \cup withheld : ClaimInLane(c)

LEMMA SameLane ==
    ASSUME NEW v \in Workers, NEW w \in Workers, NEW a \in Int, NEW b \in Int,
           v + a * Threads = w + b * Threads
    PROVE  v = w
<1> DEFINE T == Threads
<1>1. T \in Nat /\ T > 0 /\ v \in 0 .. T - 1 /\ w \in 0 .. T - 1
  BY MinerAssumption DEF Workers
<1>2. ASSUME NEW e \in Nat, e > 0
      PROVE  e * T >= T
  <2>1. (e - 1) * T \in Nat /\ e - 1 \in Nat
    BY <1>1, <1>2
  <2>2. e * T = (e - 1) * T + T
    BY <1>1, <1>2
  <2>3. QED
    BY <1>1, <2>1, <2>2
<1>3. a * T - b * T = w - v
  BY <1>1
<1>4. (a - b) * T = a * T - b * T /\ (b - a) * T = b * T - a * T
  BY <1>1
<1> HIDE DEF T
<1>5. CASE a > b
  <2>1. (a - b) * T >= T
    BY <1>2, <1>5
  <2>2. QED
    BY <1>1, <1>3, <1>4, <2>1
<1>6. CASE b > a
  <2>1. (b - a) * T >= T
    BY <1>2, <1>6
  <2>2. QED
    BY <1>1, <1>3, <1>4, <2>1
<1>7. CASE a = b
  BY <1>1, <1>3, <1>7
<1>8. QED
  BY <1>5, <1>6, <1>7

LEMMA Division ==
    ASSUME NEW n \in Nat, NEW d \in Nat, d > 0
    PROVE  \E q \in Int : n - (n % d) = q * d
OBVIOUS

(* A nonce that is written in NonceSpace values still tells the lanes      *)
(* apart.                                                                  *)
LEMMA NonceShowsLane ==
    ASSUME LanesKeepApart, NEW v \in Workers, NEW w \in Workers,
           NEW m \in 0 .. MaxNonce, NEW n \in 0 .. MaxNonce,
           Lane(v, m), Lane(w, n), WriteNonce(m) = WriteNonce(n)
    PROVE  v = w
<1>1. PICK j \in Nat : m = v + j * Threads
  BY DEF Lane
<1>2. PICK k \in Nat : n = w + k * Threads
  BY DEF Lane
<1>3. /\ Threads \in Nat \ {0} /\ NonceSpace \in Nat \ {0} /\ MaxNonce \in Nat
      /\ v \in Nat /\ w \in Nat /\ m \in Nat /\ n \in Nat
  BY MinerAssumption, WorkerFacts
<1>4. CASE MaxNonce < NonceSpace
  <2>1. WriteNonce(m) = m /\ WriteNonce(n) = n
    BY <1>3, <1>4 DEF WriteNonce
  <2>2. v + j * Threads = w + k * Threads
    BY <1>1, <1>2, <2>1
  <2>3. QED
    BY <2>2, SameLane
<1>5. CASE NonceSpace % Threads = 0
  <2>1. PICK s \in Int : NonceSpace = s * Threads
    BY <1>3, <1>5
  <2>2. PICK p \in Int : m - WriteNonce(m) = p * NonceSpace
    <3>1. NonceSpace \in Nat /\ NonceSpace > 0 /\ m \in Nat
      BY <1>3
    <3>2. QED
      BY <3>1, Division, Zenon DEF WriteNonce
  <2>3. PICK q \in Int : n - WriteNonce(n) = q * NonceSpace
    <3>1. NonceSpace \in Nat /\ NonceSpace > 0 /\ n \in Nat
      BY <1>3
    <3>2. QED
      BY <3>1, Division, Zenon DEF WriteNonce
  <2>4. /\ p * NonceSpace = (p * s) * Threads
        /\ q * NonceSpace = (q * s) * Threads
    BY <1>3, <2>1
  <2>5. /\ v + j * Threads - (p * s) * Threads = WriteNonce(m)
        /\ w + k * Threads - (q * s) * Threads = WriteNonce(n)
        /\ WriteNonce(m) \in Nat /\ WriteNonce(n) \in Nat
    BY <1>1, <1>2, <1>3, <2>2, <2>3, <2>4, ModType
  <2>6. /\ (j - p * s) * Threads = j * Threads - (p * s) * Threads
        /\ (k - q * s) * Threads = k * Threads - (q * s) * Threads
    BY <1>3
  <2>7. v + (j - p * s) * Threads = w + (k - q * s) * Threads
    BY <1>3, <2>5, <2>6
  <2>8. j - p * s \in Int /\ k - q * s \in Int
    OBVIOUS
  <2>9. QED
    BY <2>7, <2>8, SameLane
<1>6. QED
  BY <1>4, <1>5 DEF LanesKeepApart

LEMMA NextInLane ==
    ASSUME NEW w \in Workers, NEW n, Lane(w, n)
    PROVE  n \in Nat /\ Lane(w, n + Stride)
<1>1. PICK k \in Nat : n = w + k * Threads
  BY DEF Lane
<1>2. w \in Nat /\ Threads \in Nat /\ k * Threads \in Nat
  BY WorkerFacts, MinerAssumption
<1>3. (k + 1) * Threads = k * Threads + Threads
  BY <1>2
<1>4. n + Stride = w + (k + 1) * Threads /\ k + 1 \in Nat
  BY <1>1, <1>2, <1>3 DEF Stride
<1>5. n \in Nat
  BY <1>1, <1>2
<1>6. Lane(w, n + Stride)
  BY <1>4 DEF Lane
<1>7. QED
  BY <1>5, <1>6

LEMMA LaneStep == MinerInv /\ LaneInv /\ [Next]_vars => LaneInv'
<1> SUFFICES ASSUME MinerInv, LaneInv, [Next]_vars
             PROVE  LaneInv'
  OBVIOUS
<1> USE DEF MinerInv, TypeOK
<1> DEFINE InLane(v) ==
      /\ Lane(v, nonce[v])
      /\ pc[v] \in {"cache", "generate", "rekey", "hash"} => nonce[v] <= MaxNonce
      /\ pc[v] = "share" => Tick(v) \in 0 .. MaxNonce /\ Lane(v, Tick(v))
<1>1. ASSUME NEW v \in Workers, pc'[v] = pc[v], nonce'[v] = nonce[v]
      PROVE  InLane(v)'
  BY <1>1 DEF LaneInv, Lane, Tick, Stride
<1>2. ASSUME NEW v \in Workers, Worker(v)
      PROVE  InLane(v)'
  <2>1. Lane(v, nonce[v]) /\ nonce[v] \in Nat /\ Lane(v, nonce[v] + Stride)
    BY NextInLane DEF LaneInv
  <2>2. CASE ComputeHash(v)
    <3>1. nonce'[v] = nonce[v] + Stride /\ pc'[v] \in {"share", "end"}
          /\ nonce[v] <= MaxNonce
      BY <2>2 DEF ComputeHash, LaneInv
    <3>2. Tick(v)' = nonce[v]
      BY <2>1, <3>1, MinerAssumption DEF Tick, Stride
    <3>3. Tick(v)' \in 0 .. MaxNonce
      BY <2>1, <3>1, <3>2, MinerAssumption
    <3>4. Lane(v, nonce[v])' /\ Lane(v, Tick(v))'
      BY <2>1, <3>1, <3>2 DEF Lane
    <3>5. QED
      BY <3>1, <3>3, <3>4
  <2>3. CASE FetchJob(v)
    BY <2>1, <2>3 DEF FetchJob, Ready, Lane
  <2>4. CASE CacheHit(v) \/ CacheMiss(v) \/ Generate(v) \/ Rekey(v)
    BY <2>1, <2>4 DEF CacheHit, CacheMiss, Generate, Rekey, Ready, LaneInv, Lane
  <2>5. CASE HandleShare(v) \/ EndIteration(v) \/ Quit(v)
    BY <2>1, <2>5 DEF HandleShare, EndIteration, Quit, Lane
  <2>6. QED
    BY <1>2, <2>2, <2>3, <2>4, <2>5 DEF Worker, Setup, Mine
<1>3. ASSUME NEW v \in Workers
      PROVE  InLane(v)'
  <2>1. ASSUME NEW w \in Workers \ {v}, Worker(w)
        PROVE  InLane(v)'
    <3>1. v \in Workers \ {w}
      OBVIOUS
    <3>2. QED
      BY <1>1, <2>1, <3>1, OthersKeep
  <2>2. CASE Pool \/ Stop \/ Joined \/ Done \/ UNCHANGED vars
    BY <1>1, <2>2, LocalsKept
  <2> HIDE DEF InLane
  <2>3. QED
    BY <1>2, <2>1, <2>2 DEF Next
<1>4. ASSUME NEW c \in (submitted \cup withheld)'
      PROVE  ClaimInLane(c)
  <2>1. CASE c \in submitted \cup withheld
    BY <2>1 DEF LaneInv
  <2>2. CASE \E w \in Workers : HandleShare(w)
    <3>1. PICK w \in Workers : HandleShare(w)
      BY <2>2
    <3>2. c \in submitted \cup withheld
            \/ \E verdict, answer : c = Claim(w, verdict, answer)
      <4>1. PICK answer : Decide(w, answer)
        BY <3>1 DEF HandleShare
      <4>2. QED
        BY <4>1, Zenon DEF Decide
    <3>3. CASE \E verdict, answer : c = Claim(w, verdict, answer)
      <4>1. c.by = w /\ c.tick = Tick(w) /\ c.nonce = WriteNonce(Tick(w))
        BY <3>3 DEF Claim
      <4>2. Tick(w) \in 0 .. MaxNonce /\ Lane(w, Tick(w))
        BY <3>1 DEF HandleShare, LaneInv
      <4>3. QED
        BY <4>1, <4>2 DEF ClaimInLane
    <3>4. QED
      BY <2>1, <3>2, <3>3
  <2>3. ASSUME NEW w \in Workers, Worker(w), ~HandleShare(w)
        PROVE  UNCHANGED <<submitted, withheld>>
    BY <2>3 DEF Worker, Setup, FetchJob, CacheHit, CacheMiss, Generate, Rekey,
       Mine, ComputeHash, EndIteration, Quit
  <2>4. CASE Pool \/ Stop \/ Joined \/ Done \/ UNCHANGED vars
    BY <2>1, <2>4, LocalsKept
  <2>5. QED
    BY <2>1, <2>2, <2>3, <2>4 DEF Next
<1>5. QED
  BY <1>3, <1>4 DEF LaneInv, ClaimInLane, Lane, WriteNonce

LEMMA InitLane == Init => LaneInv
<1> SUFFICES ASSUME Init
             PROVE  LaneInv
  OBVIOUS
<1>1. ASSUME NEW w \in Workers
      PROVE  Lane(w, nonce[w]) /\ pc[w] = "top"
  <2>1. w \in Nat /\ Threads \in Nat /\ nonce[w] = w /\ pc[w] = "top"
    BY WorkerFacts, MinerAssumption DEF Init, FirstNonce
  <2>2. w = w + 0 * Threads
    BY <2>1
  <2>3. QED
    BY <2>1, <2>2 DEF Lane
<1>2. submitted \cup withheld = {}
  BY DEF Init
<1>3. QED
  BY <1>1, <1>2 DEF LaneInv

(* No two workers ever claim the same nonce for the same job: at any       *)
(* number of threads until the nonce field wraps, and for good where the   *)
(* number of threads divides the field's values (worker_loop).             *)
THEOREM NoSharedNonce == LanesKeepApart => (Spec => []NoDuplicateShare)
<1> SUFFICES ASSUME LanesKeepApart
             PROVE  Spec => []NoDuplicateShare
  OBVIOUS
<1>1. MinerInv /\ LaneInv /\ [Next]_vars => LaneInv'
  BY LaneStep
<1>2. LaneInv => NoDuplicateShare
  <2> SUFFICES ASSUME LaneInv, NEW c \in submitted \cup withheld,
                      NEW d \in submitted \cup withheld, c.nonce = d.nonce
               PROVE  c.by = d.by
    BY DEF NoDuplicateShare
  <2>1. ClaimInLane(c) /\ ClaimInLane(d)
    BY DEF LaneInv
  <2>2. QED
    BY <2>1, NonceShowsLane DEF ClaimInLane
<1>3. QED
  BY InitLane, MinerInvariant, <1>1, <1>2, PTL DEF Spec
-----------------------------------------------------------------------------
(***************************************************************************)
(* Hashes.  What the workers have flushed is what total_hashes holds.      *)
(***************************************************************************)

(* The hashes the workers have computed when their nonces are n, and those *)
(* of them they have flushed when their counts are l.                      *)
Computed(n) == [w \in Workers |-> (n[w] - FirstNonce(w)) \div Stride]
Flushed(n, l) == [w \in Workers |-> Computed(n)[w] - l[w]]

CountInv ==
    /\ total_hashes = SumOver(Flushed(nonce, local_hashes), Workers)
    /\ \A w \in Workers : pc[w] = "stopped" => local_hashes[w] = 0
    /\ main = "done" => \A w \in Workers : pc[w] = "stopped"

LEMMA FiniteWorkers == IsFiniteSet(Workers)
BY FS_Interval, MinerAssumption DEF Workers

(* A worker that has gone k strides has computed k hashes. *)
LEMMA StridesCounted ==
    ASSUME NEW n, NEW w \in Workers, NEW k \in Nat, n[w] = w + k * Threads
    PROVE  Computed(n)[w] = k
<1>1. w \in Nat /\ Threads \in Nat \ {0} /\ k * Threads \in Nat
  BY WorkerFacts, MinerAssumption
<1>2. n[w] - FirstNonce(w) = k * Threads
  BY <1>1 DEF FirstNonce
<1>3. (k * Threads) \div Threads = k
  BY <1>1
<1>4. QED
  BY <1>2, <1>3 DEF Stride, Computed

LEMMA FlushedType ==
    ASSUME NEW n, \A w \in Workers : Lane(w, n[w]), NEW l \in [Workers -> Nat]
    PROVE  /\ Computed(n) \in [Workers -> Int]
           /\ Flushed(n, l) \in [Workers -> Int]
<1>1. ASSUME NEW w \in Workers
      PROVE  Computed(n)[w] \in Int
  <2>1. PICK k \in Nat : n[w] = w + k * Threads
    BY DEF Lane
  <2>2. QED
    BY <2>1, StridesCounted
<1>2. Computed(n) \in [Workers -> Int]
  BY <1>1 DEF Computed
<1>3. QED
  BY <1>1, <1>2 DEF Flushed

(* One more hash is one more stride. *)
LEMMA OneMoreHash ==
    ASSUME NEW n, NEW m, NEW w \in Workers, Lane(w, n[w]), m[w] = n[w] + Stride
    PROVE  Computed(m)[w] = Computed(n)[w] + 1
<1>1. PICK k \in Nat : n[w] = w + k * Threads
  BY DEF Lane
<1>2. m[w] = w + (k + 1) * Threads /\ k + 1 \in Nat
  <2>1. w \in Nat /\ Threads \in Nat /\ k * Threads \in Nat
    BY WorkerFacts, MinerAssumption
  <2>2. (k + 1) * Threads = k * Threads + Threads
    BY <2>1
  <2>3. QED
    BY <1>1, <2>1, <2>2 DEF Stride
<1>3. Computed(n)[w] = k
  BY <1>1, StridesCounted
<1>4. Computed(m)[w] = k + 1
  BY <1>2, StridesCounted
<1>5. QED
  BY <1>3, <1>4

(* Moving a worker's count to the total. *)
LEMMA Flush ==
    ASSUME NEW n, \A v \in Workers : Lane(v, n[v]), NEW l \in [Workers -> Nat],
           NEW w \in Workers
    PROVE  SumOver(Flushed(n, [l EXCEPT ![w] = 0]), Workers)
             = SumOver(Flushed(n, l), Workers) + l[w]
<1> DEFINE k == [l EXCEPT ![w] = 0]
<1>1. k \in [Workers -> Nat] /\ l[w] \in Int
  OBVIOUS
<1>2. \A v \in Workers : k[v] = IF v = w THEN 0 ELSE l[v]
  OBVIOUS
<1> HIDE DEF k
<1>3. /\ Computed(n) \in [Workers -> Int]
      /\ Flushed(n, l) \in [Workers -> Int] /\ Flushed(n, k) \in [Workers -> Int]
  BY <1>1, FlushedType
<1>4. \A v \in Workers : Flushed(n, k)[v] = IF v = w THEN Flushed(n, l)[v] + l[w]
                                                   ELSE Flushed(n, l)[v]
  BY <1>1, <1>2, <1>3 DEF Flushed
<1>5. SumOver(Flushed(n, k), Workers) = SumOver(Flushed(n, l), Workers) + l[w]
  <2> DEFINE f == Flushed(n, l)
             h == Flushed(n, k)
  <2> HIDE DEF f, h
  <2>1. f \in [Workers -> Int] /\ h \in [Workers -> Int]
    BY <1>3 DEF f, h
  <2>2. \A v \in Workers : h[v] = IF v = w THEN f[v] + l[w] ELSE f[v]
    BY <1>4 DEF f, h
  <2>3. SumOver(h, Workers) = SumOver(f, Workers) + l[w]
    BY <1>1, <2>1, <2>2, FiniteWorkers, SumOfOneChange
  <2>4. QED
    BY <2>3 DEF f, h
<1>6. QED
  BY <1>5 DEF k

LEMMA CountStep ==
    MinerInv /\ LaneInv /\ CountInv /\ [Next]_vars => CountInv'
<1> SUFFICES ASSUME MinerInv, LaneInv, CountInv, [Next]_vars
             PROVE  CountInv'
  OBVIOUS
<1>1. TypeOK /\ \A w \in Workers : Lane(w, nonce[w])
  BY DEF MinerInv, LaneInv
<1>2. ASSUME UNCHANGED <<nonce, local_hashes, total_hashes>>
      PROVE  total_hashes' = SumOver(Flushed(nonce', local_hashes'), Workers)
  BY <1>2 DEF CountInv
<1>3. ASSUME NEW w \in Workers, ComputeHash(w)
      PROVE  total_hashes' = SumOver(Flushed(nonce', local_hashes'), Workers)
  <2>1. nonce'[w] = nonce[w] + Stride /\ local_hashes'[w] = local_hashes[w] + 1
    BY <1>1, <1>3 DEF ComputeHash, TypeOK
  <2>2. \A v \in Workers \ {w} :
          nonce'[v] = nonce[v] /\ local_hashes'[v] = local_hashes[v]
    BY <1>1, <1>3 DEF ComputeHash, TypeOK
  <2>3. Computed(nonce')[w] = Computed(nonce)[w] + 1
    BY <1>1, <2>1, OneMoreHash
  <2>4. \A v \in Workers \ {w} : Computed(nonce')[v] = Computed(nonce)[v]
    BY <2>2 DEF Computed
  <2>5. Flushed(nonce', local_hashes') = Flushed(nonce, local_hashes)
    <3>1. local_hashes[w] \in Nat /\ Computed(nonce)[w] \in Int
      BY <1>1, FlushedType DEF TypeOK
    <3>2. QED
      BY <2>1, <2>2, <2>3, <2>4, <3>1 DEF Flushed
  <2>6. QED
    BY <1>3, <2>5 DEF CountInv, ComputeHash
<1>4. ASSUME NEW w \in Workers, EndIteration(w) \/ Quit(w)
      PROVE  total_hashes' = SumOver(Flushed(nonce', local_hashes'), Workers)
  <2>1. nonce' = nonce
    BY <1>4 DEF EndIteration, Quit
  <2>2. \/ local_hashes' = local_hashes /\ total_hashes' = total_hashes
        \/ /\ local_hashes' = [local_hashes EXCEPT ![w] = 0]
           /\ total_hashes' = total_hashes + local_hashes[w]
    BY <1>4 DEF EndIteration, Quit, CountAfterFlush
  <2>3. local_hashes \in [Workers -> Nat]
    BY <1>1 DEF TypeOK
  <2>4. SumOver(Flushed(nonce, [local_hashes EXCEPT ![w] = 0]), Workers)
          = SumOver(Flushed(nonce, local_hashes), Workers) + local_hashes[w]
    BY <1>1, <2>3, Flush
  <2>5. QED
    BY <2>1, <2>2, <2>4 DEF CountInv
<1>5. total_hashes' = SumOver(Flushed(nonce', local_hashes'), Workers)
  <2>1. ASSUME NEW w \in Workers, Setup(w) \/ HandleShare(w)
        PROVE  UNCHANGED <<nonce, local_hashes, total_hashes>>
    BY <2>1 DEF Setup, FetchJob, CacheHit, CacheMiss, Generate, Rekey, HandleShare
  <2>2. CASE Pool \/ Stop \/ Joined \/ Done \/ UNCHANGED vars
    BY <1>2, <2>2 DEF Pool, InstallJob, ClearJob, Stop, Joined, Done, vars
  <2>3. QED
    BY <1>2, <1>3, <1>4, <2>1, <2>2 DEF Next, Worker, Mine
<1>6. ASSUME NEW v \in Workers, pc'[v] = "stopped"
      PROVE  local_hashes'[v] = 0
  <2>1. ASSUME NEW w \in Workers, Worker(w)
        PROVE  local_hashes'[v] = 0
    <3>1. CASE w = v
      <4>1. Quit(v)
        BY <1>1, <1>6, <2>1, <3>1 DEF TypeOK, Worker, Setup, FetchJob, CacheHit,
           CacheMiss, Generate, Rekey, Mine, ComputeHash, HandleShare,
           EndIteration, Ready
      <4>2. QED
        BY <1>1, <4>1 DEF Quit, TypeOK
    <3>2. CASE w # v
      <4>1. pc'[v] = pc[v] /\ local_hashes'[v] = local_hashes[v]
        BY <1>1, <2>1, <3>2 DEF TypeOK, Worker, Setup, FetchJob, CacheHit,
           CacheMiss, Generate, Rekey, Mine, ComputeHash, HandleShare,
           EndIteration, Quit
      <4>2. QED
        BY <1>6, <4>1 DEF CountInv
    <3>3. QED
      BY <3>1, <3>2
  <2>2. CASE Pool \/ Stop \/ Joined \/ Done \/ UNCHANGED vars
    <3>1. pc' = pc /\ local_hashes' = local_hashes
      BY <2>2 DEF Pool, InstallJob, ClearJob, Stop, Joined, Done, vars
    <3>2. QED
      BY <1>6, <3>1 DEF CountInv
  <2>3. QED
    BY <2>1, <2>2 DEF Next
<1>7. ASSUME main' = "done", NEW v \in Workers
      PROVE  pc'[v] = "stopped"
  <2>1. CASE Joined
    BY <2>1 DEF Joined
  <2>2. CASE Stop
    BY <1>7, <2>2 DEF Stop
  <2>3. CASE Pool \/ Done \/ UNCHANGED vars
    BY <1>7, <2>3 DEF Pool, InstallJob, ClearJob, Done, vars, CountInv
  <2>4. ASSUME NEW w \in Workers, Worker(w)
        PROVE  FALSE
    <3>1. main' = main
      BY <2>4 DEF Worker, Setup, FetchJob, CacheHit, CacheMiss, Generate, Rekey,
         Mine, ComputeHash, HandleShare, EndIteration, Quit
    <3>2. pc[w] = "stopped"
      BY <1>7, <3>1 DEF CountInv
    <3>3. QED
      BY <2>4, <3>2 DEF Worker, Setup, FetchJob, CacheHit, CacheMiss, Generate,
         Rekey, Mine, ComputeHash, HandleShare, EndIteration, Quit
  <2>5. QED
    BY <2>1, <2>2, <2>3, <2>4 DEF Next
<1>8. QED
  BY <1>5, <1>6, <1>7 DEF CountInv

LEMMA InitCount == Init => CountInv
<1> SUFFICES ASSUME Init
             PROVE  CountInv
  OBVIOUS
<1>1. /\ local_hashes \in [Workers -> Nat]
      /\ \A w \in Workers : /\ pc[w] = "top" /\ local_hashes[w] = 0
                            /\ nonce[w] = w /\ Lane(w, nonce[w])
  BY InitLane DEF Init, FirstNonce, LaneInv
<1>2. Flushed(nonce, local_hashes) \in [Workers -> Int]
  BY <1>1, FlushedType
<1>3. ASSUME NEW w \in Workers
      PROVE  Flushed(nonce, local_hashes)[w] = 0
  <2>1. w \in Nat /\ Threads \in Nat /\ nonce[w] = w + 0 * Threads
    BY <1>1, WorkerFacts, MinerAssumption
  <2>2. Computed(nonce)[w] = 0
    BY <2>1, StridesCounted
  <2>3. QED
    BY <1>1, <2>2 DEF Flushed
<1>4. SumOver(Flushed(nonce, local_hashes), Workers) = 0
  BY <1>2, <1>3, FiniteWorkers, SumOfZeros
<1>5. QED
  BY <1>1, <1>4 DEF CountInv, Init

(* The sum the property speaks of. *)
LEMMA ComputedInAll ==
    ASSUME Computed(nonce) \in [Workers -> Int]
    PROVE  MapThenSumSet(LAMBDA w : (nonce[w] - FirstNonce(w)) \div Stride, Workers)
             = SumOver(Computed(nonce), Workers)
<1> DEFINE f == Computed(nonce)
           Body(g) == [s \in SUBSET Workers |-> IF s = {} THEN 0
                         ELSE ((nonce[CHOOSE x \in s : TRUE]
                                 - FirstNonce(CHOOSE x \in s : TRUE)) \div Stride)
                               + g[s \ {CHOOSE x \in s : TRUE}]]
           it == CHOOSE g : g = Body(g)
<1>1. PICK g \in [SUBSET Workers -> Int] :
        Sums(g, Workers, f) /\ SumOver(f, Workers) = g[Workers]
  BY FiniteWorkers, SumEquation
<1>2. \A s \in SUBSET Workers : s # {} =>
         f[Picked(s)] = (nonce[Picked(s)] - FirstNonce(Picked(s))) \div Stride
  BY DEF Picked, Computed
<1>3. g = Body(g)
  BY <1>1, <1>2 DEF Sums, Picked
<1>4. it = Body(it)
  BY <1>3
<1>5. MapThenSumSet(LAMBDA w : (nonce[w] - FirstNonce(w)) \div Stride, Workers)
        = it[Workers]
  BY DEF MapThenSumSet, MapThenFoldSet
<1> HIDE DEF it, f
<1>6. Sums(it, Workers, f)
  BY <1>2, <1>4 DEF Sums, Picked
<1>7. it[Workers] = g[Workers]
  BY <1>1, <1>6, FiniteWorkers, SumUnique
<1>8. QED
  BY <1>1, <1>5, <1>7 DEF f

(* When stop() has joined every worker, total_hashes is the number of      *)
(* hashes they computed, at any number of threads: the periodic and the    *)
(* final flush of worker_loop lose none and count none twice.              *)
THEOREM EveryHashCounted == Spec => []HashesAllCounted
<1>1. MinerInv /\ LaneInv /\ CountInv /\ [Next]_vars => CountInv'
  BY CountStep
<1>2. MinerInv /\ LaneInv /\ [Next]_vars => LaneInv'
  BY LaneStep
<1>3. MinerInv /\ LaneInv /\ CountInv => HashesAllCounted
  <2> SUFFICES ASSUME MinerInv, LaneInv, CountInv, main = "done"
               PROVE  total_hashes = MapThenSumSet(
                        LAMBDA w : (nonce[w] - FirstNonce(w)) \div Stride, Workers)
    BY DEF HashesAllCounted
  <2>1. Computed(nonce) \in [Workers -> Int]
    BY FlushedType DEF MinerInv, TypeOK, LaneInv
  <2>2. Flushed(nonce, local_hashes) = Computed(nonce)
    BY <2>1 DEF Flushed, CountInv
  <2>3. QED
    BY <2>1, <2>2, ComputedInAll DEF CountInv
<1>4. QED
  BY InitLane, InitCount, MinerInvariant, <1>1, <1>2, <1>3, PTL DEF Spec
=============================================================================
