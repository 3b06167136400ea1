------------------------------- MODULE HashVm -------------------------------
(***************************************************************************)
(* The RandomX VMs that a thread owns (RandomXVm in vm.rs) and the JIT     *)
(* each has (jit/compiler.rs, jit/memory.rs).  A miner's worker hashes on  *)
(* two, its own and its verifier's reference; the A/B benchmark alternates *)
(* between two.  A VM is created, given a new key, switched between its    *)
(* execution paths and asked for hashes in any order.                      *)
(*                                                                         *)
(* A hash is symbolic: it records what went into it.  A program is named   *)
(* by the state that seeded its hash and its place in the chain.           *)
(***************************************************************************)
EXTENDS Naturals

CONSTANTS Vms, Seeds, Inputs, Versions,
          Chains,      \* RANDOMX_PROGRAM_COUNT
          Modes,       \* settings of the floating-point control register
          CallerMode,  \* the one the thread had
          Nearest,     \* what set_rounding_mode(0) sets
          Platforms    \* the backends of memory.rs: "darwin" and "linux"

ASSUME HashAssumption ==
    /\ Chains \in Nat \ {0}
    /\ CallerMode \in Modes /\ Nearest \in Modes
    /\ Versions \subseteq {"V1", "V2"} /\ Platforms \subseteq {"darwin", "linux"}

VARIABLES
    platform,  \* the one this build is for
    vm,        \* the VMs
    fpcr,      \* the thread's rounding mode
    jit_write, \* darwin: is the thread's JIT write protection off?
    pc,        \* where the hash being computed is
    run        \* that hash

vars == <<platform, vm, fpcr, jit_write, pc, run>>
-----------------------------------------------------------------------------
None == "none"
Input == Inputs \cup {None}
Program == [state : Input, chain : 0 .. Chains - 1]
NoProgram == [state |-> None, chain |-> 0]

(* kind is CompiledKind, or None before the first compile; prot says what  *)
(* the region's pages allow.                                               *)
Jit == [kind : {None, "Body", "NativeLoop"}, code : Program,
        prot : {"rw", "rx", "rwx"}]
NoJit == [kind |-> "absent", code |-> NoProgram, prot |-> None]

(* key is the last key given, and ready the input whose hash the pipeline  *)
(* is to return next; both are history.                                    *)
Vm == [cache_memory : Seeds \cup {None}, ss_programs : Seeds,
       dataset : Seeds \cup {None}, version : Versions,
       jit : Jit \cup {NoJit}, use_native_loop : BOOLEAN,
       scratchpad : Input, pipeline_state : Input,
       key : Seeds, ready : Input]
NoVm == [version |-> None]

(* What a hash is made from: the input whose digest seeds the programs and *)
(* the one that filled the scratchpad, the data the programs read, the     *)
(* version, and whether every program ran as itself in the rounding mode   *)
(* that the one before it had left.                                        *)
Reference(input, seed, version) ==
    [state |-> input, scratchpad |-> input, data |-> seed,
     version |-> version, exact |-> TRUE]

NoRun == [vm |-> None]

Init ==
    /\ platform \in Platforms
    /\ vm = [v \in Vms |-> NoVm]
    /\ fpcr = CallerMode /\ jit_write = FALSE
    /\ pc = "idle" /\ run = NoRun
-----------------------------------------------------------------------------
(* new_jit: a failed mmap leaves the VM without a JIT. *)
NewJit == {NoJit, [kind |-> None, code |-> NoProgram,
                   prot |-> IF platform = "darwin" THEN "rwx" ELSE "rw"]}

New(v, seed, version, dataset, cache, jit) ==
    /\ pc = "idle" /\ vm[v] = NoVm
    /\ vm' = [vm EXCEPT ![v] =
                [cache_memory |-> cache, ss_programs |-> seed,
                 dataset |-> dataset, version |-> version,
                 jit |-> jit, use_native_loop |-> TRUE,
                 scratchpad |-> None, pipeline_state |-> None,
                 key |-> seed, ready |-> None]]
    /\ UNCHANGED <<fpcr, jit_write, pc, run>>

(* new_versioned: light mode. *)
NewLight(v, seed, version, jit) == New(v, seed, version, None, seed, jit)

(* new_full_versioned: the caller gives the dataset of the key. *)
NewFull(v, seed, version, jit) == New(v, seed, version, seed, None, jit)

CacheFor(v, seed, dataset) == IF dataset # None THEN None ELSE seed

Reinit(v, seed, dataset) ==
    /\ pc = "idle" /\ vm[v] # NoVm
    /\ vm' = [vm EXCEPT ![v].cache_memory = CacheFor(v, seed, dataset),
                        ![v].ss_programs = seed, ![v].dataset = dataset,
                        ![v].key = seed]
    /\ UNCHANGED <<fpcr, jit_write, pc, run>>

SetNativeLoop(v, enabled) ==
    /\ pc = "idle" /\ vm[v] # NoVm
    /\ vm' = [vm EXCEPT ![v].use_native_loop = enabled]
    /\ UNCHANGED <<fpcr, jit_write, pc, run>>

PrepareScratchpad(v, input) ==
    /\ pc = "idle" /\ vm[v] # NoVm
    /\ vm' = [vm EXCEPT ![v].scratchpad = input, ![v].pipeline_state = input,
                        ![v].ready = input]
    /\ UNCHANGED <<fpcr, jit_write, pc, run>>
-----------------------------------------------------------------------------
(* A hash starts: the rounding mode is saved, and then set once for all    *)
(* programs.                                                               *)
Begin(v, state, pad, next, expected) ==
    /\ pc = "idle" /\ vm[v] # NoVm
    /\ run' = [vm |-> v, saved |-> fpcr, chain |-> 0, state |-> state,
               scratchpad |-> pad, data |-> {}, exact |-> TRUE,
               next |-> next, carried |-> Nearest, expected |-> expected]
    /\ pc' = "program"
    /\ UNCHANGED jit_write

StartMode == Nearest

(* calculate_hash; it refills the scratchpad but leaves pipeline_state, so *)
(* a pipeline on this VM has to be prepared again.                         *)
CalculateHash(v, input) ==
    /\ Begin(v, input, input, None, input)
    /\ fpcr' = StartMode
    /\ vm' = [vm EXCEPT ![v].scratchpad = input, ![v].ready = None]

(* calculate_hash_pipelined *)
CalculateHashPipelined(v, next) ==
    /\ Begin(v, vm[v].pipeline_state, vm[v].scratchpad, next, vm[v].ready)
    /\ fpcr' = StartMode
    /\ UNCHANGED vm
-----------------------------------------------------------------------------
(* execute_vm_inner, once per chain.                                       *)
M == vm[run.vm]
Current == [state |-> run.state, chain |-> run.chain]

native_loop_applies(m) ==
    /\ m.use_native_loop /\ m.version = "V1"
    /\ m.dataset # None /\ m.jit # NoJit

Path == CASE native_loop_applies(M) -> "NativeLoop"
          [] M.jit = NoJit -> "Interpreter"
          [] OTHER -> "Body"

(* fill_aes_4rx4 and compile_program; with a JIT the code is emitted. *)
FillProgram ==
    /\ pc = "program"
    /\ pc' = IF Path = "Interpreter" THEN "execute" ELSE "write"
    /\ UNCHANGED <<vm, fpcr, jit_write, run>>

(* JitMemory::write_code makes the region writable ... *)
EnableWrite ==
    /\ pc = "write"
    /\ pc' = "protect"
    /\ IF platform = "darwin"
       THEN jit_write' = TRUE /\ UNCHANGED vm
       ELSE vm' = [vm EXCEPT ![run.vm].jit.prot = "rw"] /\ UNCHANGED jit_write
    /\ UNCHANGED <<fpcr, run>>

(* Faulty variant: the native loop is compiled once, and then reused. *)
CodeReused ==
    IF Path = "NativeLoop" /\ M.jit.kind = "NativeLoop" THEN M.jit.code ELSE Current

Code == Current

WriteProtection == FALSE

(* ... copies the code, and makes it executable; compile and               *)
(* compile_native_loop then note its ABI.                                  *)
WriteCode ==
    /\ pc = "protect"
    /\ pc' = "execute"
    /\ jit_write' = WriteProtection
    /\ vm' = [vm EXCEPT ![run.vm].jit =
                [kind |-> Path, code |-> Code,
                 prot |-> IF platform = "darwin" THEN "rwx" ELSE "rx"]]
    /\ UNCHANGED <<fpcr, run>>

(* mprotect fails, before the copy or after it: protect panics, and the    *)
(* worker's thread ends.                                                   *)
ProtectFails ==
    /\ pc \in {"write", "protect"} /\ platform = "linux"
    /\ vm' = IF pc = "write" THEN vm ELSE [vm EXCEPT ![run.vm].jit.code = Code]
    /\ pc' = "panicked"
    /\ UNCHANGED <<fpcr, jit_write, run>>

(* The data a program reads: the dataset, or items computed from the cache *)
(* and the superscalar programs.                                           *)
Data(m) == IF m.dataset # None THEN m.dataset
           ELSE IF m.cache_memory = m.ss_programs THEN m.cache_memory ELSE None

(* Is the resident code this program's, for the ABI it is called with, and *)
(* executable?                                                             *)
Callable ==
    /\ M.jit.kind = Path /\ M.jit.code = Current
    /\ M.jit.prot \in {"rx", "rwx"} /\ ~jit_write

(* CFROUND sets any mode, and it stays. *)
ModeLeft(m) == m

(* All iterations of a program, and the digest that seeds the next.        *)
Execute(m) ==
    /\ pc = "execute"
    /\ fpcr' = ModeLeft(m)
    /\ run' = [run EXCEPT !.data = @ \cup {Data(M)},
                          !.exact = /\ @ /\ fpcr = run.carried
                                    /\ Path = "Interpreter" \/ Callable,
                          !.chain = IF @ + 1 < Chains THEN @ + 1 ELSE @,
                          !.carried = m]
    /\ pc' = IF run.chain + 1 < Chains THEN "program" ELSE "finish"
    /\ UNCHANGED <<vm, jit_write>>

(* Faulty variant: only the scratchpad is prepared for the next hash. *)
PipelineAfterKept(m, next) == m.pipeline_state

PipelineAfter(m, next) == IF next = None THEN m.pipeline_state ELSE next

(* Faulty variant: the restore is missing. *)
RestoredNot == fpcr

Restored == run.saved

(* The scratchpad is hashed, and filled for the next input of a pipeline   *)
(* or left as the programs wrote it; the rounding mode is restored.        *)
Finish ==
    /\ pc = "finish"
    /\ vm' = [vm EXCEPT ![run.vm].scratchpad = run.next,
                        ![run.vm].pipeline_state = PipelineAfter(M, run.next),
                        ![run.vm].ready = run.next]
    /\ fpcr' = Restored
    /\ pc' = "returned"
    /\ UNCHANGED <<jit_write, run>>

(* The caller takes the hash. *)
Return ==
    /\ pc = "returned"
    /\ pc' = "idle" /\ run' = NoRun
    /\ UNCHANGED <<vm, fpcr, jit_write>>

(* A panicked thread is gone. *)
Gone == pc = "panicked" /\ UNCHANGED vars
-----------------------------------------------------------------------------
Step ==
    \/ \E v \in Vms, seed \in Seeds, version \in Versions, jit \in NewJit :
            NewLight(v, seed, version, jit) \/ NewFull(v, seed, version, jit)
    \/ \E v \in Vms, seed \in Seeds : Reinit(v, seed, None) \/ Reinit(v, seed, seed)
    \/ \E v \in Vms, enabled \in BOOLEAN : SetNativeLoop(v, enabled)
    \/ \E v \in Vms, input \in Inputs :
            \/ PrepareScratchpad(v, input)
            \/ CalculateHash(v, input)
            \/ CalculateHashPipelined(v, input)
    \/ FillProgram \/ EnableWrite \/ WriteCode \/ ProtectFails
    \/ \E m \in Modes : Execute(m)
    \/ Finish \/ Return \/ Gone

Next == Step /\ UNCHANGED platform

Spec == Init /\ [][Next]_vars
-----------------------------------------------------------------------------
Result == [state |-> run.state, scratchpad |-> run.scratchpad,
           data |-> IF run.data = {M.key} THEN M.key ELSE None,
           version |-> M.version, exact |-> run.exact]

(* Every hash a VM returns is the RandomX hash of its input under the VM's *)
(* latest key and version, on every path and whatever was called before;   *)
(* a pipelined one as long as its pipeline was prepared and no             *)
(* calculate_hash came between.                                            *)
HashIsReference ==
    pc = "returned" /\ run.expected # None =>
        Result = Reference(run.expected, M.key, M.version)

(* Emitted code is only called for the program and the ABI it was emitted  *)
(* for, and when the thread may execute it.                                *)
CodeIsCurrent ==
    pc = "execute" /\ Path # "Interpreter" => Callable

(* Outside a hash the thread has the rounding mode it came with.           *)
RoundingContained == pc \in {"idle", "returned"} => fpcr = CallerMode
=============================================================================
