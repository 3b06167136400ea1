--------------------------- MODULE HashVm_proofs ---------------------------
(***************************************************************************)
(* Proofs about HashVm, for every number of VMs, keys, inputs, chained     *)
(* programs and rounding modes.                                            *)
(***************************************************************************)
EXTENDS HashVm, TLAPS

Run == [vm : Vms, saved : Modes, chain : 0 .. Chains - 1, state : Input,
        scratchpad : Input, data : SUBSET (Seeds \cup {None}),
        exact : BOOLEAN, next : Input, carried : Modes, expected : Input]

Hashing == {"program", "write", "protect", "execute", "finish"}

TypeOK ==
    /\ platform \in {"darwin", "linux"}
    /\ vm \in [Vms -> Vm \cup {NoVm}]
    /\ fpcr \in Modes /\ jit_write \in BOOLEAN
    /\ pc \in Hashing \cup {"idle", "returned", "panicked"}
    /\ run \in Run \cup {NoRun}
    /\ pc # "idle" => run \in Run /\ M \in Vm

(* The data of a VM is always its latest key's, whichever mode it was      *)
(* switched to, and a prepared pipeline has the scratchpad and the state   *)
(* of the same input.                                                      *)
VmInv ==
    \A v \in Vms : vm[v] # NoVm =>
        /\ Data(vm[v]) = vm[v].key
        /\ vm[v].ready # None =>
             /\ vm[v].scratchpad = vm[v].ready
             /\ vm[v].pipeline_state = vm[v].ready

(* The rounding mode: the caller's outside a hash, and inside it the one   *)
(* the program before left.                                                *)
ModeInv ==
    /\ pc \in {"idle", "returned"} => fpcr = CallerMode
    /\ pc # "idle" => run.saved = CallerMode
    /\ pc \in Hashing => run.carried = fpcr

(* The emitted code: written and protected before it is called. *)
CodeInv ==
    /\ jit_write => pc = "protect" /\ platform = "darwin"
    /\ pc \in {"write", "protect"} => M.jit # NoJit
    /\ CodeIsCurrent

(* The hash under way is the hash it should be. *)
RunInv ==
    pc # "idle" =>
        /\ run.exact = TRUE
        /\ run.expected # None =>
             run.state = run.expected /\ run.scratchpad = run.expected
        /\ run.data \subseteq {M.key}
        /\ pc \in {"finish", "returned"} => run.data = {M.key}

HashInv == TypeOK /\ VmInv /\ ModeInv /\ CodeInv /\ RunInv
-----------------------------------------------------------------------------
USE DEF vars, NoRun

(* A VM is not the absent one, and its fields have their types. *)
LEMMA VmFields ==
    ASSUME NEW m \in Vm
    PROVE  /\ m # NoVm
           /\ m.cache_memory \in Seeds \cup {None} /\ m.ss_programs \in Seeds
           /\ m.dataset \in Seeds \cup {None} /\ m.version \in Versions
           /\ m.jit \in Jit \cup {NoJit} /\ m.use_native_loop \in BOOLEAN
           /\ m.scratchpad \in Input /\ m.pipeline_state \in Input
           /\ m.key \in Seeds /\ m.ready \in Input
<1>1. m.version # None
  BY HashAssumption DEF Vm, None
<1>2. NoVm.version = None
  BY DEF NoVm
<1>3. QED
  BY <1>1, <1>2 DEF Vm

LEMMA PathCases ==
    /\ Path \in {"NativeLoop", "Interpreter", "Body"}
    /\ Path = "Interpreter" <=> M.jit = NoJit
<1>1. CASE native_loop_applies(M)
  BY <1>1 DEF Path, native_loop_applies
<1>2. CASE ~native_loop_applies(M) /\ M.jit = NoJit
  BY <1>2 DEF Path
<1>3. CASE ~native_loop_applies(M) /\ M.jit # NoJit
  BY <1>3 DEF Path
<1>4. QED
  BY <1>1, <1>2, <1>3

(* Between hashes a VM may be replaced by any other that is consistent. *)
Consistent(m) ==
    /\ m \in Vm /\ Data(m) = m.key
    /\ m.ready # None => m.scratchpad = m.ready /\ m.pipeline_state = m.ready

LEMMA IdleStep ==
    ASSUME HashInv, pc = "idle", UNCHANGED <<platform, fpcr, jit_write, pc, run>>,
           NEW v \in Vms, NEW m, Consistent(m),
           vm' = [vm EXCEPT ![v] = m]
    PROVE  HashInv'
<1> USE DEF HashInv, Consistent
<1>1. vm' \in [Vms -> Vm \cup {NoVm}]
  BY DEF TypeOK
<1>2. VmInv'
  BY DEF TypeOK, VmInv
<1>3. TypeOK'
  BY <1>1 DEF TypeOK
<1>4. ModeInv' /\ RunInv'
  BY DEF ModeInv, RunInv, Hashing
<1>5. CodeInv'
  BY DEF CodeInv, CodeIsCurrent
<1>6. QED
  BY <1>2, <1>3, <1>4, <1>5

LEMMA NewStep ==
    ASSUME HashInv, UNCHANGED platform,
           NEW v \in Vms, NEW seed \in Seeds, NEW version \in Versions,
           NEW jit \in NewJit,
           NewLight(v, seed, version, jit) \/ NewFull(v, seed, version, jit)
    PROVE  HashInv'
<1>1. jit \in Jit \cup {NoJit}
  BY HashAssumption DEF NewJit, Jit, Program, NoProgram, Input
<1>2. ASSUME NEW dataset \in {None, seed}, NEW cache \in {None, seed},
             dataset = None => cache = seed,
             New(v, seed, version, dataset, cache, jit)
      PROVE  HashInv'
  <2> DEFINE m == [cache_memory |-> cache, ss_programs |-> seed,
                 dataset |-> dataset, version |-> version,
                 jit |-> jit, use_native_loop |-> TRUE,
                 scratchpad |-> None, pipeline_state |-> None,
                 key |-> seed, ready |-> None]
  <2>1. m \in Vm
    BY <1>1, <1>2 DEF Vm, Input
  <2>2. Consistent(m)
    BY <1>2, <2>1 DEF Consistent, Data
  <2>3. vm' = [vm EXCEPT ![v] = m] /\ pc = "idle"
        /\ UNCHANGED <<fpcr, jit_write, pc, run>>
    BY <1>2 DEF New
  <2> HIDE DEF m
  <2>4. QED
    BY <2>2, <2>3, IdleStep
<1>3. CASE NewLight(v, seed, version, jit)
  BY <1>2, <1>3 DEF NewLight
<1>4. CASE NewFull(v, seed, version, jit)
  <2>1. New(v, seed, version, seed, None, jit)
    BY <1>4 DEF NewFull
  <2>2. CASE seed = None
    BY <1>2, <2>1, <2>2
  <2>3. CASE seed # None
    BY <1>2, <2>1, <2>3
  <2>4. QED
    BY <2>2, <2>3
<1>5. QED
  BY <1>3, <1>4

LEMMA ReinitStep ==
    ASSUME HashInv, UNCHANGED platform, NEW v \in Vms, NEW seed \in Seeds,
           NEW dataset \in {None, seed}, Reinit(v, seed, dataset)
    PROVE  HashInv'
<1>1. vm[v] \in Vm /\ vm[v] # NoVm
  BY DEF Reinit, HashInv, TypeOK
<1> DEFINE m == [vm[v] EXCEPT !.cache_memory = CacheFor(v, seed, dataset),
                              !.ss_programs = seed, !.dataset = dataset,
                              !.key = seed]
<1>2. CacheFor(v, seed, dataset) \in Seeds \cup {None}
  BY DEF CacheFor
<1>3. /\ m \in Vm /\ m.cache_memory = CacheFor(v, seed, dataset)
      /\ m.ss_programs = seed /\ m.dataset = dataset /\ m.key = seed
      /\ m.ready = vm[v].ready /\ m.scratchpad = vm[v].scratchpad
      /\ m.pipeline_state = vm[v].pipeline_state
  BY <1>1, <1>2 DEF Vm
<1>4. vm' = [vm EXCEPT ![v] = m]
  BY DEF Reinit, HashInv, TypeOK
<1> HIDE DEF m
<1>5. Data(m) = m.key
  BY <1>3 DEF Data, CacheFor
<1>6. Consistent(m)
  BY <1>1, <1>3, <1>5 DEF Consistent, HashInv, VmInv
<1>7. QED
  BY <1>4, <1>6, IdleStep DEF Reinit

LEMMA SwitchStep ==
    ASSUME HashInv, UNCHANGED platform, NEW v \in Vms, NEW enabled \in BOOLEAN,
           SetNativeLoop(v, enabled)
    PROVE  HashInv'
<1>1. vm[v] \in Vm /\ vm[v] # NoVm
  BY DEF SetNativeLoop, HashInv, TypeOK
<1> DEFINE m == [vm[v] EXCEPT !.use_native_loop = enabled]
<1>2. /\ m \in Vm /\ m.cache_memory = vm[v].cache_memory
      /\ m.ss_programs = vm[v].ss_programs /\ m.dataset = vm[v].dataset
      /\ m.key = vm[v].key
      /\ m.ready = vm[v].ready /\ m.scratchpad = vm[v].scratchpad
      /\ m.pipeline_state = vm[v].pipeline_state
  BY <1>1 DEF Vm
<1>3. vm' = [vm EXCEPT ![v] = m]
  BY DEF SetNativeLoop, HashInv, TypeOK
<1> HIDE DEF m
<1>4. Consistent(m)
  BY <1>1, <1>2 DEF Consistent, HashInv, VmInv, Data
<1>5. QED
  BY <1>3, <1>4, IdleStep DEF SetNativeLoop

LEMMA PrepareStep ==
    ASSUME HashInv, UNCHANGED platform, NEW v \in Vms, NEW input \in Inputs,
           PrepareScratchpad(v, input)
    PROVE  HashInv'
<1>1. vm[v] \in Vm /\ vm[v] # NoVm
  BY DEF PrepareScratchpad, HashInv, TypeOK
<1> DEFINE m == [vm[v] EXCEPT !.scratchpad = input, !.pipeline_state = input,
                              !.ready = input]
<1>2. /\ m \in Vm /\ m.cache_memory = vm[v].cache_memory
      /\ m.ss_programs = vm[v].ss_programs /\ m.dataset = vm[v].dataset
      /\ m.key = vm[v].key
      /\ m.ready = input /\ m.scratchpad = input /\ m.pipeline_state = input
  BY <1>1 DEF Vm, Input
<1>3. vm' = [vm EXCEPT ![v] = m]
  BY DEF PrepareScratchpad, HashInv, TypeOK
<1> HIDE DEF m
<1>4. Consistent(m)
  BY <1>1, <1>2 DEF Consistent, HashInv, VmInv, Data
<1>5. QED
  BY <1>3, <1>4, IdleStep DEF PrepareScratchpad
-----------------------------------------------------------------------------
(* A hash starts on a VM that may have been changed, to one that is        *)
(* consistent and has the same key.                                        *)
LEMMA BeginStep ==
    ASSUME HashInv, UNCHANGED platform, NEW v \in Vms, NEW m, Consistent(m),
           NEW state \in Input, NEW pad \in Input, NEW next \in Input,
           NEW expected \in Input,
           expected # None => state = expected /\ pad = expected,
           Begin(v, state, pad, next, expected), fpcr' = StartMode,
           vm' = [vm EXCEPT ![v] = m]
    PROVE  HashInv'
<1> USE DEF HashInv
<1>1. m \in Vm /\ m # NoVm
  BY VmFields DEF Consistent
<1>2. /\ run' = [vm |-> v, saved |-> fpcr, chain |-> 0, state |-> state,
                 scratchpad |-> pad, data |-> {}, exact |-> TRUE,
                 next |-> next, carried |-> Nearest, expected |-> expected]
      /\ pc = "idle" /\ pc' = "program" /\ jit_write' = jit_write
      /\ fpcr' = Nearest
  BY DEF Begin, StartMode
<1>3. run' \in Run
  BY <1>2, HashAssumption DEF Run, TypeOK
<1>4. /\ run'.vm = v /\ run'.saved = fpcr /\ run'.state = state
      /\ run'.scratchpad = pad /\ run'.data = {} /\ run'.exact = TRUE
      /\ run'.carried = Nearest /\ run'.expected = expected
  BY <1>2
<1>5. M' = m /\ vm' \in [Vms -> Vm \cup {NoVm}]
  BY <1>1, <1>4 DEF M, TypeOK
<1>6. TypeOK'
  BY <1>1, <1>2, <1>3, <1>5, HashAssumption DEF TypeOK, Hashing
<1>7. VmInv'
  BY <1>1 DEF VmInv, TypeOK, Consistent
<1>8. ModeInv'
  BY <1>2, <1>4 DEF ModeInv
<1>9. CodeInv'
  BY <1>2 DEF CodeInv, CodeIsCurrent
<1>10. RunInv'
  BY <1>2, <1>4 DEF RunInv
<1>11. QED
  BY <1>6, <1>7, <1>8, <1>9, <1>10

LEMMA CalculateHashStep ==
    ASSUME HashInv, UNCHANGED platform, NEW v \in Vms, NEW input \in Inputs,
           CalculateHash(v, input)
    PROVE  HashInv'
<1>1. vm[v] \in Vm /\ vm[v] # NoVm
  BY DEF CalculateHash, Begin, HashInv, TypeOK
<1> DEFINE m == [vm[v] EXCEPT !.scratchpad = input, !.ready = None]
<1>2. /\ m \in Vm /\ m.cache_memory = vm[v].cache_memory
      /\ m.ss_programs = vm[v].ss_programs /\ m.dataset = vm[v].dataset
      /\ m.key = vm[v].key /\ m.ready = None
  BY <1>1 DEF Vm, Input
<1>3. vm' = [vm EXCEPT ![v] = m]
  BY DEF CalculateHash, HashInv, TypeOK
<1> HIDE DEF m
<1>4. Consistent(m)
  BY <1>1, <1>2 DEF Consistent, HashInv, VmInv, Data
<1>5. QED
  BY <1>3, <1>4, BeginStep DEF CalculateHash, Input

LEMMA PipelinedStep ==
    ASSUME HashInv, UNCHANGED platform, NEW v \in Vms, NEW next \in Inputs,
           CalculateHashPipelined(v, next)
    PROVE  HashInv'
<1>1. vm[v] \in Vm /\ vm[v] # NoVm
  BY DEF CalculateHashPipelined, Begin, HashInv, TypeOK
<1>2. Consistent(vm[v])
  BY <1>1 DEF Consistent, HashInv, VmInv
<1>3. vm' = [vm EXCEPT ![v] = vm[v]]
  BY DEF CalculateHashPipelined, HashInv, TypeOK
<1>4. PICK m : m = vm[v]
  OBVIOUS
<1>5. /\ m.pipeline_state \in Input /\ m.scratchpad \in Input /\ m.ready \in Input
      /\ next \in Input
  BY <1>1, <1>4, VmFields DEF Input
<1>6. m.ready # None => m.pipeline_state = m.ready /\ m.scratchpad = m.ready
  BY <1>2, <1>4 DEF Consistent
<1>7. Begin(v, m.pipeline_state, m.scratchpad, next, m.ready) /\ fpcr' = StartMode
  BY <1>4 DEF CalculateHashPipelined
<1>8. QED
  BY <1>2, <1>3, <1>4, <1>5, <1>6, <1>7, BeginStep

(* A step of a hash that changes at most the JIT of its VM. *)
LEMMA JitStep ==
    ASSUME HashInv, pc \in Hashing, UNCHANGED <<platform, fpcr, run>>,
           NEW j \in Jit \cup {NoJit}, vm' = [vm EXCEPT ![run.vm].jit = j]
    PROVE  /\ vm' \in [Vms -> Vm \cup {NoVm}] /\ VmInv'
           /\ M' \in Vm /\ M'.jit = j
           /\ M'.key = M.key /\ Data(M)' = Data(M)
           /\ M'.use_native_loop = M.use_native_loop
           /\ M'.version = M.version /\ M'.dataset = M.dataset
<1> USE DEF HashInv
<1>1. run \in Run /\ run.vm \in Vms /\ M \in Vm /\ M # NoVm
  BY VmFields DEF TypeOK, Run, Hashing
<1> DEFINE m == [M EXCEPT !.jit = j]
<1>2. /\ m \in Vm /\ m.cache_memory = M.cache_memory
      /\ m.ss_programs = M.ss_programs /\ m.dataset = M.dataset
      /\ m.key = M.key /\ m.ready = M.ready /\ m.scratchpad = M.scratchpad
      /\ m.pipeline_state = M.pipeline_state
      /\ m.use_native_loop = M.use_native_loop /\ m.version = M.version
      /\ m.jit = j
  BY <1>1 DEF Vm
<1>3. vm' = [vm EXCEPT ![run.vm] = m]
  BY <1>1 DEF M, TypeOK
<1> HIDE DEF m
<1>4. M' = m /\ vm' \in [Vms -> Vm \cup {NoVm}]
  BY <1>1, <1>2, <1>3 DEF M, TypeOK
<1>5. Data(m) = Data(M)
  BY <1>2 DEF Data
<1>6. Data(M)' = Data(M)
  BY <1>2, <1>4 DEF Data
<1>7. VmInv'
  <2> SUFFICES ASSUME NEW v \in Vms, vm'[v] # NoVm
               PROVE  /\ Data(vm'[v]) = vm'[v].key
                      /\ vm'[v].ready # None =>
                           /\ vm'[v].scratchpad = vm'[v].ready
                           /\ vm'[v].pipeline_state = vm'[v].ready
    BY DEF VmInv, Data
  <2>1. CASE v = run.vm
    BY <1>1, <1>2, <1>3, <1>5, <2>1 DEF VmInv, M, TypeOK
  <2>2. CASE v # run.vm
    BY <1>3, <2>2 DEF VmInv, TypeOK
  <2>3. QED
    BY <2>1, <2>2
<1>8. QED
  BY <1>2, <1>4, <1>6, <1>7
-----------------------------------------------------------------------------
LEMMA FillStep ==
    ASSUME HashInv, UNCHANGED platform, FillProgram
    PROVE  HashInv'
<1> USE DEF HashInv
<1>1. /\ pc = "program" /\ UNCHANGED <<platform, vm, fpcr, jit_write, run>>
      /\ pc' = IF Path = "Interpreter" THEN "execute" ELSE "write"
  BY DEF FillProgram
<1>2. M' = M /\ Path' = Path /\ VmInv'
  BY <1>1 DEF M, Path, native_loop_applies, VmInv, Data
<1>3. TypeOK'
  BY <1>1, <1>2 DEF TypeOK, Hashing
<1>4. ModeInv' /\ RunInv'
  BY <1>1, <1>2 DEF ModeInv, RunInv, Hashing
<1>5. CodeInv'
  BY <1>1, <1>2, PathCases DEF CodeInv, CodeIsCurrent
<1>6. QED
  BY <1>2, <1>3, <1>4, <1>5

LEMMA EnableWriteStep ==
    ASSUME HashInv, UNCHANGED platform, EnableWrite
    PROVE  HashInv'
<1> USE DEF HashInv
<1>1. pc = "write" /\ pc' = "protect" /\ UNCHANGED <<platform, fpcr, run>>
  BY DEF EnableWrite
<1>2. run \in Run /\ run.vm \in Vms /\ M \in Vm /\ M.jit # NoJit /\ M.jit \in Jit
  BY <1>1, VmFields DEF TypeOK, CodeInv, Run
<1>3. /\ M' \in Vm /\ M'.jit # NoJit /\ M'.key = M.key
      /\ vm' \in [Vms -> Vm \cup {NoVm}] /\ VmInv'
      /\ jit_write' \in BOOLEAN /\ (jit_write' => platform = "darwin")
  <2>1. CASE platform = "darwin"
    BY <1>1, <1>2, <2>1 DEF EnableWrite, M, TypeOK, VmInv, Data
  <2>2. CASE platform # "darwin"
    <3>1. PICK j : j = [M.jit EXCEPT !.prot = "rw"]
      OBVIOUS
    <3>2. j \in Jit /\ j # NoJit
      BY <1>2, <3>1 DEF Jit, NoJit, None
    <3>3. vm' = [vm EXCEPT ![run.vm].jit = j] /\ jit_write' = jit_write
      BY <1>2, <2>2, <3>1 DEF EnableWrite, M
    <3>4. QED
      BY <1>1, <3>2, <3>3, JitStep DEF Hashing, TypeOK, CodeInv
  <2>3. QED
    BY <2>1, <2>2
<1>4. TypeOK'
  BY <1>1, <1>2, <1>3 DEF TypeOK, Hashing
<1>5. ModeInv' /\ RunInv'
  BY <1>1, <1>3 DEF ModeInv, RunInv, Hashing
<1>6. CodeInv'
  BY <1>1, <1>3 DEF CodeInv, CodeIsCurrent
<1>7. QED
  BY <1>3, <1>4, <1>5, <1>6

(* The program being run is a program. *)
LEMMA CurrentIsProgram ==
    ASSUME run \in Run
    PROVE  Current \in Program
BY DEF Run, Current, Program

LEMMA WriteCodeStep ==
    ASSUME HashInv, UNCHANGED platform, WriteCode
    PROVE  HashInv'
<1> USE DEF HashInv
<1>1. /\ pc = "protect" /\ pc' = "execute" /\ jit_write' = FALSE
      /\ UNCHANGED <<platform, fpcr, run>>
  BY DEF WriteCode, WriteProtection
<1>2. run \in Run /\ M \in Vm /\ M.jit # NoJit
  BY <1>1 DEF TypeOK, CodeInv
<1>3. PICK j : j = [kind |-> Path, code |-> Current,
                    prot |-> IF platform = "darwin" THEN "rwx" ELSE "rx"]
  OBVIOUS
<1>4. /\ j \in Jit /\ j # NoJit /\ j.kind = Path /\ j.code = Current
      /\ j.prot \in {"rx", "rwx"} /\ j.kind # "absent"
  BY <1>2, <1>3, PathCases, CurrentIsProgram DEF Jit, NoJit
<1>5. vm' = [vm EXCEPT ![run.vm].jit = j]
  BY <1>3 DEF WriteCode, Code
<1>6. /\ M' \in Vm /\ M'.jit = j /\ M'.key = M.key /\ VmInv'
      /\ vm' \in [Vms -> Vm \cup {NoVm}]
      /\ M'.use_native_loop = M.use_native_loop
      /\ M'.version = M.version /\ M'.dataset = M.dataset
  BY <1>1, <1>4, <1>5, JitStep DEF Hashing
<1>7. Path' = Path /\ Current' = Current
  <2>1. native_loop_applies(M)' <=> native_loop_applies(M)
    BY <1>2, <1>4, <1>6 DEF native_loop_applies
  <2>2. QED
    BY <1>1, <1>2, <1>4, <1>6, <2>1 DEF Path, Current
<1>8. TypeOK'
  BY <1>1, <1>2, <1>6 DEF TypeOK, Hashing
<1>9. ModeInv' /\ RunInv'
  BY <1>1, <1>6 DEF ModeInv, RunInv, Hashing
<1>10. CodeInv'
  BY <1>1, <1>4, <1>6, <1>7 DEF CodeInv, CodeIsCurrent, Callable
<1>11. QED
  BY <1>6, <1>8, <1>9, <1>10

LEMMA ProtectFailsStep ==
    ASSUME HashInv, UNCHANGED platform, ProtectFails
    PROVE  HashInv'
<1> USE DEF HashInv
<1>1. /\ pc \in {"write", "protect"} /\ pc' = "panicked" /\ platform = "linux"
      /\ UNCHANGED <<platform, fpcr, jit_write, run>>
  BY DEF ProtectFails
<1>2. run \in Run /\ run.vm \in Vms /\ M \in Vm /\ M.jit # NoJit /\ M.jit \in Jit
  BY <1>1, VmFields DEF TypeOK, CodeInv, Run
<1>3. M' \in Vm /\ M'.key = M.key /\ vm' \in [Vms -> Vm \cup {NoVm}] /\ VmInv'
  <2>1. CASE pc = "write"
    BY <1>1, <1>2, <2>1 DEF ProtectFails, M, TypeOK, VmInv, Data
  <2>2. CASE pc = "protect"
    <3>1. PICK j : j = [M.jit EXCEPT !.code = Current]
      OBVIOUS
    <3>2. j \in Jit
      BY <1>2, <3>1, CurrentIsProgram DEF Jit
    <3>3. vm' = [vm EXCEPT ![run.vm].jit = j]
      BY <1>2, <2>2, <3>1 DEF ProtectFails, M, Code
    <3>4. QED
      BY <1>1, <3>2, <3>3, JitStep DEF Hashing
  <2>3. QED
    BY <1>1, <2>1, <2>2
<1>4. TypeOK'
  BY <1>1, <1>2, <1>3 DEF TypeOK, Hashing
<1>5. ModeInv' /\ RunInv'
  BY <1>1, <1>3 DEF ModeInv, RunInv, Hashing
<1>6. CodeInv'
  BY <1>1 DEF CodeInv, CodeIsCurrent
<1>7. QED
  BY <1>3, <1>4, <1>5, <1>6

(* A program runs as itself, on its key's data, in the mode it found. *)
LEMMA ExecuteStep ==
    ASSUME HashInv, UNCHANGED platform, NEW m \in Modes, Execute(m)
    PROVE  HashInv'
<1> USE DEF HashInv
<1>1. /\ pc = "execute" /\ fpcr' = m /\ UNCHANGED <<platform, vm, jit_write>>
      /\ pc' = IF run.chain + 1 < Chains THEN "program" ELSE "finish"
  BY DEF Execute, ModeLeft
<1>2. run \in Run /\ run.vm \in Vms /\ M \in Vm /\ M # NoVm /\ M.key \in Seeds
  BY <1>1, VmFields DEF TypeOK, Run
<1>3. Data(M) = M.key
  BY <1>2 DEF VmInv, M
<1>4. fpcr = run.carried /\ run.exact = TRUE
  BY <1>1 DEF ModeInv, RunInv, Hashing
<1>5. Path = "Interpreter" \/ Callable
  BY <1>1 DEF CodeInv, CodeIsCurrent
<1>6. PICK c : c = IF run.chain + 1 < Chains THEN run.chain + 1 ELSE run.chain
  OBVIOUS
<1>7. c \in 0 .. Chains - 1
  BY <1>2, <1>6, HashAssumption DEF Run
<1>8. run' = [run EXCEPT !.data = run.data \cup {M.key}, !.exact = TRUE,
                         !.chain = c, !.carried = m]
  <2>1. (/\ run.exact /\ fpcr = run.carried
         /\ Path = "Interpreter" \/ Callable) = TRUE
    BY <1>4, <1>5
  <2>2. QED
    BY <1>2, <1>3, <1>6, <2>1 DEF Execute
<1>9. run' \in Run
  BY <1>2, <1>7, <1>8 DEF Run
<1>10. /\ run'.vm = run.vm /\ run'.saved = run.saved /\ run'.carried = m
       /\ run'.exact = TRUE /\ run'.data = run.data \cup {M.key}
       /\ run'.expected = run.expected /\ run'.state = run.state
       /\ run'.scratchpad = run.scratchpad
  BY <1>2, <1>8 DEF Run
<1>11. M' = M /\ VmInv'
  BY <1>1, <1>10 DEF M, VmInv, Data
<1>12. TypeOK'
  BY <1>1, <1>2, <1>9, <1>11 DEF TypeOK, Hashing
<1>13. ModeInv'
  BY <1>1, <1>10 DEF ModeInv, Hashing
<1>14. RunInv'
  BY <1>1, <1>10, <1>11 DEF RunInv
<1>15. CodeInv'
  BY <1>1 DEF CodeInv, CodeIsCurrent
<1>16. QED
  BY <1>11, <1>12, <1>13, <1>14, <1>15

LEMMA FinishStep ==
    ASSUME HashInv, UNCHANGED platform, Finish
    PROVE  HashInv'
<1> USE DEF HashInv
<1>1. /\ pc = "finish" /\ pc' = "returned"
      /\ UNCHANGED <<platform, jit_write, run>> /\ fpcr' = run.saved
  BY DEF Finish, Restored
<1>2. /\ run \in Run /\ run.vm \in Vms /\ run.next \in Input /\ run.saved = CallerMode
      /\ M \in Vm /\ M # NoVm
  BY <1>1, VmFields DEF TypeOK, Run, ModeInv
<1> DEFINE m == [M EXCEPT !.scratchpad = run.next,
                          !.pipeline_state = PipelineAfter(M, run.next),
                          !.ready = run.next]
<1>3. PipelineAfter(M, run.next) \in Input
  BY <1>2, VmFields DEF PipelineAfter
<1>4. /\ m \in Vm /\ m.cache_memory = M.cache_memory
      /\ m.ss_programs = M.ss_programs /\ m.dataset = M.dataset
      /\ m.key = M.key /\ m.ready = run.next /\ m.scratchpad = run.next
      /\ m.pipeline_state = PipelineAfter(M, run.next)
  BY <1>2, <1>3 DEF Vm
<1>5. vm' = [vm EXCEPT ![run.vm] = m]
  BY <1>2 DEF Finish, M, TypeOK
<1> HIDE DEF m
<1>6. Data(m) = m.key
  BY <1>2, <1>4 DEF Data, VmInv, M
<1>7. M' = m /\ vm' \in [Vms -> Vm \cup {NoVm}]
  BY <1>1, <1>2, <1>4, <1>5 DEF M, TypeOK
<1>8. VmInv'
  <2> SUFFICES ASSUME NEW v \in Vms, vm'[v] # NoVm
               PROVE  /\ Data(vm'[v]) = vm'[v].key
                      /\ vm'[v].ready # None =>
                           /\ vm'[v].scratchpad = vm'[v].ready
                           /\ vm'[v].pipeline_state = vm'[v].ready
    BY DEF VmInv, Data
  <2>1. CASE v = run.vm
    BY <1>2, <1>4, <1>5, <1>6, <2>1 DEF TypeOK, PipelineAfter
  <2>2. CASE v # run.vm
    BY <1>5, <2>2 DEF VmInv, TypeOK
  <2>3. QED
    BY <2>1, <2>2
<1>9. TypeOK'
  BY <1>1, <1>2, <1>4, <1>7, HashAssumption DEF TypeOK, Hashing
<1>10. ModeInv' /\ RunInv'
  BY <1>1, <1>2, <1>4, <1>7 DEF ModeInv, RunInv, Hashing
<1>11. CodeInv'
  BY <1>1 DEF CodeInv, CodeIsCurrent
<1>12. QED
  BY <1>8, <1>9, <1>10, <1>11

LEMMA ReturnStep ==
    ASSUME HashInv, UNCHANGED platform, Return
    PROVE  HashInv'
<1> USE DEF HashInv
<1>1. /\ pc = "returned" /\ pc' = "idle" /\ run' = NoRun
      /\ UNCHANGED <<platform, vm, fpcr, jit_write>>
  BY DEF Return
<1>2. VmInv'
  BY <1>1 DEF VmInv, Data
<1>3. TypeOK'
  BY <1>1 DEF TypeOK
<1>4. ModeInv' /\ RunInv'
  BY <1>1 DEF ModeInv, RunInv, Hashing
<1>5. CodeInv'
  BY <1>1 DEF CodeInv, CodeIsCurrent
<1>6. QED
  BY <1>2, <1>3, <1>4, <1>5

LEMMA StutterStep ==
    ASSUME HashInv, UNCHANGED vars
    PROVE  HashInv'
BY DEF HashInv, TypeOK, VmInv, Data, ModeInv, CodeInv, CodeIsCurrent, Callable,
       Current, Path, native_loop_applies, RunInv, M

LEMMA InitHash ==
    ASSUME Init
    PROVE  HashInv
<1>1. TypeOK
  BY HashAssumption DEF Init, TypeOK
<1>2. VmInv /\ ModeInv /\ RunInv
  BY DEF Init, VmInv, ModeInv, RunInv, Hashing
<1>3. CodeInv
  BY DEF Init, CodeInv, CodeIsCurrent
<1>4. QED
  BY <1>1, <1>2, <1>3 DEF HashInv

LEMMA NextStep ==
    ASSUME HashInv, [Next]_vars
    PROVE  HashInv'
<1>1. CASE UNCHANGED vars
  BY <1>1, StutterStep
<1> SUFFICES ASSUME Step, UNCHANGED platform
             PROVE  HashInv'
  BY <1>1 DEF Next
<1>2. ASSUME NEW v \in Vms, NEW seed \in Seeds, NEW version \in Versions,
             NEW jit \in NewJit,
             NewLight(v, seed, version, jit) \/ NewFull(v, seed, version, jit)
      PROVE  HashInv'
  BY <1>2, NewStep
<1>3. ASSUME NEW v \in Vms, NEW seed \in Seeds,
             Reinit(v, seed, None) \/ Reinit(v, seed, seed)
      PROVE  HashInv'
  BY <1>3, ReinitStep
<1>4. ASSUME NEW v \in Vms, NEW enabled \in BOOLEAN, SetNativeLoop(v, enabled)
      PROVE  HashInv'
  BY <1>4, SwitchStep
<1>5. ASSUME NEW v \in Vms, NEW input \in Inputs,
             \/ PrepareScratchpad(v, input)
             \/ CalculateHash(v, input)
             \/ CalculateHashPipelined(v, input)
      PROVE  HashInv'
  BY <1>5, PrepareStep, CalculateHashStep, PipelinedStep
<1>6. CASE FillProgram \/ EnableWrite \/ WriteCode \/ ProtectFails
  BY <1>6, FillStep, EnableWriteStep, WriteCodeStep, ProtectFailsStep
<1>7. ASSUME NEW m \in Modes, Execute(m)
      PROVE  HashInv'
  BY <1>7, ExecuteStep
<1>8. CASE Finish \/ Return \/ Gone
  BY <1>8, FinishStep, ReturnStep, StutterStep DEF Gone
<1>9. QED
  BY <1>2, <1>3, <1>4, <1>5, <1>6, <1>7, <1>8 DEF Step
-----------------------------------------------------------------------------
(* Whatever is called on the thread's VMs and in which order, each VM's    *)
(* data is its latest key's, a prepared pipeline is of one input, and the  *)
(* hash under way is the one that was asked for (RandomXVm in vm.rs).      *)
THEOREM HashInvariant == Spec => []HashInv
<1>1. Init => HashInv
  BY InitHash
<1>2. HashInv /\ [Next]_vars => HashInv'
  BY NextStep
<1>3. QED
  BY <1>1, <1>2, PTL DEF Spec

(* calculate_hash and calculate_hash_pipelined return the RandomX hash of  *)
(* their input under the latest key and version: no reinit, switch of      *)
(* path, other VM of the thread or earlier hash shows in it.               *)
THEOREM HashesAreReference == Spec => []HashIsReference
<1>1. HashInv => HashIsReference
  <2> SUFFICES ASSUME HashInv, pc = "returned", run.expected # None
               PROVE  Result = Reference(run.expected, M.key, M.version)
    BY DEF HashIsReference
  <2>1. /\ run.exact = TRUE /\ run.data = {M.key}
        /\ run.state = run.expected /\ run.scratchpad = run.expected
    BY DEF HashInv, RunInv
  <2>2. QED
    BY <2>1 DEF Result, Reference
<1>2. QED
  BY <1>1, HashInvariant, PTL

(* execute_vm_inner only calls emitted code that is resident for this      *)
(* program and this ABI, in a region the thread may execute.               *)
THEOREM CodeAlwaysCurrent == Spec => []CodeIsCurrent
<1>1. HashInv => CodeIsCurrent
  BY DEF HashInv, CodeInv
<1>2. QED
  BY <1>1, HashInvariant, PTL

(* The rounding mode that programs leave behind is contained: the thread   *)
(* has its own again whenever a hash returns.                              *)
THEOREM RoundingAlwaysContained == Spec => []RoundingContained
<1>1. HashInv => RoundingContained
  BY DEF HashInv, ModeInv, RoundingContained
<1>2. QED
  BY <1>1, HashInvariant, PTL
=============================================================================
