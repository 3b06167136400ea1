--------------------------- MODULE MCRandomXData ---------------------------
(***************************************************************************)
(* What is built once for a key, in two parts that share no state:         *)
(*   - "memory": RandomXData.  Lanes of 8 to 20 blocks, from sizes that    *)
(*     divide evenly into segments and sizes that do not; seven items on   *)
(*     none to nine requested threads: a last chunk that is shorter,       *)
(*     threads without a chunk, and chunks shorter and longer than a       *)
(*     progress step;                                                      *)
(*   - "programs": Superscalar, on three registers, one of them the one    *)
(*     that needs a displacement, with a simulated CPU of seven cycles.    *)
(***************************************************************************)
EXTENDS RandomXData, Superscalar

VARIABLE part

(* Values for the variables of the part that does not run. *)
ProgramsIdle ==
    /\ at = "idle" /\ slots = <<>> /\ current = null
    /\ registers = [r \in Registers |-> NewRegister]
    /\ port_busy = [c \in 0 .. 0 |-> {}] /\ ports_saturated = FALSE /\ output = <<>>
    /\ decode_cycle = 0 /\ cycle = 0 /\ dep_cycle = 0 /\ buffer_index = 0
    /\ macro_op_index = 0 /\ program_size = 0 /\ mul_count = 0
    /\ throw_away_count = 0 /\ uops = 0

MCInit == \/ part = "memory" /\ DataInit /\ ProgramsIdle
          \/ /\ part = "programs" /\ GeneratorInit
             /\ DataInit /\ memory_blocks = 8 /\ num_threads = 0 /\ ~cache_empty

MCNext == /\ UNCHANGED part
          /\ \/ part = "memory" /\ DataNext /\ UNCHANGED generatorVars
             \/ /\ part = "programs" /\ GeneratorNext
                /\ UNCHANGED <<vars, datasetVars>>

MCSpec == MCInit /\ [][MCNext]_<<part, vars, datasetVars, generatorVars>>
=============================================================================
