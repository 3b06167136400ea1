------------------------------- MODULE MCJit -------------------------------
(***************************************************************************)
(* The two sides of the JIT in one run, one or the other:                  *)
(*   - "branches": VmProgram, with every program of three instructions     *)
(*     over two registers, run from every register content;                *)
(*   - "values": NativeCode, for the programs of MCNativeCode.             *)
(***************************************************************************)
EXTENDS VmProgram, TLC

VARIABLES part, program, params, version, iterations, path, stage, npc, cpu, locals

nativeVars == <<program, params, version, iterations, path, stage, npc, cpu, locals>>

Native == INSTANCE MCNativeCode WITH pc <- npc

RegSymmetry == Permutations(Regs)

(* Values for the variables of NativeCode where it does not run. *)
NativeIdle ==
    /\ program = <<>> /\ params = <<>> /\ version = "V1" /\ iterations = 0
    /\ path = "loop" /\ stage = "start" /\ npc = 0 /\ locals = <<>>
    /\ cpu = [wild |-> FALSE]

MCInit == Init /\ \/ part = "branches" /\ NativeIdle
                  \/ part = "values" /\ Native!Init

MCNext == /\ UNCHANGED part
          /\ \/ part = "branches" /\ Next /\ UNCHANGED nativeVars
             \/ part = "values" /\ Native!Next /\ UNCHANGED vars
             \/ part = "values" /\ stage = "done" /\ UNCHANGED <<vars, nativeVars>>

MCSpec == MCInit /\ [][MCNext]_<<part, vars, nativeVars>>

(* NativeCode's LoopImplemented, where NativeCode runs. *)
LoopImplemented ==
    /\ part = "values" => Native!Interpreter!Init
    /\ [][part = "values" =>
            [Native!Interpreter!Next]_(Native!Interpreter!vars)]_nativeVars
CallerUnharmed == Native!CallerUnharmed
=============================================================================
