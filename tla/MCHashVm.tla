------------------------------ MODULE MCHashVm ------------------------------
(* Two VMs on one thread, with two keys, both versions and both backends.  *)
EXTENDS HashVm, TLC

VmSymmetry == Permutations(Vms) \cup Permutations(Seeds) \cup Permutations(Inputs)
=============================================================================
