-------------------------- MODULE MCReceiverClock --------------------------
(* The receiver's clocks over every kind of schedule: all user, all three  *)
(* beneficiaries with even and odd splits, and the two-value ring of level *)
(* 100.                                                                    *)
EXTENDS ReceiverClock
=============================================================================
