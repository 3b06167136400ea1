-------------------------- MODULE MCMiningWorkers --------------------------
EXTENDS MiningWorkers
=============================================================================
