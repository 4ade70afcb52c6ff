------------------------ MODULE MCOrchestrationChain ------------------------
EXTENDS OrchestrationChain, TLC
CONSTANTS c1, c2, t1
=============================================================================
