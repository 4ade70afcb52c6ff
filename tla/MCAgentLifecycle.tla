-------------------------- MODULE MCAgentLifecycle --------------------------
EXTENDS AgentLifecycle, TLC
CONSTANTS c1, c2, c3
=============================================================================
