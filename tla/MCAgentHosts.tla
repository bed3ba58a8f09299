---------------------------- MODULE MCAgentHosts ----------------------------
EXTENDS AgentHosts

CONSTANT f1

MCRequesters == Forwards \cup ToolCalls

=============================================================================
