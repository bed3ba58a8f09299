----------------------------- MODULE MCN8nNode -----------------------------
EXTENDS N8nNode

ItemOf(operation, decision, profile, arguments) ==
    [operation |-> operation, decision |-> decision, profile |-> profile,
     arguments |-> arguments]

Execute(decision) == ItemOf("execute_decision", decision, "execute", "object")

\* Deliveries before and behind an item that fails in each of the ways an
\* item can, one decision twice, and profiles that allow less.
MCInputs ==
    {<<Execute("a"), ItemOf("query_data", "a", "observe", "object"), Execute("b")>>,
     <<Execute("a"), Execute("unsure"), Execute("b")>>,
     <<Execute("a"), Execute("a"), Execute("b")>>,
     <<Execute("a"), ItemOf("log_decision", "b", "govern", "malformed"),
       Execute("b")>>,
     <<ItemOf("execute_decision", "a", "govern", "object"),
       ItemOf("execute_decision", "b", "unknown", "object"), Execute("b")>>}

MCRequesters == (1 .. 2) \X (1 .. 3)

=============================================================================
