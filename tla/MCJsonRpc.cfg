\* Every method with all forms of params and the answers of the node, and batches,
\* over one connection while another caller is served, the node may never answer
\* and the server may be told to stop.
SPECIFICATION Spec
CONSTANTS
    Conns = {c1, c2}
    Bodies <- MCBodies
    MaxBatch = 2
    Replies = {"result", "both"}
    None = None
INVARIANTS
    SameCallForwarded
    AnswersMatchRequests
    BatchRunsInOrder
PROPERTIES
    ImplementsRemoteCall
    EveryBodyIsAnswered
    StopEnds
CHECK_DEADLOCK FALSE
