SPECIFICATION Spec
CONSTANTS
    ToolCalls = {t1}
    Completions = {done}
    Feedbacks = {react}
    FalsePositives = {fp}
    BatchSize = 2
    Levels = {"DEBUG", "WARNING"}
    Faults = {"connect", "insert", "reply", "metadata", "stop"}
INVARIANTS TypeOK StoredInOrder BufferBelowBatch 
PROPERTIES  RowsGetStored
CHECK_DEADLOCK FALSE
