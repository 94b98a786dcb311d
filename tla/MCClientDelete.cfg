\* What deleteIdempotent() says it tells apart, against the code.
SPECIFICATION ToolSpec
CONSTANTS
    first = first
    second = second
    post = post
    delete = delete
    reads = reads
    creates = creates
    deletes = deletes
    Method <- MethodOf
    Calls <- CallsFor
    Argument = {"absent", "true", "text false"}
    Caller = {delete}
    Tool = {deletes}
    Together = 1
    MaxRetries = 1
    Cost = 2
    Capacity = 1
    MaxShift = 0
INVARIANTS
    AbsentMeansNotByUs
