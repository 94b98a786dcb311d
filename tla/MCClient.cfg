\* Two of a tool that reads twice, a create tool and a delete tool share the
\* client, under the fairness of FairToolSpec.
SPECIFICATION FairToolSpec
CONSTANTS
    first = first
    second = second
    post = post
    delete = delete
    reads = reads
    creates = creates
    deletes = deletes
    Method <- MethodOf
    Calls <- CallsFor
    Argument = {"absent", "true", "text false"}
    Caller = {first, second, post, delete}
    Tool = {reads, creates, deletes}
    Together = 2
    MaxRetries = 1
    Cost = 2
    Capacity = 1
    MaxShift = 1
INVARIANTS
    NeverAhead
    DeletedIsGone
    ToldWhatExists
PROPERTIES
    ImplementsWriteCall
    FairShare
    EveryToolAnswers
