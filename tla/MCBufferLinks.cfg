\* Two queues share a chain of buffers that begins with an empty one.
SPECIFICATION LinksSpec
CONSTANTS
    b1 = b1
    b2 = b2
    b3 = b3
    q1 = q1
    q2 = q2
    NoBuffer = NoBuffer
    Buffers = {b1, b2, b3}
    Queues = {q1, q2}
    Chains <- SharedChains
INVARIANT
    GivenIsSent
CHECK_DEADLOCK FALSE
