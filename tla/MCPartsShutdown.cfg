\* A shutdown of a posted task, before the connect of its worker.
SPECIFICATION PartsSpec
CONSTANTS
    Producers = {p1, p2}
    Items = {i1, i2, i3}
    Null = Null
    Callers = {c1}
    Uses <- UsesOfSockets
    MaxPeers = 3
    Requests = {r1, r2, r3}
    NoRequest = NoRequest
    Blocking = {r3}
    BatchSize = 1
    HeapItems = {h1, h2, h3, h4, h5, h6}
    Keys = {1, 2}
    PoolThreads = {t1, t2}
    PoolBatch = 2
    MaxObjects = 6
    BufferSize = 2
    MaxWritten = 6
    MaxBuffers = 4
    b1 = b1
    b2 = b2
    b3 = b3
    Buffers = {b1, b2, b3}
    q1 = q1
    q2 = q2
    Queues = {q1, q2}
    NoBuffer = NoBuffer
INVARIANT
    ShutdownIsNotFirst
CHECK_DEADLOCK FALSE
