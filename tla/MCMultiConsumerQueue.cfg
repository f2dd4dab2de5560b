\* Two consumers that come and go, two sub-queues, three items: of sub-queues of one
\* the first is recycled and filled again, in one of two items meet.
SPECIFICATION FairSpec
CONSTANTS
    Consumers = {c1, c2}
    SubQueues = {1, 2}
    SubQueueSizes = {1, 2}
    MaxItems = 3
    MaxReserve = 2
INVARIANT
    QueueInv
PROPERTIES
    ImplementsFifoQueue
    VisibleIsPopped
