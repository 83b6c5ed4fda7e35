\* Two machines: one sends an error while the other still has messages to send.
CONSTANTS
    m1 = m1
    m2 = m2
    Machines <- MCMachines
    MaxMsgs = 2
    Cap = 1
SPECIFICATION PSpec

PROPERTIES ProducerFinishes
\* pull returns and the senders finish: those final states have no successor.
CHECK_DEADLOCK FALSE
