\* Two machines, streams of up to two messages of every kind, a channel of one slot.
CONSTANTS
    m1 = m1
    m2 = m2
    Machines <- MCMachines
    MaxMsgs = 2
    Cap = 1
SPECIFICATION PSpec
INVARIANTS OutcomeMatchesStream ProgressWellFormed
PROPERTIES ConsumerTerminates
\* pull returns and the senders finish: those final states have no successor.
CHECK_DEADLOCK FALSE
