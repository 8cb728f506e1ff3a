SPECIFICATION FairSpec
CONSTANTS
    c1 = c1
    c2 = c2
    p1 = p1
    Calls = {c1, c2}
    Procs = {p1}
    ProcOf <- MCThreads
    Timeouts = {0, 1}
    PollS = 2
    Needs = {0, 2}
    Vram = 2
    NoCall = NoCall
    NoReading = NoReading
INVARIANTS OneJob RoomReserved NapWithinPoll
PROPERTIES SlotFairSpec LockReturned
