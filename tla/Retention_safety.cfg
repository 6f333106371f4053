\* Three chats, of which a grant writes the newest while the daemon writes any.
\* A write of 2 over a used 1 is an unwarned jump; one over a used 2 needs the
\* space of two chats of 1; a write that others overtook misses the target.
CONSTANTS
    Chats <- ThreeChats
    Start <- OldestA
    Writers <- TwoWriters
    Served <- GrantsC
    Capacity = 3
    Target = 2
    Warning = 2
    Sizes <- OneOrTwo
    MaxUnsettled = 1
SPECIFICATION Spec
INVARIANTS UnderCapacity FrozenStaysEmpty
PROPERTIES RemovesOnlyIdleBackedUp RemovesOnlyForAWrite
CHECK_DEADLOCK FALSE
