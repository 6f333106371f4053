\* The daemon awaits the summary of a chat resumed after a day while the grant's
\* write needs space.
CONSTANTS
    Chats <- ThreeChats
    Start <- OldestA
    Writers <- TwoWriters
    Served <- GrantsC
    Capacity = 3
    Target = 2
    Warning = 2
    Sizes <- OneOrTwo
    MaxUnsettled = 1
SPECIFICATION Spec
PROPERTY ActiveChatKept
CHECK_DEADLOCK FALSE
