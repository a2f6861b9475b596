SPECIFICATION FairSpec
CONSTANTS
    Clients = {c1, c2}
    NoClient = none
    Fds = {4, 5}
    Slots = 1
    MaxMessages = 4
    Environments <- Calm
PROPERTIES MessagesAnswered
CHECK_DEADLOCK FALSE
