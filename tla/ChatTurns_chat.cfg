SPECIFICATION Spec
CONSTANTS
    chat = chat
    reset = reset
    new = new
    cancel = cancel
    switch = switch
    web = web
    halt = halt
    None = None
    Lanes = {chat}
    Jobs <- ChatJobs
    LaneOf <- OneChat
    Slots = 2
    LaneCap = 1
    Messages = {1, 2}
    Commands = {reset, new, cancel, switch, web, halt}
    Together <- Asked
    MaxUpsets = 2
    KindOf <- Kinds
    Sessions = {1, 2, 3}
    MaxSessions = 2
INVARIANTS
    ChatSafe
PROPERTIES
    AbandonedNeverRuns
    
CHECK_DEADLOCK FALSE
