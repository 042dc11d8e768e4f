SPECIFICATION Spec
CONSTANTS
    a1 = a1
    a2 = a2
    group = group
    chat = chat
    Agents = {a1, a2}
    Dests <- MCDests
    Telegram = {group, chat}
    Dead = {group}
    PerSweep = 1
    MaxLines = 2
    MaxEdits = 3
    MaxUpsets = 1
ACTION_CONSTRAINT EditsChange

    
PROPERTIES
    LinesLeave
CHECK_DEADLOCK FALSE
