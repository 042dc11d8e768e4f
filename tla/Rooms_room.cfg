SPECIFICATION Spec
CONSTANTS
    tien = tien
    hue = hue
    Agents = {tien, hue}
    Owner = Owner
    Ids <- MCIds
    MaxThreadTurns = 1
    MentionsPerSweep = 1
    MaxCalls = 2
    MaxUpsets = 1
CONSTRAINT TienFirst

    
PROPERTIES
    AnswersStay
    MentionsAreAnswered
CHECK_DEADLOCK FALSE
