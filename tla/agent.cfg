SPECIFICATION FairSpec
CONSTANTS
    MAX_MESSAGES = 6
    MAX_STEERING_LINES = 2
    MAX_COMMAND = 4
    max_tool_rounds = 3
    MaxCalls = 2
    Typed = {0, 1}
    HasSkills = TRUE
CHECK_DEADLOCK FALSE
INVARIANTS
    CallsAnswered
    HumanFirst
PROPERTIES
    OneOwner
    SystemKept
    TurnReturns
    SteeringIsQueue
