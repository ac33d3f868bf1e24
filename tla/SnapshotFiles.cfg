SPECIFICATION Spec
CONSTANTS
    Services = {1, 2}
    MaxFormat = 2
    MaxCommands = 2
    MaxEdits = 1
INVARIANTS
    SuccessLeavesAPair
    PublishedServesReviewed
    PublishedIsWhole
CHECK_DEADLOCK FALSE
