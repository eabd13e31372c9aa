\* The lifecycle controller never wakes: only recovery can end the removal.
CONSTANTS
    Plans <- WakeupPlans
    MaxIssue = 4
SPECIFICATION FairSpec
PROPERTIES
    RecoveryEnds
CHECK_DEADLOCK FALSE
