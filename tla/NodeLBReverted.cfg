CONSTANTS
    Services = {"s1"}
    Policies = {"p", "q"}
    FirstPolicy <- MCFirst
    Confirmations = 2
    Plans <- MCReverted
SPECIFICATION Spec
INVARIANT ClosedBetweenPolicies
CHECK_DEADLOCK FALSE
