SPECIFICATION Spec
CONSTANTS
 w1 = w1
 w2 = w2
 NoOne = NoOne
PROPERTIES
 GrantsAreSettled
 ConsumedIsTicketed
 RequestsMoveOn
 JobEnds
CHECK_DEADLOCK FALSE
