SPECIFICATION InverseSpec
CONSTANT Changes = 2
PROPERTY ApplyInverseReturns
CHECK_DEADLOCK FALSE
