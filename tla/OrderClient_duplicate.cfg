CONSTANT MaxRetries = 3
SPECIFICATION Spec
INVARIANT AtMostOneOrder
