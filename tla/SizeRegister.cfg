SPECIFICATION RegisterSpec
CONSTANT ByteMax = 2
INVARIANTS ResultWasHeld NeverOverestimates
PROPERTY ReadReturns
