CONSTANT MaxRestarts = 1
SPECIFICATION Spec
INVARIANT EveryAckedIntentStored
