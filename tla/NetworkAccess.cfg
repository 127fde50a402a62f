CONSTANT MaxRestarts = 2
SPECIFICATION FairSpec
INVARIANTS TypeOK AckedIntentDurable RestoredMatchesStore
PROPERTY IntentResumed
