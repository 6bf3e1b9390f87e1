\* the relay comes and goes, the user disconnects, the application is killed, requests
\* fail; the run may end
CONSTANT Scenarios <- MCScenarios
SPECIFICATION FairSpec
INVARIANTS TypeOK CacheCoherent DurableSurvives
PROPERTIES LostByFailureOrFlush FlushEnds
CHECK_DEADLOCK FALSE
