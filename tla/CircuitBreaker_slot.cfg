\* The trial slot, the counters and recovery, with reconfigurations.
SPECIFICATION BreakerFairSpec
CONSTANTS
    c1 = c1
    c2 = c2
    s1 = s1
    s2 = s2
    Calls <- MCCalls
    Streams <- MCStreams
    FailMax = 2
    SuccessThreshold = 2
    MaxResets = 1
INVARIANTS
    SlotHasItsHolder
    OneTrialUnlessOvertaken
PROPERTIES
    RecoversWithTheService
