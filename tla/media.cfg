CONSTANTS
    a1 = a1
    a2 = a2
    c1 = c1
    c2 = c2
    w1 = w1
    w2 = w2
    Assets = {a1, a2}
    Public = {a1}
    Personal = {a1}
    Calls = {c1, c2}
    Workers = {w1, w2}
    MaxActive = 2
    MaxDaily = 1
    MaxAttempts = 2
    MaxStalled = 1
    MaxFaults = 1
SPECIFICATION Spec
CHECK_DEADLOCK FALSE
INVARIANTS
    DailyQuota
    ReadyIsServable
    
PROPERTIES
    HandedInIsDecided
    
