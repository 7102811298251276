CONSTANTS
    Loggers = {l1}
    Worker = worker
    Main = mainThread
    Waiters = {worker}
    Notifiers = {mainThread}
    EntrySizes = {2}
    WaitModes = {"predicate", "timed"}
    MaxBytes = 2
    MetricCount = 3
    MaxMetrics = 1
    MaxEntries = 3
    MaxFailures = 1
    Sources = {s1}
    Unknown = {u1}
    MaxEvents = 2
    Configurations <- MCConfigurations
SPECIFICATION FairSpec
INVARIANTS
    NoLostWakeup
    ProfilerSound
    LifetimesOrdered
PROPERTIES
    ImplementsLatch
    ProcessEnds
    EventsServed
