CONSTANTS
    Main = main
    KThreads = {bg}
    Procs = {p, q}
    FsBases = {0, 1}
    Msgs = {m}
    Quantum = 2
    WaitTicks = 2
SPECIFICATION FairSpec
INVARIANTS TypeOK CurrentIsRunning CpuMatchesTask TlsPrivate FirstCauseKept PidIsChild
PROPERTIES PidStable NeverResumeExited EveryTaskRuns WaitReturns
