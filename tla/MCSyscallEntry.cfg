CONSTANTS
    Procs = {p, q, r}
    Main = main
SYMMETRY ProcSymmetry
SPECIFICATION Spec
INVARIANTS  QueueExclusive 
PROPERTIES SyscallUninterrupted
CHECK_DEADLOCK FALSE
