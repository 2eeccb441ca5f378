SPECIFICATION Spec
CONSTANTS
    i0 = i0
    i1 = i1
    a = a
    b = b
    CPU <- TwoCpus
    IdleOf <- MCIdleOf
    User = {a, b}
    Handled = {a, b}
    Token = {}
    Space = {"s"}
    SpaceOf <- OneSpace
    Affinity <- AnyCpu
    MaxTrial = 2
    None = None
    Kill = Kill
    SelectCpu <- select_cpu
INVARIANT
    OneCpuPerStack
