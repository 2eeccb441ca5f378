SPECIFICATION Spec
CONSTANTS
    i0 = i0
    i1 = i1
    a = a
    b = b
    CPU <- TwoCpus
    IdleOf <- MCIdleOf
    User = {a, b}
    Handled = {a, b}
    Token = {k1}
    Space = {"s"}
    SpaceOf <- OneSpace
    Affinity <- Pinned
    MaxTrial = 2
    None = None
    Kill = Kill
    SelectCpu <- select_cpu
INVARIANT
    TaskOwned
