SPECIFICATION Spec
CONSTANTS
    VMs = {v1, v2}
    NoVm = NoVm
    Templates <- MCTemplates
    Types = {"OS"}
    Wants <- MCWants
    Budgets <- MCBudgets
    MaxImages = 2
    MaxDisks = 2
SYMMETRY SymmetricVMs
CHECK_DEADLOCK FALSE
INVARIANTS UseIsCounted PersistentIsPrivate LockedIsBusy TargetsDiffer
