CONSTANTS
    Items = {"r1", "r2", "r3"}
    Trainers <- TwoTrainers
    Host <- HostOf
    Node <- NodeOf
    Releases <- Instants
    Routes <- Plans
    Elements = 1
    ElementSize = 1
    Devices = {"cuda", "cpu"}
    Unset = Unset
    Dtype = "float32"
    Profile <- Machine
    Environments <- Shells
    CommandLines <- Flags
SPECIFICATION Spec
INVARIANTS
    LedgerTrue
    PriceHolds
    PaidBeforeRead
    PatchReturned
    RowsComplete
    DivergenceFound
