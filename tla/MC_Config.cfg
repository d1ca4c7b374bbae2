SPECIFICATION Spec
CONSTANTS
    two = two
    nine = nine
    huge = huge
    true = true
    false = false
    other = other
    Slash = Slash
    Texts = {two, nine, huge, true, false, other}
    NumberOf <- Numbers
    TruthOf <- Truths
    Int32Max = 3
    DefaultPort = 1
    IntMax = 20
    Urls <- ConnectionStrings
    Explicits <- ByHand
INVARIANTS
    TypeOK
    CredentialsExclusive
    NothingIsCut
    SettingsArrive
CHECK_DEADLOCK FALSE
