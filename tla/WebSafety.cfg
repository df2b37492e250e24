CONSTANTS
    a1 = a1
    a2 = a2
    b1 = b1
    b2 = b2
    s1 = s1
    s2 = s2
    Account <- MCAccount
    NameOf <- MCNameOf
    Admin <- MCAdmin
    Browser <- MCBrowser
    Slot <- MCSlot
    MaxSaves = 2
    Senderless = {1}
    Gap = 2
    Form <- MCForm
SYMMETRY Symmetry
SPECIFICATION Spec
INVARIANTS
    TypeOK
    ActsForOwner
    MailServerAtomic
    InUseIsStored
    RowsCoverInput
