\* WALLET_KEY_2 is empty, so the second wallet is the third key's.  Units of
\* 10 s.  Two faults.
SPECIFICATION FairSpec
CONSTANTS
    Keys = {1, 3}
    VUS = 2
    ReceiptTimeout = 6
    LivenessAge = 5
    ProbePeriod = 2
    Grace = 3
    MaxQueue = 2
    MaxFaults = 2
INVARIANTS
    TypeOK
    BootstrappedIsApproved
    CheckedUsersAreSigned
    UsersShareNothing
PROPERTIES
    RestartsHeal
