\* The pipeline while and after it is installed.  Two freights, so that one can
\* overtake or follow the other; one failed step of a promotion and one failed
\* or interrupted command of the script.
SPECIFICATION BootFairSpec
CONSTANTS
    MaxFreight = 2
    MaxFaults = 1
    MaxAborts = 1
INVARIANTS
    BootTypeOK
    ProdPassedTheGates
    VerdictIsAboutWhatRuns
    DevFindsItsApplication
PROPERTIES
    ImplementsGatedDelivery
    PromotionsEnd
    RerunsComplete
