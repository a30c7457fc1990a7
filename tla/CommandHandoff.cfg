CONSTANTS
    Stagers = {t1, t2}
    Snapshots <- MCSnapshots
    MaxPublications = 3
SPECIFICATION FairSpec
INVARIANTS OwnerAgreesWithIngress
PROPERTIES NoStaleReplay RejectionReachesOwner CommandReachesOwner
