CONSTANTS
    Stagers = {t1}
    Snapshots <- MCSnapshots
    MaxPublications = 3
SPECIFICATION Spec
INVARIANT RejectionIsEvaluated
