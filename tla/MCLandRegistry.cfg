SPECIFICATION LandSpec
CONSTANTS
    Parcel = {p1}
    Owner = {landlord, buyer}
    Transfer = {t1}
    Dispute = {d1, d2}
    Appeal = {a1, a2}
    NoParcel = NoParcel
    NoTransfer = NoTransfer
    NoOwner = NoOwner
    Verified = {buyer}
    User = {landlord, officer}
    MaxTitles = 1
    MaxFailures = 1
SYMMETRY Symmetric
INVARIANTS
    LandTypeOK
    FrozenByHuman
    OwnerIsVetted
PROPERTIES
    DecisionsAreFinal
    LiftedByRuling
