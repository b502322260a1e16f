SPECIFICATION LandSpec
CONSTANTS
    Parcel = {p1}
    Owner = {landlord, buyer}
    Transfer = {t1, t2}
    Dispute = {d1}
    Appeal = {a1}
    NoParcel = NoParcel
    NoTransfer = NoTransfer
    NoOwner = NoOwner
    Verified = {buyer}
    User = {officer}
    MaxTitles = 0
    MaxFailures = 0
PROPERTY
    RestrainedStaysPut
