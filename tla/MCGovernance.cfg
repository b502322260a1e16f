SPECIFICATION FairGovernanceSpec
CONSTANTS
    Missing = Missing
    Overlaps = {5, 6, 50}
    Retransfers = {2, 3, 6}
    Claims = {3, 9}
    Sizes = {3, 8}
    NameRatios = {85, 100, Missing}
    Prices = {0, 8}
    Anomalies = {40, 61, 71}
    Replica = {r1, r2}
    Cron = Cron
    Transfer = {t1, t2}
    District = {d1, d2}
    Tenure = {u1, u2}
    Period = 2
    MaxTroubles = 1
INVARIANTS
    GovernanceTypeOK
    WorseEvidenceNeverHelps
    AlertIsCorroborated
    OneLeader
    EscalatedOnce
    AlarmIsWarranted
PROPERTY
    OverdueIsEscalated
