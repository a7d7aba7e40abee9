\* Two deliveries at a time, two keys and two signed bodies, one task.
CONSTANTS
    Task = {t1}
    Delivery = {d1, d2}
    Key = {k1, k2}
    Signature = {s1, s2}
    Campaign = {c1}
    Actor = {a1}
    Rating = {1}
    OutputVerdict = {"YES"}
    MaxVersion = 2
    RequestLimit = 2
SPECIFICATION OperationsSpec
INVARIANTS
    DeliveredOnce
    EvidenceIsAnnounced
SYMMETRY Symmetry
CHECK_DEADLOCK FALSE
