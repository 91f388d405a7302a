SPECIFICATION NetworkSpec
CONSTANTS
    Peers = {p1}
    Kinds = {"attestation"}
    SubnetKinds = {"attestation"}
    Timeout <- KeptForATick
    Forks = {f1, f2}
    OurFork = f1
    Datas = {d1, d2}
    MaxEvents = 3
    SlotsPerEpoch = 2
    HeadSlot = 4
    FinalizedEpoch = 2
    LastSlot = 8
    Branches = {b1}
    f1 = f1
    f2 = f2
    d1 = d1
    d2 = d2
    p1 = p1
    b1 = b1
INVARIANTS
    CacheConsistent
    SubscribedIsRecorded
    StatusConsistent
PROPERTIES
    KeptForItsTimeout
    StatusNeverBack
