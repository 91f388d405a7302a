SPECIFICATION RecordSpec
CONSTANTS
    Keys = {k1, k2}
    k1 = k1
    k2 = k2
    Configs <- SomeConfigs
    Sockets <- SomeSockets
    NextForks = {"f2"}
    Subnets = {1}
    None = None
    NoFile = NoFile
    Garbage = Garbage
    MaxSeq = 3
    MaxEvents = 1
    MaxFaults = 1
SYMMETRY KeySymmetry
INVARIANTS
    RecordsConsistent
    SequenceKept
