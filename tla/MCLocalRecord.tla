--------------------------- MODULE MCLocalRecord ---------------------------
EXTENDS LocalRecord, TLC

\* One configuration leaves the address to discv5, the others set it or start with
\* the next fork.
SomeConfigs ==
    {[ip |-> None, udp |-> None, tcp |-> 1, eth2 |-> "f1"],
     [ip |-> "a", udp |-> None, tcp |-> 2, eth2 |-> "f1"],
     [ip |-> None, udp |-> None, tcp |-> 1, eth2 |-> "f2"]}

SomeSockets == {[ip |-> "b", udp |-> 2]}

KeySymmetry == Permutations(Keys)
=============================================================================
