----------------------------- MODULE MCNtpSync -----------------------------
EXTENDS NtpSync
CONSTANTS root, mid, leaf
Chain == [s \in Slaves |-> IF s = mid THEN root ELSE mid]
Fan   == [s \in Slaves |-> root]
MCTrees == {Chain, Fan}
=============================================================================
