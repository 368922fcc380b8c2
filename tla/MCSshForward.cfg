SPECIFICATION FairSpec
CONSTANT Channel = {k1, k2, k3}
INVARIANTS NothingYanked
PROPERTIES NoOpenAfterJoin SessionEnds 
CHECK_DEADLOCK FALSE
