SPECIFICATION ZkFairSpec
CONSTANT Flow = {"only"}
PROPERTY AbortSettles
CHECK_DEADLOCK FALSE
