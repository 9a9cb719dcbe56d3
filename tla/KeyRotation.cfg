\* Two edits of encryption keys, revocations of the LTPA key or changes of
\* leaders at any point of the reconciles of two instances, and one failed
\* call or restart: a follower that stops waiting finds the configuration of
\* the keys it has read, and every rotation reaches the pods.
SPECIFICATION FairSpec
CONSTANTS
  i1 = i1
  i2 = i2
  k1 = k1
  k2 = k2
  Instance <- Instances
  Key <- Keys
  FirstKeys <- UserKeys
  FirstLeaders <- Leaders
  MinGap = 1
  MaxTime = 8
  MaxUserEdits = 2
  MaxFaults = 1
INVARIANT TypeOK
INVARIANT YieldIsEnough
 
CHECK_DEADLOCK FALSE
