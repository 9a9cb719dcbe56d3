\* When the leader stops between the copy of a new encryption key and the XML
\* made from it, the other instances restart their pods with the former key,
\* and nothing restarts them again.
SPECIFICATION FairSpec
CONSTANTS
  i1 = i1
  i2 = i2
  k1 = k1
  k2 = k2
  Instance <- Instances
  Key <- Keys
  FirstKeys <- UserKeys
  FirstLeaders <- Leaders
  MinGap = 1
  MaxTime = 8
  MaxUserEdits = 1
  MaxFaults = 1
PROPERTY KeyReachesPods
CHECK_DEADLOCK FALSE
