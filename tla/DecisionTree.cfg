\* Upgrades and downgrades of the operator, with a restart half-way, over the
\* decision tree of the LTPA keys, one of the tests and a family of all small
\* ones: labels of shared resources go on naming leaves, a version finds the
\* keys it created again, and no two keys get one label.
SPECIFICATION Spec
CONSTANTS
  r1 = r1
  r2 = r2
  DefaultName = "olo-managed-ltpa"
  Resource = {r1, r2, "olo-managed-ltpa"}
  Docs <- MCDocs
  KeyOrder <- MCKeyOrder
  Operands <- MCOperands
  DefaultPath <- MCDefaultPath
  MaxChanges = 3
  MaxFaults = 1
INVARIANTS IndexNamesLeaf LabelsNameLeaves  
CHECK_DEADLOCK FALSE
