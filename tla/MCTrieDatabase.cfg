SPECIFICATION Spec
CONSTANTS
  Nodes <- MCNodes
  Encoded <- MCEncoded
  Accounts <- MCAccounts
  Roots = {"r1", "r2"}
  NoHash = NoHash
  MaxReferences = 2
INVARIANT ListExact ReferencesExact Available DiskClosed
