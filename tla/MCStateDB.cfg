SPECIFICATION Spec
CONSTANTS
  Accounts = {"a", "r"}
  Ripemd = "r"
  Keys = {"k"}
  Values = {1}
  Codes = {1}
  Preimages = {"p"}
  MaxBalance = 1
  MaxNonce = 1
  Blocks <- MCBlocks
  MaxTx = 1
  MaxOther = 1
  MaxJournal = 2
  MaxRevision = 2
INVARIANT TrieExact CommitComplete CopySame
PROPERTY FinaliseKeeps SnapshotsAreCopies
