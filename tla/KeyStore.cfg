SPECIFICATION Spec
CONSTANTS
  Passphrases = {"a", "b"}
  NoPass = "none"
  PlainLists = {"l1", "l2"}
  MaxKeys = 2
INVARIANTS TypeOK KeygenYieldsKey LoadsOldOrNew SessionKeyLoads SignatureFresh
