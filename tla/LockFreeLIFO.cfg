\* A pop can sleep while others pop its slot, bring another on top and put it back.
SPECIFICATION FairSpec
CONSTANTS
  Threads = {t1, t2}
  MaxLen = 3
  TagMod = 3
  t1 = t1
  t2 = t2
INVARIANTS LlTypeOK Conserved
PROPERTIES ImplementsStacks LockFree
