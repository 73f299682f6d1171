SPECIFICATION FairSpec
CONSTANTS
  t1 = t1
  t2 = t2
  t3 = t3
  Threads = {t1, t2, t3}
  CounterMod = 5
  MaxNesting = 2
INVARIANTS TypeOK HandshakeInv PhaseAgreement MutatorsAgree
PROPERTIES BorderIsExclusive ImplementsHandshake CollectionEnds WaitEnds ExitJoins
CHECK_DEADLOCK FALSE
