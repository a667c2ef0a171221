SPECIFICATION Spec
CONSTANTS
  Docs = {d1, d2, d3}
  InitDoc = d1
  NoDoc = NoDoc
  Faults = {"crash", "power", "read", "capture", "write", "dirsync", "unlink", "program"}
  MaxFaults = 3
  MaxTrials = 2
INVARIANTS TypeOK Restartable
PROPERTIES RevertCompletes ContractSpec
