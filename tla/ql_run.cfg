\* The quality ledger.
CONSTANTS
  p1 = p1
  p2 = p2
  Absent = Absent
  Packets <- MCPackets
  Packet <- MCPacket
  Classes = {"build", "review"}
  FirstPolicy <- MCFirstPolicy
  Legacy = {0}
  Procs <- MCProcs
  MinSamples = 1
  Margin = 100
  MaxSamples = 12
  Budgets <- MCBudgets
SPECIFICATION Spec
SYMMETRY Symmetry
CHECK_DEADLOCK FALSE
INVARIANTS
  CountedOnce
  AdviceSettles
