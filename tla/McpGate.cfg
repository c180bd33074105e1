\* Two write calls and a read call, of two sessions, on two threads.
SPECIFICATION FairSpec
CONSTANTS
  w1 = w1
  w2 = w2
  r1 = r1
  s1 = s1
  s2 = s2
  Call <- MCCall
  Writer <- MCWriter
  SessionOf <- MCSessionOf
  File = {f, g}
  Threads = 2
INVARIANTS
  GateTypeOK
  NothingLost
PROPERTIES
  ImplementsSerialTools
  CallsReturn
CHECK_DEADLOCK FALSE
