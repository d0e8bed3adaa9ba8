CONSTANTS
  Port = {0, 1}
  Queue = {q1, q2, q3}
  Task = {t1, t2}
  NULL = NULL
  Wild = Wild
SYMMETRY Symmetry
SPECIFICATION Spec
INVARIANTS
  ThreadExists
  OneReceiver
  QueueLive
