CONSTANTS
  n1 = n1  n2 = n2  n3 = n3  n4 = n4  n5 = n5
  Nodes = {n1, n2, n3, n4, n5}
  Submissions <- Small
SPECIFICATION FairSpec
INVARIANTS RunningNodeHasJob ProducersFirst VerdictSound
PROPERTIES VerdictFinal RunEnds
CHECK_DEADLOCK FALSE
