\* Keys that are in the list, between two of it, and outside it; two levels, of which
\* the upper one is left with stale links and entered again.
CONSTANTS
  Key = {1, 2, 3}
  Node = {n1, n2, n3, n4}
  ZSKIPLIST_MAXLEVEL = 2
SYMMETRY NodeSymmetry
SPECIFICATION AllSpec
INVARIANTS TypeOK LevelsLinkInOrder SpansAreDistances BackwardInverts LoopMeetsAll
PROPERTIES ImplementsSortedList WalkAdvances LoopKeepsOrder
