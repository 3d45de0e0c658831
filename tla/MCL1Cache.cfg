CONSTANTS
  Ways = 3
  Index = {0}
  Tag = {t1, t2, t3, t4}
  Word = {0}
  Lane = {0}
  Byte = {0, 1}
SPECIFICATION Spec
SYMMETRY TagSymmetry
INVARIANTS TypeOK ReadsMatchShadow UniqueTag NoLostStore FillsRequestedLine VictimIsLeastRecent
PROPERTY FillThenHit
CHECK_DEADLOCK TRUE
