SPECIFICATION Spec
CONSTANT MaxPosted = 4
INVARIANTS MutualExclusion IInv
PROPERTIES HandOver EveryRequestEnds
