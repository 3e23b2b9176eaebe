\* Two thieves, a deque of two slots, five pushes: the indices wrap around.
CONSTANTS
  Thieves = {h1, h2}
  Capacity = 2
  MaxItems = 5
SPECIFICATION Spec
SYMMETRY ThiefSymmetry
INVARIANTS
  NoneLostNoneTwice
PROPERTIES
  NullMeansEmpty
  ImplementsDeque
