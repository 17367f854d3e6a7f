SPECIFICATION Spec

CONSTANTS
  a1 = a1
  a2 = a2
  b1 = b1
  c1 = c1
  c2 = c2
  Chains <- MCChains
  Addresses <- MCAddresses
  ChainOf <- MCChainOf
  Slots = {s1, s2}
  None = None

SYMMETRY Symmetry

INVARIANTS
  SelectedIsHeld
  SentForSelected
  TestedAnew
