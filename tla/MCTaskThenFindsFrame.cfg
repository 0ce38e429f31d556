SPECIFICATION Spec
CONSTANTS
  None = None
  Thenables = {t1}
  Blockings = {b1}
  Voids = {}
INVARIANT ThenFindsFrame
