SPECIFICATION Spec
CONSTANTS
  Coros = {c1, c2}
  None = None
  Files = {f1, f2}
  Descs = {d1, d2}
SYMMETRY Symmetry
INVARIANT
  OneOwner
