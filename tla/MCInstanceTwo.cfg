CONSTANTS
  Proc = {p1, p2, p3}
  Nobody = Nobody
SPECIFICATION Spec
SYMMETRY Launches
PROPERTY OnlyCorpsesAreCleared
