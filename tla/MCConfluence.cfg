CONSTANTS
  Cursors = {c1, c2}
  MaxSlots = 2
  MaxEvents = 3
  Corners = {}
SPECIFICATION Spec
SYMMETRY Symmetry
INVARIANTS PinsExact   ReadComplete   Attended DrainServed
