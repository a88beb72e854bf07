\* Three windows at most, four dispatches that raise one.
CONSTANTS
  Asks <- MCAsks
  Meta <- MCMeta
  Viewports <- MCViewports
  Points <- MCPoints
  Edges <- MCEdges
  MaxZ = 14
  None = None
SPECIFICATION Spec
INVARIANT WindowsInv
PROPERTIES FocusRaises WithinReach
