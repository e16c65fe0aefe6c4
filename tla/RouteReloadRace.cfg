CONSTANTS
  MaxEdits = 1
  MaxUpdates = 1
  MaxFaults = 0
SPECIFICATION Spec
INVARIANTS PanelRoutesAlwaysInForce
