\* needs: a short jump, a near jump, a long jump
CONSTANTS
  Widths = {32, 64}
  Needs = {2, 5, 14}
  PlainSizes = {3, 4, 15}
SPECIFICATION BridgeSpec
INVARIANT AddressesSuffice
PROPERTY ImplementsProcedure
CHECK_DEADLOCK FALSE
