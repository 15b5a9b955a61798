\* A carry.
CONSTANTS
  HalfBits = 4
  Places = 2
  Digits = 1
  MinInt <- MCMin
  MaxInt = 3
  Operand <- MCOperand
  Factor <- MCFactor
  Double <- MCDouble
  EdgeWord <- MCEdgeWord
SPECIFICATION CalculationSpec
INVARIANT IsCanonical
