SPECIFICATION Spec
CONSTANTS
  Plots = {p1, p2}
  Declared = {1, 2, 15, 16, 17, 18}
  Computed = {0, 1, 2, 7, 100, NaN}
  MaxLoss = 9
  Fine = 4
  PointMax = 4
  Hectare = 2
  Pixels = 2
  PixelTruth = 3
  Threshold = 2
  SizeFactor = 2
  MinSize = 1
  Digits = 5
  NaN = NaN
  None = None
SYMMETRY Symmetry
INVARIANTS LossBlocksPlot
