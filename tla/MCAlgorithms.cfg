SPECIFICATION Spec
CONSTANTS
  MaskWidth = 4
  MaskHeight = 3
  MaxArea = 2
  MaxExtent = 7
  MaxText = 5
  MaxWord = 4
  MaxContext = 5
  MaxBudget = 12
  ScaleUnit = 16
INVARIANTS
  MasksAndBoxes
  LayoutsAgree
  PromptsArrive
  ExtentsKeepTheImage
CHECK_DEADLOCK FALSE
