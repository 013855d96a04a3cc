CONSTANT MaxVersion = 2
SPECIFICATION LoopSpec
PROPERTY
  RoutesCatchUp
