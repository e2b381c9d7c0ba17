CONSTANTS
  MaxHandles = 3
  MaxList = 1
  Kinds <- SpawnAndGather
SPECIFICATION Spec
PROPERTIES GatherCollectsAll
