CONSTANTS
  Parts = {"memory", "startup", "loop", "calls"}
  Memories <- AllMemories
  CommandLines <- AllCommandLines
  Loops <- AllLoops
  Kits <- AllKits
SPECIFICATION Spec
INVARIANTS TypeOK MappingsSound StartSound LoopSound CallsSound
PROPERTIES MemoryIsMap
CHECK_DEADLOCK FALSE
