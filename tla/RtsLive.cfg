SPECIFICATION Spec
CONSTANT Parts = {"asyncio", "select"}
INVARIANTS IOSound
PROPERTIES IOServed
CHECK_DEADLOCK FALSE
