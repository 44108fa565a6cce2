SPECIFICATION Spec
CONSTANT Parts = {"linker", "alloc", "osmem", "map", "compact", "retainer", "interp", "hash", "stable", "gum", "gransim", "sysman", "sparks", "storage", "options", "eventlog", "costs", "census"}
INVARIANTS CodeSound StorageSound TraversalsSound GumSound StartupSound ReportsSound
CHECK_DEADLOCK FALSE
