SPECIFICATION ScriptSpec
CONSTANTS
    NULL = NULL
    EMPTY = EMPTY
    Runners = {"r1", "r2"}
    Posts <- MCPosts
    Prefix <- MCPrefix
CHECK_DEADLOCK FALSE
INVARIANTS ScriptTypeOK LoadedAsWritten KitsNumbered ItemsNumbered
