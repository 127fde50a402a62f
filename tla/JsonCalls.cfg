SPECIFICATION Spec
CONSTANTS
    Limit = 3
    PluginLimit = 2
    MaxPart = 3
INVARIANTS TypeOK SuccessIsWhole ConnectionReusable
