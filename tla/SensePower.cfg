CONSTANTS
    MaxReads = 3
    w = w  watts = watts  usage = usage  total = total
    PowerKeys <- MCPowerKeys
    NestedKeys <- MCNestedKeys
    OtherKey = other
    MaxDepth = 2
    MaxNumbers = 2
    Nothing = Nothing
SPECIFICATION PowerSpec
INVARIANTS TypeOK NothingLeftOpen ExtensionNeverFails ReadingIsCurrent PowerIsKept ParserFindsFirst
