CONSTANTS
    Null = Null
    Request <- MCRequest
    IntMax = 7
    Int64Max = 31
    FloatOne = 6
    Decimal = 3
    FloatExact = 32
    Columns <- MCColumns
    SizeOf <- MCSizeOf
    DateOf <- MCDateOf
SPECIFICATION Spec
INVARIANTS
    ParsedAsWrittenUnlessNarrowed
    WrittenIsParsed
    SilentOnlyIfBlank
    StoredAsWrittenUnlessRounded
