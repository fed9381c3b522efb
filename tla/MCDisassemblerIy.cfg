SPECIFICATION Spec
CONSTANTS
    Codes <- MCIyCodes
    Junk <- MCJunk
    ByteArgs <- MCByteArgs
INVARIANTS
    ListedAsDocumented
