SPECIFICATION Spec
CONSTANTS
    Codes <- MCCodes
    Junk <- MCJunk
    ByteArgs <- MCByteArgs
INVARIANTS
    TypeOK
    SizesFit
    BytesDecide
    ListedButSlips
