CONSTANTS
    Items = 1
    Erasing = TRUE
SPECIFICATION Spec
INVARIANT EncodedIsDecoded
