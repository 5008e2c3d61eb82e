CONSTANTS
    Items = 2
    Erasing = FALSE
SPECIFICATION Spec
INVARIANT TypeOK
 
