SPECIFICATION Spec
CONSTANTS
    MaxCommand = 4
    MaxPressed = 3
    Codes <- AllRows
INVARIANT LineAsMeant
