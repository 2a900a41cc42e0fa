SPECIFICATION InputSpec
CONSTANTS
    k1 = k1
    k2 = k2
    k3 = k3
    a = a
    b = b
    NoCode = NoCode
    Key <- MCKey
    KeyCode <- MCKeyCode
    Resolve <- MCResolve
    Button <- MCButton
PROPERTY ResetInputs
