SPECIFICATION Spec
CONSTANTS
    BUF_SIZE = 3
    Keys = {k}
    Setups <- TwoKeyboards
    MaxKeys = 3
PROPERTY
    IsCharQueue
