SPECIFICATION FairSpec
CONSTANTS
    BUF_SIZE = 3
    Keys = {k}
    Setups <- OneKeyboard
    MaxKeys = 5
PROPERTIES
    IsCharQueue
    KeysServed
