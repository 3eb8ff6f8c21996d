CONSTANTS
    KEY_BUFFER_SIZE = 3
    Wire = 2
    Lens <- MCLens
SPECIFICATION Spec
PROPERTIES
    ImplementsKeyQueue
    ReadReturns
