SPECIFICATION DeliverySpec
CONSTANTS
    MaxActions = 2
    MaxParts = 2
    u1 = u1
    Uploads <- MCUploads
    MaxFiles = 2
    MaxChunks = 1
    Retention = 0
    NoUpload = "none"
INVARIANT
    NeededFilesStay
PROPERTY
    ImplementsStore
CHECK_DEADLOCK FALSE
