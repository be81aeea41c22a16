SPECIFICATION Spec
CONSTANTS
    u1 = u1
    Uploads <- OneUpload
    MaxFiles = 1
    MaxChunks = 1
    Retention = 1
INVARIANT
    AcceptedIsStored
