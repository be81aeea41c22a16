SPECIFICATION FairSpec
CONSTANTS
    u1 = u1
    Uploads <- OneUpload
    MaxFiles = 2
    MaxChunks = 2
    Retention = 1
INVARIANTS
    TypeOK
    FailureCleansUp
    QueuedFilesWritten
PROPERTY
    FilesReclaimed
