SPECIFICATION FairSpec
CONSTANTS
    Byte = 4
    SaltLength = 3
    BlockLength = 3
    HashLength = 2
    KeyLength = 3
    Password <- MCPassword
    Prefix <- MCPrefix
    Digits <- MCDigits
    Sha1 <- MCSha1
    Nobody = "nobody"
    Tasks <- MCTasks
    Ids <- MCIds
    Messages <- MCMessages
    Channels <- MCChannels
    OpenChannels <- MCOpenChannels
    Rooms <- MCRooms
    ChannelOf <- MCChannelOf
    EncOf <- MCEncOf
    Self = 1
    Logins <- MCLogins
    PoolSize = 1
    ChunkSize = 2
    MaxWrites = 2
    Inputs <- MCInputs
INVARIANTS
    TypeOK
    KeysAreDerived
PROPERTIES
    ImplementsContract
    RequestsEnd
CHECK_DEADLOCK FALSE
