SPECIFICATION FetchSpec
CONSTANTS
    Urls <- MCUrls
    Https <- MCHttps
    Literals <- MCLiterals
    Normal <- MCNormal
    Plain <- MCPlain
    Archive <- MCArchive
    Replies <- MCReplies
    RecvBuf = 3
    HeaderBuf = 8
    ChunkBuf = 8
    FirstLimit = 2
    IdleLimit = 1
    MaxRedirects = 1
INVARIANTS  SmallRepliesFit
 
