\* Every operation against a server that may do anything but write free text.
SPECIFICATION FairSpec
CONSTANTS
    Chunks = 3
    IdlePolls = 2
INVARIANTS NothingLeaks RepliesInStep OkIsConfirmed  UploadIsWhole
 
CHECK_DEADLOCK FALSE
