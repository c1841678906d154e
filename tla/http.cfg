\* Every kind of request, those whose handlers write the response included.
SPECIFICATION FairSpec
CONSTANTS
    Requests = {"options", "put", "unknown", "test", "list", "upload", "badupload", "badname", "emptyupload", "failupload", "bigupload", "download", "nofile"}
    MaxRequests = 2
    MaxReplies = 4
INVARIANTS TypeOK OperationsCounted RepliesInTurn
PROPERTIES Answered Released
