\* The body of the repository's test: two chunks, transfer-encoding chunked.
SPECIFICATION FairSpec
CONSTANTS
    eob = eob
    EndOfBody = eob
    Lengths = {2}
    Framings = {"chunked"}
    ClientMayGo = FALSE
    ReadsBody = TRUE
    ShutsDown = {FALSE}
    Capacity = 1
CHECK_DEADLOCK FALSE
PROPERTIES
    ChunkedBodyAnswered
