SPECIFICATION FairSpec
CONSTANTS
    ADDR = 1
    AirFrames <- ShortFrame
    Sends <- AckedSend
    Junk <- OneJunk
    PKTBUF_MAX = 5
    UART = TRUE
PROPERTIES CompleteHandled
