SPECIFICATION FairSpec
CONSTANTS
    ADDR = 1
    AirFrames <- MCAirFrames
    Sends <- MCSends
    Junk <- MCJunk
    PKTBUF_MAX = 6
    UART = FALSE
INVARIANTS TypeOK RxInBounds GenuineDelivery AckFaithful OkMeansSent NeverDeaf
PROPERTIES BufferStable ListensAgain ImplementsLink
