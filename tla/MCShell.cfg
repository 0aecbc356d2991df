SPECIFICATION Spec
CONSTANTS
    Lines <- MCLines
    LINEBUF_MAX = 32
    PKTBUF_MAX = 32
    Numbers = {0, 1, 300}
INVARIANTS SentFromLine InBounds
