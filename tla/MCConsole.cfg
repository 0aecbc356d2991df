SPECIFICATION FairSpec
CONSTANTS
    a = a
    blank = blank
    cr = cr
    rub = rub
    nul = nul
    Chars <- MCChars
    Blank <- blank
    CR <- cr
    Rub <- rub
    Nul <- nul
    LINEBUF_MAX = 4
INVARIANTS EchoMatches
PROPERTIES ImplementsLineDiscipline
