SPECIFICATION KbSpec
CONSTANTS
    Keys <- MCKeys
    Hold = 8
PROPERTIES KeysGenuine HeldIsActive
