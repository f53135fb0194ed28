CONSTANTS
    a = a
    SEP = SEP
    DOT = DOT
    NUL = NUL
    Junk = Junk
    Letters <- MCLetters
    Lengths <- OneTooMany
    VFS_MAX_FILE_FOLDER_NAME = 6

SPECIFICATION Spec


INVARIANT
    DepthWithinMax

CHECK_DEADLOCK FALSE
