CONSTANTS
    a = a
    SEP = SEP
    DOT = DOT
    NUL = NUL
    Junk = Junk
    Letters <- MCLetters
    Lengths <- FittingAndRefused
    VFS_MAX_FILE_FOLDER_NAME = 6

SPECIFICATION Spec

INVARIANTS
    ShortPathsFit
    NamesAreTheMeaning

PROPERTIES
    Returns

CHECK_DEADLOCK FALSE
