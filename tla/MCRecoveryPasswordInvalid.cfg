SPECIFICATION Spec
CONSTANTS
    Passwords <- MCPasswords
    Segments = 2
    Divisor = 11
    MaxBinary = 2
    NoNumber = NoNumber
    Uninitialised = Uninitialised
    Wiped = Wiped
    NoHash = NoHash
INVARIANTS
    InvalidIsRefused
