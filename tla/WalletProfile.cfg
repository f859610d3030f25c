SPECIFICATION Spec
CONSTANTS
    Requests = {r1, r2}
    Emails = {e1, e2}
    NoEmail = NoEmail
    OtpLife = 1
    MaxTime = 3
    MaxStarts = 4
SYMMETRY ProfileSymmetry
\* Requests and time are bounded: the system may come to rest.
CHECK_DEADLOCK FALSE
INVARIANTS
    TypeOK
    EmailVerifiedUnlessOverlap
    CodeUsedOnce
    CodeAwaited
    SettingsKept
    LoginAccepted
