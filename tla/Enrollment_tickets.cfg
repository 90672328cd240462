SPECIFICATION Spec
CONSTANTS
    Enrollments = {e1, e2, e3}
    Tickets = {t1}
    Keys = {k1, k2}
    EnvKey = k2
    Blank = Blank
    None = None
CHECK_DEADLOCK FALSE
INVARIANTS
    TypeOK
    OneNodePerTicket
    RevokedStaysDead
    SpentKeyRefused
    LostKeyOverlapped
PROPERTY ReportIsFinal

SYMMETRY EnrollmentSymmetry
