SPECIFICATION Spec
CONSTANTS
    Servers = {old, new}
    Tokens = {t1, t2}
    States = {s1, s2}
    Codes = {c1, c2}
    NoState = none
    SessionTtl = 1
    StateTtl = 1
    CodeTtl = 1
    MaxTime = 2
CONSTRAINT Within
SYMMETRY Alike
INVARIANTS
    ServedInTime
    SessionSurvives
    LogoutLasts
    OneSessionPerState
    NewestSignInHonoured
