SPECIFICATION FairSpec
CONSTANTS
    f1 = f1
    f2 = f2
    f3 = f3
    rd1 = rd1
    None = None
    Flow = {f1, f2, f3}
    Read = {rd1}
    MaxTime = 2
    MaxCached = 3
    Ttl = 1
    Day = 1
    ClockSteps = TRUE
INVARIANTS
    NotSignedInLate
    ExchangedOnce
    NothingLeftBehind
PROPERTIES
    ResultsStayInSession
    LateRefusalsHarmless
    SignInEnds
