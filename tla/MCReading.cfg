CONSTANTS
    Ids = {1, 2, 3}
    Calls = {r1, r2}
    Retention = 2
    Interval = 1
    MaxClock = 2
    Cids = {c1, c2}
    NoCid = NoCid
    Loads = {w1, w2}
    MetadataTtl = 2
    DeclarationTtl = 2
    MaxNow = 2
    Keys = {k1, k2}
    Serials = {s1, s2, s3}
    NoToken = NoToken
    Videos = {v1, v2}
    NoVideo = NoVideo
    MaxShows = 3
    Cards = {x1, x2}
    Films = {f1, f2}
    NoFilm = NoFilm
    Flushes = {b1, b2}
    BatchLimit = 1
    MaxReuses = 2

SPECIFICATION Spec

\* The clocks, tokens, shows and reuses run out: these are bounds.
CHECK_DEADLOCK FALSE

INVARIANTS
    TypesOK
    OneLiveToken
    UsedStaysUsable
    ServedWasTrue
    SecondAttemptIsFresh
    WatchedVideosOnly
    BadgeMatchesCard

PROPERTY FeedSettles
