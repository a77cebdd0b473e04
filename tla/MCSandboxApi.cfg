SPECIFICATION ApiSpec
CONSTANTS
    Calls = {c1}
    Tenants = {t1}
    Keys = {k1}
    NoKey = NoKey
    Uuids = {}
    Reports = {"True"}
    MaxUid = 2
    MaxOutput = 2
    MaxInput = 1
    ExitCodes = {0, 1}
    MaxTimeout = 2
    Slack = 1
INVARIANTS TimeoutMeansKilled SessionCodeIsTrue
PROPERTIES ClaimsExpire RequestsAreAnswered SessionStops
