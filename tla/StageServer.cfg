SPECIFICATION Spec
CONSTANTS
    s1 = s1
    s2 = s2
    Servers = {s1, s2}
    Envs <- MCEnvs
    Builds <- MCBuilds
    Methods = {"GET", "OPTIONS", "POST", "PATCH", "DELETE"}
    Origins <- MCOrigins
    Trusted <- MCTrusted
    Hosts = {"", "stage:8000"}
    MaxDocs = 2
    Infinite = 1000
    None = None
INVARIANTS StartsUsable NeverMisread
PROPERTIES GuardIsExact
