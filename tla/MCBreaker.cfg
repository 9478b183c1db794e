\* Two goroutines; three errors trip the breaker, make a probe fail or come late.
CONSTANTS
    Users = {u1, u2}
    Nobody = Nobody
    MaxRequests = 2
    MaxRetries = 1
    MaxCounts = 4
    MaxErrors = 3
SPECIFICATION FairSpec
INVARIANTS BreakerTypeOK CountsAgree
PROPERTIES FetchEnds Recovers
