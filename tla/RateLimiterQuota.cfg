\* The advertised limit, with more IPs than records and an instantaneous call.
SPECIFICATION Spec
CONSTANTS
    IPs = {a, b}
    MaxRequests = 1
    Window = 2
    MaxIPRecords = 1
    Delay = 0
    MaxTime = 3
    MaxGrants = 2
INVARIANTS
    QuotaForEveryIP
