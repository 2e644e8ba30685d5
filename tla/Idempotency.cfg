CONSTANTS
    Absent = "absent"
    Deliveries <- MCDeliveries
    HeaderOf <- MCHeaderOf
    KeyHeaders <- MCKeyHeaders
    HasTtl = TRUE
    Ttl = 2
    MaxOverlap = 2
    MaxTime = 4
SPECIFICATION Spec
PROPERTIES DedupWhileRemembered ReplaysHonestly
CHECK_DEADLOCK FALSE
