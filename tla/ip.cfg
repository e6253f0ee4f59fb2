SPECIFICATION FairSpec
CONSTANTS
    Ids = {r1, r2}
    IPs = {a1}
    Vrfs = {}
    Global = Global
    Users = {u1}
    NoUser = NoUser
    NoId = NoId
    NoIP = NoIP
    Checks = {c1}
    Device42 = Device42
    Upgraders = {Zabbix}
    MaxBatch = 2
INVARIANTS
    BatchAccounted
PROPERTIES
    ReservedLostOnlyToRacer
    CheckEnds
CHECK_DEADLOCK FALSE
