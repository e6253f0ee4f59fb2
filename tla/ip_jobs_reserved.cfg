SPECIFICATION Spec
CONSTANTS
    Ids = {r1, r2}
    IPs = {a1}
    Vrfs = {}
    Global = Global
    Users = {u1}
    NoUser = NoUser
    NoId = NoId
    NoIP = NoIP
    Checks = {}
    Device42 = Device42
    Upgraders = {Zabbix}
    MaxBatch = 1
PROPERTIES
    JobsLeaveReserved
CHECK_DEADLOCK FALSE
