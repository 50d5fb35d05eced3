CONSTANTS
    u = u
    c = c
    p = p
    Contracts = {c}
    Users = {u}
    Proxies = {p}
    ChildRelay = ChildRelay
    Relay = Relay
    Null = Null
    Gone = Gone
    Exits <- MCExits
    MaxHeight = 2
    MaxExits = 2
    MaxQueue = 4
    MaxBalance = 3
    MaxPayment = 1
    Receivers = {u}
    MaxDepth = 2
SPECIFICATION Spec
INVARIANTS
    TypeOK
    SettledOnce
    Solvent
PROPERTIES
    IncludedIsFinal
CHECK_DEADLOCK FALSE
