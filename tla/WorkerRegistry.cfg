SPECIFICATION Spec
CONSTANTS
    Consumers = {c1, c2}
    TTL = 1
    Idle = 1
    RegistryTTL = 2
    Skew = 1
    Ids = {1, 2}
    None = None
INVARIANTS TypeOK OfferedServedRecently EntryWillExpire
SYMMETRY Symmetry
