SPECIFICATION FinFairSpec
CONSTANTS
    a = a  b = b
    Tasks = {a}
    Workers = {w1}
    Schedulers = {1}
    Recoverers = {1}
    Children <- NoChildren
    MaxRequeue = 0
    NoOne = NoOne
PROPERTIES RepairedDeliveryIsAcked
CHECK_DEADLOCK FALSE
