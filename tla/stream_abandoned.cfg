SPECIFICATION SupervisedSpec
CONSTANTS
    e1 = e1
    e2 = e2
    c1 = c1
    c2 = c2
    Events = {e1, e2}
    Malformed = {e1}
    Consumers = {c1, c2}
    BatchSize = 2
    MaxLen = 3
    MaxFaults = 1
PROPERTIES
    DeliveredIsSettled
