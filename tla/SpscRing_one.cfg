CONSTANTS
    p1 = p1 p2 = p2 v1 = v1 v2 = v2 v3 = v3 v4 = v4 v5 = v5
    Producer = {p1}
    Value = {v1, v2, v3, v4, v5}
    Waiting = {v4, v5}
    Capacity = 3
    NONE = NONE
SPECIFICATION FairSpec
PROPERTIES ImplementsQueue Delivered
