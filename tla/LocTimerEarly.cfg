SPECIFICATION TimerSpec
CONSTANTS
    Clients = {c1, c2}
    Delays = {1, 2}
    MaxStarts = 3
    MaxTime = 4
PROPERTIES
    NeverEarly
