SPECIFICATION FilesSpec
CONSTANTS
    m1 = m1
    m2 = m2
    Moon = {m1, m2}
    MaxEdits = 4
    Interval = 6
    Second = 3
    Delay = 1
    MaxTime = 24
INVARIANTS LateEditsRead
PROPERTIES
    NewMoonsOrbited
    RemovedMoonsDeorbited
