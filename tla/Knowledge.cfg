SPECIFICATION CSpec
CONSTANTS
    n1 = n1
    n2 = n2
    p1 = p1
    a1 = a1
    a2 = a2
    f1 = f1
    f2 = f2
    f3 = f3
    al = al
    Albums = {al}
    Tags = {"sea", "ocean"}
    Words = {"sunset", "fog"}
    Shelves <- SomeShelves
    MaxRow = 3
    None = None
    Notes = {n1, n2}
    People = {p1}
    Photos = {a1, a2}
    Fields = {f1, f2, f3}
    Callers = {1, 2}
    Alike <- TitleLikeName
    Worlds <- SomeWorlds
CHECK_DEADLOCK FALSE
INVARIANTS CacheFollows TasksTrue RecsTrue SmartFollows
PROPERTIES UserKept ChoicesStay
