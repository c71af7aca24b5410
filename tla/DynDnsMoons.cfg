SPECIFICATION Spec
CONSTANTS
    planet = planet
    moon = moon
    d1 = d1
    dm = dm
    None = None
    Planet = planet
    Moon = {moon}
    Domain = {dm}
    OwnerOf <- MCOwner
    Ip = {1, 2}
    Configs <- MoonAlone
    Installed = {planet, moon}
    Validates = TRUE
    MaxChanges = 1
    MaxSpurious = 0
CHECK_DEADLOCK FALSE
PROPERTY MoonsHeal
