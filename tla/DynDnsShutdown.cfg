SPECIFICATION Spec
CONSTANTS
    planet = planet
    moon = moon
    d1 = d1
    dm = dm
    None = None
    Planet = planet
    Moon = {}
    Domain = {d1}
    OwnerOf <- MCOwner
    Ip = {1, 2}
    Configs <- PlanetOnly
    Installed = {planet}
    Validates = FALSE
    MaxChanges = 0
    MaxSpurious = 0
CHECK_DEADLOCK FALSE
PROPERTY StopsOnRequest
