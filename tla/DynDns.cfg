SPECIFICATION Spec
CONSTANTS
    planet = planet
    moon = moon
    d1 = d1
    dm = dm
    None = None
    Planet = planet
    Moon = {}
    Domain = {d1}
    OwnerOf <- MCOwner
    Ip = {1, 2}
    Configs <- PlanetToggled
    Installed = {planet}
    Validates = FALSE
    MaxChanges = 2
    MaxSpurious = 1
CHECK_DEADLOCK FALSE
INVARIANT SaneCadence
PROPERTIES PlanetHeals QuietWhenStable PlanetAnswerKept DisabledMeansStock
