SPECIFICATION LifeSpec
CONSTANTS
    Main = Main
    Api = {Main, t1}
    Handler = {h1, h2}
    Revision = {r1, r2}
    NoConfig = NoConfig
    Absent = Absent
    Blank = Blank
    MaxJoins = 2
    MaxRestarts = 1
CHECK_DEADLOCK FALSE
INVARIANT LeftForGood
