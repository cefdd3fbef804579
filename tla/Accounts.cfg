SPECIFICATION Spec
CONSTANTS
    a = a
    b = b
    h1 = h1
    h2 = h2
    s1 = s1
    s2 = s2
    None = None
    Boot = Boot
    Users = {a, b}
    Admin = a
    Roles = {"viewer", "owner"}
    Asks <- MCAsks
    Handlers = {h1, h2}
    Sessions = {s1, s2}
SYMMETRY Symmetry
INVARIANTS TypeOK SessionsEnd
PROPERTIES SomebodyOwnsTheSystem ResetTakesEffect
