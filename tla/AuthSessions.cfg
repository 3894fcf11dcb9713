\* Two requests at once; a lookup compares with the two newest sessions (8 in the code).
SPECIFICATION Spec
CONSTANTS
    Handler = {h1, h2}
    Take = 2
    Sessions = 3
    Links = 2
    Passwords = 2
SYMMETRY HandlerSymmetry
CONSTRAINT Unskewed
INVARIANTS TypeOK ResetEndsSessions OneSessionPerLogin LinkWorksOnce
