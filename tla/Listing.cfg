\* Four rows, with every order of ids, over three seconds; pages of one or two.
CONSTANTS
    Ids = {1, 2, 3, 4}
    Limits = {1, 2}
    MaxLag = 1
    MaxTime = 2
SPECIFICATION Spec
INVARIANTS WalkMissesNothing PagesAscend
