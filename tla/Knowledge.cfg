\* Two overlapping requests over three records, in a closed project and outside of any.
CONSTANTS
    a1 = a1
    a2 = a2
    p1 = p1
    project = project
    task = task
    global = global
    NULL = NULL
    Agents <- MCAgents
    Entries = {e1, e2, e3}
    Projects = {p1}
    Open = {}
    Scopes <- MCScopes
    Home <- MCHome
    Connections = {r1, r2}
SPECIFICATION Spec
SYMMETRY Symmetry
INVARIANTS ChainsLinked ArchivedMeansReplaced
PROPERTIES ReplacedByInsiders
