\* Two folders and a document, two requests at a time.
CONSTANTS
    f1 = f1
    f2 = f2
    f3 = f3
    d1 = d1
    r1 = r1
    r2 = r2
    Root = Root
    Nodes = {f1, f2, d1}
    Folders = {f1, f2}
    Reqs = {r1, r2}

SYMMETRY Alike

SPECIFICATION Spec

INVARIANTS
    TypeOK
    TreeUnlessOverlap
    OnlyInFolders

PROPERTY
    TrashUntouched
