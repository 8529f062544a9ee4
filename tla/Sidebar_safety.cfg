\* A folder, and a document to come.
CONSTANTS
    f = f
    n = n
    Root = Root
    None = None
    Gone = Gone
    Nodes = {f, n}
    Folders = {f}
    Start <- MCStart
    MaxSent = 2
    MaxWrites = 3

SPECIFICATION Spec

INVARIANTS
    TypeOK
    LoadingIsAwaited
    OwnWritesShown
    QuietIsTrue

PROPERTIES
    NeverBackwards
