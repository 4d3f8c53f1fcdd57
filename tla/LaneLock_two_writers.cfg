SPECIFICATION Spec
CONSTANTS
    Procs = {p1, p2, p3}
    NoFile = NoFile
    MaxCrashes = 1
INVARIANT SingleWriterAlways
