SPECIFICATION Spec
CONSTANTS
    Networks = {1, 2}
    File1 = File1
    File2 = File2
    Files <- MCFiles
    BuiltIn = BuiltIn
    Empty = Empty
    NoState = NoState
SYMMETRY Interchangeable
INVARIANTS TypeOK ExternalIsNamed OffIsBuiltIn ChooserIsWanted ChooserNeedsEditor
