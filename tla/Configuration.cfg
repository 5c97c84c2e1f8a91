CONSTANTS
    Paths = {p}
    NoPath = NoPath
    Contents <- MCContents
    Options <- MCOptions
    DatabaseFiles <- MCDatabases
    WideModulus <- MCModulus
    p = p
SPECIFICATION ConfigSpec
INVARIANTS OptionsWin RestartKeepsConfig DatabasesNamed
PROPERTY FilesKept
