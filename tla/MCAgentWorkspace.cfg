CONSTANTS
    code = code
    test = test
    added = added
    outside = outside
    Missing = Missing
    Piece <- MCPiece
    Name = {code, test, added, outside}
    File = {code, test, added}
    Protected = {test, added}
    Process = {p1, p2, p3}
    MaxCommands = 2
    MarkerLength = 2
    MaxOutput = 5
    MaxFile = 5
    MaxLines = 2
    MaxWrite = 5
    Source <- MCSource
    WriteTexts <- MCWriteTexts
    Searches <- MCSearches
    Replacements <- MCReplacements
    Expectations = {0, 1, 2}
    Lines = {0, 1, 3}
    ProcessTexts <- MCProcessTexts
SPECIFICATION FairWorkspaceSpec
INVARIANTS
    ReturnedCommandIsOver
    EditIsExact
    PagesTileTheFile
PROPERTIES
    CommandReturns
    VerificationStartsFromOwnTests
