SPECIFICATION Spec
CONSTANTS
    wide = wide
    newline = newline
    slash = slash
    Chars <- MCChars
    Newline = newline
    Wide = {wide}
    Width = 3
    Slash = slash
    None = None
    Pastes <- MCPastes
    Prompts <- MCPrompts
    Histories <- MCHistories
    MaxText = 3
    MaxHistory = 3
CHECK_DEADLOCK FALSE
INVARIANTS
    TypeOK
    VerticalMoves
    HistoryEndsInLast
    KeyStaysInDialog
PROPERTIES
    DraftComesBack
    QuitConfirmed
