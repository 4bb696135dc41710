SPECIFICATION ServerSpec
CONSTANTS
    pa = pa  pb = pb  ps = ps  empty = empty  short = short  wide = wide
    Paths = {pa, pb, ps}
    Documents = {empty, short, wide}
    Missing = Missing
    MaxLines = 4
    Lines <- LinesMC
    Chars <- CharsMC
    Bytes <- BytesMC
    Forbidden = {ps}
    Flat <- FlatMC
    Texts <- TextsMC
    Requests <- RequestsMC
    Overheads = {10, 34}
    MaxChars = 16
    ArgvLimit = 40
    Headroom = 4
    ChunkLimit = 8
    Header = 3
    Separator = 1
    UrlCost = 4
    IndexCost = 4
    MaxEdits = 1
    Handlers = {h1}
    Closers = {k1, k2}
    NoName = NoName
    Nothing = Nothing
INVARIANTS TypeOK InOrder EverythingDelivered PromptFits PartsBounded AnswersRight
PROPERTIES UrlsResolve NothingAfterClose ServerEnds
CHECK_DEADLOCK FALSE
