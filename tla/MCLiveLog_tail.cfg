\* Two lines, two history requests at a time, a page of one line and a view
\* of two, so that rows are trimmed and replies cross.
CONSTANTS
    LoggerPrefixes <- MCLoggerPrefixes
    Kinds <- MCKinds
    Queries <- MCQueries
    Page = 1
    MaxRows = 2
    QueueMax = 1
    MaxLines = 2
    Streams = 2
    h1 = h1
    h2 = h2
    Loads = {h1, h2}
SPECIFICATION Spec
SYMMETRY Symmetry
INVARIANT TypeOK
INVARIANT TailIsWhole
INVARIANT RowsOfTheFilter
INVARIANT OnceByTheStream
