SPECIFICATION Spec
CONSTANTS
    alert = alert
    manual = manual
    download = download
    NoOne = NoOne
    Worker <- MCWorker
    Reader <- MCReader
    MaxRecords = 2
    MaxIds = 4
    MaxRuns = 2
INVARIANTS
    TypeOK
    IndexedFilesComplete
    FilesAreAccountedFor
    DownloadsAreWhole
PROPERTY
    UnavailableOnlyAfterEviction
SYMMETRY Symmetry
CHECK_DEADLOCK FALSE
