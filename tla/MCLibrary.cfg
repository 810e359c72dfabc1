CONSTANTS
    None = None
    Configs <- MCConfigs
    ExporterNodes <- MCExporterNodes
    ProcessorNodes <- MCProcessorNodes
    ReaderNodes <- MCReaderNodes
    SamplerNodes <- MCSamplerNodes
    MaxBuilds = 2
    Callers = {c1, c2}
    MaxLevel = 2
    MaxTimeout = 1
    NumAttributes = 1
    MaxLogCalls = 3
    NoValue = NoValue
    Nil = Nil
    Ctxs = {k1, k2}
    Signals = {"traces", "logs"}
    Docs <- MCDocs
    Names = {"", "app", "default"}
    Counts = {1, 2, 4}
    DefaultCount = 64
    LogAttributes <- MCAttributes
    MaxLibraryCalls = 4
SPECIFICATION AllSpec
CHECK_DEADLOCK FALSE
SYMMETRY Symmetry
INVARIANTS
    BuildInv
    InstalledAsWritten
    CallsAnswered
    SeveritySettles
    ForetoldHolds
    FirstKeyStays
    LibraryInv
