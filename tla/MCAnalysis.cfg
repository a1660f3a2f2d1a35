SPECIFICATION AnalysisSpec
CONSTANTS
    Archives <- MCArchives
    CapabilitiesIn <- MCCapabilities
    EffectsOf <- MCEffects
    Watched <- MCWatched
    Pairs <- MCPairs
    MAX_PASSES = 3
    CharsOf <- MCCharsOf
    DecodedAs <- MCDecodedAs
    Unescaped <- MCUnescaped
    NETWORK_MODULES <- MCNetwork
    EXEC_MODULES <- MCExec
    FS_MODULES <- MCFs
    NETWORK_CALL_NAMES <- MCCallNames
    CONFIG_KEY_NAMES <- MCConfigKeys
    WriteOps <- MCWriteOps
    ReadOps <- MCReadOps
    Parsed <- MCParsed
    Bulk <- MCBulk
    UrlStarts = {"http://"}
    Hosts <- MCHosts
    Breaks = {" ", "'"}
    PathStarts = {"~", "/tmp/", "/etc/"}
    SensitiveHints = {"/etc/"}
    Opaque = {"blob"}
    Dotted = {".com"}
    maxEntries = 3
    maxEntryBytes = 2
    maxTotalBytes = 3
    ExtensionOf <- MCExtensions
    Scopes = {"@s"}
    Releases <- MCReleases
    Dashed = {"pkg-1.0"}
    InfoFile <- MCInfoFile
    Requested <- MCRequested
    EntryPointsIn <- MCEntryPoints
    ScriptsIn <- MCScripts
    PY_NETWORK_MODULES <- MCPyNetwork
    PY_EXEC_MODULES <- MCPyExec
    PY_FS_MODULES <- MCPyFs
    EnvNames <- MCEnvNames
INVARIANTS
    SnapshotMatchesArchive
    RecordAccountsForRun
    EquivalentSourcesAgree
CHECK_DEADLOCK FALSE
