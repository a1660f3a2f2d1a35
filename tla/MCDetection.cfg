SPECIFICATION Spec
CONSTANTS
  Worlds <- MCWorlds
  ScriptFiles <- MCScripts
  JsonFiles = {}
  Entropy <- MCEntropy
  BuildFiles = {"dist/b.js"}
  HotPaths = {"~/.ssh", "~/.npmrc"}
  ManifestRank <- MCRank
  SensitiveEnv <- MCSensitive
  WholeEnv = "*"
  DnsModules = {"dns"}
  SuspiciousImports = {"env.exec"}
  Disposable = {"d"}
  Line <- MCLine
  PlainHttp = {"http:a", "http:b"}
  ForeignHttps = {"https:a"}
INVARIANTS
  MoreIsNeverMilder
  EscalationSettled
  FirstInstallNoMilder
  NoNewsIsSilent
CHECK_DEADLOCK FALSE
