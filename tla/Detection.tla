------------------------------ MODULE Detection ------------------------------
(***************************************************************************)
(* runAll of packages/detectors/src: from the old and the new snapshot of  *)
(* one package to its findings, by the detectors in turn and then the      *)
(* fallback and the three escalations, each reading what the ones before   *)
(* it left.                                                                *)
(*                                                                         *)
(* A snapshot is the set of facts the analyzer extracted.  A fact has a    *)
(* kind k, a place at (a file, a script, a dependency), a value v and a    *)
(* context c.  Its files have an order too, the one in which their writes  *)
(* ended when the archive was extracted: any order, and one detector's     *)
(* outcome depends on it.  Messages, confidence, advisories and the order  *)
(* of the findings are left out; so is obf.image-decode-exec, which looks  *)
(* for image files among the analyzed ones, where analyzeTarball puts none.*)
(***************************************************************************)
EXTENDS Naturals, FiniteSets

CONSTANTS
  Worlds,             \* packages: [olds, news, orders, dirs, squats, hyphens, trusts]
  ScriptFiles,        \* analyzed files but those of .json: with a .js or .ts name
  JsonFiles,          \* places with a .json name
  Entropy,            \* tenths of a bit per byte, by content hash
  BuildFiles,         \* places under dist/, lib/ and the like
  HotPaths,           \* targets one of HOT_PATH_PATTERNS matches
  ManifestRank,       \* targets "package.json" or "*/package.json", in the order of sort()
  SensitiveEnv,       \* environment keys of SENSITIVE_ENV_KEYS
  WholeEnv,           \* process.env as a whole
  DnsModules,
  SuspiciousImports,  \* wasm imports isSuspiciousImport accepts
  Disposable,         \* addresses under a disposable domain
  Line,               \* of a dynamic-code site
  PlainHttp,          \* dependency specs that are an http:// URL
  ForeignHttps        \* and https:// URLs of no known registry

VARIABLES
  pair,     \* [old, new, dir], the order of the files of each: [oldOrder, newOrder],
            \* and what the name says: [squat, hyphen, trusted]
  all,      \* its list of findings, as a set
  stage     \* the part of runAll that comes next

vars == <<pair, all, stage>>

Severities == <<"INFO", "WARN", "BLOCK">>
Rank(s) == CHOOSE i \in 1..3 : Severities[i] = s

Fact(k, at, v, c) == [k |-> k, at |-> at, v |-> v, c |-> c]
Facts(s, k) == {x \in s : x.k = k}
Values(s, k) == {x.v : x \in Facts(s, k)}
Places(s, k) == {x.at : x \in Facts(s, k)}
Fresh(p, k) == Values(p.new, k) \ Values(p.old, k)
FreshFacts(p, k) == Facts(p.new, k) \ Facts(p.old, k)

\* No context, no code.
Blank == ""

\* Every analyzed file has one "file" fact: v is its hash.
FilesHashed(s) ==
  \A x \in Facts(s, "file") :
    /\ x = Fact("file", x.at, x.v, Blank) /\ x.v \in DOMAIN Entropy
    /\ \A y \in Facts(s, "file") : y.at = x.at => y = x

\* The marks of an obfuscated file are those of an analyzed one.
IsSnapshot(s) ==
  /\ IsFiniteSet(s)
  /\ FilesHashed(s)
  /\ Places(s, "minified") \cup Places(s, "suspicious") \subseteq Places(s, "file")

ASSUME WorldsAssumption == \A w \in Worlds : \A s \in w.olds \cup w.news : IsSnapshot(s)

\* The files a snapshot's writes are found in, one after the other.
IsOrder(order, s) ==
  /\ Places(s, "write") \subseteq DOMAIN order
  /\ \A f, g \in DOMAIN order : order[f] \in Nat /\ (order[f] = order[g] => f = g)

ASSUME OrdersAssumption ==
  \A w \in Worlds : \A s \in w.olds \cup w.news, o \in w.orders : IsOrder(o, s)
ASSUME RankAssumption ==
  \A t, u \in DOMAIN ManifestRank :
    ManifestRank[t] \in Nat /\ (ManifestRank[t] = ManifestRank[u] => t = u)
ASSUME UrlAssumption == Blank \notin PlainHttp \cup ForeignHttps
ASSUME EntropyAssumption == \A h \in DOMAIN Entropy : Entropy[h] \in Nat

\* code is the dynamic-code-kind of the provenance, Blank without one.
Finding(d, cat, sev, of, code) ==
  [detector |-> d, category |-> cat, severity |-> sev, of |-> of, code |-> code]
Found(d, cat, sev, keys) == {Finding(d, cat, sev, <<key>>, Blank) : key \in keys}
FoundAt(d, cat, sev, facts) == {Finding(d, cat, sev, <<x.at, x.v>>, Blank) : x \in facts}
If(condition, findings) == IF condition THEN findings ELSE {}

-----------------------------------------------------------------------------
(* Network.                                                                *)

NewModules(p) == Found("net.new-module", "NET", "WARN", Fresh(p, "net"))

\* The occurrence collectUrls keeps: its context counts most, its file next.
Score(x) ==
  (CASE x.c = "network-arg" -> 40 [] x.c = "config-value" -> 30
     [] x.c = "literal" -> 20 [] x.c = "comment" -> 10 [] OTHER -> 0)
  + (IF x.at \in ScriptFiles THEN 5 ELSE IF x.at \in JsonFiles THEN 3 ELSE 1)

Occurrences(s, u) == {x \in Facts(s, "url") : x.v = u}
Context(s, u) ==
  (CHOOSE x \in Occurrences(s, u) : \A y \in Occurrences(s, u) : Score(x) >= Score(y)).c

NewEndpoints(p) ==
  {Finding("net.new-endpoint", "NET",
           IF Context(p.new, u) \in {"literal", "comment"} THEN "INFO" ELSE "WARN", <<u>>, Blank)
     : u \in Fresh(p, "url")}

EncodedEndpoints(p) == Found("net.encoded-endpoint", "NET", "BLOCK", Fresh(p, "encoded"))

\* What makes a file with a dns module suspect.
Corroborated(s, f) ==
  \/ \E x \in Facts(s, "code") : x.at = f /\ x.v = "char-arithmetic-decoder"
  \/ f \in Places(s, "encoded") \cup Places(s, "dns-call")

DnsHostnames(p) ==
  LET dns(f) == {x.v : x \in {y \in Facts(p.new, "net") : y.at = f}} \cap DnsModules
      fires(f) == /\ dns(f) # {}
                  /\ p.dir = "added" \/ dns(f) \ Values(p.old, "net") # {}
                  /\ Corroborated(p.new, f)
  IN Found("net.dns-templated-hostname", "NET", "WARN", {f \in Places(p.new, "net") : fires(f)})

-----------------------------------------------------------------------------
(* Processes, files, environment, code.                                    *)

ExecModules(p) == Found("exec.new-module", "EXEC", "WARN", Fresh(p, "exec"))
HotWrites(p) == Found("fs.new-hotpath-write", "FS", "BLOCK", Fresh(p, "write") \cap HotPaths)
HotReads(p) == Found("fs.new-hotpath-read", "FS", "BLOCK", Fresh(p, "read") \cap HotPaths)

Sensitive(s) == Values(s, "env") \cap (SensitiveEnv \cup {WholeEnv})
\* Variant: the keys the old version read too.
HarvestAll(p) == Found("env.token-harvest", "ENV", "BLOCK", Sensitive(p.new))
EnvHarvest(p) == Found("env.token-harvest", "ENV", "BLOCK", Sensitive(p.new) \ Sensitive(p.old))

DangerTier(kind) ==
  CASE kind = "vm" -> "BLOCK"
    [] kind \in {"eval", "new-function", "char-arithmetic-decoder"} -> "WARN"
    [] OTHER -> "INFO"

\* c is the site: each is a finding of its own, but versions are compared by
\* file, line and kind, which several sites may share.
SiteKey(x) == <<x.at, Line[x.c], x.v>>
NewSites(p) ==
  {x \in Facts(p.new, "code") : \A y \in Facts(p.old, "code") : SiteKey(y) # SiteKey(x)}
CodeSinks(p) ==
  {Finding("code.dynamic-loading-added", "CODE", DangerTier(x.v), <<x.at, x.c, x.v>>, x.v)
     : x \in NewSites(p)}

SuspiciousWasm(p) ==
  FoundAt("wasm.suspicious-import", "CODE", "BLOCK",
          {x \in FreshFacts(p, "wasm-import") : x.v \in SuspiciousImports})
UnparseableWasm(p) ==
  Found("wasm.unparseable", "OBF", "WARN",
        Places(p.new, "wasm-error") \ Places(p.old, "wasm-error"))
NativeArtifacts(p) ==
  FoundAt("bin.new-native-artifact", "INSTALL", "BLOCK", FreshFacts(p, "native"))

-----------------------------------------------------------------------------
(* Obfuscation.                                                            *)

EntropyOf(s, f) == Entropy[CHOOSE h \in Values(s, "file") : Fact("file", f, h, Blank) \in s]
Obfuscated(s) == Places(s, "minified") \cup Places(s, "suspicious")

\* What appeared in a file both versions have.
Jumped(p, f) ==
  \/ /\ EntropyOf(p.new, f) > EntropyOf(p.old, f) + 15
     /\ ~(f \in BuildFiles /\ EntropyOf(p.old, f) >= 45)
  \/ f \in Places(p.new, "minified") \ Places(p.old, "minified")
  \/ f \in Places(p.new, "suspicious") \ Places(p.old, "suspicious")

\* A declared entry point in a build directory is expected to be minified.
ObfSeverity(p, f) ==
  IF f \in Values(p.new, "entry") /\ f \in BuildFiles THEN "INFO" ELSE "WARN"
ObfFound(p, d, files) == UNION {Found(d, "OBF", ObfSeverity(p, f), {f}) : f \in files}

ObfuscatedFiles(p) ==
  LET kept == Places(p.new, "file") \cap Places(p.old, "file")
  IN ObfFound(p, "obf.entropy-jump", {f \in kept : Jumped(p, f)})
       \cup ObfFound(p, "obf.new-obfuscated-file", Obfuscated(p.new) \ kept)

MangledIds(s, f) == {x.v : x \in {y \in Facts(s, "mangled") : y.at = f}}
ManglerSignatures(p) ==
  Found("obf.js-mangler-signature", "OBF", "WARN",
        {f \in ScriptFiles : Cardinality(MangledIds(p.new, f) \ MangledIds(p.old, f)) >= 3})

Homoglyphs(p) ==
  Found("obf.unicode-homoglyph-boundary", "OBF", "WARN",
        (Places(p.new, "homoglyph") \ Places(p.old, "homoglyph")) \cap ScriptFiles)

-----------------------------------------------------------------------------
(* Scripts.  A "script" fact has the hook as its place and the body as v.  *)

InstallTier == {"preinstall", "install", "postinstall", "preuninstall", "uninstall",
                "postuninstall", "preinstalled"}
PublishTier == {"prepublish", "prepublishOnly", "publish", "postpublish", "prepack", "pack",
                "postpack", "preversion", "version", "postversion", "preshrinkwrap",
                "shrinkwrap", "postshrinkwrap"}
QuietTier == {"preprepare", "prepare", "postprepare", "test", "prestart", "start", "poststart",
              "prestop", "stop", "poststop", "prerestart", "restart", "postrestart"}

TierOf(hook) == IF hook \in InstallTier THEN "BLOCK"
                ELSE IF hook \in PublishTier THEN "WARN" ELSE "INFO"

LifecycleScripts(p) ==
  {Finding(IF x.at \in Places(p.old, "script") THEN "install.script-changed"
           ELSE "install.script-added", "INSTALL", TierOf(x.at), <<x.at>>, Blank)
     : x \in {y \in FreshFacts(p, "script") : y.at \in InstallTier \cup PublishTier \cup QuietTier}}

\* The first install-tier hook, with a process module and a manifest write.
Hooks == <<"preinstall", "install", "postinstall", "prepare">>
HooksOf(s) == {i \in DOMAIN Hooks : Hooks[i] \in Places(s, "script")}
FirstHook(s) == CHOOSE i \in HooksOf(s) : \A j \in HooksOf(s) : i <= j
ManifestWrites(s) == {x \in Facts(s, "write") : x.v \in DOMAIN ManifestRank}
SelfPublishes(s) == HooksOf(s) # {} /\ Facts(s, "exec") # {} /\ ManifestWrites(s) # {}

\* The first target of the first file that writes a manifest.
Precedes(order, x, y) ==
  \/ order[x.at] < order[y.at]
  \/ x.at = y.at /\ ManifestRank[x.v] <= ManifestRank[y.v]
ManifestTarget(s, order) ==
  (CHOOSE x \in ManifestWrites(s) : \A y \in ManifestWrites(s) : Precedes(order, x, y)).v

\* The version before had the shape, with the same hook and the same target.
SameShape(p) ==
  /\ p.dir = "changed" /\ SelfPublishes(p.old)
  /\ FirstHook(p.old) = FirstHook(p.new)
  /\ ManifestTarget(p.old, p.oldOrder) = ManifestTarget(p.new, p.newOrder)

SelfPublishShape(p) ==
  If(SelfPublishes(p.new) /\ ~SameShape(p),
     Found("install.self-publish-shape", "INSTALL",
           IF HooksOf(p.old) = {} THEN "BLOCK" ELSE "WARN", {"shape"}))

\* A "bundled-hook" fact has the bundled dependency as its place.
BundledHooks == {"preinstall", "install", "postinstall", "prepare", "preprepare",
                 "postprepare", "prepublish", "prepublishOnly", "publish", "postpublish",
                 "prepack", "pack", "postpack"}

BundledDeps(p) ==
  If(Fresh(p, "bundled") # {},
     Found("deps.bundled-dependency-added", "DEPS", "WARN", {"bundled"}))
  \cup FoundAt("install.bundled-lifecycle", "INSTALL", "BLOCK",
                {x \in Facts(p.new, "bundled-hook") : x.v \in BundledHooks})

-----------------------------------------------------------------------------
(* Publishers, dependencies, names.                                        *)

\* The branches of the maintainer detector, in their order; trusted is the
\* entry of BUILTIN_TRUST_STORE for the package, empty without one.
MaintainerSeverity(trusted, before, after) ==
  CASE after = {} -> IF before \subseteq trusted THEN "BLOCK" ELSE "WARN"
    [] before = {} \/ trusted = {} -> "WARN"
    [] before \subseteq trusted /\ after \cap trusted = {} -> "BLOCK"
    [] after \ before \subseteq trusted /\ after \subseteq trusted -> "INFO"
    [] OTHER -> "WARN"

MaintainerChange(p) ==
  LET before == Values(p.old, "email")
      after == Values(p.new, "email")
  IN If(p.dir = "changed" /\ before # after,
        Found("meta.maintainer-change", "META",
              MaintainerSeverity(p.trusted, before, after), {"emails"}))

\* Variant: the two severities swapped.
SwappedDomain(p) ==
  LET known == Values(p.old, "email") \cup Values(p.old, "author")
      now == Values(p.new, "email") \cup Values(p.new, "author")
  IN If((now \ known) \cap Disposable # {},
        Found("meta.disposable-author-domain", "META",
              IF p.dir = "added" THEN "WARN" ELSE "BLOCK", {"emails"}))

DisposableDomain(p) ==
  LET known == Values(p.old, "email") \cup Values(p.old, "author")
      now == Values(p.new, "email") \cup Values(p.new, "author")
  IN If((now \ known) \cap Disposable # {},
        Found("meta.disposable-author-domain", "META",
              IF p.dir = "added" THEN "BLOCK" ELSE "WARN", {"emails"}))

\* c is the bucket of a dependency: peer replaces optional replaces normal.
Buckets == <<"peer", "optional", "normal">>
DepSpec(s, n) ==
  LET of(b) == {x \in Facts(s, "dep") : x.at = n /\ x.c = Buckets[b]}
      first == CHOOSE b \in 1..3 : of(b) # {} /\ \A a \in 1..(b - 1) : of(a) = {}
  IN IF n \in Places(s, "dep") THEN (CHOOSE x \in of(first) : TRUE).v ELSE Blank

UrlSeverity(spec) == IF spec \in PlainHttp THEN "BLOCK" ELSE "WARN"
UrlDeps(p) ==
  {Finding("manifest-deps.http-resolved-url", "DEPS", UrlSeverity(DepSpec(p.new, n)), <<n>>, Blank)
     : n \in {d \in Places(p.new, "dep") : /\ DepSpec(p.new, d) # DepSpec(p.old, d)
                                            /\ DepSpec(p.new, d) \in PlainHttp \cup ForeignHttps}}

NewDirectDeps(p) ==
  LET direct(s) == {x.at : x \in {y \in Facts(s, "dep") : y.c = "normal"}}
  IN If(p.dir = "changed",
        Found("deps.new-direct-dep", "DEPS", "INFO", direct(p.new) \ direct(p.old)))

\* Whether the name is near a popular one is a datum of the pair.
TyposquatCandidate(p) ==
  If(p.dir = "added" /\ p.squat, Found("deps.typosquat-candidate", "DEPS", "WARN", {"name"}))
HyphenPermutation(p) ==
  If(p.dir = "added" /\ p.hyphen # "none",
     Found("typo.hyphen-permutation", "DEPS",
           IF p.hyphen = "reorder" THEN "BLOCK" ELSE "WARN", {"name"}))

FirstVersionCluster(p) ==
  LET kinds == {k \in {"net", "exec", "fs-module", "code"} : Facts(p.new, k) # {}}
                 \cup (IF Sensitive(p.new) # {} THEN {"env"} ELSE {})
                 \cup (IF Obfuscated(p.new) # {} THEN {"obf"} ELSE {})
  IN If(p.dir = "added" /\ Cardinality(kinds) >= 4,
        Found("deps.first-version-cluster", "DEPS", "BLOCK", {"cluster"}))

-----------------------------------------------------------------------------
(* The parts of runAll.                                                    *)

Detectors(p) ==
  UNION {NewModules(p), NewEndpoints(p), EncodedEndpoints(p), DnsHostnames(p), ExecModules(p),
         HotWrites(p), HotReads(p), EnvHarvest(p), CodeSinks(p), SuspiciousWasm(p),
         UnparseableWasm(p), NativeArtifacts(p), ObfuscatedFiles(p), ManglerSignatures(p),
         Homoglyphs(p), LifecycleScripts(p), SelfPublishShape(p), BundledDeps(p),
         MaintainerChange(p), DisposableDomain(p), UrlDeps(p), NewDirectDeps(p),
         TyposquatCandidate(p), HyphenPermutation(p), FirstVersionCluster(p)}

Of(found, d) == {f \in found : f.detector = d}
At(found, sev) == {f \in found : f.severity = sev}
Categories(found) == {f.category : f \in found}
Blocked(found) == {[f EXCEPT !.severity = "BLOCK"] : f \in found}
Raise(found, chosen) == (found \ chosen) \cup Blocked(chosen)

\* addFirstInstallSecretExfilFallback.
WithFallback(p, found) ==
  LET env == Of(found, "env.token-harvest")
  IN found \cup If(/\ p.dir = "added" /\ Of(found, "deps.first-version-cluster") = {}
                   /\ Of(found, "net.new-endpoint") \cup Of(found, "net.new-module") # {}
                   /\ (\E f \in env : f.of = <<WholeEnv>>) \/ Cardinality(env) >= 3,
                   Found("deps.first-version-cluster", "DEPS", "BLOCK", {"secrets"}))

DangerousCode == {"eval", "new-function", "unpacker", "marshal", "deserialize"}
DangerousIn(found) == {f \in found : f.category = "CODE" /\ f.code \in DangerousCode}

\* Escalation 1.
EscalateObf(found) ==
  IF \/ Categories(found) \cap {"NET", "INSTALL", "EXEC", "ENV", "FS"} # {}
     \/ DangerousIn(found) # {}
  THEN Raise(found, {f \in At(found, "WARN") : f.category = "OBF"})
  ELSE found

\* Escalation 2.
EscalateTyposquat(found) ==
  IF \/ Categories(At(found, "BLOCK"))
          \cap {"NET", "INSTALL", "EXEC", "ENV", "FS", "CODE", "OBF"} # {}
     \/ Cardinality(Categories(At(found, "WARN"))) >= 2
  THEN Raise(found, Of(At(found, "WARN"), "deps.typosquat-candidate"))
  ELSE found

\* hasNewNetworkArgUrl: a new URL somewhere with no harmless context.
NewNetworkArg(p) ==
  \E x \in Facts(p.new, "url") : /\ x.c \notin {"literal", "comment", "config-value"}
                                 /\ x.v \notin Values(p.old, "url")

AttackPair(p, cats) ==
  \E a, b \in cats \cap {"NET", "ENV", "EXEC", "INSTALL"} :
    a # b /\ ("NET" \in {a, b} => NewNetworkArg(p))

\* Variant: two categories exactly.
CompoundOfTwo(p, found) ==
  LET warns == At(found, "WARN")
      cats == Categories(warns)
      count == Cardinality(warns)
  IN IF \/ count >= 3 /\ Cardinality(cats) = 2
        \/ count >= 2 /\ AttackPair(p, cats)
        \/ count >= 3 /\ cats = {"OBF"}
        \/ Cardinality(DangerousIn(warns)) >= 3 /\ cats = {"CODE"}
     THEN Raise(found, warns)
     ELSE found

\* Variant: leaves to escalation 1 what it did not raise.
CompoundButObf(p, found) ==
  LET warns == At(found, "WARN")
      cats == Categories(warns)
      count == Cardinality(warns)
  IN IF \/ count >= 3 /\ Cardinality(cats) >= 2
        \/ count >= 2 /\ AttackPair(p, cats)
        \/ count >= 3 /\ cats = {"OBF"}
        \/ Cardinality(DangerousIn(warns)) >= 3 /\ cats = {"CODE"}
     THEN Raise(found, IF cats = {"OBF"} THEN warns ELSE {w \in warns : w.category # "OBF"})
     ELSE found

\* Escalation 3.
EscalateCompound(p, found) ==
  LET warns == At(found, "WARN")
      cats == Categories(warns)
      count == Cardinality(warns)
  IN IF \/ count >= 3 /\ Cardinality(cats) >= 2
        \/ count >= 2 /\ AttackPair(p, cats)
        \/ count >= 3 /\ cats = {"OBF"}
        \/ Cardinality(DangerousIn(warns)) >= 3 /\ cats = {"CODE"}
     THEN Raise(found, warns)
     ELSE found

Escalate(p, found) == EscalateCompound(p, EscalateTyposquat(EscalateObf(found)))
RunAll(p) == Escalate(p, WithFallback(p, Detectors(p)))

-----------------------------------------------------------------------------
\* A snapshot absent from one side is empty.
Init ==
  /\ \E w \in Worlds :
       \E o \in w.olds, n \in w.news, a \in w.orders, b \in w.orders,
          d \in w.dirs, q \in w.squats, h \in w.hyphens, t \in w.trusts :
         pair = [old |-> IF d = "added" THEN {} ELSE o, new |-> IF d = "removed" THEN {} ELSE n,
                 oldOrder |-> a, newOrder |-> b,
                 dir |-> d, squat |-> q, hyphen |-> h, trusted |-> t]
  /\ all = {}
  /\ stage = "detect"

Step(from, found, to) == stage = from /\ stage' = to /\ all' = found /\ UNCHANGED pair

Detect  == Step("detect", Detectors(pair), "fallback")
Fallback == Step("fallback", WithFallback(pair, all), "obf")
RaiseObf == Step("obf", EscalateObf(all), "typosquat")
RaiseTyposquat == Step("typosquat", EscalateTyposquat(all), "compound")
RaiseCompound == Step("compound", EscalateCompound(pair, all), "done")

Next == Detect \/ Fallback \/ RaiseObf \/ RaiseTyposquat \/ RaiseCompound

Spec == Init /\ [][Next]_vars

-----------------------------------------------------------------------------
Done == stage = "done"

\* 0 for no finding, else the rank of the gravest.
Gravity(found) ==
  LET ranks == {Rank(f.severity) : f \in found} \cup {0}
  IN CHOOSE m \in ranks : \A r \in ranks : m >= r

\* Facts that no detector reads as a reassurance: what a package does.  A
\* URL is not one, as an occurrence in a comment can make it harmless, nor a
\* dependency, as an entry of another bucket can hide its URL.
Capabilities == {"net", "encoded", "dns-call", "exec", "fs-module", "write", "read", "env",
                 "code", "wasm-import", "wasm-error", "native", "minified", "suspicious",
                 "mangled", "homoglyph", "script", "bundled", "bundled-hook"}

\* One more manifest write can come first and be the one the old version had:
\* the shape was new without it and is the old one with it.
RestoresTarget(p, x) ==
  /\ SelfPublishes(p.new) /\ SameShape(p)
  /\ x \in ManifestWrites(p.new) /\ ManifestWrites(p.new \ {x}) # {}
  /\ ManifestTarget(p.new \ {x}, p.newOrder) # ManifestTarget(p.new, p.newOrder)

(***************************************************************************)
(* The three escalations count what earlier ones left at WARN, so one that *)
(* raises a finding takes it from the counts of the next.  Even so, one    *)
(* more capability never makes the verdict on a package milder, unless it  *)
(* is a manifest write that comes before the one the shape detector would  *)
(* have found changed.                                                     *)
(***************************************************************************)
MoreIsNeverMilder ==
  Done => \A x \in pair.new \ pair.old :
            x.k \in Capabilities /\ ~RestoresTarget(pair, x) =>
              Gravity(RunAll([pair EXCEPT !.new = @ \ {x}])) <= Gravity(all)

(***************************************************************************)
(* Escalation is complete in one pass: run again on its own result it      *)
(* raises nothing, although the first two look at severities that the last *)
(* one changes after them.                                                 *)
(***************************************************************************)
EscalationSettled == Done => Escalate(pair, all) = all

\* The findings that compare versions rather than report a capability, and
\* the one whose file had to be there before.
Comparisons == {"meta.maintainer-change", "deps.new-direct-dep", "obf.entropy-jump"}

(***************************************************************************)
(* Installing a package for the first time is judged at least as gravely   *)
(* as upgrading to the same contents: the detectors' branches for added    *)
(* packages do not lose what their branches for changed ones report.       *)
(***************************************************************************)
FirstInstallNoMilder ==
  Done /\ pair.dir = "changed" /\ (\A f \in Detectors(pair) : f.detector \notin Comparisons) =>
    Gravity(all) <= Gravity(RunAll([pair EXCEPT !.old = {}, !.dir = "added"]))

(***************************************************************************)
(* An upgrade that brings no new fact is silent, up to the detectors that  *)
(* react to something gone or elsewhere in the order (publishers, the      *)
(* first install hook or manifest write, the entry of another bucket that  *)
(* hid a URL) and the one that does not compare versions.                  *)
(***************************************************************************)
NoNewsIsSilent ==
  Done /\ pair.dir = "changed" /\ pair.new \subseteq pair.old =>
    \A f \in all : f.detector \in {"meta.maintainer-change", "install.self-publish-shape",
                                   "manifest-deps.http-resolved-url",
                                   "install.bundled-lifecycle"}
=============================================================================
