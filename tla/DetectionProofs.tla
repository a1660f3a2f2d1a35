--------------------------- MODULE DetectionProofs ---------------------------
(***************************************************************************)
(* Theorems about Detection, for packages and findings of any number.      *)
(***************************************************************************)
EXTENDS Detection, FiniteSetTheorems, TLAPS

\* A pair of two snapshots, and what each part of runAll left.
PairInv ==
  /\ pair = [old |-> pair.old, new |-> pair.new, oldOrder |-> pair.oldOrder,
             newOrder |-> pair.newOrder, dir |-> pair.dir, squat |-> pair.squat,
             hyphen |-> pair.hyphen, trusted |-> pair.trusted]
  /\ IsSnapshot(pair.old) /\ IsSnapshot(pair.new)

StageInv ==
  /\ stage \in {"detect", "fallback", "obf", "typosquat", "compound", "done"}
  /\ stage = "fallback"  => all = Detectors(pair)
  /\ stage = "obf"       => all = WithFallback(pair, Detectors(pair))
  /\ stage = "typosquat" => all = EscalateObf(WithFallback(pair, Detectors(pair)))
  /\ stage = "compound"  => all = EscalateTyposquat(EscalateObf(WithFallback(pair, Detectors(pair))))
  /\ stage = "done"      => all = RunAll(pair)

Inv == PairInv /\ StageInv

LEMMA InitInv == Init => Inv
PROOF
<1> SUFFICES ASSUME Init PROVE Inv
  OBVIOUS
<1>1. StageInv
  BY DEF Init, StageInv
<1>2. PICK w \in Worlds : \E o \in w.olds, n \in w.news, a \in w.orders, b \in w.orders,
                              d \in w.dirs, q \in w.squats, h \in w.hyphens, t \in w.trusts :
         pair = [old |-> IF d = "added" THEN {} ELSE o, new |-> IF d = "removed" THEN {} ELSE n,
                 oldOrder |-> a, newOrder |-> b, dir |-> d, squat |-> q, hyphen |-> h, trusted |-> t]
  BY DEF Init
<1>3. PICK o \in w.olds, n \in w.news, a \in w.orders, b \in w.orders,
           d \in w.dirs, q \in w.squats, h \in w.hyphens, t \in w.trusts :
         pair = [old |-> IF d = "added" THEN {} ELSE o, new |-> IF d = "removed" THEN {} ELSE n,
                 oldOrder |-> a, newOrder |-> b, dir |-> d, squat |-> q, hyphen |-> h, trusted |-> t]
  BY <1>2
<1>4. IsSnapshot({}) /\ IsSnapshot(o) /\ IsSnapshot(n)
  <2>1. IsSnapshot({})
    BY FS_EmptySet DEF IsSnapshot, FilesHashed, Facts, Places
  <2> QED BY <2>1, WorldsAssumption
<1>5. PairInv
  BY <1>3, <1>4 DEF PairInv
<1> QED BY <1>1, <1>5 DEF Inv

LEMMA NextInv == Inv /\ [Next]_vars => Inv'
PROOF
<1> SUFFICES ASSUME Inv, [Next]_vars PROVE Inv'
  OBVIOUS
<1> USE DEF Inv
<1>1. UNCHANGED pair
  BY DEF Next, Detect, Fallback, RaiseObf, RaiseTyposquat, RaiseCompound, Step, vars
<1>2. PairInv'
  BY <1>1 DEF PairInv
<1>3. StageInv'
  <2>1. CASE Detect
    BY <1>1, <2>1 DEF Detect, Step, StageInv
  <2>2. CASE Fallback
    BY <1>1, <2>2 DEF Fallback, Step, StageInv
  <2>3. CASE RaiseObf
    BY <1>1, <2>3 DEF RaiseObf, Step, StageInv
  <2>4. CASE RaiseTyposquat
    BY <1>1, <2>4 DEF RaiseTyposquat, Step, StageInv
  <2>5. CASE RaiseCompound
    BY <1>1, <2>5 DEF RaiseCompound, Step, StageInv, RunAll, Escalate
  <2>6. CASE UNCHANGED vars
    BY <2>6 DEF vars, StageInv
  <2> QED BY <2>1, <2>2, <2>3, <2>4, <2>5, <2>6 DEF Next
<1> QED BY <1>2, <1>3

LEMMA InvHolds == Spec => []Inv
BY InitInv, NextInv, PTL DEF Spec

-----------------------------------------------------------------------------
(* Escalation.                                                             *)

\* Every finding is there before, at its severity or raised from WARN.
LEMMA RaisedFrom ==
  ASSUME NEW found, NEW chosen, chosen \subseteq At(found, "WARN"), NEW f \in Raise(found, chosen)
  PROVE  \/ f \in found /\ f \notin chosen
         \/ \E g \in chosen : f = [g EXCEPT !.severity = "BLOCK"]
BY DEF Raise, Blocked

LEMMA RaisesNothing ==
  ASSUME NEW found
  PROVE  Raise(found, {}) = found
BY DEF Raise, Blocked


Severity == {"INFO", "WARN", "BLOCK"}
IsFinding(f) ==
  f.severity \in Severity /\ f = Finding(f.detector, f.category, f.severity, f.of, f.code)
IsFindings(found) == \A f \in found : IsFinding(f)

\* A raised finding differs in its severity only.
LEMMA RaisedFinding ==
  ASSUME NEW g, IsFinding(g)
  PROVE  [g EXCEPT !.severity = "BLOCK"] = Finding(g.detector, g.category, "BLOCK", g.of, g.code)
BY DEF IsFinding, Finding

\* What Raise does to findings: the chosen become BLOCK, nothing else changes.
LEMMA RaiseKeeps ==
  ASSUME NEW found, NEW chosen, chosen \subseteq found, IsFindings(found)
  PROVE  /\ \A f \in found :
              \E g \in Raise(found, chosen) :
                 g.detector = f.detector /\ g.category = f.category /\ g.code = f.code
         /\ \A g \in Raise(found, chosen) :
              \E f \in found :
                 g.detector = f.detector /\ g.category = f.category /\ g.code = f.code
         /\ \A g \in Raise(found, chosen) : g.severity # "BLOCK" => g \in found \ chosen
         /\ IsFindings(Raise(found, chosen))
PROOF
<1> DEFINE up(f) == [f EXCEPT !.severity = "BLOCK"]
<1>1. \A f \in chosen :
        /\ up(f).detector = f.detector /\ up(f).category = f.category /\ up(f).code = f.code
        /\ up(f).severity = "BLOCK"
        /\ IsFinding(up(f))
  <2> SUFFICES ASSUME NEW f \in chosen
               PROVE  /\ up(f).detector = f.detector /\ up(f).category = f.category
                      /\ up(f).code = f.code /\ up(f).severity = "BLOCK"
                      /\ IsFinding(up(f))
    OBVIOUS
  <2>1. up(f) = Finding(f.detector, f.category, "BLOCK", f.of, f.code)
    BY RaisedFinding DEF IsFindings
  <2> HIDE DEF up
  <2> QED BY <2>1 DEF IsFinding, Finding, Severity
<1>2. Raise(found, chosen) = (found \ chosen) \cup {up(f) : f \in chosen}
  BY DEF Raise, Blocked
<1> HIDE DEF up
<1>3. \A f \in found : \E g \in Raise(found, chosen) :
        g.detector = f.detector /\ g.category = f.category /\ g.code = f.code
  BY <1>1, <1>2
<1>4. \A g \in Raise(found, chosen) : \E f \in found :
        g.detector = f.detector /\ g.category = f.category /\ g.code = f.code
  BY <1>1, <1>2
<1>5. \A g \in Raise(found, chosen) : g.severity # "BLOCK" => g \in found \ chosen
  BY <1>1, <1>2
<1>6. IsFindings(Raise(found, chosen))
  BY <1>1, <1>2 DEF IsFindings
<1> QED BY <1>3, <1>4, <1>5, <1>6

\* What escalation 1 looks at does not change when a finding is raised.
ObfCause(found) ==
  \/ Categories(found) \cap {"NET", "INSTALL", "EXEC", "ENV", "FS"} # {}
  \/ DangerousIn(found) # {}

LEMMA ObfCauseStays ==
  ASSUME NEW found, NEW chosen, chosen \subseteq found, IsFindings(found),
         ObfCause(Raise(found, chosen))
  PROVE  ObfCause(found)
PROOF
<1> DEFINE next == Raise(found, chosen)
<1>1. Categories(next) \subseteq Categories(found)
  BY RaiseKeeps DEF Categories
<1>2. ASSUME NEW g \in DangerousIn(next) PROVE DangerousIn(found) # {}
  <2>1. PICK f \in found : g.category = f.category /\ g.code = f.code
    BY RaiseKeeps DEF DangerousIn
  <2> QED BY <2>1 DEF DangerousIn
<1> HIDE DEF next
<1> QED BY <1>1, <1>2 DEF ObfCause, next

\* None of what an escalation raises is left at WARN.
LEMMA NoneLeft ==
  ASSUME NEW found, NEW chosen, chosen \subseteq found, IsFindings(found)
  PROVE  At(Raise(found, chosen), "WARN") \subseteq At(found, "WARN") \ chosen
PROOF
<1> SUFFICES ASSUME NEW g \in Raise(found, chosen), g.severity = "WARN"
             PROVE  g \in found \ chosen
  BY DEF At
<1> QED BY RaiseKeeps

ObfWarns(found) == {f \in At(found, "WARN") : f.category = "OBF"}
SquatWarns(found) == Of(At(found, "WARN"), "deps.typosquat-candidate")

\* The three escalations, as what they do or leave.
LEMMA ObfCases ==
  ASSUME NEW found
  PROVE  EscalateObf(found) = IF ObfCause(found) THEN Raise(found, ObfWarns(found)) ELSE found
BY DEF EscalateObf, ObfCause, ObfWarns

LEMMA TyposquatCases ==
  ASSUME NEW found
  PROVE  EscalateTyposquat(found) \in {found, Raise(found, SquatWarns(found))}
BY DEF EscalateTyposquat, SquatWarns

LEMMA CompoundCases ==
  ASSUME NEW p, NEW found
  PROVE  EscalateCompound(p, found) \in {found, Raise(found, At(found, "WARN"))}
BY DEF EscalateCompound

LEMMA WarnsAreFindings ==
  ASSUME NEW found
  PROVE  ObfWarns(found) \subseteq found /\ SquatWarns(found) \subseteq found /\ At(found, "WARN") \subseteq found
BY DEF ObfWarns, SquatWarns, At, Of

\* Where no WARN is left, or none of its kind, an escalation does nothing.
LEMMA NoWarnsNoObf ==
  ASSUME NEW found, ObfWarns(found) = {}
  PROVE  EscalateObf(found) = found
BY ObfCases, RaisesNothing

LEMMA NoWarnsNoTyposquat ==
  ASSUME NEW found, SquatWarns(found) = {}
  PROVE  EscalateTyposquat(found) = found
BY TyposquatCases, RaisesNothing

LEMMA NoWarnsNoCompound ==
  ASSUME NEW p, NEW found, At(found, "WARN") = {}
  PROVE  EscalateCompound(p, found) = found
BY CompoundCases, RaisesNothing

\* Escalation 1 leaves no OBF finding at WARN, or no reason to raise one;
\* escalation 2 changes neither.
LEMMA ObfSettled ==
  ASSUME NEW found, IsFindings(found)
  PROVE  LET first == EscalateObf(found)
         IN EscalateObf(EscalateTyposquat(first)) = EscalateTyposquat(first)
PROOF
<1> DEFINE first == EscalateObf(found)
           second == EscalateTyposquat(first)
<1>1. IsFindings(first)
  BY ObfCases, RaiseKeeps, WarnsAreFindings
<1>2. second \in {first, Raise(first, SquatWarns(first))} /\ SquatWarns(first) \subseteq first
  BY TyposquatCases, WarnsAreFindings
<1>3. At(second, "WARN") \subseteq At(first, "WARN")
  BY <1>1, <1>2, NoneLeft
<1>4. CASE ObfCause(found)
  <2>1. first = Raise(found, ObfWarns(found))
    BY <1>4, ObfCases
  <2>2. At(first, "WARN") \subseteq At(found, "WARN") \ ObfWarns(found)
    BY <2>1, NoneLeft, WarnsAreFindings
  <2>3. ObfWarns(second) = {}
    BY <1>3, <2>2 DEF ObfWarns
  <2> HIDE DEF first, second
  <2>4. EscalateObf(second) = second
    BY <2>3, NoWarnsNoObf
  <2> QED BY <2>4 DEF first, second
<1>5. CASE ~ObfCause(found)
  <2>1. first = found
    BY <1>5, ObfCases
  <2>2. ~ObfCause(second)
    BY <1>1, <1>2, <1>5, <2>1, ObfCauseStays
  <2> HIDE DEF first, second
  <2>3. EscalateObf(second) = second
    BY <2>2, ObfCases
  <2> QED BY <2>3 DEF first, second
<1> QED BY <1>4, <1>5

\* Escalation 2 leaves no candidate at WARN, or did nothing.
LEMMA TyposquatSettled ==
  ASSUME NEW found, IsFindings(found)
  PROVE  EscalateTyposquat(EscalateTyposquat(found)) = EscalateTyposquat(found)
PROOF
<1> DEFINE second == EscalateTyposquat(found)
<1>1. CASE second = found
  BY <1>1
<1>2. CASE second = Raise(found, SquatWarns(found))
  <2>1. At(second, "WARN") \subseteq At(found, "WARN") \ SquatWarns(found)
    BY <1>2, NoneLeft, WarnsAreFindings
  <2>2. SquatWarns(second) = {}
    BY <2>1 DEF SquatWarns, Of
  <2> HIDE DEF second
  <2>3. EscalateTyposquat(second) = second
    BY <2>2, NoWarnsNoTyposquat
  <2> QED BY <2>3 DEF second
<1> QED BY <1>1, <1>2, TyposquatCases

\* Escalating twice is escalating once.
LEMMA EscalateIsIdempotent ==
  ASSUME NEW p, NEW found, IsFindings(found)
  PROVE  Escalate(p, Escalate(p, found)) = Escalate(p, found)
PROOF
<1> DEFINE first == EscalateObf(found)
           second == EscalateTyposquat(first)
           third == EscalateCompound(p, second)
<1>1. IsFindings(first)
  BY ObfCases, RaiseKeeps, WarnsAreFindings
<1>2. IsFindings(second)
  BY <1>1, TyposquatCases, RaiseKeeps, WarnsAreFindings
<1>3. EscalateObf(second) = second
  BY ObfSettled
<1>4. EscalateTyposquat(second) = second
  BY <1>1, TyposquatSettled
<1>5. Escalate(p, found) = third
  BY DEF Escalate
<1> HIDE DEF first, second
<1>6. CASE third = second
  BY <1>3, <1>4, <1>5, <1>6 DEF Escalate
<1>7. CASE third = Raise(second, At(second, "WARN"))
  <2>1. At(third, "WARN") = {}
    BY <1>2, <1>7, NoneLeft, WarnsAreFindings
  <2> HIDE DEF third
  <2>2. ObfWarns(third) = {} /\ SquatWarns(third) = {}
    BY <2>1 DEF ObfWarns, SquatWarns, Of
  <2>3. EscalateObf(third) = third /\ EscalateTyposquat(third) = third
    BY <2>2, NoWarnsNoObf, NoWarnsNoTyposquat
  <2>4. EscalateCompound(p, third) = third
    BY <2>1, NoWarnsNoCompound
  <2> QED BY <1>5, <2>3, <2>4 DEF Escalate
<1> QED BY <1>6, <1>7, CompoundCases

-----------------------------------------------------------------------------
(* What the detectors return: finitely many findings, under their names.   *)

LEMMA EmptyCount == Cardinality({}) = 0
BY FS_EmptySet

ReportedBy(f, names) == IsFinding(f) /\ f.detector \in names
Reports(found, names) == IsFiniteSet(found) /\ \A f \in found : ReportedBy(f, names)

LEMMA FindingReported ==
  ASSUME NEW names, NEW d \in names, NEW cat, NEW sev \in Severity, NEW of, NEW code
  PROVE  ReportedBy(Finding(d, cat, sev, of, code), names)
BY DEF IsFinding, Finding, ReportedBy

LEMMA ImageFinite ==
  ASSUME NEW S, IsFiniteSet(S), NEW g
  PROVE  IsFiniteSet({g[x] : x \in S})
PROOF
<1> DEFINE T == {g[x] : x \in S}
           h == [x \in S |-> g[x]]
<1>1. h \in Surjection(S, T)
  BY DEF Surjection
<1> QED BY <1>1, FS_Surjection

\* The findings g maps finitely many things to.
LEMMA ImageReports ==
  ASSUME NEW S, IsFiniteSet(S), NEW g, NEW names, \A x \in S : ReportedBy(g[x], names)
  PROVE  Reports({g[x] : x \in S}, names)
BY ImageFinite DEF Reports

LEMMA FoundReports ==
  ASSUME NEW d, NEW cat, NEW sev \in Severity, NEW keys, IsFiniteSet(keys)
  PROVE  Reports(Found(d, cat, sev, keys), {d})
PROOF
<1> DEFINE g == [key \in keys |-> Finding(d, cat, sev, <<key>>, Blank)]
<1>1. \A key \in keys : ReportedBy(g[key], {d})
  BY FindingReported
<1>2. Found(d, cat, sev, keys) = {g[key] : key \in keys}
  BY DEF Found
<1> HIDE DEF g
<1> QED BY <1>1, <1>2, ImageReports

LEMMA FoundAtReports ==
  ASSUME NEW d, NEW cat, NEW sev \in Severity, NEW facts, IsFiniteSet(facts)
  PROVE  Reports(FoundAt(d, cat, sev, facts), {d})
PROOF
<1> DEFINE g == [x \in facts |-> Finding(d, cat, sev, <<x.at, x.v>>, Blank)]
<1>1. \A x \in facts : ReportedBy(g[x], {d})
  BY FindingReported
<1>2. FoundAt(d, cat, sev, facts) = {g[x] : x \in facts}
  BY DEF FoundAt
<1> HIDE DEF g
<1> QED BY <1>1, <1>2, ImageReports

LEMMA IfReports ==
  ASSUME NEW c, NEW found, NEW names, Reports(found, names)
  PROVE  Reports(If(c, found), names)
BY FS_EmptySet DEF Reports, If

LEMMA BothReport ==
  ASSUME NEW a, NEW b, NEW names, NEW others, Reports(a, names), Reports(b, others)
  PROVE  Reports(a \cup b, names \cup others)
BY FS_Union DEF Reports, ReportedBy

LEMMA FactsFinite ==
  ASSUME NEW s, IsFiniteSet(s), NEW k
  PROVE  /\ IsFiniteSet(Facts(s, k))
         /\ IsFiniteSet(Values(s, k))
         /\ IsFiniteSet(Places(s, k))
PROOF
<1>1. IsFiniteSet(Facts(s, k))
  BY FS_Subset DEF Facts
<1>2. IsFiniteSet(Values(s, k))
  <2> DEFINE g == [x \in Facts(s, k) |-> x.v]
  <2>1. Values(s, k) = {g[x] : x \in Facts(s, k)}
    BY DEF Values
  <2> HIDE DEF g
  <2> QED BY <1>1, <2>1, ImageFinite
<1>3. IsFiniteSet(Places(s, k))
  <2> DEFINE g == [x \in Facts(s, k) |-> x.at]
  <2>1. Places(s, k) = {g[x] : x \in Facts(s, k)}
    BY DEF Places
  <2> HIDE DEF g
  <2> QED BY <1>1, <2>1, ImageFinite
<1> QED BY <1>1, <1>2, <1>3

LEMMA FreshFinite ==
  ASSUME NEW p, IsFiniteSet(p.new), NEW k
  PROVE  IsFiniteSet(Fresh(p, k)) /\ IsFiniteSet(FreshFacts(p, k))
BY FactsFinite, FS_Difference DEF Fresh, FreshFacts

\* Each detector in turn.
LEMMA NetworkReports ==
  ASSUME NEW p, IsFiniteSet(p.new)
  PROVE  /\ Reports(NewModules(p), {"net.new-module"})
         /\ Reports(NewEndpoints(p), {"net.new-endpoint"})
         /\ Reports(EncodedEndpoints(p), {"net.encoded-endpoint"})
         /\ Reports(DnsHostnames(p), {"net.dns-templated-hostname"})
PROOF
<1> USE FreshFinite, FactsFinite, FoundReports
<1>0. "WARN" \in Severity /\ "BLOCK" \in Severity
  BY DEF Severity
<1>1. Reports(NewModules(p), {"net.new-module"})
  BY <1>0 DEF NewModules
<1>2. Reports(NewEndpoints(p), {"net.new-endpoint"})
  <2> DEFINE sev(u) == IF Context(p.new, u) \in {"literal", "comment"} THEN "INFO" ELSE "WARN"
             g == [u \in Fresh(p, "url") |-> Finding("net.new-endpoint", "NET", sev(u), <<u>>, Blank)]
  <2>1. NewEndpoints(p) =
          {Finding("net.new-endpoint", "NET", sev(u), <<u>>, Blank) : u \in Fresh(p, "url")}
    BY DEF NewEndpoints
  <2>2. \A u : sev(u) \in Severity
    BY DEF Severity
  <2> HIDE DEF sev
  <2>3. {Finding("net.new-endpoint", "NET", sev(u), <<u>>, Blank) : u \in Fresh(p, "url")}
          = {g[u] : u \in Fresh(p, "url")}
    OBVIOUS
  <2>4. \A u \in Fresh(p, "url") : ReportedBy(g[u], {"net.new-endpoint"})
    BY <2>2, FindingReported
  <2>5. NewEndpoints(p) = {g[u] : u \in Fresh(p, "url")}
    BY <2>1, <2>3, Zenon
  <2> HIDE DEF g
  <2>6. Reports({g[u] : u \in Fresh(p, "url")}, {"net.new-endpoint"})
    BY <2>4, ImageReports
  <2> QED BY <2>5, <2>6
<1>3. Reports(EncodedEndpoints(p), {"net.encoded-endpoint"})
  BY <1>0 DEF EncodedEndpoints
<1>4. Reports(DnsHostnames(p), {"net.dns-templated-hostname"})
  <2>1. \A files \in SUBSET Places(p.new, "net") : IsFiniteSet(files)
    BY FS_Subset
  <2> QED BY <1>0, <2>1 DEF DnsHostnames
<1> QED BY <1>1, <1>2, <1>3, <1>4

LEMMA CodeReports ==
  ASSUME NEW p, IsFiniteSet(p.new)
  PROVE  /\ Reports(ExecModules(p), {"exec.new-module"})
         /\ Reports(HotWrites(p), {"fs.new-hotpath-write"})
         /\ Reports(HotReads(p), {"fs.new-hotpath-read"})
         /\ Reports(EnvHarvest(p), {"env.token-harvest"})
         /\ Reports(CodeSinks(p), {"code.dynamic-loading-added"})
PROOF
<1> USE FreshFinite, FactsFinite, FoundReports
<1>0. "WARN" \in Severity /\ "BLOCK" \in Severity
  BY DEF Severity
<1>1. Reports(ExecModules(p), {"exec.new-module"})
  BY <1>0 DEF ExecModules
<1>2. Reports(HotWrites(p), {"fs.new-hotpath-write"}) /\ Reports(HotReads(p), {"fs.new-hotpath-read"})
  BY <1>0, FS_Intersection DEF HotWrites, HotReads
<1>3. Reports(EnvHarvest(p), {"env.token-harvest"})
  <2>1. IsFiniteSet(Sensitive(p.new) \ Sensitive(p.old))
    BY FS_Intersection, FS_Difference DEF Sensitive
  <2> QED BY <1>0, <2>1 DEF EnvHarvest
<1>4. Reports(CodeSinks(p), {"code.dynamic-loading-added"})
  <2> DEFINE g == [x \in NewSites(p) |->
                     Finding("code.dynamic-loading-added", "CODE", DangerTier(x.v), <<x.at, x.c, x.v>>, x.v)]
  <2>1. \A k : DangerTier(k) \in Severity
    BY DEF DangerTier, Severity
  <2>2. CodeSinks(p) = {g[x] : x \in NewSites(p)}
    BY DEF CodeSinks
  <2>3. \A x \in NewSites(p) : ReportedBy(g[x], {"code.dynamic-loading-added"})
    BY <2>1, FindingReported
  <2>4. IsFiniteSet(NewSites(p))
    BY FS_Subset DEF NewSites
  <2> HIDE DEF g
  <2> QED BY <2>2, <2>3, <2>4, ImageReports
<1> QED BY <1>1, <1>2, <1>3, <1>4

LEMMA FileReports ==
  ASSUME NEW p, IsFiniteSet(p.new)
  PROVE  /\ Reports(SuspiciousWasm(p), {"wasm.suspicious-import"})
         /\ Reports(UnparseableWasm(p), {"wasm.unparseable"})
         /\ Reports(NativeArtifacts(p), {"bin.new-native-artifact"})
         /\ Reports(ObfuscatedFiles(p), {"obf.entropy-jump", "obf.new-obfuscated-file"})
         /\ Reports(ManglerSignatures(p), {"obf.js-mangler-signature"})
         /\ Reports(Homoglyphs(p), {"obf.unicode-homoglyph-boundary"})
PROOF
<1> USE FreshFinite, FactsFinite, FoundReports, FoundAtReports
<1>0. "WARN" \in Severity /\ "BLOCK" \in Severity
  BY DEF Severity
<1>1. Reports(SuspiciousWasm(p), {"wasm.suspicious-import"})
  <2>1. IsFiniteSet({x \in FreshFacts(p, "wasm-import") : x.v \in SuspiciousImports})
    BY FS_Subset
  <2> QED BY <1>0, <2>1 DEF SuspiciousWasm
<1>2. Reports(UnparseableWasm(p), {"wasm.unparseable"})
  BY <1>0, FS_Difference DEF UnparseableWasm
<1>3. Reports(NativeArtifacts(p), {"bin.new-native-artifact"})
  BY <1>0 DEF NativeArtifacts
<1>4. Reports(ObfuscatedFiles(p), {"obf.entropy-jump", "obf.new-obfuscated-file"})
  <2>1. ASSUME NEW d, NEW files, IsFiniteSet(files) PROVE Reports(ObfFound(p, d, files), {d})
    <3> DEFINE g == [f \in files |-> Finding(d, "OBF", ObfSeverity(p, f), <<f>>, Blank)]
    <3>1. \A f \in files : Found(d, "OBF", ObfSeverity(p, f), {f}) = {g[f]}
      BY DEF Found
    <3>2. \A f : ObfSeverity(p, f) \in Severity
      BY DEF ObfSeverity, Severity
    <3>3. \A f \in files : ReportedBy(g[f], {d})
      BY <3>2, FindingReported
    <3> HIDE DEF g
    <3>4. UNION {{g[f]} : f \in files} = {g[f] : f \in files}
      OBVIOUS
    <3>5. ObfFound(p, d, files) = {g[f] : f \in files}
      <4>1. {Found(d, "OBF", ObfSeverity(p, f), {f}) : f \in files} = {{g[f]} : f \in files}
        BY <3>1
      <4> QED BY <3>4, <4>1 DEF ObfFound
    <3>6. Reports({g[f] : f \in files}, {d})
      BY <2>1, <3>3, ImageReports
    <3> QED BY <3>5, <3>6
  <2> DEFINE kept == Places(p.new, "file") \cap Places(p.old, "file")
             jumped == {f \in kept : Jumped(p, f)}
  <2>2. IsFiniteSet(jumped)
    BY FS_Subset
  <2>3. IsFiniteSet(Obfuscated(p.new) \ kept)
    BY FS_Union, FS_Difference DEF Obfuscated
  <2>4. Reports(ObfFound(p, "obf.entropy-jump", jumped), {"obf.entropy-jump"})
    BY <2>1, <2>2
  <2>5. Reports(ObfFound(p, "obf.new-obfuscated-file", Obfuscated(p.new) \ kept), {"obf.new-obfuscated-file"})
    BY <2>1, <2>3
  <2>6. ObfuscatedFiles(p) = ObfFound(p, "obf.entropy-jump", jumped)
          \cup ObfFound(p, "obf.new-obfuscated-file", Obfuscated(p.new) \ kept)
    BY DEF ObfuscatedFiles
  <2>7. {"obf.entropy-jump"} \cup {"obf.new-obfuscated-file"} = {"obf.entropy-jump", "obf.new-obfuscated-file"}
    OBVIOUS
  <2> DEFINE first == ObfFound(p, "obf.entropy-jump", jumped)
             second == ObfFound(p, "obf.new-obfuscated-file", Obfuscated(p.new) \ kept)
  <2> HIDE DEF first, second
  <2>8. Reports(first \cup second, {"obf.entropy-jump"} \cup {"obf.new-obfuscated-file"})
    BY <2>4, <2>5, BothReport DEF first, second
  <2> QED BY <2>6, <2>7, <2>8 DEF first, second
<1>5. Reports(ManglerSignatures(p), {"obf.js-mangler-signature"})
  <2> DEFINE files == {f \in ScriptFiles : Cardinality(MangledIds(p.new, f) \ MangledIds(p.old, f)) >= 3}
  <2>1. files \subseteq Places(p.new, "mangled")
    <3> SUFFICES ASSUME NEW f \in files PROVE f \in Places(p.new, "mangled")
      OBVIOUS
    <3>1. MangledIds(p.new, f) \ MangledIds(p.old, f) # {}
      BY EmptyCount
    <3>2. PICK v : v \in MangledIds(p.new, f)
      BY <3>1
    <3> QED BY <3>2 DEF MangledIds, Places
  <2>2. IsFiniteSet(files)
    BY <2>1, FS_Subset
  <2> HIDE DEF files
  <2>3. Reports(Found("obf.js-mangler-signature", "OBF", "WARN", files), {"obf.js-mangler-signature"})
    BY <1>0, <2>2
  <2> QED BY <2>3 DEF ManglerSignatures, files
<1>6. Reports(Homoglyphs(p), {"obf.unicode-homoglyph-boundary"})
  BY <1>0, FS_Difference, FS_Intersection DEF Homoglyphs
<1> QED BY <1>1, <1>2, <1>3, <1>4, <1>5, <1>6

LEMMA ScriptReports ==
  ASSUME NEW p, IsFiniteSet(p.new)
  PROVE  /\ Reports(LifecycleScripts(p), {"install.script-changed", "install.script-added"})
         /\ Reports(SelfPublishShape(p), {"install.self-publish-shape"})
         /\ Reports(BundledDeps(p), {"deps.bundled-dependency-added", "install.bundled-lifecycle"})
PROOF
<1> USE FreshFinite, FactsFinite, FoundReports, FoundAtReports
<1>0. "WARN" \in Severity /\ "BLOCK" \in Severity
  BY DEF Severity
<1>1. Reports(LifecycleScripts(p), {"install.script-changed", "install.script-added"})
  <2> DEFINE name(x) == IF x.at \in Places(p.old, "script") THEN "install.script-changed"
                        ELSE "install.script-added"
             names == {"install.script-changed", "install.script-added"}
             hooks == {y \in FreshFacts(p, "script") :
                         y.at \in InstallTier \cup PublishTier \cup QuietTier}
             g == [x \in hooks |-> Finding(name(x), "INSTALL", TierOf(x.at), <<x.at>>, Blank)]
  <2>1. LifecycleScripts(p) =
          {Finding(name(x), "INSTALL", TierOf(x.at), <<x.at>>, Blank) : x \in hooks}
    BY DEF LifecycleScripts
  <2>2. IsFiniteSet(hooks)
    BY FS_Subset
  <2>3. (\A x : name(x) \in names) /\ \A h : TierOf(h) \in Severity
    BY DEF TierOf, Severity
  <2> HIDE DEF name, names, hooks
  <2>4. {Finding(name(x), "INSTALL", TierOf(x.at), <<x.at>>, Blank) : x \in hooks} = {g[x] : x \in hooks}
    OBVIOUS
  <2>5. \A x \in hooks : ReportedBy(g[x], names)
    BY <2>3, FindingReported
  <2>6. LifecycleScripts(p) = {g[x] : x \in hooks}
    BY <2>1, <2>4, Zenon
  <2> HIDE DEF g
  <2>7. Reports({g[x] : x \in hooks}, names)
    BY <2>2, <2>5, ImageReports
  <2> QED BY <2>6, <2>7 DEF names
<1>2. Reports(SelfPublishShape(p), {"install.self-publish-shape"})
  <2> DEFINE gravity == IF HooksOf(p.old) = {} THEN "BLOCK" ELSE "WARN"
  <2>1. Reports(Found("install.self-publish-shape", "INSTALL", gravity, {"shape"}),
                {"install.self-publish-shape"})
    BY <1>0, FS_Singleton
  <2> QED BY <2>1, IfReports DEF SelfPublishShape
<1>3. Reports(BundledDeps(p), {"deps.bundled-dependency-added", "install.bundled-lifecycle"})
  <2> DEFINE hooks == {x \in Facts(p.new, "bundled-hook") : x.v \in BundledHooks}
             first == If(Fresh(p, "bundled") # {},
                         Found("deps.bundled-dependency-added", "DEPS", "WARN", {"bundled"}))
             second == FoundAt("install.bundled-lifecycle", "INSTALL", "BLOCK", hooks)
  <2>1. Reports(first, {"deps.bundled-dependency-added"})
    BY <1>0, FS_Singleton, IfReports
  <2>2. Reports(second, {"install.bundled-lifecycle"})
    BY <1>0, FS_Subset
  <2>3. {"deps.bundled-dependency-added"} \cup {"install.bundled-lifecycle"}
          = {"deps.bundled-dependency-added", "install.bundled-lifecycle"}
    OBVIOUS
  <2>4. BundledDeps(p) = first \cup second
    BY DEF BundledDeps
  <2> HIDE DEF first, second
  <2> QED BY <2>1, <2>2, <2>3, <2>4, BothReport
<1> QED BY <1>1, <1>2, <1>3

LEMMA ManifestReports ==
  ASSUME NEW p, IsFiniteSet(p.new)
  PROVE  /\ Reports(MaintainerChange(p), {"meta.maintainer-change"})
         /\ Reports(DisposableDomain(p), {"meta.disposable-author-domain"})
         /\ Reports(UrlDeps(p), {"manifest-deps.http-resolved-url"})
         /\ Reports(NewDirectDeps(p), {"deps.new-direct-dep"})
         /\ Reports(TyposquatCandidate(p), {"deps.typosquat-candidate"})
         /\ Reports(HyphenPermutation(p), {"typo.hyphen-permutation"})
         /\ Reports(FirstVersionCluster(p), {"deps.first-version-cluster"})
PROOF
<1> USE FactsFinite, FoundReports, IfReports
<1>0. "INFO" \in Severity /\ "WARN" \in Severity /\ "BLOCK" \in Severity
  BY DEF Severity
<1>a. \A x : IsFiniteSet({x})
  BY FS_Singleton
<1>1. Reports(MaintainerChange(p), {"meta.maintainer-change"})
  <2>1. \A trusted, before, after : MaintainerSeverity(trusted, before, after) \in Severity
    BY DEF MaintainerSeverity, Severity
  <2> QED BY <1>a, <2>1 DEF MaintainerChange
<1>2. Reports(DisposableDomain(p), {"meta.disposable-author-domain"})
  <2> DEFINE gravity == IF p.dir = "added" THEN "BLOCK" ELSE "WARN"
  <2>1. Reports(Found("meta.disposable-author-domain", "META", gravity, {"emails"}),
                {"meta.disposable-author-domain"})
    BY <1>0, <1>a
  <2> QED BY <2>1 DEF DisposableDomain
<1>3. Reports(UrlDeps(p), {"manifest-deps.http-resolved-url"})
  <2> DEFINE name == "manifest-deps.http-resolved-url"
             names == {d \in Places(p.new, "dep") : /\ DepSpec(p.new, d) # DepSpec(p.old, d)
                                                    /\ DepSpec(p.new, d) \in PlainHttp \cup ForeignHttps}
             g == [n \in names |-> Finding(name, "DEPS", UrlSeverity(DepSpec(p.new, n)), <<n>>, Blank)]
  <2>1. UrlDeps(p) = {g[n] : n \in names}
    BY DEF UrlDeps
  <2>2. IsFiniteSet(names)
    BY FS_Subset
  <2>3. \A n \in names : UrlSeverity(DepSpec(p.new, n)) \in Severity
    BY DEF UrlSeverity, Severity
  <2> HIDE DEF names
  <2>4. \A n \in names : ReportedBy(g[n], {name})
    BY <2>3, FindingReported
  <2> HIDE DEF g
  <2> QED BY <2>1, <2>2, <2>4, ImageReports
<1>4. Reports(NewDirectDeps(p), {"deps.new-direct-dep"})
  <2> DEFINE direct(s) == {x.at : x \in {y \in Facts(s, "dep") : y.c = "normal"}}
  <2>1. direct(p.new) \ direct(p.old) \subseteq Places(p.new, "dep")
    BY DEF Places
  <2> HIDE DEF direct
  <2>2. IsFiniteSet(direct(p.new) \ direct(p.old))
    BY <2>1, FS_Subset
  <2>3. NewDirectDeps(p) = If(p.dir = "changed",
          Found("deps.new-direct-dep", "DEPS", "INFO", direct(p.new) \ direct(p.old)))
    BY DEF NewDirectDeps, direct
  <2> QED BY <1>0, <2>2, <2>3
<1>5. Reports(TyposquatCandidate(p), {"deps.typosquat-candidate"})
  BY <1>0, <1>a DEF TyposquatCandidate
<1>6. Reports(HyphenPermutation(p), {"typo.hyphen-permutation"})
  <2> DEFINE gravity == IF p.hyphen = "reorder" THEN "BLOCK" ELSE "WARN"
  <2>1. Reports(Found("typo.hyphen-permutation", "DEPS", gravity, {"name"}), {"typo.hyphen-permutation"})
    BY <1>0, <1>a
  <2> QED BY <2>1 DEF HyphenPermutation
<1>7. Reports(FirstVersionCluster(p), {"deps.first-version-cluster"})
  BY <1>0, <1>a DEF FirstVersionCluster
<1> QED BY <1>1, <1>2, <1>3, <1>4, <1>5, <1>6, <1>7

LEMMA DetectorsReport ==
  ASSUME NEW p, IsFiniteSet(p.new)
  PROVE  IsFindings(Detectors(p)) /\ IsFiniteSet(Detectors(p))
PROOF
<1> DEFINE parts ==
        {NewModules(p), NewEndpoints(p), EncodedEndpoints(p), DnsHostnames(p), ExecModules(p),
         HotWrites(p), HotReads(p), EnvHarvest(p), CodeSinks(p), SuspiciousWasm(p),
         UnparseableWasm(p), NativeArtifacts(p), ObfuscatedFiles(p), ManglerSignatures(p),
         Homoglyphs(p), LifecycleScripts(p), SelfPublishShape(p), BundledDeps(p),
         MaintainerChange(p), DisposableDomain(p), UrlDeps(p), NewDirectDeps(p),
         TyposquatCandidate(p), HyphenPermutation(p), FirstVersionCluster(p)}
<1>1. \A found \in parts : IsFiniteSet(found)
  BY NetworkReports, CodeReports, FileReports, ScriptReports, ManifestReports DEF Reports
<1>2. \A found \in parts : IsFindings(found)
  BY NetworkReports, CodeReports, FileReports, ScriptReports, ManifestReports
     DEF Reports, ReportedBy, IsFindings
<1>3. IsFiniteSet(parts)
  <2>1. \A a, b, c, d, e : IsFiniteSet({a, b, c, d, e})
    <3> TAKE a, b, c, d, e
    <3>2. \A x : IsFiniteSet({x}) BY FS_Singleton
    <3>3. IsFiniteSet({a} \cup ({b} \cup ({c} \cup ({d} \cup {e})))) BY <3>2, FS_Union
    <3>4. {a} \cup ({b} \cup ({c} \cup ({d} \cup {e}))) = {a, b, c, d, e} OBVIOUS
    <3> QED BY <3>3, <3>4
  <2>2. parts =
          {NewModules(p), NewEndpoints(p), EncodedEndpoints(p), DnsHostnames(p), ExecModules(p)}
          \cup ({HotWrites(p), HotReads(p), EnvHarvest(p), CodeSinks(p), SuspiciousWasm(p)}
          \cup ({UnparseableWasm(p), NativeArtifacts(p), ObfuscatedFiles(p), ManglerSignatures(p),
                 Homoglyphs(p)}
          \cup ({LifecycleScripts(p), SelfPublishShape(p), BundledDeps(p), MaintainerChange(p),
                 DisposableDomain(p)}
          \cup {UrlDeps(p), NewDirectDeps(p), TyposquatCandidate(p), HyphenPermutation(p),
                FirstVersionCluster(p)})))
    OBVIOUS
  <2> HIDE DEF parts
  <2> QED BY <2>1, <2>2, FS_Union
<1>4. Detectors(p) = UNION parts
  BY DEF Detectors
<1> HIDE DEF parts
<1>5. IsFiniteSet(Detectors(p))
  BY <1>1, <1>3, <1>4, FS_UNION
<1>6. IsFindings(Detectors(p))
  BY <1>2, <1>4 DEF IsFindings
<1> QED BY <1>5, <1>6

LEMMA FallbackReports ==
  ASSUME NEW p, NEW found, IsFindings(found), IsFiniteSet(found)
  PROVE  IsFindings(WithFallback(p, found)) /\ IsFiniteSet(WithFallback(p, found))
PROOF
<1> DEFINE extra == Found("deps.first-version-cluster", "DEPS", "BLOCK", {"secrets"})
<1>1. Reports(extra, {"deps.first-version-cluster"})
  BY FoundReports, FS_Singleton DEF Severity
<1>2. IsFindings(extra) /\ IsFiniteSet(extra)
  BY <1>1 DEF Reports, ReportedBy, IsFindings
<1>3. WithFallback(p, found) \in {found, found \cup extra}
  BY DEF WithFallback, If
<1> HIDE DEF extra
<1> QED BY <1>2, <1>3, FS_Union DEF IsFindings

(***************************************************************************)
(* However many findings there are, and whatever the detectors found: the  *)
(* three escalations of runAll, run again on their own result, raise       *)
(* nothing.                                                                *)
(***************************************************************************)
THEOREM EscalationIsComplete == Spec => []EscalationSettled
PROOF
<1>1. Inv => EscalationSettled
  <2> SUFFICES ASSUME Inv, stage = "done" PROVE Escalate(pair, all) = all
    BY DEF EscalationSettled, Done
  <2>1. all = Escalate(pair, WithFallback(pair, Detectors(pair)))
    BY DEF Inv, StageInv, RunAll
  <2>2. IsFindings(WithFallback(pair, Detectors(pair)))
    BY DetectorsReport, FallbackReports DEF Inv, PairInv, IsSnapshot
  <2> QED BY <2>1, <2>2, EscalateIsIdempotent
<1> QED BY <1>1, InvHolds, PTL

-----------------------------------------------------------------------------
(* An upgrade without a new fact.                                          *)

NoNews(p) ==
  /\ p.dir = "changed" /\ p.new \subseteq p.old
  /\ IsSnapshot(p.new) /\ IsSnapshot(p.old)

Excepted == {"meta.maintainer-change", "install.self-publish-shape",
             "manifest-deps.http-resolved-url", "install.bundled-lifecycle"}

\* Only excepted detectors speak.
Quiet1(f) == f.detector \in Excepted
Quiet(found) == \A f \in found : Quiet1(f)

LEMMA NothingFresh ==
  ASSUME NEW p, NoNews(p), NEW k
  PROVE  /\ Facts(p.new, k) \subseteq Facts(p.old, k)
         /\ Values(p.new, k) \subseteq Values(p.old, k)
         /\ Places(p.new, k) \subseteq Places(p.old, k)
         /\ Fresh(p, k) = {} /\ FreshFacts(p, k) = {}
BY DEF NoNews, Facts, Values, Places, Fresh, FreshFacts

LEMMA NoneFound ==
  ASSUME NEW d, NEW cat, NEW sev
  PROVE  Found(d, cat, sev, {}) = {} /\ FoundAt(d, cat, sev, {}) = {}
BY DEF Found, FoundAt

LEMMA QuietFinding ==
  ASSUME NEW d \in Excepted, NEW cat, NEW sev, NEW of, NEW code
  PROVE  Quiet1(Finding(d, cat, sev, of, code))
BY DEF Finding, Quiet1

LEMMA QuietFound ==
  ASSUME NEW d \in Excepted, NEW cat, NEW sev, NEW keys
  PROVE  Quiet(Found(d, cat, sev, keys))
BY QuietFinding, Zenon DEF Quiet, Found

LEMMA QuietFoundAt ==
  ASSUME NEW d \in Excepted, NEW cat, NEW sev, NEW facts
  PROVE  Quiet(FoundAt(d, cat, sev, facts))
BY QuietFinding, Zenon DEF Quiet, FoundAt

LEMMA QuietIf ==
  ASSUME NEW c, NEW found, Quiet(found)
  PROVE  Quiet(If(c, found))
BY DEF Quiet, If

LEMMA QuietBoth ==
  ASSUME NEW a, NEW b, Quiet(a), Quiet(b)
  PROVE  Quiet(a \cup b)
BY DEF Quiet

\* The hash of a file is the v of its only "file" fact.
LEMMA HashOf ==
  ASSUME NEW s, FilesHashed(s), NEW x \in Facts(s, "file")
  PROVE  EntropyOf(s, x.at) = Entropy[x.v]
PROOF
<1>1. x = Fact("file", x.at, x.v, Blank) /\ x \in s /\ x.v \in Values(s, "file")
  BY DEF FilesHashed, Facts, Values
<1>2. ASSUME NEW h, Fact("file", x.at, h, Blank) \in s PROVE h = x.v
  <2>1. Fact("file", x.at, h, Blank).k = "file" /\ Fact("file", x.at, h, Blank).at = x.at
        /\ Fact("file", x.at, h, Blank).v = h
    BY DEF Fact
  <2>2. Fact("file", x.at, h, Blank) = x
    BY <1>2, <2>1 DEF FilesHashed, Facts
  <2> QED BY <2>1, <2>2
<1> DEFINE hash == CHOOSE h \in Values(s, "file") : Fact("file", x.at, h, Blank) \in s
<1>3. hash \in Values(s, "file") /\ Fact("file", x.at, hash, Blank) \in s
  BY <1>1
<1>4. hash = x.v
  BY <1>2, <1>3
<1> QED BY <1>4 DEF EntropyOf

LEMMA NoJump ==
  ASSUME NEW p, NoNews(p), NEW f \in Places(p.new, "file")
  PROVE  ~Jumped(p, f)
PROOF
<1>1. PICK x \in Facts(p.new, "file") : x.at = f
  BY DEF Places
<1>2. x \in Facts(p.old, "file") /\ x.v \in DOMAIN Entropy
  BY NothingFresh DEF NoNews, IsSnapshot, FilesHashed
<1>3. EntropyOf(p.new, f) = Entropy[x.v]
  BY <1>1, HashOf DEF NoNews, IsSnapshot
<1>4. EntropyOf(p.old, f) = Entropy[x.v]
  BY <1>1, <1>2, HashOf DEF NoNews, IsSnapshot
<1>5. ~(EntropyOf(p.new, f) > EntropyOf(p.old, f) + 15)
  <2>1. Entropy[x.v] \in Nat
    BY <1>2, EntropyAssumption
  <2> QED BY <1>3, <1>4, <2>1
<1>6. f \notin Places(p.new, "minified") \ Places(p.old, "minified")
      /\ f \notin Places(p.new, "suspicious") \ Places(p.old, "suspicious")
  BY NothingFresh
<1> QED BY <1>5, <1>6 DEF Jumped

LEMMA DetectorsQuiet ==
  ASSUME NEW p, NoNews(p)
  PROVE  Quiet(Detectors(p))
PROOF
<1> USE NoneFound, NothingFresh
<1>0. Quiet({})
  BY DEF Quiet
<1>1. Quiet(NewModules(p)) /\ Quiet(EncodedEndpoints(p)) /\ Quiet(ExecModules(p))
  BY DEF NewModules, EncodedEndpoints, ExecModules, Quiet
<1>2. Quiet(NewEndpoints(p))
  <2>1. NewEndpoints(p) = {}
    BY DEF NewEndpoints
  <2> QED BY <1>0, <2>1
<1>3. Quiet(DnsHostnames(p))
  <2> DEFINE dns(f) == {x.v : x \in {y \in Facts(p.new, "net") : y.at = f}} \cap DnsModules
  <2>1. \A f : dns(f) \ Values(p.old, "net") = {}
    BY DEF Values
  <2>2. DnsHostnames(p) = Found("net.dns-templated-hostname", "NET", "WARN", {})
    BY <2>1 DEF DnsHostnames, NoNews
  <2> QED BY <1>0, <2>2
<1>4. Quiet(HotWrites(p)) /\ Quiet(HotReads(p))
  <2>1. Fresh(p, "write") \cap HotPaths = {} /\ Fresh(p, "read") \cap HotPaths = {}
    OBVIOUS
  <2> QED BY <1>0, <2>1 DEF HotWrites, HotReads
<1>5. Quiet(EnvHarvest(p))
  <2>1. Sensitive(p.new) \ Sensitive(p.old) = {}
    BY DEF Sensitive
  <2> QED BY <1>0, <2>1 DEF EnvHarvest
<1>6. Quiet(CodeSinks(p))
  <2>1. NewSites(p) = {}
    BY DEF NewSites, Facts, NoNews
  <2>2. CodeSinks(p) = {}
    BY <2>1 DEF CodeSinks
  <2> QED BY <1>0, <2>2
<1>7. Quiet(SuspiciousWasm(p)) /\ Quiet(UnparseableWasm(p)) /\ Quiet(NativeArtifacts(p))
  <2>1. {x \in FreshFacts(p, "wasm-import") : x.v \in SuspiciousImports} = {}
        /\ Places(p.new, "wasm-error") \ Places(p.old, "wasm-error") = {}
    OBVIOUS
  <2> QED BY <1>0, <2>1 DEF SuspiciousWasm, UnparseableWasm, NativeArtifacts
<1>8. Quiet(ObfuscatedFiles(p))
  <2> DEFINE kept == Places(p.new, "file") \cap Places(p.old, "file")
  <2>1. {f \in kept : Jumped(p, f)} = {}
    BY NoJump
  <2>2. Obfuscated(p.new) \ kept = {}
    BY DEF NoNews, IsSnapshot, Obfuscated
  <2>3. \A d : ObfFound(p, d, {}) = {}
    BY DEF ObfFound
  <2>4. ObfuscatedFiles(p) = {}
    BY <2>1, <2>2, <2>3 DEF ObfuscatedFiles
  <2> QED BY <1>0, <2>4
<1>9. Quiet(ManglerSignatures(p))
  <2>1. \A f : MangledIds(p.new, f) \ MangledIds(p.old, f) = {}
    BY DEF MangledIds
  <2>2. ~(Cardinality({}) >= 3)
    BY EmptyCount
  <2>3. {f \in ScriptFiles : Cardinality(MangledIds(p.new, f) \ MangledIds(p.old, f)) >= 3} = {}
    BY <2>1, <2>2
  <2> QED BY <1>0, <2>3 DEF ManglerSignatures
<1>10. Quiet(Homoglyphs(p))
  <2>1. (Places(p.new, "homoglyph") \ Places(p.old, "homoglyph")) \cap ScriptFiles = {}
    OBVIOUS
  <2> QED BY <1>0, <2>1 DEF Homoglyphs
<1>11. Quiet(LifecycleScripts(p))
  <2>1. LifecycleScripts(p) = {}
    BY DEF LifecycleScripts
  <2> QED BY <1>0, <2>1
<1>12. Quiet(SelfPublishShape(p))
  <2> DEFINE gravity == IF HooksOf(p.old) = {} THEN "BLOCK" ELSE "WARN"
  <2>1. Quiet(Found("install.self-publish-shape", "INSTALL", gravity, {"shape"}))
    <3> HIDE DEF gravity
    <3> QED BY QuietFound DEF Excepted
  <2> QED BY <2>1, QuietIf DEF SelfPublishShape
<1>13. Quiet(BundledDeps(p))
  <2> DEFINE hooks == {x \in Facts(p.new, "bundled-hook") : x.v \in BundledHooks}
  <2>1. Quiet(FoundAt("install.bundled-lifecycle", "INSTALL", "BLOCK", hooks))
    BY QuietFoundAt DEF Excepted
  <2>2. If(Fresh(p, "bundled") # {},
           Found("deps.bundled-dependency-added", "DEPS", "WARN", {"bundled"})) = {}
    BY DEF If
  <2> QED BY <1>0, <2>1, <2>2, QuietBoth DEF BundledDeps
<1>14. Quiet(MaintainerChange(p))
  <2> DEFINE before == Values(p.old, "email")
             after == Values(p.new, "email")
  <2>1. Quiet(Found("meta.maintainer-change", "META",
                    MaintainerSeverity(p.trusted, before, after), {"emails"}))
    BY QuietFound DEF Excepted
  <2> QED BY <2>1, QuietIf DEF MaintainerChange
<1>15. Quiet(DisposableDomain(p))
  <2>1. (Values(p.new, "email") \cup Values(p.new, "author"))
          \ (Values(p.old, "email") \cup Values(p.old, "author")) = {}
    OBVIOUS
  <2>2. DisposableDomain(p) = {}
    BY <2>1 DEF DisposableDomain, If
  <2> QED BY <1>0, <2>2
<1>16. Quiet(UrlDeps(p))
  <2> DEFINE name == "manifest-deps.http-resolved-url"
             names == {d \in Places(p.new, "dep") : /\ DepSpec(p.new, d) # DepSpec(p.old, d)
                                                    /\ DepSpec(p.new, d) \in PlainHttp \cup ForeignHttps}
  <2>1. UrlDeps(p) = {Finding(name, "DEPS", UrlSeverity(DepSpec(p.new, n)), <<n>>, Blank) : n \in names}
    BY Zenon DEF UrlDeps
  <2>2. name \in Excepted
    BY DEF Excepted
  <2> HIDE DEF name, names
  <2>3. ASSUME NEW n PROVE Quiet1(Finding(name, "DEPS", UrlSeverity(DepSpec(p.new, n)), <<n>>, Blank))
    BY <2>2, QuietFinding
  <2>4. Quiet({Finding(name, "DEPS", UrlSeverity(DepSpec(p.new, n)), <<n>>, Blank) : n \in names})
    BY <2>3, Zenon DEF Quiet
  <2> QED BY <2>1, <2>4
<1>17. Quiet(NewDirectDeps(p))
  <2> DEFINE direct(s) == {x.at : x \in {y \in Facts(s, "dep") : y.c = "normal"}}
  <2>1. direct(p.new) \ direct(p.old) = {}
    OBVIOUS
  <2> HIDE DEF direct
  <2>2. NewDirectDeps(p) = If(p.dir = "changed", Found("deps.new-direct-dep", "DEPS", "INFO", {}))
    BY <2>1 DEF NewDirectDeps, direct
  <2>3. NewDirectDeps(p) = {}
    BY <2>2 DEF If
  <2> QED BY <1>0, <2>3
<1>18. Quiet(TyposquatCandidate(p)) /\ Quiet(HyphenPermutation(p)) /\ Quiet(FirstVersionCluster(p))
  BY <1>0 DEF TyposquatCandidate, HyphenPermutation, FirstVersionCluster, If, NoNews
<1> QED BY <1>1, <1>2, <1>3, <1>4, <1>5, <1>6, <1>7, <1>8, <1>9, <1>10, <1>11, <1>12, <1>13,
           <1>14, <1>15, <1>16, <1>17, <1>18 DEF Detectors, Quiet

LEMMA RaiseQuiet ==
  ASSUME NEW found, NEW chosen, chosen \subseteq found, IsFindings(found), Quiet(found)
  PROVE  Quiet(Raise(found, chosen)) /\ IsFindings(Raise(found, chosen))
BY RaiseKeeps DEF Quiet, Quiet1

LEMMA EscalateQuiet ==
  ASSUME NEW p, NEW found, IsFindings(found), Quiet(found)
  PROVE  Quiet(Escalate(p, found))
PROOF
<1> DEFINE first == EscalateObf(found)
           second == EscalateTyposquat(first)
<1>1. Quiet(first) /\ IsFindings(first)
  BY ObfCases, RaiseQuiet, WarnsAreFindings
<1>2. Quiet(second) /\ IsFindings(second)
  BY <1>1, TyposquatCases, RaiseQuiet, WarnsAreFindings
<1>3. Quiet(EscalateCompound(p, second))
  BY <1>2, CompoundCases, RaiseQuiet, WarnsAreFindings
<1> QED BY <1>3 DEF Escalate

(***************************************************************************)
(* Whatever the snapshots: an upgrade whose facts were all there before    *)
(* raises findings of the four excepted detectors only.                    *)
(***************************************************************************)
THEOREM UpgradesWithoutNewsAreSilent == Spec => []NoNewsIsSilent
PROOF
<1>1. Inv => NoNewsIsSilent
  <2> SUFFICES ASSUME Inv, stage = "done", pair.dir = "changed", pair.new \subseteq pair.old
               PROVE  Quiet(all)
    BY DEF NoNewsIsSilent, Done, Quiet, Quiet1, Excepted
  <2>1. NoNews(pair)
    BY DEF Inv, PairInv, NoNews
  <2>2. Quiet(Detectors(pair)) /\ IsFindings(Detectors(pair))
    BY <2>1, DetectorsQuiet, DetectorsReport DEF NoNews, IsSnapshot
  <2>3. WithFallback(pair, Detectors(pair)) = Detectors(pair)
    BY DEF WithFallback, If
  <2>4. all = Escalate(pair, Detectors(pair))
    BY <2>3 DEF Inv, StageInv, RunAll
  <2> QED BY <2>2, <2>4, EscalateQuiet
<1> QED BY <1>1, InvHolds, PTL

LEMMA EscalateAreFindings ==
  ASSUME NEW p, NEW found, IsFindings(found)
  PROVE  IsFindings(Escalate(p, found))
PROOF
<1> DEFINE first == EscalateObf(found)
           second == EscalateTyposquat(first)
<1>1. IsFindings(first)
  BY ObfCases, RaiseKeeps, WarnsAreFindings
<1>2. IsFindings(second)
  BY <1>1, TyposquatCases, RaiseKeeps, WarnsAreFindings
<1>3. IsFindings(EscalateCompound(p, second))
  BY <1>2, CompoundCases, RaiseKeeps, WarnsAreFindings
<1> QED BY <1>3 DEF Escalate

-----------------------------------------------------------------------------
(* Gravity.                                                                *)

LEMMA RankOf ==
  Rank("INFO") = 1 /\ Rank("WARN") = 2 /\ Rank("BLOCK") = 3
PROOF
<1>1. \A i \in 1..3 : /\ Severities[i] = "INFO" <=> i = 1
                      /\ Severities[i] = "WARN" <=> i = 2
                      /\ Severities[i] = "BLOCK" <=> i = 3
  BY DEF Severities
<1> QED BY <1>1 DEF Rank

LEMMA GravityIsGreatest ==
  ASSUME NEW found, IsFindings(found)
  PROVE  /\ Gravity(found) \in 0..3
         /\ \A f \in found : Rank(f.severity) <= Gravity(found)
         /\ Gravity(found) = 0 \/ \E f \in found : Gravity(found) = Rank(f.severity)
PROOF
<1> DEFINE ranks == {Rank(f.severity) : f \in found} \cup {0}
<1>1. ranks \subseteq 0..3
  <2>1. \A f \in found : Rank(f.severity) \in 0..3
    BY RankOf DEF IsFindings, IsFinding, Severity
  <2> QED BY <2>1
<1>2. \E m \in ranks : \A r \in ranks : m >= r
  <2>1. 0 \in ranks
    OBVIOUS
  <2> HIDE DEF ranks
  <2>2. CASE 3 \in ranks BY <1>1, <2>2
  <2>3. CASE 3 \notin ranks /\ 2 \in ranks BY <1>1, <2>3
  <2>4. CASE 3 \notin ranks /\ 2 \notin ranks /\ 1 \in ranks BY <1>1, <2>4
  <2>5. CASE 3 \notin ranks /\ 2 \notin ranks /\ 1 \notin ranks BY <1>1, <2>1, <2>5
  <2> QED BY <2>2, <2>3, <2>4, <2>5
<1>3. Gravity(found) = CHOOSE m \in ranks : \A r \in ranks : m >= r
  BY DEF Gravity
<1>4. Gravity(found) \in ranks /\ \A r \in ranks : Gravity(found) >= r
  <2> HIDE DEF ranks
  <2> QED BY <1>2, <1>3
<1>5. \A f \in found : Rank(f.severity) \in ranks
  OBVIOUS
<1>6. \A r \in ranks : r = 0 \/ \E f \in found : r = Rank(f.severity)
  OBVIOUS
<1> HIDE DEF ranks
<1>7. \A f \in found : Rank(f.severity) <= Gravity(found)
  <2> SUFFICES ASSUME NEW f \in found PROVE Rank(f.severity) <= Gravity(found)
    OBVIOUS
  <2>1. Rank(f.severity) \in 0..3 /\ Gravity(found) \in 0..3 /\ Gravity(found) >= Rank(f.severity)
    BY <1>1, <1>4, <1>5
  <2> QED BY <2>1
<1> QED BY <1>1, <1>4, <1>6, <1>7

\* Findings that each have one at least as grave in another set are no graver.
LEMMA NoGraver ==
  ASSUME NEW X, NEW Y, IsFindings(X), IsFindings(Y),
         \A f \in X : \E g \in Y : Rank(f.severity) <= Rank(g.severity)
  PROVE  Gravity(X) <= Gravity(Y)
PROOF
<1>1. Gravity(X) \in 0..3 /\ Gravity(Y) \in 0..3
  BY GravityIsGreatest
<1>2. CASE Gravity(X) = 0
  BY <1>1, <1>2
<1>3. ASSUME NEW f \in X, Gravity(X) = Rank(f.severity) PROVE Gravity(X) <= Gravity(Y)
  <2>1. PICK g \in Y : Rank(f.severity) <= Rank(g.severity)
    OBVIOUS
  <2>2. Rank(g.severity) <= Gravity(Y)
    BY GravityIsGreatest
  <2>3. Rank(f.severity) \in 1..3 /\ Rank(g.severity) \in 1..3
    BY RankOf DEF IsFindings, IsFinding, Severity
  <2> QED BY <1>1, <1>3, <2>1, <2>2, <2>3
<1> QED BY <1>2, <1>3, GravityIsGreatest

LEMMA BlockIsGravest ==
  ASSUME NEW X, NEW Y, IsFindings(X), IsFindings(Y), At(Y, "BLOCK") # {}
  PROVE  Gravity(X) <= Gravity(Y)
PROOF
<1>1. PICK g \in Y : g.severity = "BLOCK"
  BY DEF At
<1>2. \A f \in X : Rank(f.severity) <= Rank(g.severity)
  BY <1>1, RankOf DEF IsFindings, IsFinding, Severity
<1> QED BY <1>2, NoGraver

-----------------------------------------------------------------------------
(* A package is calm when no finding is BLOCK and no escalation raises one. *)

SquatCause(found) ==
  \/ Categories(At(found, "BLOCK")) \cap {"NET", "INSTALL", "EXEC", "ENV", "FS", "CODE", "OBF"} # {}
  \/ Cardinality(Categories(At(found, "WARN"))) >= 2

CompoundCause(p, found) ==
  LET warns == At(found, "WARN")
      cats == Categories(warns)
      count == Cardinality(warns)
  IN \/ count >= 3 /\ Cardinality(cats) >= 2
     \/ count >= 2 /\ AttackPair(p, cats)
     \/ count >= 3 /\ cats = {"OBF"}
     \/ Cardinality(DangerousIn(warns)) >= 3 /\ cats = {"CODE"}

Calm(p, found) ==
  /\ At(found, "BLOCK") = {}
  /\ ObfCause(found) => ObfWarns(found) = {}
  /\ SquatCause(found) => SquatWarns(found) = {}
  /\ CompoundCause(p, found) => At(found, "WARN") = {}

LEMMA TyposquatIs ==
  ASSUME NEW found
  PROVE  EscalateTyposquat(found) = IF SquatCause(found) THEN Raise(found, SquatWarns(found)) ELSE found
BY DEF EscalateTyposquat, SquatCause, SquatWarns

LEMMA CompoundIs ==
  ASSUME NEW p, NEW found
  PROVE  EscalateCompound(p, found)
           = IF CompoundCause(p, found) THEN Raise(found, At(found, "WARN")) ELSE found
BY DEF EscalateCompound, CompoundCause

LEMMA CalmStays ==
  ASSUME NEW p, NEW found, Calm(p, found)
  PROVE  Escalate(p, found) = found
PROOF
<1>1. EscalateObf(found) = found
  BY ObfCases, RaisesNothing DEF Calm
<1>2. EscalateTyposquat(found) = found
  BY TyposquatIs, RaisesNothing DEF Calm
<1>3. EscalateCompound(p, found) = found
  BY CompoundIs, RaisesNothing DEF Calm
<1> QED BY <1>1, <1>2, <1>3 DEF Escalate

\* A set of findings without a BLOCK comes from one that raised nothing.
LEMMA NoBlockNoRaise ==
  ASSUME NEW found, NEW chosen, chosen \subseteq At(found, "WARN"), IsFindings(found),
         At(Raise(found, chosen), "BLOCK") = {}
  PROVE  chosen = {} /\ At(found, "BLOCK") = {}
PROOF
<1> DEFINE up(f) == [f EXCEPT !.severity = "BLOCK"]
<1>1. Raise(found, chosen) = (found \ chosen) \cup {up(f) : f \in chosen}
  BY DEF Raise, Blocked
<1>2. ASSUME NEW f \in chosen PROVE up(f).severity = "BLOCK"
  <2>1. up(f) = Finding(f.detector, f.category, "BLOCK", f.of, f.code)
    BY RaisedFinding DEF IsFindings, At
  <2> HIDE DEF up
  <2> QED BY <2>1 DEF Finding
<1> HIDE DEF up
<1>3. chosen = {}
  BY <1>1, <1>2 DEF At
<1> QED BY <1>3, RaisesNothing

LEMMA WithoutBlockIsCalm ==
  ASSUME NEW p, NEW found, IsFindings(found), At(Escalate(p, found), "BLOCK") = {}
  PROVE  Calm(p, found)
PROOF
<1> DEFINE first == EscalateObf(found)
           second == EscalateTyposquat(first)
           third == EscalateCompound(p, second)
<1>0. At(third, "BLOCK") = {}
  BY DEF Escalate
<1>1. IsFindings(first)
  BY ObfCases, RaiseKeeps, WarnsAreFindings
<1>2. IsFindings(second)
  BY <1>1, TyposquatCases, RaiseKeeps, WarnsAreFindings
<1>3. At(second, "BLOCK") = {} /\ (CompoundCause(p, second) => At(second, "WARN") = {})
  <2> HIDE DEF second
  <2>1. CASE CompoundCause(p, second)
    BY <1>0, <1>2, <2>1, CompoundIs, NoBlockNoRaise
  <2>2. CASE ~CompoundCause(p, second)
    BY <1>0, <2>2, CompoundIs
  <2> QED BY <2>1, <2>2
<1>4. At(first, "BLOCK") = {} /\ (SquatCause(first) => SquatWarns(first) = {})
  <2> HIDE DEF first
  <2>0. SquatWarns(first) \subseteq At(first, "WARN")
    BY DEF SquatWarns, Of
  <2>1. CASE SquatCause(first)
    BY <1>1, <1>3, <2>0, <2>1, TyposquatIs, NoBlockNoRaise
  <2>2. CASE ~SquatCause(first)
    BY <1>3, <2>2, TyposquatIs
  <2> QED BY <2>1, <2>2
<1>5. At(found, "BLOCK") = {} /\ (ObfCause(found) => ObfWarns(found) = {})
  <2>0. ObfWarns(found) \subseteq At(found, "WARN")
    BY DEF ObfWarns
  <2>1. CASE ObfCause(found)
    BY <1>4, <2>0, <2>1, ObfCases, NoBlockNoRaise
  <2>2. CASE ~ObfCause(found)
    BY <1>4, <2>2, ObfCases
  <2> QED BY <2>1, <2>2
<1>6. first = found
  BY <1>5, ObfCases, RaisesNothing
<1>7. second = first
  <2> HIDE DEF first
  <2> QED BY <1>4, TyposquatIs, RaisesNothing
<1> HIDE DEF first, second
<1> QED BY <1>3, <1>4, <1>5, <1>6, <1>7 DEF Calm

-----------------------------------------------------------------------------
(* One set of findings covers another: each finding of the other one has   *)
(* its own counterpart, equal in what the escalations look at.             *)

Covers(Y, X, m) ==
  /\ m \in [X -> Y]
  /\ \A f, g \in X : m[f] = m[g] => f = g
  /\ \A f \in X : /\ m[f].category = f.category /\ m[f].severity = f.severity
                  /\ m[f].code = f.code
                  /\ f.detector = "deps.typosquat-candidate" => m[f].detector = f.detector

LEMMA CoveredCount ==
  ASSUME NEW X, NEW Y, NEW m, Covers(Y, X, m),
         NEW S, S \subseteq X, NEW T, T \subseteq Y, IsFiniteSet(T), \A f \in S : m[f] \in T
  PROVE  Cardinality(S) \in Nat /\ Cardinality(T) \in Nat /\ Cardinality(S) <= Cardinality(T)
PROOF
<1> DEFINE g == [f \in S |-> m[f]]
<1>1. g \in Injection(S, T)
  BY DEF Covers, Injection, IsInjective
<1>2. IsFiniteSet(S) /\ Cardinality(S) <= Cardinality(T)
  BY <1>1, FS_Injection
<1> QED BY <1>2, FS_CardinalityType

LEMMA CategoriesFinite ==
  ASSUME NEW found, IsFiniteSet(found)
  PROVE  IsFiniteSet(Categories(found))
PROOF
<1> DEFINE g == [f \in found |-> f.category]
<1>1. Categories(found) = {g[f] : f \in found}
  BY DEF Categories
<1> HIDE DEF g
<1> QED BY <1>1, ImageFinite

\* What calms a set of findings calms every set it covers.
LEMMA CoveredIsCalm ==
  ASSUME NEW p, NEW q, NEW X, NEW Y, NEW m, Covers(Y, X, m), IsFiniteSet(Y),
         NewNetworkArg(p) => NewNetworkArg(q), Calm(q, Y)
  PROVE  Calm(p, X)
PROOF
<1> DEFINE warns == At(X, "WARN")
           others == At(Y, "WARN")
<1>1. \A f \in warns : m[f] \in others
  BY DEF Covers, At
<1>2. Categories(warns) \subseteq Categories(others)
  BY <1>1 DEF Categories, Covers, At
<1>3. \A f \in DangerousIn(warns) : m[f] \in others
  BY <1>1 DEF DangerousIn
<1>4. IsFiniteSet(others) /\ IsFiniteSet(Categories(others)) /\ IsFiniteSet(Categories(warns))
  <2>1. IsFiniteSet(others)
    BY FS_Subset DEF At
  <2> QED BY <1>2, <2>1, CategoriesFinite, FS_Subset
<1>5. /\ Cardinality(warns) \in Nat /\ Cardinality(others) \in Nat
      /\ Cardinality(warns) <= Cardinality(others)
  <2>1. warns \subseteq X /\ others \subseteq Y
    BY DEF At
  <2> QED BY <1>1, <1>4, <2>1, CoveredCount
<1>6. /\ Cardinality(DangerousIn(warns)) \in Nat
      /\ Cardinality(DangerousIn(warns)) <= Cardinality(others)
  <2>1. DangerousIn(warns) \subseteq X /\ others \subseteq Y
    BY DEF At, DangerousIn
  <2> QED BY <1>3, <1>4, <2>1, CoveredCount
<1>7. /\ Cardinality(Categories(warns)) \in Nat /\ Cardinality(Categories(others)) \in Nat
      /\ Cardinality(Categories(warns)) <= Cardinality(Categories(others))
  BY <1>2, <1>4, FS_Subset, FS_CardinalityType
<1>8. At(X, "BLOCK") = {}
  BY DEF Calm, Covers, At
<1>9. ObfCause(X) => ObfWarns(X) = {}
  <2> SUFFICES ASSUME ObfCause(X), NEW f \in ObfWarns(X) PROVE FALSE
    OBVIOUS
  <2>1. m[f] \in ObfWarns(Y)
    BY <1>1 DEF ObfWarns, Covers, At
  <2>2. Categories(X) \subseteq Categories(Y)
    BY DEF Categories, Covers
  <2>3. \A g \in DangerousIn(X) : m[g] \in DangerousIn(Y)
    BY DEF DangerousIn, Covers
  <2>4. ObfCause(Y)
    BY <2>2, <2>3 DEF ObfCause
  <2> QED BY <2>1, <2>4 DEF Calm
<1>10. SquatCause(X) => SquatWarns(X) = {}
  <2> SUFFICES ASSUME SquatCause(X), NEW f \in SquatWarns(X) PROVE FALSE
    OBVIOUS
  <2>1. m[f] \in SquatWarns(Y)
    BY <1>1 DEF SquatWarns, Of, Covers, At
  <2>2. Categories(At(X, "BLOCK")) = {}
    BY <1>8 DEF Categories
  <2>3. Cardinality(Categories(At(X, "WARN"))) >= 2
    BY <2>2 DEF SquatCause
  <2>4. SquatCause(Y)
    BY <1>7, <2>3 DEF SquatCause
  <2> QED BY <2>1, <2>4 DEF Calm
<1>11. CompoundCause(p, X) => warns = {}
  <2> SUFFICES ASSUME CompoundCause(p, X) PROVE CompoundCause(q, Y) /\ others # {}
    BY <1>1 DEF Calm
  <2> DEFINE cats == Categories(warns)
             all2 == Categories(others)
             count == Cardinality(warns)
             count2 == Cardinality(others)
  <2>1. ASSUME count2 >= 1 PROVE others # {}
    BY <2>1, EmptyCount
  <2>2. CASE count >= 3 /\ Cardinality(cats) >= 2
    <3>1. count2 >= 3 /\ Cardinality(all2) >= 2
      BY <1>5, <1>7, <2>2
    <3> QED BY <1>5, <2>1, <3>1 DEF CompoundCause
  <2>3. CASE count >= 2 /\ AttackPair(p, cats)
    <3>1. count2 >= 2
      BY <1>5, <2>3
    <3>2. AttackPair(q, all2)
      BY <1>2, <2>3 DEF AttackPair
    <3> QED BY <1>5, <2>1, <3>1, <3>2 DEF CompoundCause
  \* Three warnings of a single category, or of several.
  <2>4. ASSUME NEW cat, cat \in {"OBF", "CODE"}, cats = {cat}, count2 >= 3
        PROVE  \/ Cardinality(all2) >= 2
               \/ all2 = {cat}
    <3>1. cat \in all2
      BY <1>2, <2>4
    <3>2. Cardinality(all2) >= 1
      BY <1>7, <2>4, FS_Singleton
    <3>3. Cardinality(all2) = 1 => all2 = {cat}
      BY <1>4, <3>1, FS_Singleton
    <3> QED BY <1>7, <3>2, <3>3
  <2>5. CASE count >= 3 /\ cats = {"OBF"}
    <3>1. count2 >= 3
      BY <1>5, <2>5
    <3>2. Cardinality(all2) >= 2 \/ all2 = {"OBF"}
      BY <2>4, <2>5, <3>1
    <3> QED BY <1>5, <2>1, <3>1, <3>2 DEF CompoundCause
  <2>6. CASE Cardinality(DangerousIn(warns)) >= 3 /\ cats = {"CODE"}
    <3>1. count2 >= 3
      BY <1>5, <1>6, <2>6
    <3>2. CASE Cardinality(all2) >= 2
      BY <1>5, <2>1, <3>1, <3>2 DEF CompoundCause
    <3>3. CASE all2 = {"CODE"}
      <4>1. \A f \in DangerousIn(warns) : m[f] \in DangerousIn(others)
        BY <1>1 DEF DangerousIn, Covers, At
      <4>2. IsFiniteSet(DangerousIn(others)) /\ DangerousIn(others) \subseteq Y
            /\ DangerousIn(warns) \subseteq X
        BY <1>4, FS_Subset DEF DangerousIn, At
      <4>3. /\ Cardinality(DangerousIn(others)) \in Nat
            /\ Cardinality(DangerousIn(warns)) <= Cardinality(DangerousIn(others))
        BY <4>1, <4>2, CoveredCount
      <4>4. Cardinality(DangerousIn(others)) >= 3
        BY <1>6, <2>6, <4>3
      <4> QED BY <1>5, <2>1, <3>1, <3>3, <4>4 DEF CompoundCause
    <3> QED BY <2>4, <2>6, <3>1, <3>2, <3>3
  <2> QED BY <2>2, <2>3, <2>5, <2>6 DEF CompoundCause
<1> QED BY <1>8, <1>9, <1>10, <1>11 DEF Calm

LEMMA CoveredIsNoGraver ==
  ASSUME NEW p, NEW q, NEW X, NEW Y, NEW m, Covers(Y, X, m), IsFiniteSet(Y),
         IsFindings(X), IsFindings(Y), NewNetworkArg(p) => NewNetworkArg(q)
  PROVE  Gravity(Escalate(p, X)) <= Gravity(Escalate(q, Y))
PROOF
<1>1. IsFindings(Escalate(p, X)) /\ IsFindings(Escalate(q, Y))
  BY EscalateAreFindings
<1>2. CASE At(Escalate(q, Y), "BLOCK") # {}
  BY <1>1, <1>2, BlockIsGravest
<1>3. CASE At(Escalate(q, Y), "BLOCK") = {}
  <2>1. Calm(q, Y)
    BY <1>3, WithoutBlockIsCalm
  <2>2. Calm(p, X)
    BY <2>1, CoveredIsCalm
  <2>3. Escalate(p, X) = X /\ Escalate(q, Y) = Y
    BY <2>1, <2>2, CalmStays
  <2>4. \A f \in X : m[f] \in Y /\ Rank(f.severity) <= Rank(m[f].severity)
    BY RankOf DEF Covers, IsFindings, IsFinding, Severity
  <2>5. Gravity(X) <= Gravity(Y)
    BY <2>4, NoGraver
  <2> QED BY <2>3, <2>5
<1> QED BY <1>2, <1>3

\* Nothing is graver than findings one of which is BLOCK.
LEMMA BlockedIsNoMilder ==
  ASSUME NEW p, NEW q, NEW X, NEW Y, IsFindings(X), IsFindings(Y), At(Y, "BLOCK") # {}
  PROVE  Gravity(Escalate(p, X)) <= Gravity(Escalate(q, Y))
PROOF
<1>1. IsFindings(Escalate(p, X)) /\ IsFindings(Escalate(q, Y))
  BY EscalateAreFindings
<1>2. At(Escalate(q, Y), "BLOCK") # {}
  BY WithoutBlockIsCalm DEF Calm
<1> QED BY <1>1, <1>2, BlockIsGravest

\* The reports of the detectors that a proof tells apart come from them.
LEMMA WhoReports ==
  ASSUME NEW p, IsFiniteSet(p.new), NEW f \in Detectors(p)
  PROVE  /\ f.detector \in {"install.script-changed", "install.script-added"} => f \in LifecycleScripts(p)
         /\ f.detector = "deps.first-version-cluster" => f \in FirstVersionCluster(p)
PROOF
<1> DEFINE others == {"install.script-changed", "install.script-added", "deps.first-version-cluster"}
           Other(found) == \A g \in found : g.detector \notin others
<1>1. Other(NewModules(p)) /\ Other(NewEndpoints(p)) /\ Other(EncodedEndpoints(p)) /\ Other(DnsHostnames(p))
  BY NetworkReports DEF Reports, ReportedBy
<1>2. /\ Other(ExecModules(p)) /\ Other(HotWrites(p)) /\ Other(HotReads(p)) /\ Other(EnvHarvest(p))
      /\ Other(CodeSinks(p))
  BY CodeReports DEF Reports, ReportedBy
<1>3. /\ Other(SuspiciousWasm(p)) /\ Other(UnparseableWasm(p)) /\ Other(NativeArtifacts(p))
      /\ Other(ObfuscatedFiles(p)) /\ Other(ManglerSignatures(p)) /\ Other(Homoglyphs(p))
  BY FileReports DEF Reports, ReportedBy
<1>4. Other(SelfPublishShape(p)) /\ Other(BundledDeps(p))
  BY ScriptReports DEF Reports, ReportedBy
<1>5. /\ Other(MaintainerChange(p)) /\ Other(DisposableDomain(p)) /\ Other(UrlDeps(p))
      /\ Other(NewDirectDeps(p)) /\ Other(TyposquatCandidate(p)) /\ Other(HyphenPermutation(p))
  BY ManifestReports DEF Reports, ReportedBy
<1>6. \A g \in LifecycleScripts(p) : g.detector # "deps.first-version-cluster"
  BY ScriptReports DEF Reports, ReportedBy
<1>7. \A g \in FirstVersionCluster(p) : g.detector \notin {"install.script-changed", "install.script-added"}
  BY ManifestReports DEF Reports, ReportedBy
<1>8. f \in LifecycleScripts(p) \/ f \in FirstVersionCluster(p) \/ f.detector \notin others
  <2> HIDE DEF others
  <2> QED BY <1>1, <1>2, <1>3, <1>4, <1>5 DEF Detectors
<1> QED BY <1>6, <1>7, <1>8

LEMMA FoundGrows ==
  ASSUME NEW d, NEW cat, NEW sev, NEW keys, NEW more, keys \subseteq more
  PROVE  Found(d, cat, sev, keys) \subseteq Found(d, cat, sev, more)
BY DEF Found

LEMMA FoundAtGrows ==
  ASSUME NEW d, NEW cat, NEW sev, NEW facts, NEW more, facts \subseteq more
  PROVE  FoundAt(d, cat, sev, facts) \subseteq FoundAt(d, cat, sev, more)
BY DEF FoundAt

-----------------------------------------------------------------------------
(* q is p without one capability that is new in p, not a manifest write    *)
(* that comes before the one without which the shape would be new.         *)

Less(q, p, x) ==
  /\ x \in p.new /\ x \notin p.old /\ x.k \in Capabilities
  /\ q.old = p.old /\ q.new = p.new \ {x}
  /\ ~RestoresTarget(p, x) /\ q.oldOrder = p.oldOrder /\ q.newOrder = p.newOrder
  /\ q.dir = p.dir /\ q.squat = p.squat /\ q.hyphen = p.hyphen /\ q.trusted = p.trusted
  /\ IsSnapshot(p.old) /\ IsSnapshot(p.new)

LEMMA LessFacts ==
  ASSUME NEW p, NEW q, NEW x, Less(q, p, x), NEW k
  PROVE  /\ Facts(q.new, k) \subseteq Facts(p.new, k)
         /\ Values(q.new, k) \subseteq Values(p.new, k)
         /\ Places(q.new, k) \subseteq Places(p.new, k)
         /\ Fresh(q, k) \subseteq Fresh(p, k)
         /\ FreshFacts(q, k) \subseteq FreshFacts(p, k)
BY DEF Less, Facts, Values, Places, Fresh, FreshFacts

LEMMA SameFacts ==
  ASSUME NEW p, NEW q, NEW x, Less(q, p, x), NEW k, k \notin Capabilities
  PROVE  /\ Facts(q.new, k) = Facts(p.new, k)
         /\ Values(q.new, k) = Values(p.new, k)
         /\ Places(q.new, k) = Places(p.new, k)
         /\ Fresh(q, k) = Fresh(p, k)
PROOF
<1>1. Facts(q.new, k) = Facts(p.new, k)
  BY DEF Less, Facts
<1> QED BY <1>1 DEF Values, Places, Fresh, Less

LEMMA NotCapabilities ==
  /\ "url" \notin Capabilities /\ "file" \notin Capabilities /\ "entry" \notin Capabilities
  /\ "email" \notin Capabilities /\ "author" \notin Capabilities /\ "dep" \notin Capabilities
BY DEF Capabilities

LEMMA SameOccurrences ==
  ASSUME NEW p, NEW q, NEW x, Less(q, p, x), NEW u
  PROVE  Context(q.new, u) = Context(p.new, u)
PROOF
<1>1. Occurrences(q.new, u) = Occurrences(p.new, u)
  BY SameFacts, NotCapabilities DEF Occurrences
<1> QED BY <1>1 DEF Context

LEMMA SameDepSpec ==
  ASSUME NEW p, NEW q, NEW x, Less(q, p, x), NEW n
  PROVE  DepSpec(q.new, n) = DepSpec(p.new, n)
PROOF
<1>1. Facts(q.new, "dep") = Facts(p.new, "dep") /\ Places(q.new, "dep") = Places(p.new, "dep")
  BY SameFacts, NotCapabilities
<1> DEFINE spec(deps, places) ==
             LET of(b) == {y \in deps : y.at = n /\ y.c = Buckets[b]}
                 first == CHOOSE b \in 1..3 : of(b) # {} /\ \A a \in 1..(b - 1) : of(a) = {}
             IN IF n \in places THEN (CHOOSE y \in of(first) : TRUE).v ELSE Blank
<1>2. \A s : DepSpec(s, n) = spec(Facts(s, "dep"), Places(s, "dep"))
  BY Zenon DEF DepSpec
<1> HIDE DEF spec
<1> QED BY <1>1, <1>2

LEMMA SameEntropy ==
  ASSUME NEW p, NEW q, NEW x, Less(q, p, x), NEW f \in Places(p.new, "file")
  PROVE  EntropyOf(q.new, f) = EntropyOf(p.new, f)
PROOF
<1>1. Facts(q.new, "file") = Facts(p.new, "file")
  BY SameFacts, NotCapabilities
<1>2. FilesHashed(p.new) /\ FilesHashed(q.new)
  BY <1>1 DEF Less, IsSnapshot, FilesHashed
<1>3. PICK y \in Facts(p.new, "file") : y.at = f
  BY DEF Places
<1> QED BY <1>1, <1>2, <1>3, HashOf

LEMMA LessNetwork ==
  ASSUME NEW p, NEW q, NEW x, Less(q, p, x)
  PROVE  /\ NewModules(q) \subseteq NewModules(p)
         /\ NewEndpoints(q) \subseteq NewEndpoints(p)
         /\ EncodedEndpoints(q) \subseteq EncodedEndpoints(p)
         /\ DnsHostnames(q) \subseteq DnsHostnames(p)
PROOF
<1>1. NewModules(q) \subseteq NewModules(p) /\ EncodedEndpoints(q) \subseteq EncodedEndpoints(p)
  BY LessFacts, FoundGrows DEF NewModules, EncodedEndpoints
<1>2. NewEndpoints(q) \subseteq NewEndpoints(p)
  <2> DEFINE sev(s, u) == IF Context(s, u) \in {"literal", "comment"} THEN "INFO" ELSE "WARN"
             ends(s, urls) == {Finding("net.new-endpoint", "NET", sev(s, u), <<u>>, Blank) : u \in urls}
  <2>1. NewEndpoints(q) = ends(q.new, Fresh(q, "url")) /\ NewEndpoints(p) = ends(p.new, Fresh(p, "url"))
    BY DEF NewEndpoints
  <2>2. Fresh(q, "url") = Fresh(p, "url")
    BY SameFacts, NotCapabilities
  <2>3. \A u : sev(q.new, u) = sev(p.new, u)
    BY SameOccurrences
  <2> HIDE DEF sev
  <2>4. ends(q.new, Fresh(p, "url")) = ends(p.new, Fresh(p, "url"))
    BY <2>3
  <2> HIDE DEF ends
  <2> QED BY <2>1, <2>2, <2>4
<1>3. DnsHostnames(q) \subseteq DnsHostnames(p)
  <2> DEFINE dns(r, f) == {y.v : y \in {z \in Facts(r.new, "net") : z.at = f}} \cap DnsModules
             fires(r, f) == /\ dns(r, f) # {}
                            /\ r.dir = "added" \/ dns(r, f) \ Values(r.old, "net") # {}
                            /\ Corroborated(r.new, f)
             files(r) == {f \in Places(r.new, "net") : fires(r, f)}
  <2>1. DnsHostnames(q) = Found("net.dns-templated-hostname", "NET", "WARN", files(q))
        /\ DnsHostnames(p) = Found("net.dns-templated-hostname", "NET", "WARN", files(p))
    BY DEF DnsHostnames
  <2>2. \A f : dns(q, f) \subseteq dns(p, f)
    BY LessFacts
  <2>3. \A f : Corroborated(q.new, f) => Corroborated(p.new, f)
    BY LessFacts DEF Corroborated
  <2>4. files(q) \subseteq files(p)
    <3>1. Places(q.new, "net") \subseteq Places(p.new, "net") /\ q.dir = p.dir /\ q.old = p.old
      BY LessFacts DEF Less
    <3> HIDE DEF dns
    <3> QED BY <2>2, <2>3, <3>1
  <2> HIDE DEF files
  <2> QED BY <2>1, <2>4, FoundGrows
<1> QED BY <1>1, <1>2, <1>3

LEMMA LessCode ==
  ASSUME NEW p, NEW q, NEW x, Less(q, p, x)
  PROVE  /\ ExecModules(q) \subseteq ExecModules(p)
         /\ HotWrites(q) \subseteq HotWrites(p)
         /\ HotReads(q) \subseteq HotReads(p)
         /\ EnvHarvest(q) \subseteq EnvHarvest(p)
         /\ CodeSinks(q) \subseteq CodeSinks(p)
PROOF
<1>1. ExecModules(q) \subseteq ExecModules(p)
  BY LessFacts, FoundGrows DEF ExecModules
<1>2. HotWrites(q) \subseteq HotWrites(p) /\ HotReads(q) \subseteq HotReads(p)
  <2>1. /\ Fresh(q, "write") \cap HotPaths \subseteq Fresh(p, "write") \cap HotPaths
        /\ Fresh(q, "read") \cap HotPaths \subseteq Fresh(p, "read") \cap HotPaths
    BY LessFacts
  <2> QED BY <2>1, FoundGrows DEF HotWrites, HotReads
<1>3. EnvHarvest(q) \subseteq EnvHarvest(p)
  <2>1. Sensitive(q.new) \ Sensitive(q.old) \subseteq Sensitive(p.new) \ Sensitive(p.old)
    BY LessFacts DEF Sensitive, Less
  <2> QED BY <2>1, FoundGrows DEF EnvHarvest
<1>4. CodeSinks(q) \subseteq CodeSinks(p)
  <2>1. NewSites(q) \subseteq NewSites(p)
    BY LessFacts DEF NewSites, Less
  <2> QED BY <2>1 DEF CodeSinks
<1> QED BY <1>1, <1>2, <1>3, <1>4

LEMMA LessFiles ==
  ASSUME NEW p, NEW q, NEW x, Less(q, p, x)
  PROVE  /\ SuspiciousWasm(q) \subseteq SuspiciousWasm(p)
         /\ UnparseableWasm(q) \subseteq UnparseableWasm(p)
         /\ NativeArtifacts(q) \subseteq NativeArtifacts(p)
         /\ ObfuscatedFiles(q) \subseteq ObfuscatedFiles(p)
         /\ ManglerSignatures(q) \subseteq ManglerSignatures(p)
         /\ Homoglyphs(q) \subseteq Homoglyphs(p)
PROOF
<1>0. q.old = p.old
  BY DEF Less
<1>1. SuspiciousWasm(q) \subseteq SuspiciousWasm(p)
  <2>1. {y \in FreshFacts(q, "wasm-import") : y.v \in SuspiciousImports}
          \subseteq {y \in FreshFacts(p, "wasm-import") : y.v \in SuspiciousImports}
    BY LessFacts
  <2> QED BY <2>1, FoundAtGrows DEF SuspiciousWasm
<1>2. UnparseableWasm(q) \subseteq UnparseableWasm(p)
  <2>1. Places(q.new, "wasm-error") \ Places(q.old, "wasm-error")
          \subseteq Places(p.new, "wasm-error") \ Places(p.old, "wasm-error")
    BY <1>0, LessFacts
  <2> QED BY <2>1, FoundGrows DEF UnparseableWasm
<1>3. NativeArtifacts(q) \subseteq NativeArtifacts(p)
  BY LessFacts, FoundAtGrows DEF NativeArtifacts
<1>4. ObfuscatedFiles(q) \subseteq ObfuscatedFiles(p)
  <2> DEFINE kept == Places(p.new, "file") \cap Places(p.old, "file")
             jumped(r) == {f \in kept : Jumped(r, f)}
  <2>1. Places(q.new, "file") \cap Places(q.old, "file") = kept
    BY <1>0, SameFacts, NotCapabilities
  <2>2. jumped(q) \subseteq jumped(p)
    <3> SUFFICES ASSUME NEW f \in kept, Jumped(q, f) PROVE Jumped(p, f)
      OBVIOUS
    <3>1. EntropyOf(q.new, f) = EntropyOf(p.new, f)
      BY SameEntropy
    <3>2. Places(q.new, "minified") \subseteq Places(p.new, "minified")
          /\ Places(q.new, "suspicious") \subseteq Places(p.new, "suspicious")
      BY LessFacts
    <3> QED BY <1>0, <3>1, <3>2 DEF Jumped
  <2>3. Obfuscated(q.new) \ kept \subseteq Obfuscated(p.new) \ kept
    BY LessFacts DEF Obfuscated
  <2>4. \A f : ObfSeverity(q, f) = ObfSeverity(p, f)
    BY SameFacts, NotCapabilities DEF ObfSeverity
  <2>5. ASSUME NEW d, NEW files, NEW more, files \subseteq more
        PROVE  ObfFound(q, d, files) \subseteq ObfFound(p, d, more)
    BY <2>4, <2>5 DEF ObfFound
  <2>6. ObfuscatedFiles(q) = ObfFound(q, "obf.entropy-jump", jumped(q))
          \cup ObfFound(q, "obf.new-obfuscated-file", Obfuscated(q.new) \ kept)
    BY <2>1 DEF ObfuscatedFiles
  <2>7. ObfuscatedFiles(p) = ObfFound(p, "obf.entropy-jump", jumped(p))
          \cup ObfFound(p, "obf.new-obfuscated-file", Obfuscated(p.new) \ kept)
    BY DEF ObfuscatedFiles
  <2> HIDE DEF jumped, kept
  <2>8. /\ ObfFound(q, "obf.entropy-jump", jumped(q)) \subseteq ObfFound(p, "obf.entropy-jump", jumped(p))
        /\ ObfFound(q, "obf.new-obfuscated-file", Obfuscated(q.new) \ kept)
             \subseteq ObfFound(p, "obf.new-obfuscated-file", Obfuscated(p.new) \ kept)
    BY <2>2, <2>3, <2>5
  <2> QED BY <2>6, <2>7, <2>8
<1>5. ManglerSignatures(q) \subseteq ManglerSignatures(p)
  <2> DEFINE ids(r, f) == MangledIds(r.new, f) \ MangledIds(r.old, f)
  <2>1. \A f : ids(q, f) \subseteq ids(p, f)
    BY <1>0, LessFacts DEF MangledIds
  <2>2. \A f : IsFiniteSet(ids(p, f))
    <3> TAKE f
    <3>1. ids(p, f) \subseteq Values(p.new, "mangled")
      BY DEF MangledIds, Values
    <3> HIDE DEF ids
    <3>2. IsFiniteSet(Values(p.new, "mangled"))
      BY FactsFinite DEF Less, IsSnapshot
    <3> QED BY <3>1, <3>2, FS_Subset
  <2>3. \A f : Cardinality(ids(q, f)) >= 3 => Cardinality(ids(p, f)) >= 3
    <3> TAKE f
    <3> HIDE DEF ids
    <3>1. IsFiniteSet(ids(q, f)) /\ Cardinality(ids(q, f)) <= Cardinality(ids(p, f))
      BY <2>1, <2>2, FS_Subset
    <3>2. Cardinality(ids(q, f)) \in Nat /\ Cardinality(ids(p, f)) \in Nat
      BY <2>2, <3>1, FS_CardinalityType
    <3> QED BY <3>1, <3>2
  <2>4. {f \in ScriptFiles : Cardinality(ids(q, f)) >= 3} \subseteq {f \in ScriptFiles : Cardinality(ids(p, f)) >= 3}
    BY <2>3
  <2> QED BY <2>4, FoundGrows DEF ManglerSignatures
<1>6. Homoglyphs(q) \subseteq Homoglyphs(p)
  <2>1. (Places(q.new, "homoglyph") \ Places(q.old, "homoglyph")) \cap ScriptFiles
          \subseteq (Places(p.new, "homoglyph") \ Places(p.old, "homoglyph")) \cap ScriptFiles
    BY <1>0, LessFacts
  <2> QED BY <2>1, FoundGrows DEF Homoglyphs
<1> QED BY <1>1, <1>2, <1>3, <1>4, <1>5, <1>6

\* An installation hook that becomes the first is a new one, and BLOCK.
LEMMA NewFirstHook ==
  ASSUME NEW p, NEW q, NEW x, Less(q, p, x), HooksOf(q.new) # {}, FirstHook(q.new) # FirstHook(p.new)
  PROVE  At(LifecycleScripts(p), "BLOCK") # {}
PROOF
<1>1. HooksOf(q.new) \subseteq HooksOf(p.new) /\ HooksOf(p.new) \subseteq 1..4
  BY LessFacts DEF HooksOf, Hooks
<1>2. ASSUME NEW s, HooksOf(s) # {}, HooksOf(s) \subseteq 1..4
      PROVE  FirstHook(s) \in HooksOf(s) /\ \A j \in HooksOf(s) : FirstHook(s) <= j
  <2>1. \E i \in HooksOf(s) : \A j \in HooksOf(s) : i <= j
    <3>1. CASE 1 \in HooksOf(s) BY <1>2, <3>1
    <3>2. CASE 1 \notin HooksOf(s) /\ 2 \in HooksOf(s) BY <1>2, <3>2
    <3>3. CASE 1 \notin HooksOf(s) /\ 2 \notin HooksOf(s) /\ 3 \in HooksOf(s) BY <1>2, <3>3
    <3>4. CASE HooksOf(s) \subseteq {4} BY <1>2, <3>4
    <3>5. 1 \notin HooksOf(s) /\ 2 \notin HooksOf(s) /\ 3 \notin HooksOf(s) => HooksOf(s) \subseteq {4}
      <4>1. \A j \in 1..4 : j = 1 \/ j = 2 \/ j = 3 \/ j = 4
        OBVIOUS
      <4> QED BY <1>2, <4>1
    <3> QED BY <3>1, <3>2, <3>3, <3>4, <3>5
  <2> QED BY <2>1 DEF FirstHook
<1> DEFINE i == FirstHook(p.new)
           j == FirstHook(q.new)
<1>3. i \in HooksOf(p.new) /\ \A k \in HooksOf(p.new) : i <= k
  BY <1>1, <1>2
<1>4. j \in HooksOf(q.new) /\ \A k \in HooksOf(q.new) : j <= k
  BY <1>1, <1>2
<1> HIDE DEF i, j
<1>5. i \in 1..3 /\ i \notin HooksOf(q.new)
  <2>1. i # j
    BY DEF i, j
  <2>2. i \in 1..4 /\ j \in 1..4 /\ i <= j
    BY <1>1, <1>3, <1>4
  <2>3. i \notin HooksOf(q.new)
    <3> SUFFICES ASSUME i \in HooksOf(q.new) PROVE FALSE
      OBVIOUS
    <3>1. j <= i
      BY <1>4
    <3> QED BY <2>1, <2>2, <3>1
  <2> QED BY <2>1, <2>2, <2>3
<1>6. PICK y \in Facts(p.new, "script") : y.at = Hooks[i]
  BY <1>3 DEF HooksOf, Places
<1>7. y = x
  <2>1. i \in DOMAIN Hooks
    BY <1>3 DEF HooksOf
  <2>2. y \notin Facts(q.new, "script")
    BY <1>5, <1>6, <2>1 DEF HooksOf, Places
  <2> QED BY <2>2 DEF Less, Facts
<1>8. Hooks[i] \in {"preinstall", "install", "postinstall"}
  BY <1>5 DEF Hooks
<1>9. Hooks[i] \in InstallTier
  BY <1>8 DEF InstallTier
<1>10. y \in FreshFacts(p, "script")
  BY <1>7 DEF FreshFacts, Facts, Less
<1> DEFINE name == IF y.at \in Places(p.old, "script") THEN "install.script-changed"
                   ELSE "install.script-added"
           it == Finding(name, "INSTALL", TierOf(y.at), <<y.at>>, Blank)
<1>11. it \in LifecycleScripts(p)
  BY <1>6, <1>9, <1>10 DEF LifecycleScripts
<1>12. TierOf(y.at) = "BLOCK"
  BY <1>6, <1>9 DEF TierOf
<1> HIDE DEF name
<1>13. it.severity = "BLOCK"
  BY <1>12 DEF Finding
<1> HIDE DEF it
<1> QED BY <1>11, <1>13 DEF At

\* Nothing else takes away the version before's target.
LEMMA SameTarget ==
  ASSUME NEW p, NEW q, NEW x, Less(q, p, x),
         SelfPublishes(p.new), SelfPublishes(q.new), SameShape(p)
  PROVE  ManifestTarget(q.new, q.newOrder) = ManifestTarget(p.new, p.newOrder)
PROOF
<1>1. q.new = p.new \ {x} /\ q.newOrder = p.newOrder /\ ~RestoresTarget(p, x)
  BY DEF Less
<1>2. ManifestWrites(q.new) # {}
  BY DEF SelfPublishes
<1>3. CASE x \in ManifestWrites(p.new)
  BY <1>1, <1>2, <1>3 DEF RestoresTarget
<1>4. CASE x \notin ManifestWrites(p.new)
  <2>1. ManifestWrites(q.new) = ManifestWrites(p.new)
    BY <1>1, <1>4 DEF ManifestWrites, Facts
  <2> QED BY <1>1, <2>1 DEF ManifestTarget
<1> QED BY <1>3, <1>4

LEMMA LessScripts ==
  ASSUME NEW p, NEW q, NEW x, Less(q, p, x)
  PROVE  /\ LifecycleScripts(q) \subseteq LifecycleScripts(p)
         /\ \/ SelfPublishShape(q) \subseteq SelfPublishShape(p)
            \/ At(LifecycleScripts(p), "BLOCK") # {}
         /\ BundledDeps(q) \subseteq BundledDeps(p)
PROOF
<1>0. q.old = p.old /\ q.dir = p.dir
  BY DEF Less
<1>1. LifecycleScripts(q) \subseteq LifecycleScripts(p)
  <2> DEFINE hooks(r) == {y \in FreshFacts(r, "script") :
                            y.at \in InstallTier \cup PublishTier \cup QuietTier}
             name(y) == IF y.at \in Places(p.old, "script") THEN "install.script-changed"
                        ELSE "install.script-added"
             found(facts) == {Finding(name(y), "INSTALL", TierOf(y.at), <<y.at>>, Blank) : y \in facts}
  <2>1. LifecycleScripts(q) = found(hooks(q)) /\ LifecycleScripts(p) = found(hooks(p))
    BY <1>0 DEF LifecycleScripts
  <2>2. hooks(q) \subseteq hooks(p)
    BY LessFacts
  <2> HIDE DEF hooks, name
  <2>3. found(hooks(q)) \subseteq found(hooks(p))
    BY <2>2
  <2> HIDE DEF found
  <2> QED BY <2>1, <2>3
<1>2. \/ SelfPublishShape(q) \subseteq SelfPublishShape(p)
      \/ At(LifecycleScripts(p), "BLOCK") # {}
  <2> DEFINE shape == Found("install.self-publish-shape", "INSTALL",
                            IF HooksOf(p.old) = {} THEN "BLOCK" ELSE "WARN", {"shape"})
  <2>1. /\ SelfPublishShape(q) = If(SelfPublishes(q.new) /\ ~SameShape(q), shape)
        /\ SelfPublishShape(p) = If(SelfPublishes(p.new) /\ ~SameShape(p), shape)
    BY <1>0 DEF SelfPublishShape
  <2>2. SelfPublishes(q.new) => SelfPublishes(p.new) /\ HooksOf(q.new) # {}
    <3>1. HooksOf(q.new) \subseteq HooksOf(p.new)
      BY LessFacts DEF HooksOf
    <3>2. ManifestWrites(q.new) \subseteq ManifestWrites(p.new)
      BY LessFacts DEF ManifestWrites
    <3> QED BY <3>1, <3>2, LessFacts DEF SelfPublishes
  <2>3. CASE SelfPublishes(q.new) /\ FirstHook(q.new) # FirstHook(p.new)
    BY <2>2, <2>3, NewFirstHook
  <2>4. CASE SelfPublishes(q.new) /\ FirstHook(q.new) = FirstHook(p.new)
    <3>1. SameShape(p) => SameShape(q)
      <4>1. SameShape(p) => ManifestTarget(q.new, q.newOrder) = ManifestTarget(p.new, p.newOrder)
        BY <2>2, <2>4, SameTarget
      <4>2. q.oldOrder = p.oldOrder
        BY DEF Less
      <4> QED BY <1>0, <2>4, <4>1, <4>2 DEF SameShape
    <3> HIDE DEF shape
    <3> QED BY <2>1, <2>2, <2>4, <3>1 DEF If
  <2>5. CASE ~SelfPublishes(q.new)
    <3> HIDE DEF shape
    <3> QED BY <2>1, <2>5 DEF If
  <2> QED BY <2>3, <2>4, <2>5
<1>3. BundledDeps(q) \subseteq BundledDeps(p)
  <2> DEFINE first == Found("deps.bundled-dependency-added", "DEPS", "WARN", {"bundled"})
             hooks(r) == {y \in Facts(r.new, "bundled-hook") : y.v \in BundledHooks}
             second(r) == FoundAt("install.bundled-lifecycle", "INSTALL", "BLOCK", hooks(r))
  <2>1. /\ BundledDeps(q) = If(Fresh(q, "bundled") # {}, first) \cup second(q)
        /\ BundledDeps(p) = If(Fresh(p, "bundled") # {}, first) \cup second(p)
    BY DEF BundledDeps
  <2>2. Fresh(q, "bundled") \subseteq Fresh(p, "bundled") /\ hooks(q) \subseteq hooks(p)
    BY LessFacts
  <2> HIDE DEF hooks
  <2>3. second(q) \subseteq second(p)
    BY <2>2, FoundAtGrows
  <2> HIDE DEF first, second
  <2> QED BY <2>1, <2>2, <2>3 DEF If
<1> QED BY <1>1, <1>2, <1>3

LEMMA LessManifest ==
  ASSUME NEW p, NEW q, NEW x, Less(q, p, x)
  PROVE  /\ MaintainerChange(q) = MaintainerChange(p)
         /\ DisposableDomain(q) = DisposableDomain(p)
         /\ UrlDeps(q) = UrlDeps(p)
         /\ NewDirectDeps(q) = NewDirectDeps(p)
         /\ TyposquatCandidate(q) = TyposquatCandidate(p)
         /\ HyphenPermutation(q) = HyphenPermutation(p)
         /\ FirstVersionCluster(q) \subseteq FirstVersionCluster(p)
PROOF
<1>0. q.old = p.old /\ q.dir = p.dir /\ q.squat = p.squat /\ q.hyphen = p.hyphen /\ q.trusted = p.trusted
  BY DEF Less
<1>a. /\ Values(q.new, "email") = Values(p.new, "email")
      /\ Values(q.new, "author") = Values(p.new, "author")
      /\ Facts(q.new, "dep") = Facts(p.new, "dep")
      /\ Places(q.new, "dep") = Places(p.new, "dep")
  BY SameFacts, NotCapabilities
<1>1. MaintainerChange(q) = MaintainerChange(p)
  BY <1>0, <1>a DEF MaintainerChange
<1>2. DisposableDomain(q) = DisposableDomain(p)
  BY <1>0, <1>a DEF DisposableDomain
<1>3. UrlDeps(q) = UrlDeps(p)
  <2> DEFINE names(r) == {d \in Places(r.new, "dep") : /\ DepSpec(r.new, d) # DepSpec(r.old, d)
                                                       /\ DepSpec(r.new, d) \in PlainHttp \cup ForeignHttps}
             found(r, ns) == {Finding("manifest-deps.http-resolved-url", "DEPS",
                                      UrlSeverity(DepSpec(r.new, n)), <<n>>, Blank) : n \in ns}
  <2>1. UrlDeps(q) = found(q, names(q)) /\ UrlDeps(p) = found(p, names(p))
    BY DEF UrlDeps
  <2>2. \A n : DepSpec(q.new, n) = DepSpec(p.new, n)
    BY SameDepSpec
  <2>3. names(q) = names(p)
    BY <1>0, <1>a, <2>2
  <2>4. \A ns : found(q, ns) = found(p, ns)
    BY <2>2
  <2> HIDE DEF names, found
  <2> QED BY <2>1, <2>3, <2>4
<1>4. NewDirectDeps(q) = NewDirectDeps(p)
  BY <1>0, <1>a DEF NewDirectDeps
<1>5. TyposquatCandidate(q) = TyposquatCandidate(p) /\ HyphenPermutation(q) = HyphenPermutation(p)
  BY <1>0 DEF TyposquatCandidate, HyphenPermutation
<1>6. FirstVersionCluster(q) \subseteq FirstVersionCluster(p)
  <2> DEFINE kinds(s) == {k \in {"net", "exec", "fs-module", "code"} : Facts(s, k) # {}}
                           \cup (IF Sensitive(s) # {} THEN {"env"} ELSE {})
                           \cup (IF Obfuscated(s) # {} THEN {"obf"} ELSE {})
             cluster == Found("deps.first-version-cluster", "DEPS", "BLOCK", {"cluster"})
  <2>1. /\ FirstVersionCluster(q) = If(q.dir = "added" /\ Cardinality(kinds(q.new)) >= 4, cluster)
        /\ FirstVersionCluster(p) = If(p.dir = "added" /\ Cardinality(kinds(p.new)) >= 4, cluster)
    BY DEF FirstVersionCluster
  <2>2. kinds(q.new) \subseteq kinds(p.new)
    <3>1. Sensitive(q.new) \subseteq Sensitive(p.new) /\ Obfuscated(q.new) \subseteq Obfuscated(p.new)
      BY LessFacts DEF Sensitive, Obfuscated
    <3> QED BY <3>1, LessFacts
  <2>3. IsFiniteSet(kinds(p.new))
    <3> DEFINE few == {"net"} \cup ({"exec"} \cup ({"fs-module"} \cup ({"code"} \cup ({"env"} \cup {"obf"}))))
    <3>1. IsFiniteSet(few)
      BY FS_Singleton, FS_Union
    <3>2. kinds(p.new) \subseteq few
      OBVIOUS
    <3> HIDE DEF kinds, few
    <3> QED BY <3>1, <3>2, FS_Subset
  <2> HIDE DEF kinds, cluster
  <2>4. IsFiniteSet(kinds(q.new)) /\ Cardinality(kinds(q.new)) <= Cardinality(kinds(p.new))
    BY <2>2, <2>3, FS_Subset
  <2>5. Cardinality(kinds(q.new)) >= 4 => Cardinality(kinds(p.new)) >= 4
    BY <2>3, <2>4, FS_CardinalityType
  <2> QED BY <1>0, <2>1, <2>5 DEF If
<1> QED BY <1>1, <1>2, <1>3, <1>4, <1>5, <1>6

LEMMA LessDetected ==
  ASSUME NEW p, NEW q, NEW x, Less(q, p, x), At(Detectors(p), "BLOCK") = {}
  PROVE  Detectors(q) \subseteq Detectors(p)
PROOF
<1>1. LifecycleScripts(p) \subseteq Detectors(p)
  BY DEF Detectors
<1>2. At(LifecycleScripts(p), "BLOCK") = {}
  BY <1>1 DEF At
<1> QED BY <1>2, LessNetwork, LessCode, LessFiles, LessScripts, LessManifest DEF Detectors

\* The fallback fires again, or a BLOCK is there already.
LEMMA LessReported ==
  ASSUME NEW p, NEW q, NEW x, Less(q, p, x), At(WithFallback(p, Detectors(p)), "BLOCK") = {}
  PROVE  WithFallback(q, Detectors(q)) \subseteq WithFallback(p, Detectors(p))
PROOF
<1> DEFINE env(r) == Of(Detectors(r), "env.token-harvest")
           net(r) == Of(Detectors(r), "net.new-endpoint") \cup Of(Detectors(r), "net.new-module")
           extra == Found("deps.first-version-cluster", "DEPS", "BLOCK", {"secrets"})
           fires(r) == /\ r.dir = "added" /\ Of(Detectors(r), "deps.first-version-cluster") = {}
                       /\ net(r) # {}
                       /\ (\E f \in env(r) : f.of = <<WholeEnv>>) \/ Cardinality(env(r)) >= 3
<1>1. /\ WithFallback(q, Detectors(q)) = Detectors(q) \cup If(fires(q), extra)
      /\ WithFallback(p, Detectors(p)) = Detectors(p) \cup If(fires(p), extra)
  BY DEF WithFallback
<1>2. At(Detectors(p), "BLOCK") = {}
  BY <1>1 DEF At
<1>3. Detectors(q) \subseteq Detectors(p)
  BY <1>2, LessDetected
<1>4. IsFiniteSet(p.new)
  BY DEF Less, IsSnapshot
<1>5. Of(Detectors(p), "deps.first-version-cluster") = {}
  <2> SUFFICES ASSUME NEW f \in Detectors(p), f.detector = "deps.first-version-cluster" PROVE FALSE
    BY DEF Of
  <2>1. f \in FirstVersionCluster(p)
    BY <1>4, WhoReports
  <2>2. FirstVersionCluster(p) \subseteq Found("deps.first-version-cluster", "DEPS", "BLOCK", {"cluster"})
    BY DEF FirstVersionCluster, If
  <2>3. f = Finding("deps.first-version-cluster", "DEPS", "BLOCK", <<"cluster">>, Blank)
    BY <2>1, <2>2 DEF Found
  <2>4. f.severity = "BLOCK"
    BY <2>3 DEF Finding
  <2> QED BY <1>2, <2>4 DEF At
<1>6. fires(q) => fires(p)
  <2>1. env(q) \subseteq env(p) /\ net(q) \subseteq net(p)
    BY <1>3 DEF Of
  <2>2. IsFiniteSet(env(p))
    BY <1>4, DetectorsReport, FS_Subset DEF Of
  <2>3. q.dir = p.dir
    BY DEF Less
  <2> HIDE DEF env, net
  <2>4. IsFiniteSet(env(q)) /\ Cardinality(env(q)) <= Cardinality(env(p))
    BY <2>1, <2>2, FS_Subset
  <2>5. Cardinality(env(q)) >= 3 => Cardinality(env(p)) >= 3
    BY <2>2, <2>4, FS_CardinalityType
  <2> QED BY <1>5, <2>1, <2>3, <2>5
<1> HIDE DEF fires, extra
<1> QED BY <1>1, <1>3, <1>6 DEF If

LEMMA LessIsNoGraver ==
  ASSUME NEW p, NEW q, NEW x, Less(q, p, x)
  PROVE  Gravity(RunAll(q)) <= Gravity(RunAll(p))
PROOF
<1> DEFINE X == WithFallback(q, Detectors(q))
           Y == WithFallback(p, Detectors(p))
           m == [f \in X |-> f]
<1>1. IsFiniteSet(p.new) /\ IsFiniteSet(q.new)
  BY FS_Subset DEF Less, IsSnapshot
<1>2. IsFindings(X) /\ IsFindings(Y) /\ IsFiniteSet(Y)
  BY <1>1, DetectorsReport, FallbackReports
<1>3. RunAll(q) = Escalate(q, X) /\ RunAll(p) = Escalate(p, Y)
  BY DEF RunAll
<1>4. NewNetworkArg(q) => NewNetworkArg(p)
  BY SameFacts, NotCapabilities DEF NewNetworkArg, Less
<1>5. At(Y, "BLOCK") = {} => X \subseteq Y
  BY LessReported
<1> HIDE DEF X, Y
<1>6. CASE At(Y, "BLOCK") # {}
  BY <1>2, <1>3, <1>6, BlockedIsNoMilder
<1>7. CASE At(Y, "BLOCK") = {}
  <2>1. Covers(Y, X, m)
    BY <1>5, <1>7 DEF Covers
  <2> HIDE DEF m
  <2> QED BY <1>2, <1>3, <1>4, <2>1, CoveredIsNoGraver
<1> QED BY <1>6, <1>7

(***************************************************************************)
(* Whatever a package does: without one of the capabilities that are new   *)
(* in it, its verdict would not be graver.  The three escalations consume  *)
(* what the next would count.  The shape of a self-publishing package can  *)
(* go with the capability: with a new first hook, which is BLOCK by        *)
(* itself, or with a manifest write that RestoresTarget leaves out.  It is *)
(* the only one: files come in any order, with any targets.                *)
(***************************************************************************)
THEOREM CapabilitiesOnlyAggravate == Spec => []MoreIsNeverMilder
PROOF
<1>1. Inv => MoreIsNeverMilder
  <2> SUFFICES ASSUME Inv, stage = "done", NEW x \in pair.new \ pair.old,
                      x.k \in Capabilities, ~RestoresTarget(pair, x)
               PROVE  Gravity(RunAll([pair EXCEPT !.new = @ \ {x}])) <= Gravity(all)
    BY DEF MoreIsNeverMilder, Done
  <2> DEFINE q == [pair EXCEPT !.new = @ \ {x}]
  <2>1. Less(q, pair, x)
    BY DEF Inv, PairInv, Less
  <2>2. all = RunAll(pair)
    BY DEF Inv, StageInv
  <2> HIDE DEF q
  <2>3. Gravity(RunAll(q)) <= Gravity(all)
    BY <2>1, <2>2, LessIsNoGraver
  <2> QED BY <2>3 DEF q
<1> QED BY <1>1, InvHolds, PTL

-----------------------------------------------------------------------------
(* q installs for the first time what p upgrades to.                       *)

Anew(q, p) ==
  /\ p.dir = "changed" /\ q.dir = "added" /\ q.old = {} /\ q.new = p.new
  /\ IsSnapshot(p.old) /\ IsSnapshot(p.new)
  /\ \A f \in Detectors(p) : f.detector \notin Comparisons

LEMMA AnewFacts ==
  ASSUME NEW p, NEW q, Anew(q, p), NEW k
  PROVE  /\ Facts(q.new, k) = Facts(p.new, k)
         /\ Values(q.new, k) = Values(p.new, k)
         /\ Places(q.new, k) = Places(p.new, k)
         /\ Fresh(p, k) \subseteq Fresh(q, k)
         /\ FreshFacts(p, k) \subseteq FreshFacts(q, k)
         /\ Facts(q.old, k) = {} /\ Values(q.old, k) = {} /\ Places(q.old, k) = {}
BY DEF Anew, Facts, Values, Places, Fresh, FreshFacts

LEMMA AnewNetwork ==
  ASSUME NEW p, NEW q, Anew(q, p)
  PROVE  /\ NewModules(p) \subseteq NewModules(q)
         /\ NewEndpoints(p) \subseteq NewEndpoints(q)
         /\ EncodedEndpoints(p) \subseteq EncodedEndpoints(q)
         /\ DnsHostnames(p) \subseteq DnsHostnames(q)
PROOF
<1>0. q.new = p.new /\ q.dir = "added"
  BY DEF Anew
<1>1. NewModules(p) \subseteq NewModules(q) /\ EncodedEndpoints(p) \subseteq EncodedEndpoints(q)
  BY AnewFacts, FoundGrows DEF NewModules, EncodedEndpoints
<1>2. NewEndpoints(p) \subseteq NewEndpoints(q)
  <2> DEFINE sev(s, u) == IF Context(s, u) \in {"literal", "comment"} THEN "INFO" ELSE "WARN"
             ends(s, urls) == {Finding("net.new-endpoint", "NET", sev(s, u), <<u>>, Blank) : u \in urls}
  <2>1. NewEndpoints(q) = ends(q.new, Fresh(q, "url")) /\ NewEndpoints(p) = ends(p.new, Fresh(p, "url"))
    BY DEF NewEndpoints
  <2>2. Fresh(p, "url") \subseteq Fresh(q, "url")
    BY AnewFacts
  <2> HIDE DEF sev
  <2>3. \A s, urls, more : urls \subseteq more => ends(s, urls) \subseteq ends(s, more)
    OBVIOUS
  <2> HIDE DEF ends
  <2> QED BY <1>0, <2>1, <2>2, <2>3
<1>3. DnsHostnames(p) \subseteq DnsHostnames(q)
  <2> DEFINE dns(r, f) == {y.v : y \in {z \in Facts(r.new, "net") : z.at = f}} \cap DnsModules
             fires(r, f) == /\ dns(r, f) # {}
                            /\ r.dir = "added" \/ dns(r, f) \ Values(r.old, "net") # {}
                            /\ Corroborated(r.new, f)
             files(r) == {f \in Places(r.new, "net") : fires(r, f)}
  <2>1. DnsHostnames(q) = Found("net.dns-templated-hostname", "NET", "WARN", files(q))
        /\ DnsHostnames(p) = Found("net.dns-templated-hostname", "NET", "WARN", files(p))
    BY DEF DnsHostnames
  <2>2. \A f : dns(q, f) = dns(p, f)
    BY <1>0
  <2>3. files(p) \subseteq files(q)
    <3> HIDE DEF dns
    <3> QED BY <1>0, <2>2
  <2> HIDE DEF files
  <2> QED BY <2>1, <2>3, FoundGrows
<1> QED BY <1>1, <1>2, <1>3

LEMMA AnewCode ==
  ASSUME NEW p, NEW q, Anew(q, p)
  PROVE  /\ ExecModules(p) \subseteq ExecModules(q)
         /\ HotWrites(p) \subseteq HotWrites(q)
         /\ HotReads(p) \subseteq HotReads(q)
         /\ EnvHarvest(p) \subseteq EnvHarvest(q)
         /\ CodeSinks(p) \subseteq CodeSinks(q)
PROOF
<1>1. ExecModules(p) \subseteq ExecModules(q)
  BY AnewFacts, FoundGrows DEF ExecModules
<1>2. HotWrites(p) \subseteq HotWrites(q) /\ HotReads(p) \subseteq HotReads(q)
  <2>1. /\ Fresh(p, "write") \cap HotPaths \subseteq Fresh(q, "write") \cap HotPaths
        /\ Fresh(p, "read") \cap HotPaths \subseteq Fresh(q, "read") \cap HotPaths
    BY AnewFacts
  <2> QED BY <2>1, FoundGrows DEF HotWrites, HotReads
<1>3. EnvHarvest(p) \subseteq EnvHarvest(q)
  <2>1. Sensitive(p.new) \ Sensitive(p.old) \subseteq Sensitive(q.new) \ Sensitive(q.old)
    BY AnewFacts DEF Sensitive
  <2> QED BY <2>1, FoundGrows DEF EnvHarvest
<1>4. CodeSinks(p) \subseteq CodeSinks(q)
  <2>1. NewSites(p) \subseteq NewSites(q)
    BY AnewFacts DEF NewSites
  <2> QED BY <2>1 DEF CodeSinks
<1> QED BY <1>1, <1>2, <1>3, <1>4

LEMMA AnewFiles ==
  ASSUME NEW p, NEW q, Anew(q, p)
  PROVE  /\ SuspiciousWasm(p) \subseteq SuspiciousWasm(q)
         /\ UnparseableWasm(p) \subseteq UnparseableWasm(q)
         /\ NativeArtifacts(p) \subseteq NativeArtifacts(q)
         /\ ObfuscatedFiles(p) \subseteq ObfuscatedFiles(q)
         /\ ManglerSignatures(p) \subseteq ManglerSignatures(q)
         /\ Homoglyphs(p) \subseteq Homoglyphs(q)
PROOF
<1>0. q.new = p.new
  BY DEF Anew
<1>1. SuspiciousWasm(p) \subseteq SuspiciousWasm(q)
  <2>1. {y \in FreshFacts(p, "wasm-import") : y.v \in SuspiciousImports}
          \subseteq {y \in FreshFacts(q, "wasm-import") : y.v \in SuspiciousImports}
    BY AnewFacts
  <2> QED BY <2>1, FoundAtGrows DEF SuspiciousWasm
<1>2. UnparseableWasm(p) \subseteq UnparseableWasm(q)
  <2>1. Places(p.new, "wasm-error") \ Places(p.old, "wasm-error")
          \subseteq Places(q.new, "wasm-error") \ Places(q.old, "wasm-error")
    BY AnewFacts
  <2> QED BY <2>1, FoundGrows DEF UnparseableWasm
<1>3. NativeArtifacts(p) \subseteq NativeArtifacts(q)
  BY AnewFacts, FoundAtGrows DEF NativeArtifacts
<1>4. ObfuscatedFiles(p) \subseteq ObfuscatedFiles(q)
  <2> DEFINE kept(r) == Places(r.new, "file") \cap Places(r.old, "file")
             jumped == ObfFound(p, "obf.entropy-jump", {f \in kept(p) : Jumped(p, f)})
             appeared(r) == ObfFound(r, "obf.new-obfuscated-file", Obfuscated(r.new) \ kept(r))
  <2>1. ObfuscatedFiles(p) = jumped \cup appeared(p) /\ appeared(q) \subseteq ObfuscatedFiles(q)
    BY DEF ObfuscatedFiles
  <2>2. jumped = {}
    <3>1. \A g \in jumped : g.detector = "obf.entropy-jump"
      <4>1. ASSUME NEW f PROVE \A g \in Found("obf.entropy-jump", "OBF", ObfSeverity(p, f), {f}) :
                                  g.detector = "obf.entropy-jump"
        <5>1. ObfSeverity(p, f) \in Severity
          BY DEF ObfSeverity, Severity
        <5>2. Reports(Found("obf.entropy-jump", "OBF", ObfSeverity(p, f), {f}), {"obf.entropy-jump"})
          BY <5>1, FoundReports, FS_Singleton
        <5> QED BY <5>2 DEF Reports, ReportedBy
      <4> QED BY <4>1 DEF ObfFound
    <3>2. jumped \subseteq Detectors(p)
      BY <2>1 DEF Detectors
    <3> HIDE DEF jumped
    <3> QED BY <3>1, <3>2 DEF Anew, Comparisons
  <2>3. Obfuscated(p.new) \ kept(p) \subseteq Obfuscated(q.new) \ kept(q)
    BY <1>0, AnewFacts
  <2>4. \A f : ObfSeverity(q, f) = ObfSeverity(p, f)
    BY <1>0 DEF ObfSeverity
  <2>5. ASSUME NEW d, NEW files, NEW more, files \subseteq more
        PROVE  ObfFound(p, d, files) \subseteq ObfFound(q, d, more)
    BY <2>4, <2>5 DEF ObfFound
  <2> HIDE DEF jumped, kept
  <2>6. appeared(p) \subseteq appeared(q)
    BY <2>3, <2>5
  <2> HIDE DEF appeared
  <2> QED BY <2>1, <2>2, <2>6
<1>5. ManglerSignatures(p) \subseteq ManglerSignatures(q)
  <2> DEFINE ids(r, f) == MangledIds(r.new, f) \ MangledIds(r.old, f)
  <2>1. \A f : ids(p, f) \subseteq ids(q, f)
    BY <1>0, AnewFacts DEF MangledIds
  <2>2. \A f : IsFiniteSet(ids(q, f))
    <3> TAKE f
    <3>1. ids(q, f) \subseteq Values(q.new, "mangled")
      BY DEF MangledIds, Values
    <3> HIDE DEF ids
    <3>2. IsFiniteSet(Values(q.new, "mangled"))
      BY <1>0, FactsFinite DEF Anew, IsSnapshot
    <3> QED BY <3>1, <3>2, FS_Subset
  <2>3. \A f : Cardinality(ids(p, f)) >= 3 => Cardinality(ids(q, f)) >= 3
    <3> TAKE f
    <3> HIDE DEF ids
    <3>1. IsFiniteSet(ids(p, f)) /\ Cardinality(ids(p, f)) <= Cardinality(ids(q, f))
      BY <2>1, <2>2, FS_Subset
    <3>2. Cardinality(ids(q, f)) \in Nat /\ Cardinality(ids(p, f)) \in Nat
      BY <2>2, <3>1, FS_CardinalityType
    <3> QED BY <3>1, <3>2
  <2>4. {f \in ScriptFiles : Cardinality(ids(p, f)) >= 3} \subseteq {f \in ScriptFiles : Cardinality(ids(q, f)) >= 3}
    BY <2>3
  <2> QED BY <2>4, FoundGrows DEF ManglerSignatures
<1>6. Homoglyphs(p) \subseteq Homoglyphs(q)
  <2>1. (Places(p.new, "homoglyph") \ Places(p.old, "homoglyph")) \cap ScriptFiles
          \subseteq (Places(q.new, "homoglyph") \ Places(q.old, "homoglyph")) \cap ScriptFiles
    BY AnewFacts
  <2> QED BY <2>1, FoundGrows DEF Homoglyphs
<1> QED BY <1>1, <1>2, <1>3, <1>4, <1>5, <1>6

\* A changed script becomes an added one.
AsAdded(f) ==
  IF f.detector = "install.script-changed"
  THEN Finding("install.script-added", f.category, f.severity, f.of, f.code)
  ELSE f

LEMMA AnewLifecycle ==
  ASSUME NEW p, NEW q, Anew(q, p), NEW f \in LifecycleScripts(p)
  PROVE  AsAdded(f) \in LifecycleScripts(q)
PROOF
<1> DEFINE hooks(r) == {y \in FreshFacts(r, "script") :
                          y.at \in InstallTier \cup PublishTier \cup QuietTier}
           name(r, y) == IF y.at \in Places(r.old, "script") THEN "install.script-changed"
                         ELSE "install.script-added"
           it(d, y) == Finding(d, "INSTALL", TierOf(y.at), <<y.at>>, Blank)
<1>1. \A r : LifecycleScripts(r) = {it(name(r, y), y) : y \in hooks(r)}
  BY Zenon DEF LifecycleScripts
<1>2. hooks(p) \subseteq hooks(q)
  BY AnewFacts
<1>3. \A y : name(q, y) = "install.script-added"
  BY AnewFacts
<1>4. \A d, y : it(d, y).detector = d
                /\ Finding("install.script-added", it(d, y).category, it(d, y).severity, it(d, y).of,
                           it(d, y).code) = it("install.script-added", y)
  BY DEF Finding
<1>5. \A y : name(p, y) \in {"install.script-changed", "install.script-added"}
  OBVIOUS
<1> HIDE DEF hooks, name, it
<1>6. PICK y \in hooks(p) : f = it(name(p, y), y)
  BY <1>1
<1>7. AsAdded(f) = it("install.script-added", y)
  BY <1>4, <1>5, <1>6 DEF AsAdded
<1> QED BY <1>1, <1>2, <1>3, <1>7

\* Scripts of one hook are all changed or all added.
LEMMA HookDecides ==
  ASSUME NEW p, NEW f \in LifecycleScripts(p), NEW g \in LifecycleScripts(p), f.of = g.of
  PROVE  f.detector = g.detector
PROOF
<1> DEFINE hooks == {y \in FreshFacts(p, "script") :
                       y.at \in InstallTier \cup PublishTier \cup QuietTier}
           name(h) == IF h \in Places(p.old, "script") THEN "install.script-changed"
                      ELSE "install.script-added"
           it(y) == Finding(name(y.at), "INSTALL", TierOf(y.at), <<y.at>>, Blank)
<1>1. LifecycleScripts(p) = {it(y) : y \in hooks}
  BY Zenon DEF LifecycleScripts
<1>2. \A y : it(y).detector = name(y.at) /\ it(y).of = <<y.at>>
  BY DEF Finding
<1> HIDE DEF hooks, it
<1>3. PICK y \in hooks : f = it(y)
  BY <1>1
<1>4. PICK z \in hooks : g = it(z)
  BY <1>1
<1>5. y.at = z.at
  <2>1. <<y.at>> = <<z.at>>
    BY <1>2, <1>3, <1>4
  <2> QED BY <2>1
<1> QED BY <1>2, <1>3, <1>4, <1>5

LEMMA AnewScripts ==
  ASSUME NEW p, NEW q, Anew(q, p)
  PROVE  /\ SelfPublishShape(p) = {} \/ At(SelfPublishShape(q), "BLOCK") # {}
         /\ BundledDeps(p) \subseteq BundledDeps(q)
PROOF
<1>0. q.new = p.new /\ q.dir = "added"
  BY DEF Anew
<1>1. SelfPublishShape(p) = {} \/ At(SelfPublishShape(q), "BLOCK") # {}
  <2>1. CASE ~SelfPublishes(p.new)
    BY <2>1 DEF SelfPublishShape, If
  <2>2. CASE SelfPublishes(p.new)
    <3>1. HooksOf(q.old) = {}
      BY AnewFacts DEF HooksOf
    <3>2. SelfPublishShape(q) = Found("install.self-publish-shape", "INSTALL", "BLOCK", {"shape"})
      <4>1. ~SameShape(q)
        BY <1>0 DEF SameShape
      <4> QED BY <1>0, <2>2, <3>1, <4>1 DEF SelfPublishShape, If
    <3> DEFINE it == Finding("install.self-publish-shape", "INSTALL", "BLOCK", <<"shape">>, Blank)
    <3>3. it \in SelfPublishShape(q)
      BY <3>2 DEF Found
    <3>4. it.severity = "BLOCK"
      BY DEF Finding
    <3> HIDE DEF it
    <3> QED BY <3>3, <3>4 DEF At
  <2> QED BY <2>1, <2>2
<1>2. BundledDeps(p) \subseteq BundledDeps(q)
  <2> DEFINE first == Found("deps.bundled-dependency-added", "DEPS", "WARN", {"bundled"})
             second(r) == FoundAt("install.bundled-lifecycle", "INSTALL", "BLOCK",
                                  {y \in Facts(r.new, "bundled-hook") : y.v \in BundledHooks})
  <2>1. /\ BundledDeps(q) = If(Fresh(q, "bundled") # {}, first) \cup second(q)
        /\ BundledDeps(p) = If(Fresh(p, "bundled") # {}, first) \cup second(p)
    BY DEF BundledDeps
  <2>2. Fresh(p, "bundled") \subseteq Fresh(q, "bundled")
    BY AnewFacts
  <2>3. second(q) = second(p)
    BY <1>0
  <2> HIDE DEF first, second
  <2> QED BY <2>1, <2>2, <2>3 DEF If
<1> QED BY <1>1, <1>2

LEMMA AnewManifest ==
  ASSUME NEW p, NEW q, Anew(q, p)
  PROVE  /\ MaintainerChange(p) = {} /\ NewDirectDeps(p) = {}
         /\ DisposableDomain(p) = {} \/ At(DisposableDomain(q), "BLOCK") # {}
         /\ UrlDeps(p) \subseteq UrlDeps(q)
         /\ TyposquatCandidate(p) = {} /\ HyphenPermutation(p) = {} /\ FirstVersionCluster(p) = {}
PROOF
<1>0. q.new = p.new /\ q.dir = "added" /\ p.dir = "changed"
  BY DEF Anew
<1>1. MaintainerChange(p) = {} /\ NewDirectDeps(p) = {}
  <2>1. MaintainerChange(p) \subseteq Detectors(p) /\ NewDirectDeps(p) \subseteq Detectors(p)
    BY DEF Detectors
  <2>2. IsFiniteSet(p.new)
    BY DEF Anew, IsSnapshot
  <2>3. \A f \in MaintainerChange(p) : f.detector \in Comparisons
    BY <2>2, ManifestReports DEF Reports, ReportedBy, Comparisons
  <2>4. \A f \in NewDirectDeps(p) : f.detector \in Comparisons
    BY <2>2, ManifestReports DEF Reports, ReportedBy, Comparisons
  <2> QED BY <2>1, <2>3, <2>4 DEF Anew
<1>2. DisposableDomain(p) = {} \/ At(DisposableDomain(q), "BLOCK") # {}
  <2> DEFINE now == Values(p.new, "email") \cup Values(p.new, "author")
             known == Values(p.old, "email") \cup Values(p.old, "author")
  <2>1. CASE (now \ known) \cap Disposable = {}
    BY <2>1 DEF DisposableDomain, If
  <2>2. CASE (now \ known) \cap Disposable # {}
    <3>1. Values(q.old, "email") \cup Values(q.old, "author") = {}
      BY AnewFacts
    <3>2. Values(q.new, "email") \cup Values(q.new, "author") = now
      BY <1>0
    <3>3. DisposableDomain(q) = Found("meta.disposable-author-domain", "META", "BLOCK", {"emails"})
      BY <1>0, <2>2, <3>1, <3>2 DEF DisposableDomain, If
    <3> DEFINE it == Finding("meta.disposable-author-domain", "META", "BLOCK", <<"emails">>, Blank)
    <3>4. it \in DisposableDomain(q)
      BY <3>3 DEF Found
    <3>5. it.severity = "BLOCK"
      BY DEF Finding
    <3> HIDE DEF it
    <3> QED BY <3>4, <3>5 DEF At
  <2> QED BY <2>1, <2>2
<1>3. UrlDeps(p) \subseteq UrlDeps(q)
  <2> DEFINE names(r) == {d \in Places(r.new, "dep") : /\ DepSpec(r.new, d) # DepSpec(r.old, d)
                                                       /\ DepSpec(r.new, d) \in PlainHttp \cup ForeignHttps}
             found(r, ns) == {Finding("manifest-deps.http-resolved-url", "DEPS",
                                      UrlSeverity(DepSpec(r.new, n)), <<n>>, Blank) : n \in ns}
  <2>1. UrlDeps(q) = found(q, names(q)) /\ UrlDeps(p) = found(p, names(p))
    BY DEF UrlDeps
  <2>2. \A n : DepSpec(q.old, n) = Blank
    BY AnewFacts DEF DepSpec
  <2>3. Blank \notin PlainHttp \cup ForeignHttps
    BY UrlAssumption
  <2>4. names(p) \subseteq names(q)
    BY <1>0, <2>2, <2>3
  <2>5. \A ns, more : ns \subseteq more => found(p, ns) \subseteq found(p, more)
    OBVIOUS
  <2>6. \A ns : found(q, ns) = found(p, ns)
    BY <1>0
  <2> HIDE DEF names, found
  <2> QED BY <2>1, <2>4, <2>5, <2>6
<1>4. TyposquatCandidate(p) = {} /\ HyphenPermutation(p) = {} /\ FirstVersionCluster(p) = {}
  BY <1>0 DEF TyposquatCandidate, HyphenPermutation, FirstVersionCluster, If
<1> QED BY <1>1, <1>2, <1>3, <1>4

\* What is found upgrading is found installing, a changed script as an added one.
LEMMA AnewDetected ==
  ASSUME NEW p, NEW q, Anew(q, p), At(Detectors(q), "BLOCK") = {}, NEW f \in Detectors(p)
  PROVE  AsAdded(f) \in Detectors(q)
PROOF
<1>1. IsFiniteSet(p.new)
  BY DEF Anew, IsSnapshot
<1>2. CASE f \in LifecycleScripts(p)
  BY <1>2, AnewLifecycle DEF Detectors
<1>3. CASE f \notin LifecycleScripts(p)
  <2>1. AsAdded(f) = f
    BY <1>1, <1>3, WhoReports DEF AsAdded
  <2>2. SelfPublishShape(q) \subseteq Detectors(q) /\ DisposableDomain(q) \subseteq Detectors(q)
    BY DEF Detectors
  <2>3. At(SelfPublishShape(q), "BLOCK") = {} /\ At(DisposableDomain(q), "BLOCK") = {}
    BY <2>2 DEF At
  <2>4. f \in Detectors(q)
    BY <1>3, <2>3, AnewNetwork, AnewCode, AnewFiles, AnewScripts, AnewManifest DEF Detectors
  <2> QED BY <2>1, <2>4
<1> QED BY <1>2, <1>3

LEMMA AnewCovers ==
  ASSUME NEW p, NEW q, Anew(q, p), At(Detectors(q), "BLOCK") = {}
  PROVE  Covers(WithFallback(q, Detectors(q)), Detectors(p), [f \in Detectors(p) |-> AsAdded(f)])
PROOF
<1> DEFINE X == Detectors(p)
           Y == WithFallback(q, Detectors(q))
           m == [f \in X |-> AsAdded(f)]
<1>1. IsFiniteSet(p.new)
  BY DEF Anew, IsSnapshot
<1>2. Detectors(q) \subseteq Y
  BY DEF WithFallback
<1>3. m \in [X -> Y]
  <2>1. \A f \in X : AsAdded(f) \in Y
    BY <1>2, AnewDetected
  <2> HIDE DEF X, Y
  <2> QED BY <2>1
<1>4. IsFindings(X)
  BY <1>1, DetectorsReport
<1>5. ASSUME NEW f \in X
      PROVE  /\ AsAdded(f).category = f.category /\ AsAdded(f).severity = f.severity
             /\ AsAdded(f).code = f.code /\ AsAdded(f).of = f.of
             /\ f.detector # "install.script-changed" => AsAdded(f) = f
             /\ f.detector = "install.script-changed" => AsAdded(f).detector = "install.script-added"
  BY DEF AsAdded, Finding
<1>6. ASSUME NEW f \in X, NEW g \in X, AsAdded(f) = AsAdded(g), f.detector = g.detector
      PROVE  f = g
  <2>1. f.category = g.category /\ f.severity = g.severity /\ f.of = g.of /\ f.code = g.code
    BY <1>5, <1>6
  <2>2. f = Finding(f.detector, f.category, f.severity, f.of, f.code)
        /\ g = Finding(g.detector, g.category, g.severity, g.of, g.code)
    BY <1>4 DEF IsFindings, IsFinding
  <2> QED BY <1>6, <2>1, <2>2
<1>7. ASSUME NEW f \in X, NEW g \in X, AsAdded(f) = AsAdded(g), f.detector = "install.script-changed"
      PROVE  f.detector = g.detector
  <2>1. g.detector \in {"install.script-changed", "install.script-added"}
    BY <1>5, <1>7
  <2>2. f \in LifecycleScripts(p) /\ g \in LifecycleScripts(p)
    BY <1>1, <1>7, <2>1, WhoReports
  <2>3. f.of = g.of
    BY <1>5, <1>7
  <2> QED BY <2>2, <2>3, HookDecides
<1>8. \A f, g \in X : AsAdded(f) = AsAdded(g) => f = g
  <2> SUFFICES ASSUME NEW f \in X, NEW g \in X, AsAdded(f) = AsAdded(g) PROVE f = g
    OBVIOUS
  <2>1. CASE f.detector = "install.script-changed" \/ g.detector = "install.script-changed"
    BY <1>6, <1>7, <2>1
  <2>2. CASE f.detector # "install.script-changed" /\ g.detector # "install.script-changed"
    BY <1>5, <2>2
  <2> QED BY <2>1, <2>2
<1>9. \A f \in X : m[f] = AsAdded(f)
  OBVIOUS
<1> HIDE DEF X, Y, m
<1>10. \A f, g \in X : m[f] = m[g] => f = g
  BY <1>8, <1>9
<1>11. \A f \in X : /\ m[f].category = f.category /\ m[f].severity = f.severity
                    /\ m[f].code = f.code
                    /\ f.detector = "deps.typosquat-candidate" => m[f].detector = f.detector
  BY <1>5, <1>9
<1>12. Covers(Y, X, m)
  BY <1>3, <1>10, <1>11 DEF Covers
<1> QED BY <1>12 DEF X, Y, m

LEMMA AnewIsNoMilder ==
  ASSUME NEW p, NEW q, Anew(q, p)
  PROVE  Gravity(RunAll(p)) <= Gravity(RunAll(q))
PROOF
<1> DEFINE X == Detectors(p)
           Y == WithFallback(q, Detectors(q))
           m == [f \in X |-> AsAdded(f)]
<1>1. IsFiniteSet(p.new) /\ IsFiniteSet(q.new)
  BY DEF Anew, IsSnapshot
<1>2. IsFindings(X) /\ IsFindings(Y) /\ IsFiniteSet(Y)
  BY <1>1, DetectorsReport, FallbackReports
<1>3. RunAll(p) = Escalate(p, X) /\ RunAll(q) = Escalate(q, Y)
  <2>1. WithFallback(p, Detectors(p)) = Detectors(p)
    BY DEF WithFallback, If, Anew
  <2> QED BY <2>1 DEF RunAll
<1>4. NewNetworkArg(p) => NewNetworkArg(q)
  BY AnewFacts DEF NewNetworkArg
<1>5. CASE At(Detectors(q), "BLOCK") = {}
  <2>1. Covers(Y, X, m)
    BY <1>5, AnewCovers
  <2> HIDE DEF X, Y, m
  <2> QED BY <1>2, <1>3, <1>4, <2>1, CoveredIsNoGraver
<1>6. CASE At(Detectors(q), "BLOCK") # {}
  <2>1. At(Y, "BLOCK") # {}
    BY <1>6 DEF WithFallback, At
  <2> HIDE DEF X, Y
  <2> QED BY <1>2, <1>3, <2>1, BlockedIsNoMilder
<1> QED BY <1>5, <1>6

(***************************************************************************)
(* Whatever the contents: where no detector compares versions, upgrading   *)
(* to them is judged no more gravely than installing them, although the    *)
(* detectors branch on the two.                                            *)
(***************************************************************************)
THEOREM InstallingIsNoMilder == Spec => []FirstInstallNoMilder
PROOF
<1>1. Inv => FirstInstallNoMilder
  <2> SUFFICES ASSUME Inv, stage = "done", pair.dir = "changed",
                      \A f \in Detectors(pair) : f.detector \notin Comparisons
               PROVE  Gravity(all) <= Gravity(RunAll([pair EXCEPT !.old = {}, !.dir = "added"]))
    BY DEF FirstInstallNoMilder, Done
  <2> DEFINE q == [pair EXCEPT !.old = {}, !.dir = "added"]
  <2>1. Anew(q, pair)
    <3>1. q.old = {} /\ q.dir = "added" /\ q.new = pair.new
      BY DEF Inv, PairInv
    <3> HIDE DEF q
    <3> QED BY <3>1 DEF Inv, PairInv, Anew
  <2>2. all = RunAll(pair)
    BY DEF Inv, StageInv
  <2> HIDE DEF q
  <2>3. Gravity(all) <= Gravity(RunAll(q))
    BY <2>1, <2>2, AnewIsNoMilder
  <2> QED BY <2>3 DEF q
<1> QED BY <1>1, InvHolds, PTL
=============================================================================
