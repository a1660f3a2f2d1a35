------------------------------ MODULE MCCliRun ------------------------------
(* A small command line for CliRun: every combination of lockfiles under    *)
(* one configuration, and every configuration over one pair of lockfiles.   *)
EXTENDS CliRun, TLC

Raised(d, c, p, s, f) ==
  [detector |-> d, category |-> c, package |-> p, severity |-> s, file |-> f,
   publishers |-> {}, newcomers |-> {}]

Endpoint(p, s, f) == Raised("net.new-endpoint", "NET", p, s, f)
Change(s, left, came) ==
  [Raised("meta.maintainer-change", "META", "p", s, "package.json")
     EXCEPT !.publishers = {left, came}, !.newcomers = {came}]

Pool ==
  {Raised("integrity.hash-mismatch", "INTEG", "p", "BLOCK", "package.json"),
   Raised("analysis.failed", "META", "q", "BLOCK", "package.json"),
   Endpoint("p", "WARN", "a"), Endpoint("p", "BLOCK", "b"), Endpoint("q", "INFO", "a"),
   Change("WARN", "old", "new"), Change("BLOCK", "new", "old")}
MCReports == {s \in SUBSET Pool : Cardinality(s) <= 2}

Entry(field, value) == [DefaultConfig EXCEPT ![field] = value]
MCConfigOf ==
  [nothing |-> DefaultConfig,
   package |-> Entry("ignorePackages", {"p", "<config>"}),
   path |-> Entry("ignorePathsInside", {<<"p", "a">>, <<"p", "package.json">>}),
   network |-> Entry("allowlist", {<<"p", "NET">>, <<"p", "INTEG">>, <<"q", "META">>}),
   quiet |-> Entry("severityOverride",
                   {<<d, "INFO">> : d \in {"net.new-endpoint", "meta.maintainer-change",
                                           "integrity.hash-mismatch", "analysis.failed",
                                           "config.in-diff-untrusted"}}),
   loud |-> [Entry("severityOverride", {<<"net.new-endpoint", "BLOCK">>})
               EXCEPT !.allowlist = {<<"p", "NET">>}],
   trust |-> Entry("trustedPublishers", {<<"p", "new">>}),
   strict |-> Entry("failOn", {"net.new-endpoint"}),
   broken |-> NoConfig]
Configs == DOMAIN MCConfigOf

Plain == Text("npm", TRUE, TRUE, TRUE, {"registry"})
MCCall(scan, b, a, cur, base) ==
  [scan |-> scan, before |-> b, after |-> a, stdin |-> FALSE, failOn |-> {},
   allowInDiff |-> FALSE, current |-> cur, baseline |-> base]

Kinds == Pypi \cup {"npm", "pnpm", "yarn-classic", "yarn-berry"}
Lockfiles ==
  {Text(k, n, s, ok, {"registry", "file"}) : k \in Kinds, n, s, ok \in BOOLEAN} \cup {Unreadable}

FlagCalls ==
  {[MCCall(FALSE, Plain, Plain, "nothing", "nothing") EXCEPT !.stdin = s, !.failOn = ids] :
     s \in BOOLEAN, ids \in {{}, {"net"}, {"integrity.hash-mismatch"}, {"net", "deps"}}}
LockfileCalls ==
  {MCCall(scan, b, a, Absent, Absent) : scan \in BOOLEAN, b \in Lockfiles, a \in Lockfiles}
ConfigCalls ==
  {[MCCall(FALSE, Plain, Plain, cur, base) EXCEPT !.failOn = ids, !.allowInDiff = allow] :
     cur \in Configs \cup {Absent, Unreadable}, base \in Configs \cup {Absent},
     ids \in {{}, {"net"}, {"meta.maintainer-change"}}, allow \in BOOLEAN}
MCCalls == FlagCalls \cup LockfileCalls \cup ConfigCalls

MCRegistry == {"net", "meta", "install"}
MCFamily ==
  [d \in {"net.new-endpoint", "net"} |-> "net"]
    @@ [d \in {"meta.maintainer-change", "meta"} |-> "meta"]
    @@ [d \in {"integrity.hash-mismatch"} |-> "integrity"]
    @@ [d \in {"analysis.failed"} |-> "analysis"]
    @@ [d \in {"config.in-diff-untrusted"} |-> "config"]
    @@ [d \in {"deps"} |-> "deps"]
=============================================================================
