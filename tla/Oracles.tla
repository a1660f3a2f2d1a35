------------------------------ MODULE Oracles ------------------------------
(***************************************************************************)
(* The oracles of the assurance harness (assurance/src/oracles): which     *)
(* outcomes of a bounded run they let pass.  An outcome has a kind and     *)
(* findings, none where it is no verdict.                                  *)
(***************************************************************************)

Outcome(kind, findings) == [kind |-> kind, findings |-> findings]
IsVerdict(o) == o.kind \in {"ok", "fail-safe"}

\* What a caller may ask of a run: nothing, any finding, or one of a class.
NothingAsked == "undefined"
AnyFinding == "*"

FindingsWithClass(o, class) == {f \in o.findings : f.capabilityClass = class}

\* A crash never passes, a run that hit a bound or gave up always, unless a
\* class was asked for; a verdict has to hold what was asked for.
OracleFailSafe(o, mustFindClass) ==
    /\ o.kind # "crash"
    /\ o.kind \in {"timeout", "oom"}
       \/ mustFindClass = NothingAsked
       \/ (mustFindClass = AnyFinding /\ (o.kind = "fail-safe" \/ o.findings # {}))
       \/ (mustFindClass # AnyFinding /\ FindingsWithClass(o, mustFindClass) # {})

\* Two spellings of a class satisfy each other.
CLASS_ALIASES == {{"env/secret-read", "secret-read"}, {"env/secret-read", "fs-read"},
                  {"obfuscation/decode", "obfuscation-decode"}}
FindingsOfClass(o, class) ==
    {f \in o.findings : f.capabilityClass = class \/ {f.capabilityClass, class} \in CLASS_ALIASES}

\* A class found before a change is found after it.
OracleFindingSurvives(before, after, class) ==
    /\ IsVerdict(before) /\ FindingsOfClass(before, class) # {}
    /\ IsVerdict(after) /\ FindingsOfClass(after, class) # {}

\* Two runs over the same thing come to the same verdict.
OracleIdentityInvariant(a, b) ==
    IsVerdict(a) /\ IsVerdict(b) /\ a.kind = b.kind /\ a.findings = b.findings

OracleNoCrash(o) == o.kind # "crash"
OracleNoHang(o) == o.kind # "timeout"
OracleNoOom(o) == o.kind # "oom"
=============================================================================
