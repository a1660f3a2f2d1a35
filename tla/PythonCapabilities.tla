------------------------- MODULE PythonCapabilities -------------------------
(***************************************************************************)
(* What a Python file is recorded to be able to do, by the line patterns   *)
(* of packages/core/src/capability-pypi.ts.  The record has the fields of  *)
(* Capabilities, so the same detectors read it.                            *)
(*                                                                         *)
(* A source is a sequence of lines.  A line stands in the code, in a       *)
(* docstring or in a comment; its parts are nodes                          *)
(*   import from      s = the module, k = the Names taken from it          *)
(*   Call Sub Name    s = a dotted name; k = arguments, index              *)
(*   Method           k = <<the Call it is a method of>>                   *)
(*   For Spread       k = <<what is run through>>                          *)
(*   Str Keyword      a literal; an argument s=                            *)
(* A dotted name is a sequence of its parts.                               *)
(***************************************************************************)
EXTENDS Capabilities

CONSTANTS
    PY_NETWORK_MODULES, PY_EXEC_MODULES, PY_FS_MODULES,  \* sets of dotted names
    EnvNames        \* texts in capitals, as the name of a key is expected to be

\* maskPythonStrings: what the patterns see of a line, and all they see of it
\* where they look at the raw text.
Masked(line) == IF line.in = "code" THEN line.parts ELSE <<>>
Raw(line) == UNION {{v[1] : v \in Visits(p, None)} : p \in ToSet(line.parts)}
Seen(line) == IF line.in = "code" THEN Raw(line) ELSE {}

\* A pattern finds a dotted name at the end of a longer one, too.
Called(n, names) == n.t = "Call" /\ \E name \in names : IsSuffix(name, n.s)
Named(n, names) == n.t \in {"Call", "Name"} /\ \E name \in names : IsSuffix(name, n.s)
Literal(ns, i) == {a.s : a \in {x \in Nth(ns, i) : x.t = "Str"}}

-----------------------------------------------------------------------------
(* Modules.                                                                *)

\* trackPyModule: a listed module, or a part of one.
Tracked(mods, listed) == {m \in mods : m \in listed \/ <<Head(m)>> \in listed}

\* The import that starts a line: the first module after import, or the
\* module and the names of a from.
ModulesOf(line) ==
    LET first == {p \in Nth(Masked(line), 1) : p.t \in {"import", "from"}}
    IN  {p.s : p \in first}
        \cup UNION {{p.s \o n.s : n \in {x \in ToSet(p.k) : x.s # <<"*">>}} : p \in first}

DynamicImports == {<<"__import__">>, <<"importlib", "import_module">>, <<"importlib", "util", "import_module">>}
Launchers == {<<"subprocess", f>> : f \in {"run", "call", "Popen", "check_output", "check_call"}}
OsLaunchers == {<<"os", f>> : f \in {"system", "popen"} \cup {e \o how : e \in {"exec", "spawn"},
                                        how \in {"l", "v", "le", "ve", "lp", "vp"}}}

\* Modules that count as used because of a call.
ExecUsed(n) ==
    (IF Called(n, DynamicImports) THEN {<<"importlib">>} ELSE {})
    \cup (IF Called(n, {<<"marshal", "load">>, <<"marshal", "loads">>}) THEN {<<"marshal">>} ELSE {})
    \cup (IF Named(n, Launchers) THEN {<<"subprocess">>} ELSE {})
    \cup (IF Named(n, OsLaunchers) THEN {<<"os", "system">>} ELSE {})

-----------------------------------------------------------------------------
(* Code made at run time.                                                  *)
DynamicCodeOf(n) ==
    (IF Called(n, DynamicImports) THEN {"dynamic-require"} ELSE {})
    \cup (IF Called(n, {<<"exec">>, <<"eval">>}) THEN {"eval"} ELSE {})
    \cup (IF \/ Called(n, {<<"marshal", "load">>, <<"marshal", "loads">>})
             \/ Called(n, {<<"compile">>}) /\ <<"exec">> \in UNION {Literal(n.k, i) : i \in DOMAIN n.k}
          THEN {"new-function"} ELSE {})

\* Two shapes that are looked for in the whole text, comments included.
DecodesAndRuns(raw) ==
    /\ \E n \in raw : Called(n, {<<"base64", "b64decode">>})
    /\ \E n \in raw : Called(n, {<<"exec">>})
JoinsChars(raw) ==
    \E n \in raw : Called(n, {<<"''", "join">>}) /\ \E a \in Nth(n.k, 1) : Called(a, {<<"chr">>})

-----------------------------------------------------------------------------
(* The environment: one key by name, or all of them ({}).  A key that is   *)
(* computed is not recorded.                                               *)
Environ == <<"os", "environ">>

KeysOf(n) ==
    LET byName == \/ Called(n, {Append(Environ, "get"), <<"os", "getenv">>})
                  \/ n.t = "Sub" /\ IsSuffix(Environ, n.s)
        IsEnviron(x) == x.t = "Name" /\ x.s = Environ
        all == \/ n.t \in {"For", "Spread"} /\ IsEnviron(n.k[1])
               \/ Called(n, {<<"dict">>, <<"list">>}) /\ \E a \in Nth(n.k, 1) : IsEnviron(a)
               \/ Called(n, {Append(Environ, f) : f \in {"items", "keys", "values"}})
    IN  {{key} : key \in IF byName THEN Literal(n.k, 1) \cap EnvNames ELSE {}}
        \cup (IF all THEN {{}} ELSE {})

-----------------------------------------------------------------------------
(* Files.                                                                  *)
WriteModes == {<<"w">>, <<"a">>, <<"x">>, <<"wb">>, <<"ab">>, <<"xb">>, <<"w+">>, <<"a+">>, <<"r+">>, <<"rb+">>, <<"wb+">>}
ReadModes == {<<"r">>, <<"rb">>}

MethodOnPath(n, names) == n.t = "Method" /\ n.s \in names /\ Called(n.k[1], {<<"Path">>})
WrittenBy(n) ==
    CASE Called(n, {<<"open">>}) /\ Literal(n.k, 2) \cap WriteModes # {} -> Literal(n.k, 1)
      [] MethodOnPath(n, {<<"write_text">>, <<"write_bytes">>}) -> Literal(n.k[1].k, 1)
      [] Called(n, {<<"shutil", f>> : f \in {"copy", "copyfile", "move"}}) ->
            IF Literal(n.k, 1) # {} THEN Literal(n.k, 2) ELSE {}
      [] Called(n, {<<"os", f>> : f \in {"remove", "unlink", "rmdir"}}) -> Literal(n.k, 1)
      [] OTHER -> {}
ReadBy(n) ==
    CASE Called(n, {<<"open">>}) /\ (Len(n.k) = 1 \/ Literal(n.k, 2) \cap ReadModes # {}) -> Literal(n.k, 1)
      [] MethodOnPath(n, {<<"read_text">>, <<"read_bytes">>}) -> Literal(n.k[1].k, 1)
      [] OTHER -> {}

-----------------------------------------------------------------------------
(* The whole pass.                                                         *)

\* URLs are read off the lines that hold more than a literal.
UrlsOf(line) ==
    IF \E p \in ToSet(Masked(line)) : p.t # "Str"
    THEN UNION {UrlsIn(n.s) : n \in {x \in Raw(line) : x.t = "Str"}} ELSE {}

ExtractPythonCapabilities(program) ==
    LET lines == ToSet(program)
        nodes == UNION {Seen(l) : l \in lines}
        raw == UNION {Raw(l) : l \in lines}
        modules == UNION {ModulesOf(l) : l \in lines}
        literals == {n.s : n \in {x \in UNION {Raw(l) : l \in {y \in lines : y.in # "comment"}} : x.t = "Str"}}
    IN  [NothingFound EXCEPT
            !.networkModules = Tracked(modules, PY_NETWORK_MODULES),
            !.execModules = Tracked(modules, PY_EXEC_MODULES) \cup UNION {ExecUsed(n) : n \in nodes},
            !.fsModules = Tracked(modules, PY_FS_MODULES),
            !.urlLiterals = UNION {UrlsOf(l) : l \in lines} \cup UNION {EncodedUrls(t) : t \in literals},
            !.envAccesses = UNION {KeysOf(n) : n \in nodes},
            !.dynamicCode = UNION {DynamicCodeOf(n) : n \in nodes}
                            \cup (IF DecodesAndRuns(raw) \/ JoinsChars(raw) THEN {"char-arithmetic-decoder"} ELSE {}),
            !.fsWriteTargets = UNION {WrittenBy(n) : n \in nodes},
            !.fsReadTargets = UNION {ReadBy(n) : n \in nodes},
            !.suspiciousLiterals = {t \in literals : Length(t) >= 200 /\ Has(t, Opaque)}]

-----------------------------------------------------------------------------
(* What runs when a package is installed.                                  *)
SideEffects ==
    {<<"os", "system">>, <<"os", "popen">>, <<"urllib", "request", "urlopen">>, <<"socket", "socket">>, <<"exec">>, <<"eval">>}
    \cup Launchers
    \cup {<<lib, verb>> : lib \in {"requests", "httpx"}, verb \in {"get", "post", "put"}}

\* analyzeSetupPy: a setup.py that does something when it is read, or that
\* brings its own install command, counts as an install script.
AnalyzeSetupPy(program) ==
    LET Acts(line) == ~line.indented /\ \E n \in Seen(line) : Called(n, SideEffects)
        Overrides(line) == \E n \in Seen(line) : n.t = "Keyword" /\ n.s = <<"cmdclass">>
    IN  IF \E line \in ToSet(program) : Acts(line) \/ Overrides(line) THEN {"install"} ELSE {}

\* analyzePyproject: the entries of the sections that name commands.
ScriptSections == {"project.scripts", "tool.poetry.scripts", "project.entry-points"}
AnalyzePyproject(sections) ==
    UNION {ToSet(s.entries) : s \in {x \in ToSet(sections) : x.header \in ScriptSections}}
=============================================================================
