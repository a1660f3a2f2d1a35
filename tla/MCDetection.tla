---------------------------- MODULE MCDetection ----------------------------
(* Small packages for Detection: themes of related facts, every pair of    *)
(* versions of each, and mixtures for the escalations.                     *)
EXTENDS Detection, FiniteSetsExt, TLC

MCScripts == {"a.js", "dist/b.js"}
MCRank == "./package.json" :> 1 @@ "package.json" :> 2
MCEntropy == [flat |-> 40, mid |-> 48, high |-> 70]

At1(k, v) == Fact(k, "a.js", v, "")

Network == {At1("net", "https"), At1("net", "dns"), Fact("net", "dist/b.js", "dns", ""),
            At1("dns-call", ""), At1("encoded", "e"),
            Fact("code", "dist/b.js", "char-arithmetic-decoder", "1")}
Urls == {Fact("url", "a.js", "u", c) : c \in {"", "network-arg", "config-value", "comment"}}
          \cup {Fact("url", "dist/b.js", "u", c) : c \in {"", "literal"}}
          \cup {At1("exec", "child_process")}
Files == {Fact("file", "dist/b.js", h, "") : h \in {"mid", "high"}}
           \cup {Fact(k, "dist/b.js", "", "") : k \in {"minified", "suspicious", "homoglyph"}}
           \cup {Fact("entry", "", "dist/b.js", "")}
Scripts == {Fact("script", h, b, "") : h \in {"preinstall", "prepare"}, b \in {"x", "y"}}
             \cup {Fact("script", "prepublish", "x", "")}
Shapes == {Fact("script", h, "x", "") : h \in {"preinstall", "prepare"}}
            \cup {At1("exec", "child_process"), At1("write", "package.json"),
                  At1("write", "./package.json"), Fact("write", "dist/b.js", "package.json", "")}
Publishers == {Fact("email", "", e, "") : e \in {"t1", "t2", "o", "d"}} \cup {Fact("author", "", "d", "")}
Dependencies == {Fact("dep", "n", s, "normal") : s \in {"range", "http:a", "http:b"}}
                  \cup {Fact("dep", "n", "https:a", "optional"), Fact("dep", "n", "range", "peer"),
                        Fact("bundled", "", "z", ""), Fact("bundled-hook", "z", "install", "")}
Mangling == {At1("mangled", i) : i \in {"i", "j", "k", "l"}}
              \cup {At1("homoglyph", ""), At1("write", "~/.npmrc")}
Binaries == {Fact("native", "m.wasm", h, "") : h \in {"h1", "h2"}}
              \cup {Fact("wasm-import", "m.wasm", i, "") : i \in {"env.exec", "env.now"}}
              \cup {Fact("wasm-error", "m.wasm", "", ""), At1("read", "~/.ssh")}
\* Two sites on line 1.
MCLine == [s \in {"1", "1b", "2", "3"} |-> IF s = "1b" THEN "1" ELSE s]
Code == {Fact("code", "a.js", "eval", s) : s \in {"1", "1b", "2"}}
          \cup {Fact("code", "a.js", "import", s) : s \in {"1", "2"}}
          \cup {Fact("code", "a.js", "new-function", "3"), Fact("code", "a.js", "vm", "1")}

Mixed == {At1("net", "https"), Fact("url", "a.js", "u", "network-arg"), Fact("url", "a.js", "w", "literal"),
          At1("exec", "child_process"), At1("env", "TOKEN"), At1("env", "KEY"), At1("env", "SECRET"),
          At1("env", "*"), At1("fs-module", "fs"), Fact("code", "a.js", "import", "1"),
          Fact("code", "a.js", "eval", "2"), Fact("minified", "a.js", "", ""),
          Fact("minified", "dist/b.js", "", ""), At1("homoglyph", ""),
          Fact("script", "prepublish", "x", ""), Fact("bundled", "", "z", "")}

\* What a snapshot holds once of: a hash per file, a body per script, a
\* context per URL and file, a spec per dependency and bucket.
Slot(x) == CASE x.k \in {"file", "script"} -> <<x.k, x.at>>
             [] x.k = "url" -> <<x.k, x.at, x.v>>
             [] x.k = "dep" -> <<x.k, x.at, x.c>>
             [] OTHER -> <<x.k, x.at, x.v, x.c>>
Possible(s) == \A x, y \in s : Slot(x) = Slot(y) => x = y

\* With the file fact of every file something was found in.
Extracted(s) ==
  s \cup {Fact("file", f, "flat", "") :
            f \in ({x.at : x \in s} \cap MCScripts) \ Places(s, "file")}

Snapshots(pool) == {Extracted(s) : s \in {t \in SUBSET pool : Possible(t)}}
UpTo(n, pool) == {Extracted(s) : s \in UNION {kSubset(i, pool) : i \in 0..n}}

Order(first) == [f \in MCScripts |-> IF f = first THEN 1 ELSE 2]

World(olds, news, dirs) ==
  [olds |-> olds, news |-> news, orders |-> {Order("a.js")}, dirs |-> dirs, squats |-> {FALSE}, hyphens |-> {"none"},
   trusts |-> {{}}]

Themes == {Network, Urls, Files, Mangling, Scripts, Dependencies, Binaries, Code}
MCWorlds ==
  {World(Snapshots(t), Snapshots(t), {"added", "changed", "removed"}) : t \in Themes}
  \cup {[World(Snapshots(Shapes), Snapshots(Shapes), {"added", "changed"})
           EXCEPT !.orders = {Order(f) : f \in MCScripts}],
        [World(Snapshots(Publishers), Snapshots(Publishers), {"added", "changed"})
           EXCEPT !.trusts = {{}, {"t1", "t2"}}],
        [World({{}}, UpTo(5, Mixed), {"added"})
           EXCEPT !.squats = BOOLEAN, !.hyphens = {"none", "token", "reorder"}],
        World(UpTo(1, Mixed), UpTo(3, Mixed), {"changed"})}

MCSensitive == {"TOKEN", "KEY", "SECRET"}
=============================================================================
