----------------------------- MODULE MCAnalysis -----------------------------
(***************************************************************************)
(* Model checking of AnalysisCheck: archives with every kind of entry and  *)
(* every limit, programs that put one name together in each way the folder *)
(* knows and use it in each way the visitors know, and the metamorphic     *)
(* pairs; releases on PyPI with a wheel, an sdist or both.                 *)
(***************************************************************************)
EXTENDS AnalysisCheck, PythonCapabilities, Execution, Metamorphic

\* Pieces of names, with their encoded forms.
Plain == {"child_", "process", "node:", "net", "NPM_", "TOKEN", "require('", "')", "http://", "example", ".com", "/api"}
MCCharsOf == [c \in {<<"#" \o p>> : p \in Plain} |-> CHOOSE p \in Plain : c = <<"#" \o p>>]
Encoded(mark) == [e \in {mark \o p : p \in Plain} |-> CHOOSE p \in Plain : e = mark \o p]
MCDecodedAs == (<<"base64">> :> Encoded("b64:")) @@ (<<"hex">> :> Encoded("hex:"))
MCUnescaped == Encoded("%")

MCNetwork == {<<"http">>, <<"dns">>, <<"node:", "net">>}
MCExec == {ChildProcess, <<"vm">>}
MCFs == {<<"fs">>, <<"node:fs">>, <<"graceful-fs">>}
MCCallNames == {<<"fetch">>, <<"request">>, <<"get">>}
MCConfigKeys == {<<"url">>, <<"host">>}
MCWriteOps == {<<"writeFileSync">>, <<"unlink">>, <<"createReadStream">>}
MCReadOps == {<<"readFileSync">>, <<"createReadStream">>}
MCHosts == {<<"example", ".com">>}
MCBulk == "blob" :> 300
MCExtensions == [f \in {"package.json", "data.json"} |-> "json"] @@ [f \in {"index.js", "a.js", "b.js"} |-> "js"]
                @@ ("addon.node" :> "node") @@ ("logo.png" :> "png")
                @@ ("setup.py" :> "py") @@ ("mod.py" :> "py") @@ ("fast.pyd" :> "pyd")

Null == Other(<<>>)
CodeText(m) == <<"require('">> \o m \o <<"')">>
MCParsed == (CodeText(ChildProcess) :> <<Stmt(Require(ChildProcess))>>)
            @@ (CodeText(<<"node:", "net">>) :> <<Stmt(Require(<<"node:", "net">>))>>)

-----------------------------------------------------------------------------
(* Ways to put a text together: statements before, and an expression.      *)
Pieces(t, mark) == [i \in DOMAIN t |-> <<mark \o t[i]>>]
Strs(ts) == [i \in DOMAIN ts |-> Str(ts[i])]
Nums(ts) == [i \in DOMAIN ts |-> Num(ts[i])]
Marked(t, mark) == [i \in DOMAIN t |-> mark \o t[i]]
Arr(ns) == Node("Arr", <<>>, ns)
Buffer(args) == Call(Dot(Call(Dot(Id(<<"Buffer">>), <<"from">>), args), <<"toString">>), <<>>)
When(order, st) == [st EXCEPT !.s = order]
A == <<"a">>
B == <<"b">>

Written(t) ==
    {<<<<>>, Str(t)>>,
     <<<<>>, Plus(Str(<<t[1]>>), Str(Tail(t)))>>,
     <<<<Var(A, Str(<<t[1]>>))>>, Tmpl(<<Id(A), Quasi(Tail(t))>>)>>,
     <<<<Var(A, Str(t)), Var(B, Id(A))>>, Id(B)>>,
     <<<<>>, Call(Dot(Id(<<"String">>), <<"fromCharCode">>), Nums(Pieces(t, "#")))>>,
     <<<<>>, Buffer(<<Arr(Nums(Pieces(t, "#")))>>)>>,
     <<<<>>, Buffer(<<Str(Marked(t, "b64:")), Str(<<"base64">>)>>)>>,
     <<<<>>, Buffer(<<Str(Marked(t, "hex:")), Str(<<"hex">>)>>)>>,
     <<<<Var(A, Str(Marked(t, "b64:")))>>, Call(Id(<<"atob">>), <<Id(A)>>)>>,
     <<<<>>, Call(Id(<<"decodeURIComponent">>), <<Str(Marked(t, "%"))>>)>>,
     <<<<>>, Call(Dot(Arr(Strs(Pieces(t, ""))), <<"join">>), <<Str(<<>>)>>)>>}

\* Ways to load the module an expression names.
R == Id(<<"require">>)
Loading(e) ==
    {<<Stmt(Call(R, <<e>>))>>, <<Stmt(Call(Dot(R, <<"call">>), <<Null, e>>))>>,
     <<Stmt(Call(Dot(R, <<"apply">>), <<Null, Arr(<<e>>)>>))>>,
     <<Stmt(Call(Dot(Dot(Id(<<"process">>), <<"mainModule">>), <<"require">>), <<e>>))>>,
     <<Stmt(Call(Dot(Id(<<"Module">>), <<"_load">>), <<e>>))>>,
     <<Stmt(Call(Node("Import", <<>>, <<>>), <<e>>))>>,
     <<Var(<<"cp">>, Call(R, <<e>>)), Stmt(Call(Dot(Id(<<"cp">>), <<"exec">>), <<Null>>))>>}
Running(e) ==
    {<<Stmt(Call(Id(<<"eval">>), <<e>>))>>,
     <<Stmt(Call(Node("New", <<>>, <<Id(<<"Function">>), e>>), <<>>))>>}
Unknowable(e) ==
    {<<Stmt(Call(R, <<e>>))>>, <<Stmt(Call(Dot(R, <<"call">>), <<Null, e>>))>>,
     <<Stmt(Call(Node("Import", <<>>, <<>>), <<e>>))>>}

\* Ways to read the key an expression names, or all keys.
P == Id(<<"process">>)
Pattern(ks) == Node("Pattern", <<>>, ks)
From(pattern, e) == Node("Var", <<>>, <<pattern, e>>)
Reflected(o, k) == Call(Dot(Id(<<"Reflect">>), <<"get">>), <<o, k>>)
Reading(e) ==
    {<<Stmt(At(Env, e))>>,
     <<Var(<<"v">>, Env), Stmt(At(Id(<<"v">>), e))>>,
     <<Var(<<"p">>, P), Stmt(At(Dot(Id(<<"p">>), <<"env">>), e))>>,
     <<Var(<<"p">>, P), Var(<<"v">>, Dot(Id(<<"p">>), <<"env">>)), Var(<<"w">>, Id(<<"v">>)), Stmt(At(Id(<<"w">>), e))>>,
     <<Var(<<"v">>, At(P, Plus(Str(<<"e">>), Str(<<"nv">>)))), Stmt(At(Id(<<"v">>), e))>>,
     <<Stmt(Reflected(Env, e))>>,
     <<Var(<<"v">>, Reflected(P, Str(<<"env">>))), Stmt(At(Id(<<"v">>), e))>>,
     <<From(Pattern(<<Node("ComputedKey", <<>>, <<e, Id(<<"x">>)>>)>>), Env)>>,
     <<Var(<<"v">>, Env), From(Pattern(<<Node("ComputedKey", <<>>, <<e, Id(<<"x">>)>>)>>), Id(<<"v">>))>>}
Whole ==
    {<<Stmt(Call(Dot(Id(<<"Object">>), <<"keys">>), <<Env>>))>>,
     <<Stmt(Call(Dot(Id(<<"Reflect">>), <<"ownKeys">>), <<Env>>))>>,
     <<Stmt(Node("Obj", <<>>, <<Node("Spread", <<>>, <<Env>>)>>))>>,
     <<Node("ForIn", <<>>, <<Env>>)>>,
     <<From(Pattern(<<Node("Key", <<>>, <<Id(Token), Id(<<"x">>)>>), Node("Rest", <<>>, <<Id(<<"r">>)>>)>>), Env)>>}

\* Uses in functions that stand before the declarations they run after.
Hoisted(t) ==
    {[i \in DOMAIN use |-> When(<<"late">>, use[i])] \o <<Var(A, Str(t))>> : use \in Loading(Id(A))}
    \cup
    {
     <<When(<<"late">>, Stmt(At(Env, Id(A)))), Var(A, Str(t))>>,
     <<When(<<"later">>, Var(B, Id(<<"c">>))), When(<<"later">>, Stmt(Call(R, <<Id(B)>>))),
       When(<<"late">>, Var(<<"c">>, Id(A))), Var(A, Str(t))>>,
     <<When(<<"later">>, Stmt(Call(R, <<Id(B)>>))), When(<<"later">>, Var(B, Id(<<"c">>))),
       When(<<"late">>, Var(<<"c">>, Id(A))), Var(A, Str(t))>>}

NetModule == <<"node:", "net">>
Programs ==
    UNION {UNION {{w[1] \o use : use \in Loading(w[2])} : w \in Written(m)} : m \in {ChildProcess, NetModule}}
    \cup UNION {{w[1] \o use : use \in Running(w[2])} : w \in Written(CodeText(ChildProcess))}
    \cup UNION {{w[1] \o use : use \in Reading(w[2])} : w \in Written(Token)}
    \cup Unknowable(Null) \cup Reading(Null) \cup Whole \cup Hoisted(ChildProcess) \cup Hoisted(Token)
    \cup {<<Node("Imports", <<>>, <<Str(m), Id(<<"cp">>)>>), Stmt(Call(Id(<<"cp">>), <<>>))>> : m \in {ChildProcess, NetModule}}

-----------------------------------------------------------------------------
(* Contents and archives.                                                  *)
Content(form, bytes) ==
    [form |-> form, bytes |-> bytes, text |-> <<>>, program |-> <<>>, comments |-> {}, manifest |-> NoManifest,
     headers |-> <<>>, sections |-> <<>>]
Code(p, c) == [Content("code", 1) EXCEPT !.program = p, !.comments = c]
File(path, content) == [type |-> "File", absolute |-> FALSE, path |-> path, content |-> content]
Dir(path) == [File(path, Content("other", 0)) EXCEPT !.type = "Directory"]

Manifest == [Content("json", 1) EXCEPT !.manifest.name = "pkg", !.manifest.scripts = {"postinstall"}, !.manifest.bundled = {<<"dep">>, <<"@s", "dep">>}]
Inner == [Content("json", 1) EXCEPT !.manifest.scripts = {"install", "test"}]
Data == [Content("other", 1) EXCEPT !.text = Url]
Sample == Code(<<Stmt(Require(ChildProcess))>>, {})
Big == Content("other", 3)

Main == File(<<"package", "index.js">>, Sample)
ManifestFile == File(<<"package", "package.json">>, Manifest)
Bundle(path, content) == File(<<"package", "node_modules">> \o path, content)
Shapes ==
    {<<>>, <<ManifestFile, Main>>,
     <<Dir(<<"package">>), File(<<"package", "data.json">>, Data), File(<<"package", "addon.node">>, Data)>>,
     <<ManifestFile, Bundle(<<"dep", "package.json">>, Inner), Bundle(<<"dep", "index.js">>, Sample)>>,
     <<ManifestFile, Bundle(<<"@s", "dep", "a.js">>, Content("other", 1)), Bundle(<<"@s", "dep", "node_modules", "x", "index.js">>, Sample)>>,
     <<Bundle(<<"other", "index.js">>, Sample), File(<<"package", "logo.png">>, Data)>>,
     <<File(<<"package", "package.json">>, Content("null", 1)), Main>>,
     <<Main, File(<<"index.js">>, Data)>>, <<Main, Dir(<<"package", "index.js">>)>>,
     <<Main, File(<<"package", "index.js", "b.js">>, Sample)>>,
     <<Main, File(<<"package", "a.js">>, Big)>>,
     <<Main, File(<<"package", "a.js">>, Content("other", 2)), File(<<"package", "b.js">>, Sample)>>,
     <<Main, Dir(<<"lib">>), Dir(<<"bin">>), Main>>}
    \cup {<<Main, [File(<<"package", "a.js">>, Data) EXCEPT !.type = t]>> : t \in {"SymbolicLink", "Link", "FIFO"}}
    \cup {<<Main, [File(<<"a.js">>, Sample) EXCEPT !.absolute = TRUE]>>, <<File(<<"package", "lib", "..", "a.js">>, Sample), Main>>}

MCArchives ==
    Shapes
    \cup {<<File(<<"package", "index.js">>, Code(p, {}))>> : p \in Programs}
    \cup {<<File(<<"package", "a.js">>, Code(pair[1], {})), File(<<"package", "b.js">>, Code(pair[2], pair[3]))>> : pair \in allPairs}

-----------------------------------------------------------------------------
(* Python files.  An import stands first on its line and names one module; *)
(* a key is a literal in capitals.                                         *)
Line(parts) == [in |-> "code", indented |-> FALSE, parts |-> parts]
Indented(parts) == [Line(parts) EXCEPT !.indented = TRUE]
Docstring(parts) == [Line(parts) EXCEPT !.in = "docstring"]
Comment(parts) == [Line(parts) EXCEPT !.in = "comment"]
Imported(m) == Node("import", m, <<>>)
PyCall(name, args) == Node("Call", name, args)
Name(name) == Node("Name", name, <<>>)
Encoding(t, n) == Str([i \in 1..n |-> "b64:" \o t[((i - 1) % Len(t)) + 1]])

PyUses ==
    {Imported(<<"socket">>), Imported(<<"urllib", "request">>), Imported(<<"os", "path">>), Imported(<<"sys">>),
     Node("from", <<"os">>, <<Name(<<"system">>), Name(<<"path">>)>>), Node("from", <<"urllib">>, <<Name(<<"request">>)>>),
     Node("from", <<"subprocess">>, <<Name(<<"*">>)>>),
     PyCall(<<"__import__">>, <<Str(<<"socket">>)>>), PyCall(<<"importlib", "import_module">>, <<Null>>),
     Node("Sub", Environ, <<Str(Token)>>), PyCall(Append(Environ, "get"), <<Str(Token)>>),
     PyCall(<<"os", "getenv">>, <<Str(Token), Null>>), PyCall(<<"dict">>, <<Name(Environ)>>),
     PyCall(Append(Environ, "items"), <<>>), Node("For", <<>>, <<Name(Environ)>>), Node("Spread", <<>>, <<Name(Environ)>>)}
PyOthers ==
    {PyCall(<<"exec">>, <<PyCall(<<"base64", "b64decode">>, <<Encoding(Url, 4)>>)>>),
     PyCall(<<"marshal", "loads">>, <<Null>>), PyCall(<<"compile">>, <<Null, Null, Str(<<"exec">>)>>),
     PyCall(<<"''", "join">>, <<PyCall(<<"chr">>, <<Null>>)>>),
     PyCall(<<"open">>, <<Str(TmpFile), Str(<<"w">>)>>), PyCall(<<"open">>, <<Str(TmpFile)>>),
     Node("Method", <<"write_text">>, <<PyCall(<<"Path">>, <<Str(TmpFile)>>)>>),
     PyCall(<<"shutil", "copy">>, <<Str(TmpFile), Str(TmpFile)>>), PyCall(<<"os", "unlink">>, <<Str(TmpFile)>>),
     PyCall(<<"subprocess", "run">>, <<Str(Url)>>), Str(Url), Str(<<"blob">>)}
PyPrograms ==
    {<<Line(<<u>>)>> : u \in PyUses \cup PyOthers}
    \cup {<<Docstring(<<Imported(<<"sys">>)>>), Comment(<<Str(Url)>>), Indented(<<u>>)>> : u \in PyUses}
    \cup {<<Comment(<<u>>), Line(<<Node("Sub", Environ, <<Str(Token)>>), Imported(<<"sys">>)>>)>> : u \in PyUses}

Python(p) == [Content("python", 1) EXCEPT !.program = p]
Launch == PyCall(<<"os", "system">>, <<Str(Url)>>)
SetupPrograms == {<<Line(<<Launch>>)>>, <<Indented(<<Launch>>)>>, <<Line(<<Node("Keyword", <<"cmdclass">>, <<>>)>>)>>}
Header(key, value) == [key |-> key, value |-> value]
PkgName == <<Header("Name", "pkg"), Header("Version", "1.0")>>
Metadata(headers) == [Content("metadata", 1) EXCEPT !.headers = headers]
Pyproject == [Content("toml", 1) EXCEPT !.sections =
                <<[header |-> "project", entries |-> <<<<"name", "pkg">>>>],
                  [header |-> "project.scripts", entries |-> <<<<"cli", "pkg:main">>>>]>>]
Requires == Header("Requires-Dist", <<"dep", ">=1">>)

In(path, content) == File(<<"pkg-1.0">> \o path, content)
Module1 == In(<<"mod.py">>, Python(<<Line(<<Imported(<<"socket">>)>>)>>))
InWheel(path) == File(path, Python(<<Line(<<Imported(<<"socket">>)>>)>>))
Sdists ==
    {<<Dir(<<"pkg-1.0">>), In(<<"setup.py">>, Python(p)), In(<<"PKG-INFO">>, Metadata(PkgName))>> : p \in SetupPrograms}
    \cup {<<In(<<"pyproject.toml">>, Pyproject), Module1, In(<<"pkg.egg-info", "PKG-INFO">>, Metadata(<<Requires, Requires>>))>>,
          <<In(<<"PKG-INFO">>, Metadata(PkgName \o PkgName)), Dir(<<"pkg-1.0", "lib">>), Module1>>,
          <<Module1, In(<<"setup.py">>, Big)>>,
          <<In(<<"mod.py">>, Content("other", 2)), In(<<"fast.pyd">>, Content("other", 2))>>,
          <<In(<<"lib">>, Data), In(<<"lib", "mod.py">>, Data)>>,
          <<Module1, Dir(<<"pkg-1.0", "mod.py">>), File(<<"logo.png">>, Data)>>,
          <<Module1, Dir(<<"lib">>), Dir(<<"bin">>), Module1>>,
          <<Module1, [In(<<"logo.png">>, Data) EXCEPT !.type = "SymbolicLink"]>>,
          <<In(<<"..", "mod.py">>, Data)>>}
Wheels ==
    {<<InWheel(<<"mod.py">>), File(<<"pkg.dist-info", "METADATA">>, Metadata(PkgName)), File(<<"pkg.egg-info", "PKG-INFO">>, Metadata(<<Requires>>))>>,
     <<Dir(<<"lib">>), File(<<"lib", "fast.pyd">>, Data), File(<<"METADATA">>, Metadata(<<Requires>>))>>,
     <<InWheel(<<"mod.py">>), File(<<"mod.py">>, Data)>>, <<InWheel(<<"mod.py">>), File(<<"mod.py", "logo.png">>, Data)>>,
     <<InWheel(<<"mod.py">>), File(<<"logo.png">>, Big)>>, <<InWheel(<<"lib", "mod.py">>), File(<<"logo.png">>, Content("other", 2)), InWheel(<<"mod.py">>)>>,
     <<[InWheel(<<"mod.py">>) EXCEPT !.absolute = TRUE]>>, <<InWheel(<<"..", "mod.py">>)>>,
     <<Dir(<<"a">>), Dir(<<"b">>), Dir(<<"c">>), InWheel(<<"mod.py">>)>>}
    \cup {<<InWheel(<<"mod.py">>), [File(<<"logo.png">>, Data) EXCEPT !.type = t]>> : t \in {"SymbolicLink", "OtherMethod", "Encrypted"}}

Artifact(type, pure, es) == [packagetype |-> type, pure |-> pure, entries |-> es]
SdistOf(es) == Artifact("sdist", FALSE, es)
WheelOf(es) == Artifact("bdist_wheel", TRUE, es)
MCReleases ==
    {[local |-> FALSE, files |-> <<SdistOf(es)>>] : es \in Sdists}
    \cup {[local |-> FALSE, files |-> <<WheelOf(es)>>] : es \in Wheels}
    \cup {[local |-> TRUE, files |-> <<WheelOf(<<File(<<"mod.py">>, Python(p))>>)>>] : p \in PyPrograms}
    \cup {[local |-> FALSE, files |-> fs] : fs \in
            {<<>>, <<Artifact("bdist_egg", FALSE, <<>>)>>,
             <<SdistOf(<<Module1>>), Artifact("bdist_wheel", FALSE, <<InWheel(<<"lib", "mod.py">>)>>), WheelOf(<<InWheel(<<"mod.py">>)>>)>>}}

MCInfoFile == ("pkg.dist-info" :> "METADATA") @@ ("pkg.egg-info" :> "PKG-INFO")
MCRequested == [name |-> "pkg", version |-> "1.0"]
MCPyNetwork == {<<"socket">>, <<"urllib">>, <<"urllib", "request">>}
MCPyExec == {<<"subprocess">>, <<"importlib">>, <<"os", "system">>}
MCPyFs == {<<"os">>, <<"os", "path">>}
MCEnvNames == {Token}

-----------------------------------------------------------------------------
(* What is computed once for all contents.                                 *)
Contents ==
    {e.content : e \in UNION {ToSet(a) : a \in MCArchives}}
    \cup {e.content : e \in UNION {ToSet(f.entries) : f \in UNION {ToSet(r.files) : r \in MCReleases}}}
MCCapabilities ==
    LET Found(f, c) ==
            IF MCExtensions[f] # "py" THEN ExtractCapabilities(f = "package.json", MCExtensions[f] = "json", c)
            ELSE [parsed |-> TRUE, found |-> IF c.form = "python" THEN ExtractPythonCapabilities(c.program) ELSE NothingFound]
    IN  [x \in (DOMAIN MCExtensions) \X Contents |-> Found(x[1], x[2])]
MCEntryPoints == [c \in Contents |-> AnalyzePyproject(c.sections)]
MCScripts == [c \in {x \in Contents : x.form # "code"} |-> AnalyzeSetupPy(c.program)]
MCEffects ==
    LET Programmed(form) == {c.program : c \in {x \in Contents : x.form = form}}
    IN  [p \in Programmed("code") |-> [loads |-> Loads(p), reads |-> Reads(p)]]
        @@ [p \in Programmed("python") |-> [loads |-> PyLoads(p), reads |-> PyReads(p)]]
MCWatched == [code |-> MCNetwork \cup MCExec \cup MCFs, python |-> MCPyNetwork \cup MCPyExec \cup MCPyFs]
MCPairs == allPairs
=============================================================================
