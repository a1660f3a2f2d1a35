---------------------------- MODULE Capabilities ----------------------------
(***************************************************************************)
(* What a JavaScript file is recorded to be able to do: the visitors of    *)
(* extractCapabilities (packages/core/src/capabilities.ts) over the trees  *)
(* and texts of Fold.  A record holds sets where the code holds lists and  *)
(* sets; lines, snippets and previews are left out.                        *)
(***************************************************************************)
EXTENDS Fold, FiniteSetsExt

CONSTANTS
    NETWORK_MODULES, EXEC_MODULES, FS_MODULES,  \* sets of module names (texts)
    NETWORK_CALL_NAMES, CONFIG_KEY_NAMES,       \* sets of identifiers (texts)
    WriteOps, ReadOps,   \* names of file operations that look like a write, a read
    Parsed,              \* text of code -> the program it parses to
    Bulk,                \* piece -> its length, where that is not the piece's own
    UrlStarts,           \* pieces that start a URL
    Hosts,               \* texts that are one on their own
    Breaks,              \* pieces no URL runs over
    PathStarts,          \* first pieces of texts that look like a file path
    SensitiveHints,      \* pieces that name a place worth protecting
    Opaque,              \* pieces of high entropy
    Dotted               \* pieces with a letter and a dot

Length(text) == FoldLeft(LAMBDA n, p : n + (IF p \in DOMAIN Bulk THEN Bulk[p] ELSE Len(p)), 0, text)

Has(text, pieces) == ToSet(text) \cap pieces # {}

\* A text that could be a path; one that could be an encoded name.
LooksLikePath(text) == /\ 2 < Length(text) /\ Length(text) < 200
                       /\ text[1] \in PathStarts
LooksEncoded(text) == 8 <= Length(text) /\ Length(text) < 200 /\ Has(text, Dotted)

\* The URLs of a text: from a scheme to the next break with something between,
\* and the hosts that no such URL covers.
UrlsIn(text) ==
    LET Unbroken(i, j) == \A l \in i..j : text[l] \notin Breaks
        Ends(i, j) == j = Len(text) \/ text[j + 1] \in Breaks
        full == {r \in (1..Len(text)) \X (1..Len(text)) :
                    /\ text[r[1]] \in UrlStarts /\ r[1] < r[2]
                    /\ Unbroken(r[1], r[2]) /\ Ends(r[1], r[2])}
        hosts == {r \in (1..Len(text)) \X (1..Len(text)) :
                    /\ SubSeq(text, r[1], r[2]) \in Hosts
                    /\ \A u \in full : r[2] < u[1] \/ u[2] < r[1]}
    IN  {SubSeq(text, r[1], r[2]) : r \in full \cup hosts}

\* tryDecodeUrl: a long text all of whose pieces an encoding knows, with a URL
\* in what it decodes to; base64 is tried before hex.
EncodedUrls(text) ==
    LET Urls(enc) == IF ToSet(text) \subseteq DOMAIN DecodedAs[enc]
                     THEN UrlsIn(Mapped(DecodedAs[enc], text)) ELSE {}
        base64 == Urls(<<"base64">>)
    IN  IF Length(text) < 24 \/ Length(text) > 4096 THEN {}
        ELSE IF base64 # {} THEN {CHOOSE u \in base64 : TRUE}
        ELSE IF Urls(<<"hex">>) # {} THEN {CHOOSE u \in Urls(<<"hex">>) : TRUE} ELSE {}

-----------------------------------------------------------------------------
(* The walk: every node of a statement with its parent.                    *)
RECURSIVE Visits(_, _)
Visits(n, parent) ==
    {<<n, parent>>} \cup UNION {Visits(c, n) : c \in ToSet(n.k)}

None == Node("None", <<>>, <<>>)
VisitsOf(program, i) == Visits(program[i], None)
Calls(n) == {v[1] : v \in {w \in Visits(n, None) : w[1].t = "Call"}}

-----------------------------------------------------------------------------
(* Modules.                                                                *)

\* The argument that names the module a call loads: require(x),
\* process.mainModule.require(x), anything._load(x), require.call(_, x) and
\* require.apply(_, [x]).
ModuleArg(call) ==
    LET f == call.k[1]
        mainModule == IsMethod(f, <<"require">>) /\ IsAccess(f.k[1], <<"process">>, <<"mainModule">>)
    IN  CASE IsId(f, <<"require">>) \/ mainModule \/ IsMethod(f, <<"_load">>) -> Nth(Args(call), 1)
          [] IsAccess(f, <<"require">>, <<"call">>) -> Nth(Args(call), 2)
          [] IsAccess(f, <<"require">>, <<"apply">>) ->
                UNION {Nth(a.k, 1) : a \in {x \in Nth(Args(call), 2) : x.t = "Arr"}}
          [] OTHER -> {}

\* The forms whose unresolved argument is reported as a dynamic load.
ReportsUnresolved(call) ==
    IsId(call.k[1], <<"require">>) \/ IsAccess(call.k[1], <<"require">>, <<"call">>)

Values(nodes, vars) == UNION {TryFold(n, vars) : n \in nodes}

\* scanNestedSource: the modules that code in a text loads under a literal
\* name.  Nothing is folded there and no alias is followed.
NestedImports(text) ==
    IF text \notin DOMAIN Parsed \/ Length(text) < 4 \/ Length(text) >= 8192 THEN {}
    ELSE LET calls == UNION {Calls(st) : st \in ToSet(Parsed[text])}
         IN  {a.s : a \in {x \in UNION {ModuleArg(c) : c \in calls} : x.t = "Str"}}

\* The text a call runs as code: eval(x), and new Function(..., x)().
CodeArg(call) ==
    IF IsId(call.k[1], <<"eval">>) THEN Nth(Args(call), 1)
    ELSE IF call.k[1].t = "New" /\ IsId(call.k[1].k[1], <<"Function">>)
         THEN Nth(Args(call.k[1]), Len(Args(call.k[1]))) ELSE {}

-----------------------------------------------------------------------------
(* Names that stand for something: mods for a module, procs for process or *)
(* process.env, paths for a file path.                                     *)
Unnamed == [mods |-> <<>>, procs |-> <<>>, paths |-> <<>>]

IsHomedir(n) == n.t = "Call" /\ IsAccess(n.k[1], <<"os">>, <<"homedir">>)
IsPathJoin(n) ==
    n.t = "Call" /\ (\/ IsAccess(n.k[1], <<"path">>, <<"join">>)
                     \/ IsAccess(n.k[1], <<"path">>, <<"resolve">>))

\* extractPathTarget: the path an expression spells, with ~ for the home
\* directory and ? for what is not known; no variable is looked up.
RECURSIVE PathTarget(_)
PathTarget(n) ==
    CASE n.t = "Str" -> {n.s}
      [] n.t = "Tmpl" -> {FlattenSeq([i \in DOMAIN n.k |-> IF n.k[i].t = "Quasi" THEN n.k[i].s ELSE <<>>])}
      [] IsPathJoin(n) ->
            {Joined([i \in DOMAIN Args(n) |->
                        IF Args(n)[i].t = "Str" THEN Args(n)[i].s
                        ELSE IF IsHomedir(Args(n)[i]) THEN <<"~">> ELSE <<"?">>], <<"/">>)}
      [] n.t = "Plus" ->
            LET Side(m) == IF PathTarget(m) = {} /\ IsHomedir(m) THEN {<<"~">>} ELSE PathTarget(m)
            IN  IF PathTarget(n.k[1]) \cup PathTarget(n.k[2]) = {} THEN {}
                ELSE {l \o r : l \in Side(n.k[1]), r \in Side(n.k[2])}
      [] OTHER -> {}

\* Reflect.get(process, 'env').
IsReflectedEnv(n, vars) ==
    /\ n.t = "Call" /\ IsAccess(n.k[1], <<"Reflect">>, <<"get">>)
    /\ \E a \in Nth(Args(n), 1) : IsId(a, <<"process">>)
    /\ <<"env">> \in Values(Nth(Args(n), 2), vars)

\* What a declarator with a plain name makes that name stand for.
ModuleOf(init, vars, known) ==
    CASE init.t = "Call" -> Values(ModuleArg(init), vars)
      [] init.t = "Id" /\ init.s \in DOMAIN known.mods -> {known.mods[init.s]}
      [] IsMember(init) /\ init.k[1].t = "Id" /\ init.k[1].s \in DOMAIN known.mods ->
            {known.mods[init.k[1].s]}
      [] OTHER -> {}

\* Variant: the name of a process alias is not handed on to the next name.
ProcessByName(init, vars, known) ==
    IF IsId(init, <<"process">>) THEN {"process"}
    ELSE IF init.t = "Mem" /\ IsAccess(init, <<"process">>, <<"env">>) THEN {"process.env"} ELSE {}

ProcessOf(init, vars, known) ==
    LET Stands(n) == n.t = "Id" /\ n.s \in DOMAIN known.procs
        env == \/ init.t = "Mem" /\ IsAccess(init, <<"process">>, <<"env">>)
               \/ /\ init.t = "Index" /\ IsId(init.k[1], <<"process">>)
                  /\ <<"env">> \in TryFold(init.k[2], vars)
               \/ IsReflectedEnv(init, vars)
               \/ /\ IsMethod(init, <<"env">>) /\ Stands(init.k[1])
                  /\ known.procs[init.k[1].s] = "process"
    IN  IF env THEN {"process.env"}
        ELSE IF IsId(init, <<"process">>) THEN {"process"}
        ELSE IF Stands(init) THEN {known.procs[init.s]} ELSE {}

\* f with x bound to the value in vs, if there is one.
Bind(f, x, vs) == IF vs = {} THEN f ELSE (x :> CHOOSE v \in vs : TRUE) @@ f

NameStatement(st, vars, known) ==
    CASE st.t = "Imports" ->
            [known EXCEPT !.mods = [x \in {n.s : n \in ToSet(Tail(st.k))} |-> st.k[1].s] @@ @]
      [] st.t = "Var" /\ st.k[1].t = "Id" ->
            LET x == st.k[1].s
                init == st.k[2]
            IN  [mods |-> Bind(known.mods, x, ModuleOf(init, vars, known)),
                 procs |-> Bind(known.procs, x, ProcessOf(init, vars, known)),
                 paths |-> Bind(known.paths, x,
                                {p \in PathTarget(init) : p # <<>> /\ Length(p) < 512})]
      [] OTHER -> known

\* The names as they stand while statement i is visited: a declarator is
\* visited before its own initialiser.
NamesAt(program, i) ==
    FoldLeft(LAMBDA known, j : NameStatement(program[j], FoldedVars(program, j), known),
             Unnamed, [j \in 1..i |-> j])

-----------------------------------------------------------------------------
(* The visitors.  Each gives what one node of statement i adds, given the  *)
(* folded variables and the names as they stand there.                     *)

\* Modules a call brings in: by name, through code in a text, or by using a
\* name that stands for one.
ImportsOf(call, vars, names) ==
    LET f == call.k[1]
        user == IF IsMember(f) THEN f.k[1] ELSE f
        dynamic == IF f.t = "Import" THEN Nth(Args(call), 1) ELSE {}
    IN  Values(ModuleArg(call) \cup dynamic, vars)
        \cup UNION {NestedImports(v) : v \in Values(CodeArg(call), vars)}
        \cup {names.mods[x] : x \in {y \in DOMAIN names.mods : IsId(user, y)}}

\* Sites whose code or module is decided at run time.
DynamicOf(n, vars) ==
    LET Unresolved(args) == args # {} /\ Values(args, vars) = {}
    IN  CASE n.t = "Call" ->
                (IF ReportsUnresolved(n) /\ Unresolved(ModuleArg(n)) THEN {"dynamic-require"} ELSE {})
                \cup (IF IsId(n.k[1], <<"eval">>) THEN {"eval"} ELSE {})
                \cup (IF n.k[1].t = "Import" /\ Unresolved(Nth(Args(n), 1)) THEN {"dynamic-import"} ELSE {})
          [] n.t = "New" /\ IsId(n.k[1], <<"Function">>) -> {"new-function"}
          [] OTHER -> {}

\* An access to the environment: the set of its one key, or AllKeys where the
\* code records null, for an unknown key or the whole of it.
AllKeys == {}
IsProcessEnv(n) == IsAccess(n, <<"process">>, <<"env">>)

\* An object the member visitor takes for process.env.
IsEnvObject(o, names) ==
    \/ IsProcessEnv(o)
    \/ o.t = "Id" /\ o.s \in DOMAIN names.procs /\ names.procs[o.s] = "process.env"
    \/ /\ IsMethod(o, <<"env">>) /\ o.k[1].t = "Id" /\ o.k[1].s \in DOMAIN names.procs
       /\ names.procs[o.k[1].s] = "process"

\* The key an accessor names: an identifier stands for itself unless computed.
KeyNamed(key, computed, vars) ==
    IF key.t = "Id" /\ ~computed THEN {key.s} ELSE TryFold(key, vars)

\* Reading one key; handing the whole environment to Object.*, a spread or a
\* loop.
EnvOfMember(n, parent, vars, names) ==
    (IF IsEnvObject(n.k[1], names) THEN {KeyNamed(n.k[2], n.t = "Index", vars)} ELSE {})
    \cup (IF /\ IsProcessEnv(n)
             /\ \/ parent.t \in {"Spread", "ForIn", "ForOf"}
                \/ parent.t = "Call" /\ IsMember(parent.k[1]) /\ IsId(parent.k[1].k[1], <<"Object">>)
          THEN {AllKeys} ELSE {})

\* Reflect.get, Reflect.ownKeys and Reflect.has.
EnvOfCall(call, vars) ==
    LET f == call.k[1]
        onEnv == \E a \in Nth(Args(call), 1) : IsProcessEnv(a)
    IN  (IF IsAccess(f, <<"Reflect">>, <<"get">>) /\ onEnv
         THEN {Values(Nth(Args(call), 2), vars)} ELSE {})
        \cup (IF IsReflectedEnv(call, vars) THEN {AllKeys} ELSE {})
        \cup (IF /\ onEnv
                 /\ \/ IsAccess(f, <<"Reflect">>, <<"ownKeys">>)
                    \/ IsAccess(f, <<"Reflect">>, <<"has">>)
              THEN {AllKeys} ELSE {})

\* const { KEY, 'KEY': x, [expr]: y, ...rest } = process.env
EnvOfPattern(st, vars, names) ==
    LET init == st.k[2]
        isEnv == \/ init.t = "Mem" /\ IsProcessEnv(init)
                 \/ /\ init.t = "Index" /\ IsId(init.k[1], <<"process">>)
                    /\ init.k[2].t = "Str" /\ init.k[2].s = <<"env">>
                 \/ /\ init.t = "Id" /\ init.s \in DOMAIN names.procs
                    /\ names.procs[init.s] = "process.env"
                 \/ IsReflectedEnv(init, vars)
    IN  IF st.t # "Var" \/ st.k[1].t # "Pattern" \/ ~isEnv THEN {}
        ELSE {IF p.t = "Rest" THEN AllKeys ELSE KeyNamed(p.k[1], p.t = "ComputedKey", vars) :
                p \in ToSet(st.k[1].k)}

EnvOf(n, parent, vars, names) ==
    CASE IsMember(n) -> EnvOfMember(n, parent, vars, names)
      [] n.t = "Call" -> EnvOfCall(n, vars)
      [] OTHER -> EnvOfPattern(n, vars, names)

\* The operation on a file, if the call is one: fs.op or alias.op with a name.
FileOp(call, names) ==
    LET f == call.k[1]
        isFs(o) == \/ o \in {<<"fs">>, <<"fsp">>, <<"fsPromises">>}
                   \/ o \in DOMAIN names.mods /\ names.mods[o] \in FS_MODULES \ {<<"graceful-fs">>}
    IN  IF IsMember(f) /\ f.k[1].t = "Id" /\ isFs(f.k[1].s) /\ f.k[2].t = "Id" THEN {f.k[2].s} ELSE {}

\* Its target: the path spelled, else the folded value, else a named path.
FileTarget(call, vars, names) ==
    LET a == Nth(Args(call), 1)
        Truthy(ts) == ts \ {<<>>}
        spelled == Truthy(UNION {PathTarget(x) : x \in a})
        folded == Truthy(Values(a, vars))
        named == {names.paths[y] : y \in {z \in DOMAIN names.paths : \E x \in a : IsId(x, z)}}
    IN  {p \in (IF spelled # {} THEN spelled ELSE IF folded # {} THEN folded ELSE named) :
            Length(p) < 512}

\* Where a literal stands: in a call with a network name, under a key with an
\* address's name, or anywhere else.
ContextOf(n, parent) ==
    LET f == parent.k[1]
        verb == IF IsMember(f) THEN f.k[2] ELSE f
    IN  IF /\ parent.t = "Call" /\ n \in ToSet(Args(parent))
           /\ verb.t = "Id" /\ verb.s \in NETWORK_CALL_NAMES THEN "network-arg"
        ELSE IF parent.t = "Prop" /\ n = parent.k[2] /\ f.t \in {"Id", "Str"}
                /\ f.s \in CONFIG_KEY_NAMES THEN "config-value"
        ELSE "literal"

LiteralUrls(n) ==
    CASE n.t = "Str" /\ Length(n.s) < 2048 -> UrlsIn(n.s)
      [] n.t = "Tmpl" -> UNION {UrlsIn(q.s) : q \in {x \in ToSet(n.k) : x.t = "Quasi"}}
      [] OTHER -> {}

\* Variant: the parts of something folded count as well.
AnyFold(visits, vars) ==
    {v \in UNION {TryFold(w[1], vars) : w \in visits} : v # <<>> /\ Length(v) <= 4096}

\* iterateFolds: what is folded and not part of something folded.
OutermostFolds(visits, vars) ==
    {v \in UNION {TryFold(w[1], vars) : w \in {x \in visits : TryFold(x[2], vars) = {}}} :
        v # <<>> /\ Length(v) <= 4096}

-----------------------------------------------------------------------------
(* The whole pass.                                                         *)

Priority == <<"comment", "literal", "config-value", "network-arg">>

\* Every URL seen in a context, with the most telling of its contexts.
RankedContexts(seen) ==
    [u \in {x[1] : x \in seen} |->
        Priority[Max({i \in DOMAIN Priority : <<u, Priority[i]>> \in seen})]]

\* One node, its parent, and what is known where it stands.
Sites(program) ==
    UNION {LET vars == FoldedVars(program, i)
               names == NamesAt(program, i)
           IN  {[n |-> v[1], parent |-> v[2], vars |-> vars, names |-> names] :
                    v \in VisitsOf(program, i)} : i \in DOMAIN program}

CapabilitiesOf(program, comments) ==
    LET sites == Sites(program)
        calls == {x \in sites : x.n.t = "Call"}
        literals == {x \in sites : x.n.t = "Str"}
        texts == {x.n.s : x \in literals}
        folded == UNION {OutermostFolds({<<y.n, y.parent>> : y \in {z \in sites : z.vars = w}}, w) :
                            w \in {x.vars : x \in sites}}
        imports == UNION {ImportsOf(x.n, x.vars, x.names) : x \in calls}
                   \cup {st.k[1].s : st \in {y \in ToSet(program) : y.t = "Imports"}}
        inContext == UNION {{<<u, ContextOf(x.n, x.parent)>> : u \in LiteralUrls(x.n)} : x \in sites}
                     \cup {<<u, "comment">> : u \in UNION {UrlsIn(c) : c \in comments}}
        pathLiterals == {v \in texts \cup folded : LooksLikePath(v)}
        decoder == /\ \E x \in calls : IsAccess(x.n.k[1], <<"String">>, <<"fromCharCode">>)
                   /\ \E x \in sites : IsMethod(x.n, <<"charCodeAt">>)
        ops == {[op |-> o, to |-> FileTarget(x.n, x.vars, x.names)] :
                    <<x, o>> \in {y \in calls \X (WriteOps \cup ReadOps) : y[2] \in FileOp(y[1].n, y[1].names)}}
        writes == {o \in ops : o.op \in WriteOps}
        reads == {o \in ops : o.op \in ReadOps}
        sensitive == {p \in pathLiterals : Has(p, SensitiveHints)}
    IN  [networkModules |-> imports \cap NETWORK_MODULES,
         execModules |-> imports \cap EXEC_MODULES,
         fsModules |-> imports \cap FS_MODULES,
         urlLiterals |-> {x[1] : x \in inContext} \cup UNION {UrlsIn(v) : v \in folded},
         urlLiteralContexts |-> RankedContexts(inContext),
         encodedUrls |-> UNION {EncodedUrls(v) : v \in texts \cup folded},
         envAccesses |-> UNION {EnvOf(x.n, x.parent, x.vars, x.names) : x \in sites},
         dynamicCode |-> UNION {DynamicOf(x.n, x.vars) : x \in sites}
                         \cup (IF decoder THEN {"char-arithmetic-decoder"} ELSE {}),
         fsWriteTargets |-> UNION {o.to : o \in writes} \cup (IF writes # {} THEN sensitive ELSE {}),
         fsReadTargets |-> UNION {o.to : o \in reads \ writes} \cup (IF reads # {} THEN sensitive ELSE {}),
         suspiciousLiterals |-> {v \in texts : Length(v) >= 200 /\ Has(v, Opaque)}
                                \cup (IF decoder THEN {v \in texts \cup pathLiterals : LooksEncoded(v)} ELSE {})]

-----------------------------------------------------------------------------
(* One file.  Its content is a record with its text and, where the form is *)
(* "code", the program and the comments it parses to.                      *)
NothingFound ==
    [networkModules |-> {}, execModules |-> {}, fsModules |-> {}, urlLiterals |-> {},
     urlLiteralContexts |-> <<>>, encodedUrls |-> {}, envAccesses |-> {}, dynamicCode |-> {},
     fsWriteTargets |-> {}, fsReadTargets |-> {}, suspiciousLiterals |-> {}]

\* extractCapabilities: a manifest gives nothing, other JSON its URLs, code its
\* capabilities, and what does not parse an error in their place.
ExtractCapabilities(isManifest, isJson, content) ==
    [parsed |-> isJson \/ content.form = "code",
     found |-> IF isManifest THEN NothingFound
               ELSE IF isJson THEN [NothingFound EXCEPT !.urlLiterals = UrlsIn(content.text)]
               ELSE IF content.form = "code" THEN CapabilitiesOf(content.program, content.comments)
               ELSE NothingFound]
=============================================================================
