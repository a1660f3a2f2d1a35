----------------------------- MODULE Execution -----------------------------
(***************************************************************************)
(* What a program does when it runs, to hold the recorded capabilities     *)
(* against: a reference semantics of the trees of Fold.  Statements run in *)
(* order, but for code in functions that are called at the end: statements *)
(* marked <<"late">> run after the others and those marked <<"later">>     *)
(* after these.  Names are assigned once.                                  *)
(*                                                                         *)
(* A value is a pair <<kind, text>>: a text, a module by its name, process *)
(* or process.env.  Sets of at most one value stand for what is not known. *)
(***************************************************************************)
EXTENDS PythonCapabilities

Text(v) == <<"text", v>>
Module(v) == <<"module", v>>
Process == <<"process", <<>>>>
Environment == <<"environment", <<>>>>

TextsOf(env) == [x \in {y \in DOMAIN env : env[y][1] = "text"} |-> env[x][2]]
TextValue(n, env) == TryFold(n, TextsOf(env))

\* The property an access names, and the loading forms of Node.
PropertyName(n, env) == IF n.t = "Mem" THEN {n.k[2].s} ELSE TextValue(n.k[2], env)
IsLoad(n) == n.t = "Call" /\ (ModuleArg(n) # {} \/ n.k[1].t = "Import")
LoadedName(n, env) ==
    UNION {TextValue(a, env) : a \in IF n.k[1].t = "Import" THEN Nth(Args(n), 1) ELSE ModuleArg(n)}

RECURSIVE ValueOf(_, _)
ValueOf(n, env) ==
    LET Of(o, names) == IF Process \in ValueOf(o, env) /\ <<"env">> \in names THEN {Environment}
                        ELSE {v \in ValueOf(o, env) : v[1] = "module"}
    IN  CASE n.t = "Id" /\ n.s \in DOMAIN env -> {env[n.s]}
          [] n.t = "Id" /\ n.s \notin DOMAIN env -> IF n.s = <<"process">> THEN {Process} ELSE {}
          [] IsMember(n) -> Of(n.k[1], PropertyName(n, env))
          [] IsLoad(n) -> {Module(v) : v \in LoadedName(n, env)}
          [] n.t = "Call" /\ IsAccess(n.k[1], <<"Reflect">>, <<"get">>) ->
                Of(Args(n)[1], TextValue(Args(n)[2], env))
          [] OTHER -> {Text(v) : v \in TextValue(n, env)}

\* The statements in the order they run.
RunOrder(program) ==
    FlattenSeq([i \in 1..3 |->
        SelectSeq(program, LAMBDA st : st.s = <<<<>>, <<"late">>, <<"later">>>>[i])])

\* What the names hold before statement i of that order.
HeldBefore(stmts, i) ==
    FoldLeft(LAMBDA env, st :
                CASE st.t = "Var" /\ st.k[1].t = "Id" ->
                        (LET v == ValueOf(st.k[2], env)
                         IN  IF v = {} THEN env ELSE env @@ (st.k[1].s :> CHOOSE x \in v : TRUE))
                  [] st.t = "Imports" ->
                        env @@ [x \in {n.s : n \in ToSet(Tail(st.k))} |-> Module(st.k[1].s)]
                  [] OTHER -> env,
             <<>>, SubSeq(stmts, 1, i - 1))

\* The modules one statement loads: the set of the one name, or of none if
\* the name is not known before the run.
RECURSIVE LoadsIn(_, _)
LoadsIn(st, env) ==
    LET nodes == {v[1] : v \in Visits(st, None)}
        code == UNION {TextValue(a, env) : a \in UNION {CodeArg(n) : n \in {x \in nodes : x.t = "Call"}}}
    IN  {LoadedName(n, env) : n \in {x \in nodes : IsLoad(x)}}
        \cup UNION {UNION {LoadsIn(inner, <<>>) : inner \in ToSet(Parsed[t])} : t \in code \cap DOMAIN Parsed}
        \cup (IF st.t = "Imports" THEN {{st.k[1].s}} ELSE {})

\* The keys one statement reads from the environment: the set of the one key,
\* or the empty set for a key not known or for all of them.
ReadsIn(st, env) ==
    LET nodes == {v[1] : v \in Visits(st, None)}
        Holds(n) == Environment \in ValueOf(n, env)
        gets == {n \in nodes : n.t = "Call" /\ IsAccess(n.k[1], <<"Reflect">>, <<"get">>)}
        whole == {n \in nodes :
                    \/ n.t \in {"Spread", "ForIn", "ForOf"} /\ Holds(Last(n.k))
                    \/ /\ n.t = "Call" /\ IsMember(n.k[1]) /\ n.k[1].k[1].t = "Id"
                       /\ n.k[1].k[1].s \in {<<"Object">>, <<"Reflect">>} /\ n \notin gets
                       /\ \E a \in ToSet(Args(n)) : Holds(a)}
        keys == IF st.t = "Var" /\ st.k[1].t = "Pattern" /\ Holds(st.k[2])
                THEN ToSet(st.k[1].k) ELSE {}
    IN  {PropertyName(n, env) : n \in {m \in nodes : IsMember(m) /\ Holds(m.k[1])}}
        \cup {TextValue(Args(n)[2], env) : n \in {g \in gets : Holds(Args(g)[1])}}
        \cup {{} : n \in whole}
        \cup {IF p.t = "Rest" THEN {} ELSE KeyNamed(p.k[1], p.t = "ComputedKey", TextsOf(env)) : p \in keys}

Loads(program) ==
    LET stmts == RunOrder(program)
    IN  UNION {LoadsIn(stmts[i], HeldBefore(stmts, i)) : i \in DOMAIN stmts}
Reads(program) ==
    LET stmts == RunOrder(program)
    IN  UNION {ReadsIn(stmts[i], HeldBefore(stmts, i)) : i \in DOMAIN stmts}

-----------------------------------------------------------------------------
(* Python: every import, wherever it stands, and what is read from the     *)
(* environment by name or as a whole.  Docstrings and comments do not run. *)
RunLines(program) == UNION {ToSet(line.parts) : line \in {l \in ToSet(program) : l.in = "code"}}
RunningNodes(program) == UNION {Seen(line) : line \in ToSet(program)}

PyLoads(program) ==
    LET imports == {p \in RunLines(program) : p.t \in {"import", "from"}}
        computed == {n \in RunningNodes(program) : Called(n, DynamicImports)}
    IN  {{p.s} : p \in imports}
        \cup UNION {{{p.s \o n.s} : n \in {x \in ToSet(p.k) : x.s # <<"*">>}} : p \in imports}
        \cup {Literal(n.k, 1) : n \in computed}

PyReads(program) ==
    LET Whole(n) == \E x \in {n} \cup ToSet(n.k) : x.t = "Name" /\ x.s = Environ
        single == {n \in RunningNodes(program) :
                    Called(n, {Append(Environ, "get"), <<"os", "getenv">>}) \/ (n.t = "Sub" /\ n.s = Environ)}
        whole == {n \in RunningNodes(program) :
                    Whole(n) \/ Called(n, {Append(Environ, f) : f \in {"items", "keys", "values"}})}
    IN  {Literal(n.k, 1) : n \in single} \cup {{} : n \in whole}
=============================================================================
