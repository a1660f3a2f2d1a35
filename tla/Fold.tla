-------------------------------- MODULE Fold --------------------------------
(***************************************************************************)
(* The constant folder that capability extraction rests on                 *)
(* (packages/core/src/fold.ts): which expressions of a source file have a  *)
(* string value that is known without running it.                          *)
(*                                                                         *)
(* A text is a sequence of pieces.  A piece stands for a run of characters *)
(* that the code never takes apart; concatenation of texts is \o, so a     *)
(* name is found whole however it was put together.  A decoder maps the    *)
(* pieces one by one.                                                      *)
(*                                                                         *)
(* A syntax tree is made of nodes with a kind t, a text s (the value of a  *)
(* literal, the name of an identifier) and children k, in the order the    *)
(* traversal visits them:                                                  *)
(*   Str Num Bool Id     leaves                                            *)
(*   Tmpl Quasi          a template; its k mixes Quasi nodes and others    *)
(*   Plus                k = <<left, right>>                               *)
(*   Call New            k = <<callee, arguments ...>>                     *)
(*   Mem Index           k = <<object, property>>, obj.p and obj[p]        *)
(*   Arr Obj Prop Spread k = elements, properties, <<key, value>>, <<it>>  *)
(*   Import Other        the callee of import(...); any other expression   *)
(*   Var                 k = <<id or Pattern, init>>                       *)
(*   Pattern             its k are Key and ComputedKey, <<key, local>>, and *)
(*                       Rest                                              *)
(*   Imports ForIn ForOf Stmt   k = <<source, names ...>>, <<right>>, <<e>>*)
(* A program is a sequence of statements in the order of the traversal.    *)
(* Each statement declares one variable at most.                           *)
(***************************************************************************)
EXTENDS Integers, Sequences, FiniteSets, TLC, SequencesExt

CONSTANTS
    MAX_PASSES,  \* folding passes over one file
    CharsOf,     \* text of a number -> the piece its character code stands for
    DecodedAs,   \* encoding -> function from an encoded piece to a plain one
    Unescaped    \* percent-encoded piece -> plain piece

Node(t, s, k) == [t |-> t, s |-> s, k |-> k]

IsId(n, name) == n.t = "Id" /\ n.s = name
IsMember(n) == n.t \in {"Mem", "Index"}
\* The callee shape obj.prop with both names given.  obj[prop] has it too: the
\* code does not look at whether the property is computed.
IsAccess(n, obj, prop) == IsMember(n) /\ IsId(n.k[1], obj) /\ IsId(n.k[2], prop)
IsMethod(n, prop) == IsMember(n) /\ IsId(n.k[2], prop)

\* The i-th element of a sequence, as a set of one element or none.
Nth(s, i) == IF i \in DOMAIN s THEN {s[i]} ELSE {}
Args(call) == Tail(call.k)

\* Every piece of a text through a table; a piece the table lacks is kept.
Mapped(table, text) ==
    [i \in DOMAIN text |-> IF text[i] \in DOMAIN table THEN table[text[i]] ELSE text[i]]

\* The texts of a sequence with a separator between neighbours.
Joined(ts, sep) ==
    FlattenSeq([i \in DOMAIN ts |-> IF i < Len(ts) THEN ts[i] \o sep ELSE ts[i]])

\* The parts of a template: its fixed texts count as literals there, and there
\* only.
QuasisAsText(parts) ==
    [i \in DOMAIN parts |-> IF parts[i].t = "Quasi" THEN Node("Str", parts[i].s, <<>>) ELSE parts[i]]

-----------------------------------------------------------------------------
(* A value is a set: of the one text an expression is known to have, or    *)
(* empty where the code returns null.                                      *)
RECURSIVE TryFold(_, _)

\* All the expressions of a sequence, in order; nothing if one is unknown.
FoldAll(ns, vars) ==
    FoldLeft(LAMBDA known, n : {Append(ts, v) : ts \in known, v \in TryFold(n, vars)},
             {<<>>}, ns)

\* Character codes, given as numbers or as anything that folds to a number.
FoldCodes(ns, vars) ==
    {[i \in DOMAIN ts |-> CharsOf[ts[i]]] :
        ts \in {us \in FoldAll(ns, vars) : \A i \in DOMAIN us : us[i] \in DOMAIN CharsOf}}

IsBufferFrom(n) == n.t = "Call" /\ IsAccess(n.k[1], <<"Buffer">>, <<"from">>)

\* Buffer.from(data, encoding).toString(): an array of codes, or a text under
\* an encoding that is spelled as a literal and is utf8 otherwise.
FoldBuffer(inner, vars) ==
    LET data == Nth(Args(inner), 1)
        arrays == {d \in data : d.t = "Arr"}
        encodings == {e.s : e \in {x \in Nth(Args(inner), 2) : x.t = "Str"}}
        table == IF \E e \in encodings : e \in DOMAIN DecodedAs
                 THEN DecodedAs[CHOOSE e \in encodings : TRUE] ELSE <<>>
    IN  UNION {FoldCodes(d.k, vars) : d \in arrays}
        \cup {Mapped(table, v) : v \in UNION {TryFold(d, vars) : d \in data \ arrays}}

TryFoldCall(call, vars) ==
    LET callee == call.k[1]
        first == UNION {TryFold(a, vars) : a \in Nth(Args(call), 1)}
    IN  CASE IsAccess(callee, <<"String">>, <<"fromCharCode">>) -> FoldCodes(Args(call), vars)
          [] IsId(callee, <<"atob">>) -> {Mapped(DecodedAs[<<"base64">>], v) : v \in first}
          [] IsId(callee, <<"decodeURIComponent">>) \/ IsId(callee, <<"unescape">>) ->
                {Mapped(Unescaped, v) : v \in first}
          [] IsMethod(callee, <<"toString">>) /\ IsBufferFrom(callee.k[1]) ->
                FoldBuffer(callee.k[1], vars)
          [] IsMethod(callee, <<"join">>) /\ callee.k[1].t = "Arr" ->
                LET seps == IF Args(call) = <<>> THEN {<<",">>} ELSE first
                IN  {Joined(ts, sep) : ts \in FoldAll(callee.k[1].k, vars), sep \in seps}
          [] OTHER -> {}

TryFold(n, vars) ==
    CASE n.t \in {"Str", "Num", "Bool"} -> {n.s}
      [] n.t = "Id" -> IF n.s \in DOMAIN vars THEN {vars[n.s]} ELSE {}
      [] n.t = "Tmpl" -> {FlattenSeq(ts) : ts \in FoldAll(QuasisAsText(n.k), vars)}
      [] n.t = "Plus" -> {FlattenSeq(ts) : ts \in FoldAll(n.k, vars)}
      [] n.t = "Call" -> TryFoldCall(n, vars)
      [] OTHER -> {}

-----------------------------------------------------------------------------
\* The declarators of some statements, in order: the first that folds gives a
\* name its value, whatever the scope.
Declare(stmts, vars) ==
    FoldLeft(LAMBDA known, st :
                IF st.t = "Var" /\ st.k[1].t = "Id" /\ st.k[1].s \notin DOMAIN known
                   /\ TryFold(st.k[2], known) # {}
                THEN known @@ (st.k[1].s :> CHOOSE v \in TryFold(st.k[2], known) : TRUE)
                ELSE known,
             vars, stmts)

\* The variables known after n passes.  A pass that learns nothing is the last
\* one the code makes, and any further one would learn nothing either.
Passes(program, n) == FoldLeft(LAMBDA known, pass : Declare(program, known), <<>>, [i \in 1..n |-> i])

\* What the last pass knows when it enters statement i: what the passes before
\* it learned, and what it has learned itself from the statements before i.
FoldedVars(program, i) ==
    Declare(SubSeq(program, 1, i - 1), Passes(program, MAX_PASSES - 1))
=============================================================================
