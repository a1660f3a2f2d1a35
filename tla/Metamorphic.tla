---------------------------- MODULE Metamorphic ----------------------------
(***************************************************************************)
(* The pairs of programs that mean the same and are written differently    *)
(* (assurance/src/metamorphic): what is recorded for one must be recorded  *)
(* for the other.  A pair is <<program, program, comments of the second>>. *)
(***************************************************************************)
EXTENDS Capabilities

Str(v) == Node("Str", v, <<>>)
Num(v) == Node("Num", v, <<>>)
Id(v) == Node("Id", v, <<>>)
Dot(o, p) == Node("Mem", <<>>, <<o, Id(p)>>)
At(o, p) == Node("Index", <<>>, <<o, p>>)
Call(f, args) == Node("Call", <<>>, <<f>> \o args)
Plus(l, r) == Node("Plus", <<>>, <<l, r>>)
Tmpl(parts) == Node("Tmpl", <<>>, parts)
Quasi(v) == Node("Quasi", v, <<>>)
Other(parts) == Node("Other", <<>>, parts)
Var(x, e) == Node("Var", <<>>, <<Id(x), e>>)
Stmt(e) == Node("Stmt", <<>>, <<e>>)

Require(m) == Call(Id(<<"require">>), <<Str(m)>>)
Env == Dot(Id(<<"process">>), <<"env">>)
Token == <<"NPM_", "TOKEN">>
ChildProcess == <<"child_", "process">>
Url == <<"http://", "example", ".com", "/api">>
TmpFile == <<"/tmp/", "x">>

-----------------------------------------------------------------------------
(* statement-reorder: two independent statements in both orders.           *)
StatementReorder ==
    LET Load(m) == Var(m, Require(m))
        cases == {<<Var(<<"cp">>, Require(ChildProcess)), Load(<<"fs">>)>>,
                  <<Load(<<"http">>), Var(<<"token">>, Dot(Env, Token))>>,
                  <<Var(<<"cp">>, Require(ChildProcess)), Load(<<"path">>)>>,
                  <<Load(<<"fs">>), Load(<<"os">>)>>,
                  <<Load(<<"dns">>), Load(<<"util">>)>>}
    IN  {<<c, Reverse(c), {}>> : c \in cases}

-----------------------------------------------------------------------------
(* alpha-rename: the same alias under another name.                        *)
IDENT_POOL == {<<"cp">>, <<"proc">>, <<"kids">>, <<"shell">>, <<"launcher">>, <<"net">>, <<"client">>,
               <<"http1">>, <<"req">>, <<"fsx">>, <<"io">>, <<"disk">>, <<"env">>, <<"e">>, <<"venv">>}

Uses(n, m, method, args) == <<Var(n, Require(m)), Stmt(Call(Dot(Id(n), method), args))>>

AlphaRename ==
    LET Exec(n) == Uses(n, ChildProcess, <<"exec">>, <<Str(<<"echo">>)>>)
        Spawn(n) == Uses(n, ChildProcess, <<"spawn">>, <<Str(<<"echo">>), Node("Arr", <<>>, <<>>)>>)
        Request(n) == Uses(n, <<"http">>, <<"request">>, <<Str(Url)>>)
        Write(n) == Uses(n, <<"fs">>, <<"writeFileSync">>, <<Str(TmpFile), Str(<<"hi">>)>>)
        ReadEnv(n) == <<Var(n, Env), Var(<<"t">>, Dot(Id(n), Token))>>
    IN  UNION {{<<Exec(<<"cp">>), Exec(n), {}>>, <<Spawn(<<"cp">>), Spawn(n), {}>>,
                <<Request(<<"http">>), Request(n), {}>>, <<Write(<<"fs">>), Write(n), {}>>,
                <<ReadEnv(<<"env">>), ReadEnv(n), {}>>} : n \in IDENT_POOL}

-----------------------------------------------------------------------------
(* equivalent-expression: the same value by other operators.               *)
EquivalentExpression ==
    LET token == Dot(Env, Token)
        write == <<Var(<<"fs">>, Require(<<"fs">>)),
                   Stmt(Call(Dot(Id(<<"fs">>), <<"writeFileSync">>),
                             <<Str(TmpFile), Call(Id(<<"String">>), <<Id(<<"n">>)>>)>>))>>
        Guarded(test) == <<Stmt(Other(<<test, Call(Dot(Id(<<"fs">>), <<"readFileSync">>),
                                                   <<Str(<<"/etc/", "passwd">>)>>)>>))>>
        Running(test) == <<Var(<<"cp">>, Require(ChildProcess)), Var(<<"run">>, test),
                           Stmt(Other(<<Id(<<"run">>), Call(Dot(Id(<<"cp">>), <<"exec">>), <<Str(<<"echo">>)>>)>>))>>
        same == Other(<<Num(<<"1">>), Num(<<"1">>)>>)
        Host(e) == <<Var(<<"http">>, Require(<<"http">>)), Var(<<"host">>, e)>>
        Get(e) == <<Stmt(Call(Dot(Id(<<"http">>), <<"request">>), <<e>>))>>
    IN  {<<<<Var(<<"has">>, Other(<<Other(<<token>>)>>))>>,
           <<Var(<<"has">>, Call(Id(<<"Boolean">>), <<token>>))>>, {}>>,
         <<<<Var(<<"n">>, Plus(Num(<<"42">>), Num(<<"0">>)))>> \o write,
           <<Var(<<"n">>, Num(<<"42">>))>> \o write, {}>>,
         <<Running(Other(<<same, Node("Bool", <<"true">>, <<>>), Node("Bool", <<"false">>, <<>>)>>)),
           Running(same), {}>>,
         <<Host(Plus(Str(<<"example">>), Str(<<".com">>)))
             \o Get(Plus(Plus(Str(<<"http://">>), Id(<<"host">>)), Str(<<"/api">>))),
           Host(Tmpl(<<Quasi(<<"example", ".com">>)>>))
             \o Get(Tmpl(<<Quasi(<<"http://">>), Id(<<"host">>), Quasi(<<"/api">>)>>)), {}>>,
         <<<<Var(<<"fs">>, Require(<<"fs">>))>> \o Guarded(Other(<<Other(<<Id(<<"fs">>)>>)>>)),
           <<Var(<<"fs">>, Require(<<"fs">>))>> \o Guarded(Id(<<"fs">>)), {}>>}

-----------------------------------------------------------------------------
(* whitespace-comments: the same program with comments put into it.        *)
Injected == {<<"generated-by build">>, <<"pin">>}

WhitespaceComments ==
    {<<p, p, Injected>> : p \in
        {Uses(<<"cp">>, ChildProcess, <<"exec">>, <<Str(<<"echo">>)>>),
         <<Var(<<"token">>, Dot(Env, Token)), Var(<<"_">>, Id(<<"token">>))>>,
         Uses(<<"fs">>, <<"fs">>, <<"writeFileSync">>, <<Str(TmpFile), Str(<<"ok">>)>>),
         Uses(<<"http">>, <<"http">>, <<"request">>, <<Str(Url)>>),
         Uses(<<"dns">>, <<"dns">>, <<"lookup">>, <<Str(<<"example", ".com">>), Other(<<>>)>>)}}

-----------------------------------------------------------------------------
(* member-access-form: base.member and base["member"].                     *)
MemberAccessForm ==
    LET Method(m, p, args) ==
            <<<<Stmt(Call(Dot(Require(m), p), args))>>, <<Stmt(Call(At(Require(m), Str(p)), args))>>, {}>>
    IN  {Method(ChildProcess, <<"exec">>, <<Str(<<"echo">>)>>),
         Method(ChildProcess, <<"spawn">>, <<Str(<<"echo">>), Node("Arr", <<>>, <<>>)>>),
         Method(<<"fs">>, <<"writeFileSync">>, <<Str(TmpFile), Str(<<"hi">>)>>),
         Method(<<"http">>, <<"request">>, <<Str(Url)>>),
         Method(<<"vm">>, <<"runInThisContext">>, <<Str(<<"1+1">>)>>),
         <<<<Stmt(Dot(Env, Token))>>, <<Stmt(At(Env, Str(Token)))>>, {}>>}

allPairs ==
    StatementReorder \cup AlphaRename \cup EquivalentExpression \cup WhitespaceComments \cup MemberAccessForm
=============================================================================
