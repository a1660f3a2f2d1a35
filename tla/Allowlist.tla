----------------------------- MODULE Allowlist -----------------------------
(***************************************************************************)
(* ~/.vetlock/allowlist.json: readAllowlist of                             *)
(* packages/cli/src/commands/add.ts and allowlistCmd of guard.ts.          *)
(*                                                                         *)
(* Each process of Guards is one `vetlock guard --allowlist add|remove'    *)
(* after the other.  There is no lock: a command reads the file, changes   *)
(* the list and writes it back, and the write truncates the file first.    *)
(***************************************************************************)
EXTENDS FiniteSets

CONSTANTS
  Packages, Guards, None,
  Listed       \* the lists the file may hold at first

ASSUME ListedAssumption == Listed \subseteq SUBSET Packages

VARIABLES
  file,    \* the packages it lists, or Torn
  guard,   \* what each process is doing
  stated   \* packages a reason was given for and no undisturbed removal followed

listVars == <<file, guard, stated>>

Torn == None   \* a file that does not parse

Idle == [phase |-> "idle", op |-> None, pkg |-> None, list |-> {}, alone |-> TRUE]

ListInit ==
  /\ file \in Listed /\ stated = file
  /\ guard = [g \in Guards |-> Idle]

\* What does not parse is an empty list.
ReadAllowlist == IF file = Torn THEN {} ELSE file

Busy(g) == guard[g].phase # "idle"

\* Processes that overlap are not alone any more.
Begin(g, op, p, list) ==
  LET others == {h \in Guards \ {g} : Busy(h)}
  IN  guard' = [h \in Guards |->
        IF h = g THEN [phase |-> "read", op |-> op, pkg |-> p, list |-> list,
                       alone |-> others = {}]
        ELSE IF h \in others THEN [guard[h] EXCEPT !.alone = FALSE]
        ELSE guard[h]]

\* Variant: the reason is optional.
AllowAnyReason(g, p) ==
  /\ ~Busy(g)
  /\ Begin(g, "add", p, ReadAllowlist \cup {p})
  /\ stated' \in {stated, stated \cup {p}}
  /\ UNCHANGED file

\* Without a reason of three characters nothing is read.
Allow(g, p) ==
  /\ ~Busy(g)
  /\ Begin(g, "add", p, ReadAllowlist \cup {p})
  /\ stated' = stated \cup {p}
  /\ UNCHANGED file

\* A package that is not in the list leaves the file alone.
Disallow(g, p) ==
  /\ ~Busy(g) /\ p \in ReadAllowlist
  /\ Begin(g, "remove", p, ReadAllowlist \ {p})
  /\ UNCHANGED <<file, stated>>

Truncate(g) ==
  /\ guard[g].phase = "read"
  /\ file' = Torn
  /\ guard' = [guard EXCEPT ![g].phase = "write"]
  /\ UNCHANGED stated

\* Of two writers, one may leave its text in front of the other's tail.
Write(g) ==
  /\ guard[g].phase = "write"
  /\ file' \in {guard[g].list} \cup (IF guard[g].alone THEN {} ELSE {Torn})
  /\ guard' = [guard EXCEPT ![g] = Idle]
  /\ stated' = IF guard[g].op = "remove" /\ guard[g].alone
               THEN stated \ {guard[g].pkg} ELSE stated

\* Interrupted; a file it truncated stays so.
Die(g) ==
  /\ Busy(g)
  /\ guard' = [guard EXCEPT ![g] = Idle]
  /\ UNCHANGED <<file, stated>>

ListNext ==
  \E g \in Guards : \/ \E p \in Packages : Allow(g, p) \/ Disallow(g, p)
                    \/ Truncate(g) \/ Write(g) \/ Die(g)
=============================================================================
