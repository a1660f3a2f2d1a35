--------------------------- MODULE ScanEngineProofs ---------------------------
(***************************************************************************)
(* Theorems about ScanEngine, for any number of workers, any inputs and    *)
(* any initial cache: the shape of its states, then the worker pool (the   *)
(* shared cursor gives every ref one worker and one outcome) and last the  *)
(* promise of FailClosedRun, which ScanEngine implements.                  *)
(***************************************************************************)
EXTENDS ScanEngine, TLAPS

\* A worker that is on a ref claimed a position of the list.
InRange == \A w \in Workers : Active(w) => cursor[w] \in 1..Len(refList)

Shape == TypeOK /\ InRange

-----------------------------------------------------------------------------
(* Facts about the inputs and about single steps.                          *)

LEMMA ChangeFacts ==
  ASSUME input \in Inputs, NEW k \in DOMAIN Changes
  PROVE  WellFormed(Changes[k])
BY InputsAssumption DEF Changes

LEMMA IdFacts ==
  ASSUME NEW c, WellFormed(c)
  PROVE  /\ c.name \in Names
         /\ HasNew(c) => /\ NewId(c) \in Id
                         /\ RefTo(c.newI, c.newResolved) \in RefType
         /\ HasOld(c) => /\ OldId(c) \in Id
                         /\ RefTo(c.oldI, c.oldResolved) \in RefType
BY NullAssumption DEF WellFormed, ChangeType, HasNew, HasOld, NewId, OldId, RefTo, RefType, Id

LEMMA RefInId ==
  ASSUME Shape, NEW w \in Workers, Active(w)
  PROVE  Ref(w) \in Id
BY DEF Shape, TypeOK, InRange, Ref

LEMMA SettleType ==
  ASSUME Shape, NEW w \in Workers, Active(w), NEW o, Settle(w, o)
  PROVE  /\ snapshots' \in [Id -> Id \cup {None}]
         /\ failed' \in Seq(Id)
<1>1. Ref(w) \in Id
  BY RefInId
<1>2. snapshots \in [Id -> Id \cup {None}] /\ failed \in Seq(Id)
  BY DEF Shape, TypeOK
<1>a. Analyzed(Ref(w)) \in Id
  BY <1>1, InputsAssumption DEF Shape, TypeOK, Analyzed
<1>3. CASE o = "ok"
  BY <1>1, <1>2, <1>3, <1>a DEF Settle
<1>4. CASE o # "ok"
  BY <1>1, <1>2, <1>4 DEF Settle
<1> QED
  BY <1>3, <1>4

-----------------------------------------------------------------------------
LEMMA InitShape == Init => Shape
<1> SUFFICES ASSUME Init PROVE Shape
  OBVIOUS
<1>1. TypeOK
  BY CachesAssumption DEF Init, TypeOK, Phases, PcValues
<1>2. InRange
  BY DEF Init, InRange, Active
<1> QED
  BY <1>1, <1>2 DEF Shape

\* A step of the worker pool moves one worker.
LEMMA GotoFacts ==
  ASSUME Shape, NEW w \in Workers, NEW from \in PcValues, NEW to \in PcValues, Goto(w, from, to)
  PROVE  /\ pc' \in [Workers -> PcValues]
         /\ pc[w] = from /\ pc'[w] = to
         /\ \A v \in Workers \ {w} : pc'[v] = pc[v]
BY DEF Goto, Shape, TypeOK

LEMMA CollectShape ==
  ASSUME Shape, CollectRefs
  PROVE  Shape'
<1> DEFINE c == Changes[ci]
           r == WithNew(c, refOf)
<1>1. WellFormed(c)
  BY ChangeFacts, InputsAssumption DEF Shape, TypeOK, CollectRefs, Changes
<1>2. r \in [Id -> RefType \cup {None}]
  BY <1>1, IdFacts DEF Shape, TypeOK, WithNew
<1>3. refOf' \in [Id -> RefType \cup {None}]
  BY <1>1, <1>2, IdFacts DEF CollectRefs, WithOld
<1>4. ListNew(c) \in Seq(Id) /\ Len(ListNew(c)) >= Len(refList)
  BY <1>1, IdFacts DEF Shape, TypeOK, ListNew
<1>5. refList' \in Seq(Id) /\ Len(refList') >= Len(refList)
  BY <1>1, <1>4, IdFacts DEF CollectRefs, ListOld, Shape, TypeOK
<1>6. TypeOK'
  BY <1>3, <1>5 DEF CollectRefs, Shape, TypeOK, pool, disk, outcomes, report
<1>7. InRange'
  BY <1>5 DEF CollectRefs, Shape, TypeOK, InRange, Active, pool
<1> QED
  BY <1>6, <1>7 DEF Shape

\* A worker that goes on with the ref it has, or lets go of it.
LEMMA StepInRange ==
  ASSUME Shape, NEW w \in Workers, NEW from \in PcValues, NEW to \in PcValues,
         Goto(w, from, to), from \notin {"free", "exited"} \/ to \in {"free", "exited"},
         UNCHANGED <<refList, cursor>>
  PROVE  InRange'
<1> SUFFICES ASSUME NEW v \in Workers, Active(v)' PROVE cursor'[v] \in 1..Len(refList')
  BY DEF InRange
<1>1. Active(v)
  BY GotoFacts DEF Active
<1> QED
  BY <1>1 DEF Shape, InRange

\* The steps of a worker that settle its ref.
LEMMA SettlingShape ==
  ASSUME Shape, NEW w \in Workers, FetchFails(w) \/ FetchTimesOut(w) \/ GzipRejected(w)
  PROVE  Shape'
<1>1. PICK from \in {"fetch", "gzip"} : Goto(w, from, "free")
  BY DEF FetchFails, FetchTimesOut, GzipRejected
<1>2. Settle(w, "failed")
  BY DEF FetchFails, FetchTimesOut, GzipRejected
<1>3. Active(w)
  BY <1>1 DEF Active, Goto
<1>4. /\ snapshots' \in [Id -> Id \cup {None}]
      /\ failed' \in Seq(Id)
  BY <1>2, <1>3, SettleType
<1>5. pc' \in [Workers -> PcValues]
  BY <1>1, GotoFacts DEF PcValues
<1>6. late' \subseteq Id
  BY <1>3, RefInId DEF FetchFails, FetchTimesOut, GzipRejected, disk, Shape, TypeOK
<1>7. UNCHANGED <<input, phase, ci, refs, idx, cursor, res, cache, puts, temps, report>>
  BY DEF FetchFails, FetchTimesOut, GzipRejected, disk
<1>8. TypeOK'
  BY <1>4, <1>5, <1>6, <1>7 DEF Shape, TypeOK, refs, report
<1>9. InRange'
  BY <1>1, <1>7, StepInRange DEF refs, PcValues
<1> QED
  BY <1>8, <1>9 DEF Shape

LEMMA CleanupShape ==
  ASSUME Shape, NEW w \in Workers, Cleanup(w)
  PROVE  Shape'
<1>1. Goto(w, "cleanup", "free") /\ Settle(w, res[w])
  BY DEF Cleanup
<1>2. Active(w)
  BY <1>1 DEF Active, Goto
<1>3. /\ snapshots' \in [Id -> Id \cup {None}]
      /\ failed' \in Seq(Id)
  BY <1>1, <1>2, SettleType
<1>4. pc' \in [Workers -> PcValues]
  BY <1>1, GotoFacts DEF PcValues
<1>5. temps' \subseteq Id /\ res' \in [Workers -> {"ok", "failed", None}]
  BY DEF Cleanup, Shape, TypeOK
<1>6. UNCHANGED <<input, phase, ci, refs, idx, cursor, cache, puts, late, report>>
  BY DEF Cleanup
<1>7. TypeOK'
  BY <1>3, <1>4, <1>5, <1>6 DEF Shape, TypeOK, refs, report
<1>8. InRange'
  BY <1>1, <1>6, StepInRange DEF refs, PcValues
<1> QED
  BY <1>7, <1>8 DEF Shape

\* The steps of a worker between its claim and its outcome.
LEMMA CarryingShape ==
  ASSUME Shape, NEW w \in Workers,
         CacheMiss(w) \/ FetchOk(w) \/ GzipOk(w) \/ Analyze(w)
  PROVE  Shape'
<1>1. PICK from \in PcValues, to \in PcValues :
        Goto(w, from, to) /\ from \notin {"free", "exited"}
  BY DEF CacheMiss, FetchOk, GzipOk, Analyze, AnalyzeOk, AnalyzeFails, AnalyzeTimesOut, PcValues
<1>2. Ref(w) \in Id
  BY <1>1, RefInId DEF Active, Goto
<1>3. pc' \in [Workers -> PcValues]
  BY <1>1, GotoFacts
<1>4. /\ temps' \subseteq Id /\ puts' \subseteq Id
      /\ res' \in [Workers -> {"ok", "failed", None}]
  BY <1>2 DEF CacheMiss, FetchOk, GzipOk, Analyze, AnalyzeOk, AnalyzeFails, AnalyzeTimesOut,
              Shape, TypeOK, disk
<1>5. UNCHANGED <<input, phase, ci, refs, idx, cursor, cache, late, outcomes, report>>
  BY DEF CacheMiss, FetchOk, GzipOk, Analyze, AnalyzeOk, AnalyzeFails, AnalyzeTimesOut, disk
<1>6. TypeOK'
  BY <1>3, <1>4, <1>5 DEF Shape, TypeOK, refs, outcomes, report
<1>7. InRange'
  BY <1>1, <1>5, StepInRange DEF refs
<1> QED
  BY <1>6, <1>7 DEF Shape

LEMMA CacheHitShape ==
  ASSUME Shape, NEW w \in Workers, CacheHit(w)
  PROVE  Shape'
<1>1. Goto(w, "lookup", "free")
  BY DEF CacheHit
<1>2. Ref(w) \in Id
  BY <1>1, RefInId DEF Active, Goto
<1>3. pc' \in [Workers -> PcValues]
  BY <1>1, GotoFacts DEF PcValues
<1>4. snapshots' \in [Id -> Id \cup {None}]
  BY <1>2 DEF CacheHit, Shape, TypeOK
<1>5. TypeOK'
  BY <1>3, <1>4 DEF CacheHit, Shape, TypeOK, refs, disk, report
<1>6. InRange'
  BY <1>1, StepInRange DEF CacheHit, refs, PcValues
<1> QED
  BY <1>5, <1>6 DEF Shape

LEMMA ClaimShape ==
  ASSUME Shape, NEW w \in Workers, Claim(w)
  PROVE  Shape'
<1>1. PICK to \in {"fetch", "lookup"} : Goto(w, "free", to)
  BY DEF Claim
<1>2. pc' \in [Workers -> PcValues] /\ \A v \in Workers \ {w} : pc'[v] = pc[v]
  BY <1>1, GotoFacts DEF PcValues
<1>3. idx \in 1..Len(refList) /\ cursor' = [cursor EXCEPT ![w] = idx] /\ idx' = idx + 1
  BY DEF Claim, Shape, TypeOK
<1>4. UNCHANGED <<input, phase, ci, refs, res, disk, outcomes, report>>
  BY DEF Claim
<1>5. TypeOK'
  BY <1>2, <1>3, <1>4 DEF Shape, TypeOK, refs, disk, outcomes, report
<1>6. InRange'
  <2> SUFFICES ASSUME NEW v \in Workers, Active(v)' PROVE cursor'[v] \in 1..Len(refList')
    BY DEF InRange
  <2>1. CASE v = w
    BY <2>1, <1>3, <1>4 DEF Shape, TypeOK, refs
  <2>2. CASE v # w
    BY <2>2, <1>2, <1>3, <1>4 DEF Shape, TypeOK, InRange, Active, refs
  <2> QED
    BY <2>1, <2>2
<1> QED
  BY <1>5, <1>6 DEF Shape

LEMMA RetireShape ==
  ASSUME Shape, NEW w \in Workers, Retire(w)
  PROVE  Shape'
<1>1. Goto(w, "free", "exited")
  BY DEF Retire
<1>2. pc' \in [Workers -> PcValues]
  BY <1>1, GotoFacts DEF PcValues
<1>3. TypeOK'
  BY <1>2 DEF Retire, Shape, TypeOK, refs, disk, outcomes, report
<1>4. InRange'
  BY <1>1, StepInRange DEF Retire, refs, PcValues
<1> QED
  BY <1>3, <1>4 DEF Shape

LEMMA WorkShape ==
  ASSUME Shape, NEW w \in Workers, Work(w)
  PROVE  Shape'
BY SettlingShape, CleanupShape, CarryingShape, CacheHitShape, ClaimShape, RetireShape
   DEF Work, Fetch, Lookup, Gzip

LEMMA BackgroundShape ==
  ASSUME Shape, Background
  PROVE  Shape'
<1>1. PICK id \in Id : LateFetchEnds(id) \/ PutLands(id) \/ PutFails(id)
  BY DEF Background
<1>2. Analyzed(id) \in Id
  BY InputsAssumption DEF Shape, TypeOK, Analyzed
<1>3. UNCHANGED <<input, phase, ci, refs, pool, outcomes, report>>
  BY <1>1 DEF LateFetchEnds, PutLands, PutFails
<1>4. puts' \subseteq Id /\ late' \subseteq Id /\ temps' \subseteq Id
  BY <1>1 DEF LateFetchEnds, PutLands, PutFails, Shape, TypeOK
<1>5. cache' \in [Integrities -> Id \cup {None}]
  BY <1>1, <1>2 DEF LateFetchEnds, PutLands, PutFails, Shape, TypeOK
<1>6. TypeOK'
  BY <1>3, <1>4, <1>5 DEF Shape, TypeOK, refs, pool, outcomes, report
<1>7. InRange'
  BY <1>3 DEF Shape, InRange, Active, refs, pool
<1> QED
  BY <1>6, <1>7 DEF Shape

\* The loops over changes and failures touch the report and nothing else.
LEMMA ReportShape ==
  ASSUME Shape,
         Parse \/ EndLoop \/ PoolDone \/ DetectChange \/ DetectThrows
           \/ FailureOfChange \/ FailureLeft \/ Surface \/ Publish
  PROVE  Shape'
<1>1. UNCHANGED <<input, refs, pool, disk, outcomes>>
  BY DEF Parse, EndLoop, PoolDone, DetectChange, DetectThrows, FailureOfChange, FailureLeft,
         Surface, Publish, report
<1>2. phase' \in Phases
  BY DEF Parse, EndLoop, PoolDone, DetectChange, DetectThrows, FailureOfChange, FailureLeft,
         Surface, Publish, PhaseAfter, Phases, Shape, TypeOK
<1>3. ci' \in Nat \ {0}
  BY DEF Parse, EndLoop, PoolDone, DetectChange, DetectThrows, FailureOfChange, FailureLeft,
         Surface, Publish, Shape, TypeOK
<1>4. named' \subseteq Names
  <2>1. CASE FailureOfChange
    <3>1. ci \in DOMAIN Changes
      BY <2>1, InputsAssumption DEF FailureOfChange, Shape, TypeOK, Changes
    <3>2. Changes[ci].name \in Names
      BY <3>1, ChangeFacts DEF Shape, TypeOK, WellFormed, ChangeType
    <3> QED
      BY <2>1, <3>2 DEF FailureOfChange, EmitFailure, Shape, TypeOK
  <2>2. CASE FailureLeft
    <3>1. failed[ci] \in Id
      BY <2>2 DEF FailureLeft, Shape, TypeOK
    <3>2. failed[ci][1] \in Names
      BY <3>1 DEF Id
    <3> QED
      BY <2>2, <3>2 DEF FailureLeft, EmitFailure, Shape, TypeOK
  <2>3. CASE ~FailureOfChange /\ ~FailureLeft
    BY <2>3 DEF Parse, EndLoop, PoolDone, DetectChange, DetectThrows, Surface, Publish,
                Shape, TypeOK, report
  <2> QED
    BY <2>1, <2>2, <2>3
<1>5. verdict' \in Severities \cup {"CLEAN", None}
  BY DEF Parse, EndLoop, PoolDone, DetectChange, DetectThrows, FailureOfChange, FailureLeft,
         Surface, Publish, Shape, TypeOK, Severities, report
<1>6. TypeOK'
  BY <1>1, <1>2, <1>3, <1>4, <1>5 DEF Shape, TypeOK, refs, pool, disk, outcomes
<1>7. InRange'
  BY <1>1 DEF Shape, InRange, Active, refs, pool
<1> QED
  BY <1>6, <1>7 DEF Shape

LEMMA ShapeStep == Shape /\ [Next]_vars => Shape'
<1> SUFFICES ASSUME Shape, [Next]_vars PROVE Shape'
  OBVIOUS
<1>1. CASE Main
  BY <1>1, CollectShape, ReportShape DEF Main
<1>2. ASSUME NEW w \in Workers, Work(w) PROVE Shape'
  BY <1>2, WorkShape
<1>3. CASE Background
  BY <1>3, BackgroundShape
<1>4. CASE UNCHANGED vars
  BY <1>4 DEF vars, refs, pool, disk, outcomes, report, Shape, TypeOK, InRange, Active
<1> QED
  BY <1>1, <1>2, <1>3, <1>4 DEF Next

(***************************************************************************)
(* Type correctness of runDiff's state.                                    *)
(***************************************************************************)
THEOREM TypeCorrect == Spec => []TypeOK
<1>1. Spec => []Shape
  BY InitShape, ShapeStep, PTL DEF Spec
<1>2. Shape => TypeOK
  BY DEF Shape
<1> QED
  BY <1>1, <1>2, PTL

-----------------------------------------------------------------------------
(* The report.  A name enters emittedFailPackages together with a BLOCK    *)
(* finding, the second failure loop leaves no failed name outside it, and  *)
(* a changed hash has pushed its finding once the detect loop is past it.  *)

Reporting == {"surface", "verdict", "done"}

ReportInv ==
  /\ verdict # None => phase = "done"
  /\ named # {} => HasSeverity("BLOCK")
  /\ \A k \in DOMAIN failed :
       phase \in Reporting \/ (phase = "failRest" /\ k < ci) => failed[k][1] \in named
  /\ \A k \in DOMAIN Changes :
       /\ Changes[k].kind = "integrity-changed"
       /\ phase \in Reporting \cup {"failNew", "failRest"} \/ (phase = "detect" /\ k < ci)
       => HasSeverity("BLOCK")
  /\ phase = "done" /\ HasSeverity("BLOCK") => verdict = "BLOCK"

LEMMA InitReport == Init => ReportInv
<1> SUFFICES ASSUME Init PROVE ReportInv
  OBVIOUS
<1> QED
  BY DEF Init, ReportInv, Reporting

\* The pool is over before the report starts.
LEMMA WorkReport ==
  ASSUME Shape, ReportInv, (\E w \in Workers : Work(w)) \/ CollectRefs \/ Parse \/ PoolDone
  PROVE  ReportInv'
<1>1. UNCHANGED <<input, report>>
  BY DEF Work, Claim, Retire, Lookup, CacheHit, CacheMiss, Fetch, FetchOk, FetchFails,
         FetchTimesOut, Gzip, GzipOk, GzipRejected, Analyze, AnalyzeOk, AnalyzeFails,
         AnalyzeTimesOut, Cleanup, CollectRefs, Parse, PoolDone
<1>2. phase \in {"parse", "collect", "pool"}
  BY DEF Work, Claim, Retire, Lookup, CacheHit, CacheMiss, Fetch, FetchOk, FetchFails,
         FetchTimesOut, Gzip, GzipOk, GzipRejected, Analyze, AnalyzeOk, AnalyzeFails,
         AnalyzeTimesOut, Cleanup, CollectRefs, Parse, PoolDone, Goto
<1>3. phase' \in {"collect", "pool", "rejected"} \/ (phase' = "detect" /\ ci' = 1)
  BY DEF Work, Claim, Retire, Lookup, CacheHit, CacheMiss, Fetch, FetchOk, FetchFails,
         FetchTimesOut, Gzip, GzipOk, GzipRejected, Analyze, AnalyzeOk, AnalyzeFails,
         AnalyzeTimesOut, Cleanup, CollectRefs, Parse, PoolDone, Goto
<1>4. \A k \in DOMAIN Changes : ~(k < 1)
  BY InputsAssumption DEF Shape, TypeOK, Changes
<1> QED
  BY <1>1, <1>2, <1>3, <1>4 DEF ReportInv, Reporting, report, HasSeverity, Changes

LEMMA BackgroundReport ==
  ASSUME ReportInv, Background
  PROVE  ReportInv'
<1>1. UNCHANGED <<input, phase, ci, refs, pool, outcomes, report>>
  BY DEF Background, LateFetchEnds, PutLands, PutFails
<1> QED
  BY <1>1 DEF ReportInv, Reporting, report, outcomes, HasSeverity, Changes

\* A name is reported with the finding that reports it.
LEMMA EmitFailureFacts ==
  ASSUME NEW name, NEW from, NEW to, NEW direction,
         EmitFailure(name, FailureFinding(name, from, to, direction)),
         named # {} => HasSeverity("BLOCK")
  PROVE  /\ named' = named \cup {name}
         /\ HasSeverity("BLOCK")'
         /\ findings \subseteq findings'
<1>1. FailureFinding(name, from, to, direction).severity = "BLOCK"
  BY DEF FailureFinding, Finding
<1>2. CASE name \in named
  BY <1>2 DEF EmitFailure, HasSeverity
<1>3. CASE name \notin named
  BY <1>1, <1>3 DEF EmitFailure, HasSeverity
<1> QED
  BY <1>2, <1>3

LEMMA EndLoopReport ==
  ASSUME Shape, ReportInv, EndLoop
  PROVE  ReportInv'
<1>1. UNCHANGED <<input, outcomes, report>> /\ ci' = 1
  BY DEF EndLoop
<1>2. \A k \in DOMAIN Changes : ~(k < 1) /\ k <= Len(Changes)
  BY InputsAssumption DEF Shape, TypeOK, Changes
<1>3. \A k \in DOMAIN failed : ~(k < 1) /\ k <= Len(failed)
  BY DEF Shape, TypeOK
<1>4. Len(Changes) \in Nat /\ Len(failed) \in Nat /\ ci \in Nat
  BY InputsAssumption DEF Shape, TypeOK, Changes
<1>5. CASE phase = "collect"
  BY <1>1, <1>5 DEF EndLoop, PhaseAfter, ReportInv, Reporting, report, outcomes, HasSeverity, Changes
<1>6. CASE phase = "detect"
  <2>1. phase' = "failNew" /\ ci > Len(Changes)
    BY <1>6 DEF EndLoop, PhaseAfter, LoopLength
  <2>2. \A k \in DOMAIN Changes : k < ci
    BY <2>1, <1>2, <1>4
  <2> QED
    BY <1>1, <1>6, <2>1, <2>2 DEF ReportInv, Reporting, report, outcomes, HasSeverity, Changes
<1>7. CASE phase = "failNew"
  <2>1. phase' = "failRest"
    BY <1>7 DEF EndLoop, PhaseAfter
  <2> QED
    BY <1>1, <1>3, <1>7, <2>1 DEF ReportInv, Reporting, report, outcomes, HasSeverity, Changes
<1>8. CASE phase = "failRest"
  <2>1. phase' = "surface" /\ ci > Len(failed)
    BY <1>8 DEF EndLoop, PhaseAfter, LoopLength
  <2>2. \A k \in DOMAIN failed : k < ci
    BY <2>1, <1>3, <1>4
  <2> QED
    BY <1>1, <1>8, <2>1, <2>2 DEF ReportInv, Reporting, report, outcomes, HasSeverity, Changes
<1> QED
  BY <1>5, <1>6, <1>7, <1>8 DEF EndLoop, PhaseAfter

LEMMA DetectReport ==
  ASSUME Shape, ReportInv, DetectChange
  PROVE  ReportInv'
<1>1. UNCHANGED <<input, phase, outcomes, named, verdict>> /\ ci' = ci + 1 /\ phase = "detect"
  BY DEF DetectChange
<1>2. ci \in Nat /\ ci \in DOMAIN Changes
  BY InputsAssumption DEF DetectChange, Shape, TypeOK, Changes
<1>3. findings \subseteq findings'
  BY DEF DetectChange
<1>4. Changes[ci].kind = "integrity-changed" => HasSeverity("BLOCK")'
  <2> SUFFICES ASSUME Changes[ci].kind = "integrity-changed" PROVE HasSeverity("BLOCK")'
    OBVIOUS
  <2>1. IntegrityFinding(Changes[ci]) \in findings'
    BY DEF DetectChange, Emissions
  <2>2. IntegrityFinding(Changes[ci]).severity = "BLOCK"
    BY DEF IntegrityFinding, Finding
  <2> QED
    BY <2>1, <2>2 DEF HasSeverity
<1>5. HasSeverity("BLOCK") => HasSeverity("BLOCK")'
  BY <1>3 DEF HasSeverity
<1>6. \A k \in DOMAIN Changes : k < ci + 1 => k < ci \/ k = ci
  BY <1>2, InputsAssumption DEF Shape, TypeOK, Changes
<1> QED
  BY <1>1, <1>4, <1>5, <1>6 DEF ReportInv, Reporting, outcomes, Changes

LEMMA FailureOfChangeReport ==
  ASSUME Shape, ReportInv, FailureOfChange
  PROVE  ReportInv'
<1>1. UNCHANGED <<input, phase, outcomes, verdict>> /\ phase = "failNew"
  BY DEF FailureOfChange
<1>2. UNCHANGED <<findings, named>> \/ (named' # {} /\ HasSeverity("BLOCK")')
  BY EmitFailureFacts DEF FailureOfChange, ReportInv
<1> QED
  BY <1>1, <1>2 DEF ReportInv, Reporting, outcomes, HasSeverity, Changes

LEMMA FailureLeftReport ==
  ASSUME Shape, ReportInv, FailureLeft
  PROVE  ReportInv'
<1>1. /\ UNCHANGED <<input, phase, outcomes, verdict>>
      /\ phase = "failRest" /\ ci' = ci + 1
  BY DEF FailureLeft
<1>2. named' = named \cup {failed[ci][1]} /\ HasSeverity("BLOCK")'
  BY EmitFailureFacts DEF FailureLeft, ReportInv
<1>3. \A k \in DOMAIN failed : k < ci + 1 => k < ci \/ k = ci
  BY DEF Shape, TypeOK
<1> QED
  BY <1>1, <1>2, <1>3 DEF ReportInv, Reporting, outcomes, Changes

LEMMA ClosingReport ==
  ASSUME Shape, ReportInv, Surface \/ Publish \/ DetectThrows
  PROVE  ReportInv'
<1>1. CASE Surface
  <2>1. UNCHANGED <<input, ci, outcomes, named, verdict>> /\ phase = "surface" /\ phase' = "verdict"
    BY <1>1 DEF Surface
  <2>2. HasSeverity("BLOCK") => HasSeverity("BLOCK")'
    BY <1>1 DEF Surface, HasSeverity
  <2> QED
    BY <2>1, <2>2 DEF ReportInv, Reporting, outcomes, Changes
<1>2. CASE Publish
  <2>1. /\ UNCHANGED <<input, ci, outcomes, findings, named>>
        /\ phase = "verdict" /\ phase' = "done"
    BY <1>2 DEF Publish
  <2>2. HasSeverity("BLOCK") => verdict' = "BLOCK"
    BY <1>2 DEF Publish
  <2> QED
    BY <2>1, <2>2 DEF ReportInv, Reporting, outcomes, HasSeverity, Changes
<1>3. CASE DetectThrows
  BY <1>3 DEF DetectThrows, ReportInv, Reporting, outcomes, report, HasSeverity, Changes
<1> QED
  BY <1>1, <1>2, <1>3

LEMMA ReportStep == Shape /\ ReportInv /\ [Next]_vars => ReportInv'
<1> SUFFICES ASSUME Shape, ReportInv, [Next]_vars PROVE ReportInv'
  OBVIOUS
<1>1. CASE Main
  BY <1>1, WorkReport, EndLoopReport, DetectReport, FailureOfChangeReport, FailureLeftReport,
     ClosingReport DEF Main
<1>2. CASE \E w \in Workers : Work(w)
  BY <1>2, WorkReport
<1>3. CASE Background
  BY <1>3, BackgroundReport
<1>4. CASE UNCHANGED vars
  BY <1>4 DEF vars, outcomes, report, ReportInv, Reporting, HasSeverity, Changes
<1> QED
  BY <1>1, <1>2, <1>3, <1>4 DEF Next

LEMMA SpecReport == Spec => [](Shape /\ ReportInv)
BY InitShape, InitReport, ShapeStep, ReportStep, PTL DEF Spec

(***************************************************************************)
(* A run in which any package could not be analyzed returns BLOCK.         *)
(***************************************************************************)
THEOREM RunFailsClosed == Spec => []FailClosed
<1>1. Shape /\ ReportInv => FailClosed
  <2> SUFFICES ASSUME Shape, ReportInv, verdict # None, failed # <<>> PROVE verdict = "BLOCK"
    BY DEF FailClosed
  <2>1. phase = "done" /\ 1 \in DOMAIN failed
    BY DEF ReportInv, Shape, TypeOK
  <2>2. named # {}
    BY <2>1 DEF ReportInv, Reporting
  <2> QED
    BY <2>1, <2>2 DEF ReportInv
<1> QED
  BY <1>1, SpecReport, PTL

(***************************************************************************)
(* A run that saw a version under two hashes returns BLOCK.                *)
(***************************************************************************)
THEOREM TamperedRunBlocks == Spec => []TamperBlocks
<1>1. ReportInv => TamperBlocks
  BY DEF ReportInv, Reporting, TamperBlocks, Tampered
<1> QED
  BY <1>1, SpecReport, PTL

-----------------------------------------------------------------------------
(***************************************************************************)
(* The worker pool of runDiff: the shared cursor gives every ref one       *)
(* worker and one outcome.                                                 *)
(***************************************************************************)

\* Nothing has been asked of the pool yet.
BeforePool ==
  phase \in {"parse", "collect"} =>
    /\ idx = 1 /\ puts = {} /\ failed = <<>>
    /\ \A w \in Workers : pc[w] = "free"
    /\ \A id \in Id : snapshots[id] = None

\* refs.entries() lists every key of the map, once.
RefsListed ==
  /\ \A id \in Id : refOf[id] # None <=> \E k \in DOMAIN refList : refList[k] = id
  /\ \A i, j \in DOMAIN refList : refList[i] = refList[j] => i = j

\* A worker is on a position behind the cursor, alone, and owes its outcome.
Claimed ==
  /\ \A w \in Workers : Active(w) => cursor[w] < idx /\ ~Settled(Ref(w))
  /\ \A v, w \in Workers : v # w /\ Active(v) /\ Active(w) => cursor[v] # cursor[w]

\* Positions behind the cursor are settled or some worker is on them, those
\* ahead of it are untouched.
Covered ==
  /\ \A k \in DOMAIN refList :
       k < idx => Settled(refList[k]) \/ \E w \in Workers : Active(w) /\ cursor[w] = k
  /\ \A k \in DOMAIN refList : ~(k < idx) => ~Settled(refList[k])

Exited ==
  /\ \A w \in Workers : pc[w] = "exited" => idx > Len(refList)
  /\ phase \notin {"parse", "collect", "pool", "rejected"} =>
       \A w \in Workers : pc[w] = "exited"

\* failed holds no id twice and no id with a snapshot.
FailedOnce ==
  /\ \A i, j \in DOMAIN failed : failed[i] = failed[j] => i = j
  /\ \A k \in DOMAIN failed : snapshots[failed[k]] = None

\* A worker in its finally block carries an outcome; a write to the cache is
\* of a package analyzed by now, or by the worker that unlinks its tarball.
Stored ==
  /\ \A w \in Workers : pc[w] = "cleanup" => res[w] \in {"ok", "failed"}
  /\ \A id \in puts :
       \/ snapshots[id] # None
       \/ \E w \in Workers : pc[w] = "cleanup" /\ res[w] = "ok" /\ Ref(w) = id

PoolInv == BeforePool /\ RefsListed /\ Claimed /\ Covered /\ Exited /\ FailedOnce /\ Stored

-----------------------------------------------------------------------------
LEMMA InitPool == Init => PoolInv
<1> SUFFICES ASSUME Init PROVE PoolInv
  OBVIOUS
<1>1. BeforePool /\ RefsListed /\ Claimed /\ Covered /\ Exited /\ FailedOnce /\ Stored
  BY DEF Init, BeforePool, RefsListed, Claimed, Covered, Exited, FailedOnce, Stored, Active,
         Settled, Range
<1> QED
  BY <1>1 DEF PoolInv

\* A worker writes the outcome of its own ref and of no other.
LEMMA SettleFacts ==
  ASSUME Shape, NEW w \in Workers, Active(w), ~Settled(Ref(w)),
         NEW o \in {"ok", "failed"}, Settle(w, o), FailedOnce
  PROVE  /\ \A id \in Id : Settled(id)' <=> Settled(id) \/ id = Ref(w)
         /\ FailedOnce'
         /\ \A id \in Id : snapshots[id] # None => snapshots'[id] # None
         /\ o = "ok" => snapshots'[Ref(w)] # None
<1> DEFINE r == Ref(w)
<1>1. r \in Id /\ Analyzed(r) \in Id
  BY RefInId, InputsAssumption DEF Shape, TypeOK, Analyzed
<1>2. /\ snapshots \in [Id -> Id \cup {None}] /\ failed \in Seq(Id)
      /\ None \notin Id
  BY NullAssumption DEF Shape, TypeOK
<1>3. snapshots[r] = None /\ \A k \in DOMAIN failed : failed[k] # r
  BY DEF Settled, Range
<1>4. CASE o = "ok"
  <2>1. snapshots' = [snapshots EXCEPT ![r] = Analyzed(r)] /\ failed' = failed
    BY <1>4 DEF Settle
  <2> QED
    BY <1>1, <1>2, <1>3, <1>4, <2>1 DEF Settled, Range, FailedOnce
<1>5. CASE o = "failed"
  <2>1. failed' = Append(failed, r) /\ snapshots' = snapshots
    BY <1>5 DEF Settle
  <2>2. /\ DOMAIN failed' = 1..(Len(failed) + 1) /\ DOMAIN failed = 1..Len(failed)
        /\ Len(failed) \in Nat
        /\ \A k \in DOMAIN failed : failed'[k] = failed[k]
        /\ failed'[Len(failed) + 1] = r
    BY <1>1, <1>2, <2>1
  <2>3. \A id \in Id : id \in Range(failed') <=> id \in Range(failed) \/ id = r
    BY <2>2 DEF Range
  <2>4. \A id \in Id : Settled(id)' <=> Settled(id) \/ id = r
    BY <2>1, <2>3 DEF Settled
  <2>5. FailedOnce'
    BY <1>1, <1>3, <2>1, <2>2 DEF FailedOnce
  <2> QED
    BY <2>1, <2>4, <2>5, <1>5
<1> QED
  BY <1>4, <1>5

\* A worker that settles its ref frees its position and nobody else's.
LEMMA Release ==
  ASSUME Shape, PoolInv, NEW w \in Workers, NEW from \in PcValues \ {"free", "exited"},
         Goto(w, from, "free"), UNCHANGED <<phase, refs, idx, cursor>>,
         \A id \in Id : Settled(id)' <=> Settled(id) \/ id = Ref(w)
  PROVE  BeforePool' /\ RefsListed' /\ Claimed' /\ Covered' /\ Exited'
<1>1. /\ pc' \in [Workers -> PcValues] /\ pc[w] = from /\ pc'[w] = "free"
      /\ \A v \in Workers \ {w} : pc'[v] = pc[v]
  BY GotoFacts DEF PcValues
<1>2. Active(w) /\ ~Active(w)' /\ \A v \in Workers \ {w} : Active(v)' <=> Active(v)
  BY <1>1 DEF Active
<1>3. phase = "pool"
  BY DEF Goto
<1>4. BeforePool'
  BY <1>3 DEF BeforePool
<1>5. RefsListed'
  BY DEF PoolInv, RefsListed, refs
<1>6. \A v \in Workers : Ref(v)' = Ref(v)
  BY DEF Ref, refs
<1>7. /\ \A v \in Workers : Active(v) => cursor[v] \in DOMAIN refList
      /\ refList \in Seq(Id)
  BY DEF Shape, InRange, TypeOK
<1>8. Claimed'
  <2>1. \A v \in Workers : Active(v)' => cursor'[v] < idx'
    BY <1>2 DEF PoolInv, Claimed
  <2>2. \A u, v \in Workers : u # v /\ Active(u)' /\ Active(v)' => cursor'[u] # cursor'[v]
    BY <1>2 DEF PoolInv, Claimed
  <2>3. ASSUME NEW v \in Workers, Active(v)' PROVE ~Settled(Ref(v))'
    <3>1. v # w /\ Active(v)
      BY <1>2, <2>3
    <3>2. Ref(v) # Ref(w)
      BY <3>1, <1>2, <1>7 DEF PoolInv, Claimed, RefsListed, Ref
    <3>3. ~Settled(Ref(v)) /\ Ref(v) \in Id
      BY <3>1, RefInId DEF PoolInv, Claimed
    <3>4. Ref(v)' = Ref(v)
      BY <1>6
    <3> QED
      BY <3>2, <3>3, <3>4 DEF Settled
  <2> QED
    BY <2>1, <2>2, <2>3 DEF Claimed
<1>9. Covered'
  <2>1. ASSUME NEW k \in DOMAIN refList', k < idx'
        PROVE  Settled(refList[k])' \/ \E v \in Workers : Active(v)' /\ cursor'[v] = k
    <3>1. k \in DOMAIN refList /\ k < idx /\ refList[k] \in Id /\ refList' = refList
      BY <2>1, <1>7 DEF refs
    <3>2. CASE Settled(refList[k])
      BY <3>1, <3>2
    <3>3. CASE \E v \in Workers : Active(v) /\ cursor[v] = k
      <4>1. PICK v \in Workers : Active(v) /\ cursor[v] = k
        BY <3>3
      <4>2. CASE v = w
        BY <4>1, <4>2, <3>1 DEF Ref
      <4>3. CASE v # w
        BY <4>1, <4>3, <1>2
      <4> QED
        BY <4>2, <4>3
    <3> QED
      BY <3>1, <3>2, <3>3 DEF PoolInv, Covered
  <2>2. ASSUME NEW k \in DOMAIN refList', ~(k < idx')
        PROVE  ~Settled(refList[k])'
    <3>1. k \in DOMAIN refList /\ ~(k < idx) /\ refList[k] \in Id /\ refList' = refList
      BY <2>2, <1>7 DEF refs
    <3>2. cursor[w] < idx /\ cursor[w] \in DOMAIN refList
      BY <1>2, <1>7 DEF PoolInv, Claimed
    <3>3. refList[k] # Ref(w)
      BY <3>1, <3>2 DEF PoolInv, RefsListed, Ref
    <3> QED
      BY <3>1, <3>3 DEF PoolInv, Covered
  <2> QED
    BY <2>1, <2>2 DEF Covered, refs
<1>10. Exited'
  BY <1>1, <1>3 DEF PoolInv, Exited, refs
<1> QED
  BY <1>4, <1>5, <1>8, <1>9, <1>10

\* A worker that goes on with its ref leaves every position as it was.
LEMMA Carry ==
  ASSUME Shape, PoolInv, NEW w \in Workers,
         NEW from \in PcValues \ {"free", "exited"}, NEW to \in PcValues \ {"free", "exited"},
         Goto(w, from, to), UNCHANGED <<phase, refs, idx, cursor, outcomes>>
  PROVE  BeforePool' /\ RefsListed' /\ Claimed' /\ Covered' /\ Exited' /\ FailedOnce'
<1>1. /\ pc' \in [Workers -> PcValues] /\ pc[w] = from /\ pc'[w] = to
      /\ \A v \in Workers \ {w} : pc'[v] = pc[v]
  BY GotoFacts
<1>2. \A v \in Workers : Active(v)' <=> Active(v)
  BY <1>1 DEF Active
<1>3. phase = "pool"
  BY DEF Goto
<1>4. BeforePool' /\ RefsListed' /\ FailedOnce'
  BY <1>3 DEF PoolInv, BeforePool, RefsListed, FailedOnce, refs, outcomes
<1>5. Claimed'
  BY <1>2 DEF PoolInv, Claimed, Settled, Ref, Range, refs, outcomes
<1>6. Covered'
  BY <1>2 DEF PoolInv, Covered, Settled, Range, refs, outcomes
<1>7. Exited'
  BY <1>1, <1>3 DEF PoolInv, Exited, refs
<1> QED
  BY <1>4, <1>5, <1>6, <1>7

\* What waits for the cache still does while w goes on, unless w was about to
\* settle it.
LEMMA StoredKept ==
  ASSUME Shape, PoolInv, NEW w \in Workers, NEW from \in PcValues, NEW to \in PcValues,
         Goto(w, from, to), from # "cleanup", to # "cleanup",
         UNCHANGED <<refs, cursor, res, puts>>,
         \A id \in Id : snapshots[id] # None => snapshots'[id] # None
  PROVE  Stored'
<1>1. /\ pc[w] = from /\ pc'[w] = to
      /\ \A v \in Workers \ {w} : pc'[v] = pc[v]
  BY GotoFacts
<1>2. \A v \in Workers : pc'[v] = "cleanup" <=> pc[v] = "cleanup"
  BY <1>1
<1>3. puts \subseteq Id
  BY DEF Shape, TypeOK
<1> QED
  BY <1>2, <1>3 DEF PoolInv, Stored, Ref, refs

LEMMA SettlingPool ==
  ASSUME Shape, PoolInv, NEW w \in Workers, FetchFails(w) \/ FetchTimesOut(w) \/ GzipRejected(w)
  PROVE  PoolInv'
<1>1. PICK from \in {"fetch", "gzip"} : Goto(w, from, "free")
  BY DEF FetchFails, FetchTimesOut, GzipRejected
<1>2. Settle(w, "failed") /\ UNCHANGED <<phase, refs, idx, cursor, res, puts>>
  BY DEF FetchFails, FetchTimesOut, GzipRejected, disk
<1>3. Active(w)
  BY <1>1 DEF Active, Goto
<1>4. ~Settled(Ref(w)) /\ FailedOnce
  BY <1>3 DEF PoolInv, Claimed
<1>5. /\ \A id \in Id : Settled(id)' <=> Settled(id) \/ id = Ref(w)
      /\ FailedOnce'
      /\ \A id \in Id : snapshots[id] # None => snapshots'[id] # None
  BY <1>2, <1>3, <1>4, SettleFacts
<1>6. BeforePool' /\ RefsListed' /\ Claimed' /\ Covered' /\ Exited'
  BY <1>1, <1>2, <1>5, Release DEF PcValues
<1>7. Stored'
  BY <1>1, <1>2, <1>5, StoredKept DEF PcValues
<1> QED
  BY <1>5, <1>6, <1>7 DEF PoolInv

LEMMA CleanupPool ==
  ASSUME Shape, PoolInv, NEW w \in Workers, Cleanup(w)
  PROVE  PoolInv'
<1>1. Goto(w, "cleanup", "free")
  BY DEF Cleanup
<1>2. Settle(w, res[w]) /\ UNCHANGED <<phase, refs, idx, cursor, puts>>
  BY DEF Cleanup
<1>3. Active(w) /\ pc[w] = "cleanup"
  BY <1>1 DEF Active, Goto
<1>4. ~Settled(Ref(w)) /\ FailedOnce /\ res[w] \in {"ok", "failed"}
  BY <1>3 DEF PoolInv, Claimed, Stored
<1>5. /\ \A id \in Id : Settled(id)' <=> Settled(id) \/ id = Ref(w)
      /\ FailedOnce'
      /\ \A id \in Id : snapshots[id] # None => snapshots'[id] # None
      /\ res[w] = "ok" => snapshots'[Ref(w)] # None
  BY <1>2, <1>3, <1>4, SettleFacts
<1>6. BeforePool' /\ RefsListed' /\ Claimed' /\ Covered' /\ Exited'
  BY <1>1, <1>2, <1>5, Release DEF PcValues
<1>7. Stored'
  <2>1. /\ pc'[w] = "free" /\ \A v \in Workers \ {w} : pc'[v] = pc[v] /\ res'[v] = res[v]
    BY <1>1, GotoFacts DEF PcValues, Cleanup, Shape, TypeOK
  <2>2. \A v \in Workers : pc'[v] = "cleanup" => res'[v] \in {"ok", "failed"}
    BY <2>1 DEF PoolInv, Stored
  <2>3. ASSUME NEW id \in puts'
        PROVE  \/ snapshots'[id] # None
               \/ \E v \in Workers : pc'[v] = "cleanup" /\ res'[v] = "ok" /\ Ref(v)' = id
    <3>1. id \in puts /\ id \in Id
      BY <2>3, <1>2 DEF Shape, TypeOK
    <3>2. CASE snapshots[id] # None
      BY <3>1, <3>2, <1>5
    <3>3. ASSUME NEW v \in Workers, pc[v] = "cleanup", res[v] = "ok", Ref(v) = id
          PROVE  \/ snapshots'[id] # None
                 \/ pc'[v] = "cleanup" /\ res'[v] = "ok" /\ Ref(v)' = id
      <4>1. CASE v = w
        BY <3>3, <4>1, <1>5
      <4>2. CASE v # w
        BY <3>3, <4>2, <2>1, <1>2 DEF Ref, refs
      <4> QED
        BY <4>1, <4>2
    <3> QED
      BY <3>1, <3>2, <3>3 DEF PoolInv, Stored
  <2> QED
    BY <2>2, <2>3 DEF Stored, Ref
<1> QED
  BY <1>5, <1>6, <1>7 DEF PoolInv

LEMMA CacheHitPool ==
  ASSUME Shape, PoolInv, NEW w \in Workers, CacheHit(w)
  PROVE  PoolInv'
<1>1. Goto(w, "lookup", "free")
  BY DEF CacheHit
<1>2. UNCHANGED <<phase, refs, idx, cursor, res, puts, failed>>
  BY DEF CacheHit, disk
<1>3. Active(w)
  BY <1>1 DEF Active, Goto
<1>4. Ref(w) \in Id /\ None \notin Id /\ ~Settled(Ref(w))
  BY <1>3, RefInId, NullAssumption DEF PoolInv, Claimed
<1>5. snapshots' = [snapshots EXCEPT ![Ref(w)] = Ref(w)] /\ snapshots \in [Id -> Id \cup {None}]
  BY DEF CacheHit, Shape, TypeOK
<1>6. \A id \in Id : snapshots'[id] = IF id = Ref(w) THEN Ref(w) ELSE snapshots[id]
  BY <1>4, <1>5
<1>7. \A id \in Id : Settled(id)' <=> Settled(id) \/ id = Ref(w)
  BY <1>2, <1>4, <1>6 DEF Settled
<1>8. BeforePool' /\ RefsListed' /\ Claimed' /\ Covered' /\ Exited'
  BY <1>1, <1>2, <1>7, Release DEF PcValues
<1>9. FailedOnce'
  <2>1. \A k \in DOMAIN failed : failed[k] \in Id /\ failed[k] # Ref(w)
    BY <1>4 DEF Shape, TypeOK, Settled, Range
  <2> QED
    BY <2>1, <1>2, <1>6 DEF PoolInv, FailedOnce
<1>10. Stored'
  BY <1>1, <1>2, <1>4, <1>6, StoredKept DEF PcValues
<1> QED
  BY <1>8, <1>9, <1>10 DEF PoolInv

LEMMA CarryingPool ==
  ASSUME Shape, PoolInv, NEW w \in Workers,
         CacheMiss(w) \/ FetchOk(w) \/ GzipOk(w) \/ Analyze(w)
  PROVE  PoolInv'
<1>1. PICK from \in PcValues \ {"free", "exited", "cleanup"}, to \in PcValues \ {"free", "exited"} :
        Goto(w, from, to)
  BY DEF CacheMiss, FetchOk, GzipOk, Analyze, AnalyzeOk, AnalyzeFails, AnalyzeTimesOut, PcValues
<1>2. UNCHANGED <<phase, refs, idx, cursor, outcomes>>
  BY DEF CacheMiss, FetchOk, GzipOk, Analyze, AnalyzeOk, AnalyzeFails, AnalyzeTimesOut
<1>3. BeforePool' /\ RefsListed' /\ Claimed' /\ Covered' /\ Exited' /\ FailedOnce'
  BY <1>1, <1>2, Carry
<1>4. Stored'
  <2>1. CASE CacheMiss(w) \/ FetchOk(w) \/ GzipOk(w)
    <3>1. PICK f \in PcValues \ {"cleanup"}, t \in PcValues \ {"cleanup"} : Goto(w, f, t)
      BY <2>1 DEF CacheMiss, FetchOk, GzipOk, PcValues
    <3>2. UNCHANGED <<res, puts>>
      BY <2>1 DEF CacheMiss, FetchOk, GzipOk, disk
    <3> QED
      BY <3>1, <3>2, <1>2, StoredKept DEF outcomes
  <2>2. CASE Analyze(w)
    <3>1. /\ pc[w] = "analyze" /\ pc'[w] = "cleanup"
          /\ \A v \in Workers \ {w} : pc'[v] = pc[v]
      BY <2>2, GotoFacts
         DEF Analyze, AnalyzeOk, AnalyzeFails, AnalyzeTimesOut, PcValues
    <3>2. /\ res'[w] \in {"ok", "failed"}
          /\ \A v \in Workers \ {w} : res'[v] = res[v]
          /\ puts' = puts \/ (puts' = puts \cup {Ref(w)} /\ res'[w] = "ok")
      BY <2>2 DEF Analyze, AnalyzeOk, AnalyzeFails, AnalyzeTimesOut, Shape, TypeOK, disk
    <3>3. \A v \in Workers : Ref(v)' = Ref(v)
      BY <1>2 DEF Ref, refs
    <3> QED
      BY <3>1, <3>2, <3>3, <1>2 DEF PoolInv, Stored, outcomes
  <2> QED
    BY <2>1, <2>2
<1> QED
  BY <1>3, <1>4 DEF PoolInv

LEMMA ClaimPool ==
  ASSUME Shape, PoolInv, NEW w \in Workers, Claim(w)
  PROVE  PoolInv'
<1>1. PICK to \in {"fetch", "lookup"} : Goto(w, "free", to)
  BY DEF Claim
<1>2. /\ pc[w] = "free" /\ pc'[w] = to /\ phase = "pool"
      /\ \A v \in Workers \ {w} : pc'[v] = pc[v]
  BY <1>1, GotoFacts DEF PcValues, Goto
<1>3. Active(w)' /\ \A v \in Workers \ {w} : Active(v)' <=> Active(v)
  BY <1>2 DEF Active
<1>4. /\ idx \in DOMAIN refList /\ idx \in Nat /\ idx' = idx + 1
      /\ cursor'[w] = idx /\ \A v \in Workers \ {w} : cursor'[v] = cursor[v]
      /\ refList \in Seq(Id)
  BY DEF Claim, Shape, TypeOK
<1>5. UNCHANGED <<phase, refs, res, disk, outcomes>>
  BY DEF Claim
<1>6. \A id : Settled(id)' <=> Settled(id)
  BY <1>5 DEF Settled, outcomes
<1>7. BeforePool' /\ RefsListed' /\ FailedOnce'
  BY <1>2, <1>5 DEF PoolInv, BeforePool, RefsListed, FailedOnce, refs, outcomes
<1>8. \A v \in Workers : Active(v) => cursor[v] < idx /\ cursor[v] \in Nat
  BY DEF PoolInv, Claimed, Shape, TypeOK
<1>9. Claimed'
  <2>1. ASSUME NEW v \in Workers, Active(v)' PROVE cursor'[v] < idx' /\ ~Settled(Ref(v))'
    <3>1. CASE v = w
      <4>1. ~Settled(refList[idx])
        BY <1>4 DEF PoolInv, Covered
      <4>2. Ref(v)' = refList[idx]
        BY <3>1, <1>4, <1>5 DEF Ref, refs
      <4> QED
        BY <4>1, <4>2, <3>1, <1>4, <1>5 DEF Settled, outcomes
    <3>2. CASE v # w
      <4>1. Ref(v)' = Ref(v) /\ Active(v) /\ cursor'[v] = cursor[v]
        BY <3>2, <2>1, <1>3, <1>4, <1>5 DEF Ref, refs
      <4>2. ~Settled(Ref(v))
        BY <4>1 DEF PoolInv, Claimed
      <4> QED
        BY <4>1, <4>2, <1>4, <1>5, <1>8 DEF Settled, outcomes
    <3> QED
      BY <3>1, <3>2
  <2>2. \A u, v \in Workers : u # v /\ Active(u)' /\ Active(v)' => cursor'[u] # cursor'[v]
    BY <1>3, <1>4, <1>8 DEF PoolInv, Claimed
  <2> QED
    BY <2>1, <2>2 DEF Claimed
<1>10. Covered'
  <2>1. ASSUME NEW k \in DOMAIN refList, k < idx + 1
        PROVE  Settled(refList[k]) \/ \E v \in Workers : Active(v)' /\ cursor'[v] = k
    <3>1. CASE k = idx
      BY <3>1, <1>3, <1>4
    <3>2. CASE k # idx
      <4>1. k < idx
        BY <2>1, <3>2, <1>4
      <4>2. \A v \in Workers : Active(v) => v # w
        BY <1>2 DEF Active
      <4> QED
        BY <4>1, <4>2, <1>3, <1>4 DEF PoolInv, Covered
    <3> QED
      BY <3>1, <3>2
  <2>2. \A k \in DOMAIN refList : ~(k < idx + 1) => ~Settled(refList[k])
    BY <1>4 DEF PoolInv, Covered
  <2> QED
    BY <2>1, <2>2, <1>4, <1>5 DEF Covered, Settled, refs, outcomes
<1>11. Exited'
  <2>1. ~(idx > Len(refList))
    BY <1>4
  <2>2. \A v \in Workers : pc[v] # "exited"
    BY <2>1 DEF PoolInv, Exited
  <2>3. \A v \in Workers : pc'[v] # "exited"
    BY <1>2, <2>2
  <2> QED
    BY <2>3, <1>2, <1>5 DEF Exited
<1>12. Stored'
  <2>1. \A v \in Workers : pc'[v] = "cleanup" <=> pc[v] = "cleanup"
    BY <1>2
  <2>2. \A v \in Workers : pc[v] = "cleanup" => Ref(v)' = Ref(v)
    BY <1>2, <1>4, <1>5 DEF Ref, refs
  <2> QED
    BY <2>1, <2>2, <1>5 DEF PoolInv, Stored, disk, outcomes
<1> QED
  BY <1>7, <1>9, <1>10, <1>11, <1>12 DEF PoolInv

LEMMA RetirePool ==
  ASSUME Shape, PoolInv, NEW w \in Workers, Retire(w)
  PROVE  PoolInv'
<1>1. Goto(w, "free", "exited")
  BY DEF Retire
<1>2. /\ pc[w] = "free" /\ pc'[w] = "exited" /\ phase = "pool"
      /\ \A v \in Workers \ {w} : pc'[v] = pc[v]
  BY <1>1, GotoFacts DEF PcValues, Goto
<1>3. \A v \in Workers : Active(v)' <=> Active(v)
  BY <1>2 DEF Active
<1>4. /\ idx \in Nat /\ idx' = idx + 1 /\ Len(refList) \in Nat /\ idx > Len(refList)
      /\ \A k \in DOMAIN refList : k \in Nat /\ k <= Len(refList)
      /\ cursor \in [Workers -> Nat]
  BY DEF Retire, Shape, TypeOK
<1>5. UNCHANGED <<phase, refs, cursor, res, disk, outcomes>>
  BY DEF Retire
<1>6. BeforePool' /\ RefsListed' /\ FailedOnce'
  BY <1>2, <1>5 DEF PoolInv, BeforePool, RefsListed, FailedOnce, refs, outcomes
<1>7. Claimed'
  BY <1>3, <1>4, <1>5 DEF PoolInv, Claimed, Settled, Ref, refs, outcomes
<1>8. Covered'
  BY <1>3, <1>4, <1>5 DEF PoolInv, Covered, Settled, refs, outcomes
<1>9. Exited'
  <2>1. idx' > Len(refList')
    BY <1>4, <1>5 DEF refs
  <2> QED
    BY <2>1, <1>2, <1>5 DEF Exited
<1>10. Stored'
  BY <1>1, <1>5, StoredKept DEF PcValues, disk, outcomes
<1> QED
  BY <1>6, <1>7, <1>8, <1>9, <1>10 DEF PoolInv

LEMMA WorkPool ==
  ASSUME Shape, PoolInv, NEW w \in Workers, Work(w)
  PROVE  PoolInv'
BY SettlingPool, CleanupPool, CacheHitPool, CarryingPool, ClaimPool, RetirePool
   DEF Work, Fetch, Lookup, Gzip

-----------------------------------------------------------------------------
\* One iteration of the collecting loop lists the keys it adds to the map.
LEMMA CollectPool ==
  ASSUME Shape, PoolInv, CollectRefs
  PROVE  PoolInv'
<1> DEFINE c == Changes[ci]
           r == WithNew(c, refOf)
           l == ListNew(c)
           Lists(s, f) == /\ \A id \in Id : f[id] # None <=> \E k \in DOMAIN s : s[k] = id
                          /\ \A i, j \in DOMAIN s : s[i] = s[j] => i = j
<1>1. WellFormed(c)
  BY ChangeFacts, InputsAssumption DEF Shape, TypeOK, CollectRefs, Changes
<1>2. /\ None \notin RefType
      /\ refOf \in [Id -> RefType \cup {None}] /\ refList \in Seq(Id)
      /\ Lists(refList, refOf)
  BY NullAssumption DEF Shape, TypeOK, PoolInv, RefsListed
<1>3. ASSUME NEW s \in Seq(Id), NEW f \in [Id -> RefType \cup {None}], Lists(s, f),
             NEW id \in Id, NEW ref \in RefType
      PROVE  Lists(IF f[id] = None THEN Append(s, id) ELSE s, [f EXCEPT ![id] = ref])
  <2>1. CASE f[id] = None
    <3>1. /\ DOMAIN Append(s, id) = 1..(Len(s) + 1) /\ DOMAIN s = 1..Len(s) /\ Len(s) \in Nat
          /\ \A k \in DOMAIN s : Append(s, id)[k] = s[k]
          /\ Append(s, id)[Len(s) + 1] = id
      BY <1>3
    <3>2. \A k \in DOMAIN s : s[k] # id
      BY <1>3, <2>1
    <3>3. \A i, j \in DOMAIN Append(s, id) : Append(s, id)[i] = Append(s, id)[j] => i = j
      BY <3>1, <3>2, <1>3
    <3>4. \A x \in Id : [f EXCEPT ![id] = ref][x] # None
                          <=> \E k \in DOMAIN Append(s, id) : Append(s, id)[k] = x
      BY <3>1, <1>2, <1>3
    <3> QED
      BY <2>1, <3>3, <3>4
  <2>2. CASE f[id] # None
    BY <1>2, <1>3, <2>2
  <2> QED
    BY <2>1, <2>2
<1>4. /\ l \in Seq(Id) /\ r \in [Id -> RefType \cup {None}]
      /\ Lists(l, r)
  <2>1. CASE HasNew(c)
    <3>1. NewId(c) \in Id /\ RefTo(c.newI, c.newResolved) \in RefType
      BY <1>1, <2>1, IdFacts
    <3>2. Lists(IF refOf[NewId(c)] = None THEN Append(refList, NewId(c)) ELSE refList,
                [refOf EXCEPT ![NewId(c)] = RefTo(c.newI, c.newResolved)])
      BY <3>1, <1>2, <1>3
    <3> QED
      BY <2>1, <3>1, <3>2, <1>2 DEF WithNew, ListNew
  <2>2. CASE ~HasNew(c)
    BY <2>2, <1>2 DEF WithNew, ListNew
  <2> QED
    BY <2>1, <2>2
<1>5. Lists(ListOld(c, l, r), WithOld(c, r))
  <2>1. CASE HasOld(c)
    <3>1. OldId(c) \in Id /\ RefTo(c.oldI, c.oldResolved) \in RefType
      BY <1>1, <2>1, IdFacts
    <3>2. Lists(IF r[OldId(c)] = None THEN Append(l, OldId(c)) ELSE l,
                [r EXCEPT ![OldId(c)] = RefTo(c.oldI, c.oldResolved)])
      BY <3>1, <1>4, <1>3
    <3> HIDE DEF r, l
    <3> QED
      BY <2>1, <3>2 DEF WithOld, ListOld
  <2>2. CASE ~HasOld(c)
    <3> HIDE DEF r, l
    <3> QED
      BY <2>2, <1>4 DEF WithOld, ListOld
  <2> QED
    BY <2>1, <2>2
<1>6. refList' = ListOld(c, l, r) /\ refOf' = WithOld(c, r)
  BY DEF CollectRefs
<1>7. RefsListed'
  BY <1>5, <1>6 DEF RefsListed
<1>8. /\ UNCHANGED <<phase, pool, disk, outcomes>> /\ phase = "collect"
      /\ idx = 1 /\ puts = {} /\ failed = <<>>
      /\ \A w \in Workers : pc[w] = "free"
      /\ \A id \in Id : snapshots[id] = None
  BY DEF CollectRefs, PoolInv, BeforePool
<1>9. refList' \in Seq(Id)
  BY CollectShape DEF Shape, TypeOK
<1>10. BeforePool' /\ Claimed' /\ Exited' /\ FailedOnce' /\ Stored'
  BY <1>8 DEF BeforePool, Claimed, Exited, FailedOnce, Stored, Active, pool, disk, outcomes
<1>11. Covered'
  <2>1. \A k \in DOMAIN refList' : ~(k < 1) /\ refList'[k] \in Id
    BY <1>9
  <2> QED
    BY <2>1, <1>8 DEF Covered, Settled, Range, pool, outcomes
<1> QED
  BY <1>7, <1>10, <1>11 DEF PoolInv

LEMMA ReportPool ==
  ASSUME Shape, PoolInv,
         Parse \/ EndLoop \/ PoolDone \/ DetectChange \/ DetectThrows
           \/ FailureOfChange \/ FailureLeft \/ Surface \/ Publish
  PROVE  PoolInv'
<1>1. UNCHANGED <<refs, pool, disk, outcomes>>
  BY DEF Parse, EndLoop, PoolDone, DetectChange, DetectThrows, FailureOfChange, FailureLeft,
         Surface, Publish, report
<1>2. phase' \in {"parse", "collect"} => phase \in {"parse", "collect"}
  BY DEF Parse, EndLoop, PoolDone, DetectChange, DetectThrows, FailureOfChange, FailureLeft,
         Surface, Publish, PhaseAfter
<1>3. phase' \notin {"parse", "collect", "pool", "rejected"} =>
        \/ phase \notin {"parse", "collect", "pool", "rejected"}
        \/ \A w \in Workers : pc[w] = "exited"
  BY DEF Parse, EndLoop, PoolDone, DetectChange, DetectThrows, FailureOfChange, FailureLeft,
         Surface, Publish, PhaseAfter
<1>4. BeforePool' /\ Exited'
  BY <1>1, <1>2, <1>3 DEF PoolInv, BeforePool, Exited, refs, pool, disk, outcomes
<1>5. RefsListed' /\ FailedOnce'
  BY <1>1 DEF PoolInv, RefsListed, FailedOnce, refs, outcomes
<1>6. Claimed' /\ Covered' /\ Stored'
  BY <1>1 DEF PoolInv, Claimed, Covered, Stored, Active, Settled, Ref, Range,
              refs, pool, disk, outcomes
<1> QED
  BY <1>4, <1>5, <1>6 DEF PoolInv

LEMMA BackgroundPool ==
  ASSUME Shape, PoolInv, Background
  PROVE  PoolInv'
<1>1. UNCHANGED <<phase, refs, pool, outcomes>> /\ puts' \subseteq puts
  BY DEF Background, LateFetchEnds, PutLands, PutFails
<1>2. BeforePool' /\ Exited' /\ RefsListed' /\ FailedOnce'
  BY <1>1 DEF PoolInv, BeforePool, Exited, RefsListed, FailedOnce, refs, pool, outcomes
<1>3. Claimed' /\ Covered' /\ Stored'
  BY <1>1 DEF PoolInv, Claimed, Covered, Stored, Active, Settled, Ref, Range,
              refs, pool, outcomes
<1> QED
  BY <1>2, <1>3 DEF PoolInv

LEMMA PoolStep == Shape /\ PoolInv /\ [Next]_vars => PoolInv'
<1> SUFFICES ASSUME Shape, PoolInv, [Next]_vars PROVE PoolInv'
  OBVIOUS
<1>1. CASE Main
  BY <1>1, CollectPool, ReportPool DEF Main
<1>2. ASSUME NEW w \in Workers, Work(w) PROVE PoolInv'
  BY <1>2, WorkPool
<1>3. CASE Background
  BY <1>3, BackgroundPool
<1>4. CASE UNCHANGED vars
  BY <1>4 DEF vars, refs, pool, disk, outcomes, PoolInv, BeforePool, RefsListed, Claimed,
              Covered, Exited, FailedOnce, Stored, Active, Settled, Ref, Range
<1> QED
  BY <1>1, <1>2, <1>3, <1>4 DEF Next

LEMMA SpecPool == Spec => [](Shape /\ PoolInv)
BY InitShape, InitPool, ShapeStep, PoolStep, PTL DEF Spec

LEMMA SettledOnceOfPool == Shape /\ PoolInv => SettledOnce
<1> SUFFICES ASSUME Shape, PoolInv PROVE SettledOnce
  OBVIOUS
<1>1. \A v, w \in Workers : v # w /\ Active(v) /\ Active(w) => Ref(v) # Ref(w)
  BY DEF PoolInv, Claimed, RefsListed, Ref, Shape, InRange, TypeOK
<1>2. \A i, j \in DOMAIN failed : failed[i] = failed[j] => i = j
  BY DEF PoolInv, FailedOnce
<1>3. \A id \in Range(failed) : snapshots[id] = None
  BY DEF PoolInv, FailedOnce, Range
<1>4. ASSUME phase \notin {"parse", "collect", "pool", "rejected"},
             NEW id \in Id, refOf[id] # None
      PROVE  Settled(id)
  <2>1. PICK k \in DOMAIN refList : refList[k] = id
    BY <1>4 DEF PoolInv, RefsListed
  <2>2. PICK w \in Workers : TRUE
    BY WorkersAssumption
  <2>3. \A v \in Workers : pc[v] = "exited"
    BY <1>4 DEF PoolInv, Exited
  <2>4. idx > Len(refList)
    BY <2>2, <2>3 DEF PoolInv, Exited
  <2>5. k < idx
    BY <2>4 DEF Shape, TypeOK
  <2> QED
    BY <2>1, <2>3, <2>5 DEF PoolInv, Covered, Active
<1> QED
  BY <1>1, <1>2, <1>3, <1>4 DEF SettledOnce

(***************************************************************************)
(* No two workers are on one ref, no ref has two outcomes, and after the   *)
(* pool every ref has one.                                                 *)
(***************************************************************************)
THEOREM EveryRefSettledOnce == Spec => []SettledOnce
BY SettledOnceOfPool, SpecPool, PTL

(***************************************************************************)
(* Nothing of a package that failed is on its way to the cache.            *)
(***************************************************************************)
THEOREM NoFailureIsCached == Spec => []FailuresNotCached
<1>1. Shape /\ PoolInv => FailuresNotCached
  <2> SUFFICES ASSUME Shape, PoolInv, NEW id \in puts, id \in Range(failed) PROVE FALSE
    BY DEF FailuresNotCached
  <2>1. snapshots[id] = None
    BY DEF PoolInv, FailedOnce, Range
  <2>2. PICK w \in Workers : pc[w] = "cleanup" /\ Ref(w) = id
    BY <2>1 DEF PoolInv, Stored
  <2>3. ~Settled(id)
    BY <2>2 DEF PoolInv, Claimed, Active
  <2> QED
    BY <2>3 DEF Settled
<1> QED
  BY <1>1, SpecPool, PTL

(***************************************************************************)
(* The cache never gives a package the snapshot of another one.            *)
(***************************************************************************)
THEOREM CacheIsTransparent == Spec => []CacheTransparent
<1>1. Init => CacheTransparent
  BY DEF Init, CacheTransparent
<1>2. Shape /\ CacheTransparent /\ [Next]_vars => CacheTransparent'
  <2> SUFFICES ASSUME Shape, CacheTransparent, [Next]_vars PROVE CacheTransparent'
    OBVIOUS
  <2>1. ASSUME NEW w \in Workers, CacheHit(w) PROVE CacheTransparent'
    <3>1. Ref(w) \in Id
      BY <2>1, RefInId DEF CacheHit, Goto, Active
    <3>2. snapshots' = [snapshots EXCEPT ![Ref(w)] = Ref(w)] /\ input' = input
      BY <2>1 DEF CacheHit
    <3> QED
      BY <3>1, <3>2 DEF CacheTransparent, Analyzed, Shape, TypeOK
  <2>2. ASSUME NEW w \in Workers, NEW o, Settle(w, o), input' = input
        PROVE  CacheTransparent'
    <3>1. snapshots' = snapshots \/ snapshots' = [snapshots EXCEPT ![Ref(w)] = Analyzed(Ref(w))]
      BY <2>2 DEF Settle
    <3> QED
      BY <3>1, <2>2 DEF CacheTransparent, Analyzed, Shape, TypeOK
  <2>3. CASE UNCHANGED <<input, snapshots>>
    BY <2>3 DEF CacheTransparent, Analyzed
  <2>4. CASE Main
    BY <2>3, <2>4 DEF Main, Parse, CollectRefs, EndLoop, PoolDone, DetectChange, DetectThrows,
         FailureOfChange, FailureLeft, Surface, Publish, outcomes
  <2>5. CASE Background
    BY <2>3, <2>5 DEF Background, LateFetchEnds, PutLands, PutFails, outcomes
  <2>6. ASSUME NEW w \in Workers, Work(w) PROVE CacheTransparent'
    <3>1. CASE FetchFails(w) \/ FetchTimesOut(w) \/ GzipRejected(w) \/ Cleanup(w)
      BY <2>2, <3>1 DEF FetchFails, FetchTimesOut, GzipRejected, Cleanup
    <3>2. CASE Claim(w) \/ Retire(w) \/ CacheMiss(w) \/ FetchOk(w) \/ GzipOk(w) \/ Analyze(w)
      BY <2>3, <3>2 DEF Claim, Retire, CacheMiss, FetchOk, GzipOk, Analyze, AnalyzeOk,
           AnalyzeFails, AnalyzeTimesOut, outcomes
    <3> QED
      BY <2>1, <2>6, <3>1, <3>2 DEF Work, Lookup, Fetch, Gzip
  <2>7. CASE UNCHANGED vars
    BY <2>3, <2>7 DEF vars, outcomes
  <2> QED
    BY <2>4, <2>5, <2>6, <2>7 DEF Next
<1> QED
  BY <1>1, <1>2, InitShape, ShapeStep, PTL DEF Spec

-----------------------------------------------------------------------------
(***************************************************************************)
(* ScanEngine implements FailClosedRun: whatever the pool, the timeouts,   *)
(* the cache and the report do, a reader of the verdict sees a run that    *)
(* asks, is answered once per package, and fails closed.                   *)
(***************************************************************************)

Verdict == IF phase = "rejected" THEN "rejected" ELSE verdict

\* What the promise sees of a state, one package at a time.
LEMMA OutcomeOf ==
  ASSUME NEW id \in Id
  PROVE  Outcome[id] = IF id \in Range(failed) THEN "failed"
                       ELSE IF snapshots[id] # None THEN "ok"
                       ELSE IF refOf[id] # None THEN "pending" ELSE "unasked"
BY DEF Outcome

LEMMA InitPromise == Init => Promise!Init
<1> SUFFICES ASSUME Init PROVE Promise!Init
  OBVIOUS
<1>1. Outcome = [id \in Id |-> "unasked"]
  BY DEF Init, Outcome, Range
<1>2. Tampered \in BOOLEAN /\ Verdict = None
  BY DEF Init, Tampered, Verdict
<1> QED
  BY <1>1, <1>2 DEF Promise!Init, Verdict

\* Nothing the promise can see has moved.
LEMMA Stutter ==
  ASSUME UNCHANGED <<input, refs, outcomes>>, Verdict' = Verdict
  PROVE  UNCHANGED Promise!vars
BY DEF Promise!vars, Verdict, Outcome, Tampered, Changes, refs, outcomes

LEMMA CollectAsks ==
  ASSUME Shape, PoolInv, ReportInv, CollectRefs
  PROVE  \E ids \in SUBSET Id : Promise!Ask(ids)
<1> DEFINE ids == {id \in Id : refOf'[id] # None}
<1>1. /\ phase = "collect" /\ failed = <<>> /\ \A id \in Id : snapshots[id] = None
      /\ UNCHANGED <<input, phase, outcomes, report>>
  BY DEF CollectRefs, PoolInv, BeforePool
<1>2. verdict = None /\ Verdict = None /\ Verdict' = Verdict /\ Tampered' = Tampered
  BY <1>1 DEF ReportInv, Verdict, Tampered, Changes, report
<1>3. \A id \in Id : id \notin Range(failed) /\ id \notin Range(failed)'
  BY <1>1 DEF Range, outcomes
<1>4. \A id \in Id : Outcome[id] = IF refOf[id] # None THEN "pending" ELSE "unasked"
  BY <1>1, <1>3 DEF Outcome
<1>5. \A id \in Id : Outcome'[id] = IF refOf'[id] # None THEN "pending" ELSE "unasked"
  BY <1>1, <1>3 DEF Outcome, outcomes
<1>6. \A id \in Id : refOf[id] # None => refOf'[id] # None
  <2> DEFINE c == Changes[ci]
  <2>1. WellFormed(c)
    BY ChangeFacts, InputsAssumption DEF Shape, TypeOK, CollectRefs, Changes
  <2>2. None \notin RefType /\ refOf \in [Id -> RefType \cup {None}]
    BY NullAssumption DEF Shape, TypeOK
  <2>3. /\ WithNew(c, refOf) \in [Id -> RefType \cup {None}]
        /\ \A id \in Id : refOf[id] # None => WithNew(c, refOf)[id] # None
    BY <2>1, <2>2, IdFacts DEF WithNew
  <2> HIDE DEF c
  <2>4. \A id \in Id : WithNew(c, refOf)[id] # None => WithOld(c, WithNew(c, refOf))[id] # None
    BY <2>1, <2>2, <2>3, IdFacts DEF WithOld
  <2>5. refOf' = WithOld(c, WithNew(c, refOf))
    BY DEF CollectRefs, c
  <2> QED
    BY <2>3, <2>4, <2>5
<1>7. Outcome' = [id \in Id |-> IF id \in ids THEN "pending" ELSE Outcome[id]]
  <2>1. \A id \in Id : Outcome'[id] = IF id \in ids THEN "pending" ELSE Outcome[id]
    BY <1>4, <1>5, <1>6
  <2> QED
    BY <2>1 DEF Outcome
<1>8. Promise!Ask(ids)
  BY <1>2, <1>4, <1>7 DEF Promise!Ask, Verdict
<1> QED
  BY <1>8

LEMMA SettlementAnswers ==
  ASSUME Shape, PoolInv, ReportInv, NEW w \in Workers, Active(w), phase = "pool",
         NEW o \in {"ok", "failed"},
         UNCHANGED <<input, phase, refs, verdict>>,
         o = "failed" => failed' = Append(failed, Ref(w)) /\ UNCHANGED snapshots,
         o = "ok" => /\ UNCHANGED failed
                     /\ \E id \in Id : snapshots' = [snapshots EXCEPT ![Ref(w)] = id]
  PROVE  Promise!Answer(Ref(w), o) /\ Ref(w) \in Id
<1> DEFINE r == Ref(w)
<1>1. /\ r \in Id /\ None \notin Id
      /\ snapshots \in [Id -> Id \cup {None}] /\ failed \in Seq(Id)
  BY RefInId, NullAssumption DEF Shape, TypeOK
<1>2. r \notin Range(failed) /\ snapshots[r] = None /\ refOf[r] # None
  BY <1>1 DEF PoolInv, Claimed, Settled, RefsListed, Ref, Shape, InRange
<1>3. Outcome[r] = "pending"
  BY <1>1, <1>2, OutcomeOf
<1>4. verdict = None /\ Verdict = None /\ Verdict' = Verdict /\ Tampered' = Tampered
  BY DEF ReportInv, Verdict, Tampered, Changes
<1>5. Outcome'[r] = o
  <2>1. CASE o = "failed"
    <3>1. r \in Range(failed')
      BY <2>1, <1>1 DEF Range
    <3> QED
      BY <2>1, <3>1, <1>1 DEF Outcome
  <2>2. CASE o = "ok"
    BY <2>2, <1>1, <1>2 DEF Outcome
  <2> QED
    BY <2>1, <2>2
<1>6. ASSUME NEW id \in Id, id # r PROVE Outcome'[id] = Outcome[id]
  <2>1. id \in Range(failed') <=> id \in Range(failed)
    BY <1>1, <1>6 DEF Range
  <2>2. snapshots'[id] = snapshots[id]
    BY <1>1, <1>6
  <2> QED
    BY <2>1, <2>2 DEF Outcome, refs
<1>7. Outcome' = [Outcome EXCEPT ![r] = o]
  BY <1>5, <1>6 DEF Outcome
<1> QED
  BY <1>1, <1>3, <1>4, <1>7 DEF Promise!Answer, Verdict

LEMMA WorkAnswers ==
  ASSUME Shape, PoolInv, ReportInv, NEW w \in Workers, Work(w)
  PROVE  [Promise!Next]_(Promise!vars)
<1>1. CASE FetchFails(w) \/ FetchTimesOut(w) \/ GzipRejected(w)
  <2>1. /\ Active(w) /\ phase = "pool" /\ UNCHANGED <<input, phase, refs, verdict>>
        /\ Settle(w, "failed")
    BY <1>1 DEF FetchFails, FetchTimesOut, GzipRejected, Goto, Active, report
  <2>2. failed' = Append(failed, Ref(w)) /\ UNCHANGED snapshots
    BY <2>1 DEF Settle
  <2>3. Promise!Answer(Ref(w), "failed") /\ Ref(w) \in Id
    BY <2>1, <2>2, SettlementAnswers
  <2> QED
    BY <2>3 DEF Promise!Next
<1>2. CASE Cleanup(w)
  <2>1. /\ Active(w) /\ phase = "pool" /\ UNCHANGED <<input, phase, refs, verdict>>
        /\ Settle(w, res[w]) /\ pc[w] = "cleanup"
    BY <1>2 DEF Cleanup, Goto, Active, report
  <2>2. res[w] \in {"ok", "failed"}
    BY <2>1 DEF PoolInv, Stored
  <2>3. Analyzed(Ref(w)) \in Id
    BY <2>1, RefInId, InputsAssumption DEF Shape, TypeOK, Analyzed
  <2>4. /\ res[w] = "failed" => failed' = Append(failed, Ref(w)) /\ UNCHANGED snapshots
        /\ res[w] = "ok" => /\ UNCHANGED failed
                            /\ \E id \in Id : snapshots' = [snapshots EXCEPT ![Ref(w)] = id]
    BY <2>1, <2>3 DEF Settle
  <2>5. Promise!Answer(Ref(w), res[w]) /\ Ref(w) \in Id
    BY <2>1, <2>2, <2>4, SettlementAnswers
  <2> QED
    BY <2>2, <2>5 DEF Promise!Next
<1>3. CASE CacheHit(w)
  <2>1. /\ Active(w) /\ phase = "pool" /\ UNCHANGED <<input, phase, refs, verdict>>
        /\ snapshots' = [snapshots EXCEPT ![Ref(w)] = Ref(w)] /\ UNCHANGED failed
    BY <1>3 DEF CacheHit, Goto, Active, report
  <2>2. Ref(w) \in Id
    BY <2>1, RefInId
  <2>3. Promise!Answer(Ref(w), "ok")
    BY <2>1, <2>2, SettlementAnswers
  <2> QED
    BY <2>2, <2>3 DEF Promise!Next
<1>4. CASE Claim(w) \/ Retire(w) \/ CacheMiss(w) \/ FetchOk(w) \/ GzipOk(w) \/ Analyze(w)
  <2>1. UNCHANGED <<input, phase, refs, outcomes, report>>
    BY <1>4 DEF Claim, Retire, CacheMiss, FetchOk, GzipOk, Analyze, AnalyzeOk,
         AnalyzeFails, AnalyzeTimesOut
  <2>2. Verdict' = Verdict
    BY <2>1 DEF Verdict, report
  <2> QED
    BY <2>1, <2>2, Stutter
<1> QED
  BY <1>1, <1>2, <1>3, <1>4 DEF Work, Lookup, Fetch, Gzip

LEMMA PublishReturns ==
  ASSUME Shape, PoolInv, ReportInv, Publish
  PROVE  \E v \in Promise!Verdicts : Promise!Return(v)
<1>1. /\ phase = "verdict" /\ phase' = "done"
      /\ UNCHANGED <<input, refs, outcomes, findings, named>>
  BY DEF Publish
<1>2. verdict = None /\ Verdict = None /\ Verdict' = verdict'
  BY <1>1 DEF ReportInv, Verdict
<1>3. Outcome' = Outcome /\ Tampered' = Tampered
  BY <1>1 DEF Outcome, Tampered, Changes, refs, outcomes
<1>4. SettledOnce
  BY SettledOnceOfPool
<1>5. \A id \in Id : Outcome[id] # "pending"
  BY <1>1, <1>4, OutcomeOf DEF SettledOnce, Settled
<1>6. ASSUME Tampered \/ \E id \in Id : Outcome[id] = "failed" PROVE verdict' = "BLOCK"
  <2>1. CASE Tampered
    BY <2>1, <1>1 DEF ReportInv, Reporting, Tampered, Publish
  <2>2. CASE \E id \in Id : Outcome[id] = "failed"
    <3>1. PICK id \in Id : id \in Range(failed)
      BY <2>2, OutcomeOf
    <3>2. PICK k \in DOMAIN failed : failed[k] = id
      BY <3>1 DEF Range
    <3>3. named # {}
      BY <3>2, <1>1 DEF ReportInv, Reporting
    <3> QED
      BY <3>3 DEF ReportInv, Publish
  <2> QED
    BY <1>6, <2>1, <2>2
<1>7. verdict' \in Promise!Verdicts
  BY DEF Publish, Promise!Verdicts
<1>8. Promise!Return(verdict')
  BY <1>2, <1>3, <1>5, <1>6 DEF Promise!Return, Verdict
<1> QED
  BY <1>7, <1>8

LEMMA MainPromises ==
  ASSUME Shape, PoolInv, ReportInv, Main
  PROVE  [Promise!Next]_(Promise!vars)
<1>1. CASE CollectRefs
  BY <1>1, CollectAsks DEF Promise!Next
<1>2. CASE Publish
  BY <1>2, PublishReturns DEF Promise!Next
<1>3. CASE phase # "rejected" /\ phase' = "rejected"
  <2>1. UNCHANGED <<input, refs, outcomes, verdict>> /\ verdict = None
    BY <1>3 DEF Main, Parse, CollectRefs, EndLoop, PoolDone, DetectChange, DetectThrows,
         FailureOfChange, FailureLeft, Surface, Publish, PhaseAfter, report, ReportInv
  <2>2. Promise!Reject
    BY <1>3, <2>1 DEF Promise!Reject, Outcome, Tampered, Changes, refs, outcomes
  <2> QED
    BY <2>2 DEF Promise!Next
<1>4. CASE ~CollectRefs /\ ~Publish /\ ~(phase # "rejected" /\ phase' = "rejected")
  <2>1. UNCHANGED <<input, refs, outcomes, verdict>> /\ phase # "rejected"
    BY <1>4 DEF Main, Parse, EndLoop, PoolDone, DetectChange, DetectThrows,
         FailureOfChange, FailureLeft, Surface, PhaseAfter, report
  <2>2. Verdict' = Verdict
    BY <1>4, <2>1 DEF Verdict
  <2> QED
    BY <2>1, <2>2, Stutter
<1> QED
  BY <1>1, <1>2, <1>3, <1>4

LEMMA PromiseStep == Shape /\ PoolInv /\ ReportInv /\ [Next]_vars => [Promise!Next]_(Promise!vars)
<1> SUFFICES ASSUME Shape, PoolInv, ReportInv, [Next]_vars
             PROVE  [Promise!Next]_(Promise!vars)
  OBVIOUS
<1>1. CASE Main
  BY <1>1, MainPromises
<1>2. ASSUME NEW w \in Workers, Work(w) PROVE [Promise!Next]_(Promise!vars)
  BY <1>2, WorkAnswers
<1>3. CASE Background \/ UNCHANGED vars
  <2>1. UNCHANGED <<input, phase, refs, outcomes, report>>
    BY <1>3 DEF Background, LateFetchEnds, PutLands, PutFails, vars
  <2>2. Verdict' = Verdict
    BY <2>1 DEF Verdict, report
  <2> QED
    BY <2>1, <2>2, Stutter
<1> QED
  BY <1>1, <1>2, <1>3 DEF Next

(***************************************************************************)
(* The engine implements its promise.                                      *)
(***************************************************************************)
THEOREM EngineKeepsPromise == Spec => KeepsPromise
BY InitPromise, PromiseStep, SpecPool, SpecReport, PTL DEF Spec, KeepsPromise, Promise!Spec
=============================================================================
