-------------------------- MODULE ScanServiceProofs --------------------------
(***************************************************************************)
(* Theorems about ScanService, for any requests, limits and times: the     *)
(* rate limit holds in every window, results are kept for their retention, *)
(* and an outcome is never taken back.                                     *)
(***************************************************************************)
EXTENDS ScanService, FiniteSetTheorems, TLAPS

Outcomes == {"done", "error"}

Typed ==
  /\ now \in Nat
  /\ state \in [Requests -> {"new", "reading", "rejected", "429", "503", "202"}]
  /\ jobs \subseteq Requests
  /\ status \in [Requests -> {None, "pending"} \cup Outcomes]
  /\ startedAt \in [Requests -> Nat] /\ expiresAt \in [Requests -> Nat]
  /\ backend \in [Requests -> {"idle", "running", "late", "over"}]
  /\ settledAt \in [Requests -> Nat \cup {None}]
  /\ answer \in [Requests -> {None, "pending", "expired", "unknown"} \cup Outcomes]

\* Only an accepted scan has a record, a backend and answers.
OnlyAccepted ==
  \A r \in Requests : state[r] # "202" =>
    /\ r \notin jobs /\ backend[r] = "idle" /\ settledAt[r] = None
    /\ status[r] = None /\ answer[r] = None

\* A scan is pending exactly while its backend runs, and its timer is never late.
PendingRuns ==
  \A r \in Requests : state[r] = "202" =>
    \/ /\ backend[r] = "running" /\ status[r] = "pending" /\ settledAt[r] = None
       /\ expiresAt[r] = startedAt[r] + ResultTtl
       /\ now <= startedAt[r] + ScanTimeout
    \/ /\ backend[r] \in {"late", "over"} /\ status[r] \in Outcomes
       /\ settledAt[r] \in Nat /\ expiresAt[r] = settledAt[r] + ResultTtl

\* What a client was told is on record, or the record has left the queue.
AnswersStand ==
  \A r \in Requests :
    /\ answer[r] \in Outcomes => status[r] = answer[r]
    /\ answer[r] \in {"expired", "unknown"} => r \notin jobs

Inv == Typed /\ OnlyAccepted /\ PendingRuns /\ AnswersStand /\ KeptForRetention

LEMMA Constants ==
  /\ {ScanTimeout, ResultTtl, Window} \subseteq Nat /\ ScanTimeout < ResultTtl
  /\ None \notin Nat /\ None \notin {"done", "error", "expired", "unknown"}
BY TimesAssumption, NoneAssumption

LEMMA InitInv == Init => Inv
PROOF
<1> SUFFICES ASSUME Init PROVE Inv
  OBVIOUS
<1>1. Typed
  BY DEF Init, Typed
<1>2. OnlyAccepted /\ PendingRuns
  BY DEF Init, OnlyAccepted, PendingRuns
<1>3. AnswersStand
  BY DEF Init, AnswersStand
<1>4. KeptForRetention
  BY DEF Init, KeptForRetention
<1> QED BY <1>1, <1>2, <1>3, <1>4 DEF Inv

-----------------------------------------------------------------------------
LEMMA TypedStep ==
  ASSUME Inv, [Next]_vars
  PROVE  Typed'
PROOF
<1>1. ASSUME NEW r \in Requests, RejectHeaders(r) PROVE Typed'
  BY <1>1, Constants DEF RejectHeaders, Reply, limiter, queue, Inv, Typed, Outcomes
<1>2. ASSUME NEW r \in Requests, NEW ip \in Ips, PassLimiter(r, ip) PROVE Typed'
  BY <1>2, Constants DEF PassLimiter, Reply, queue, Inv, Typed, Outcomes
<1>3. ASSUME NEW r \in Requests, NEW ip \in Ips, RateLimit(r, ip) PROVE Typed'
  BY <1>3, Constants DEF RateLimit, Reply, queue, Inv, Typed, Outcomes
<1>4. ASSUME NEW r \in Requests, RejectBody(r) PROVE Typed'
  BY <1>4, Constants DEF RejectBody, Reply, limiter, queue, Inv, Typed, Outcomes
<1>5. ASSUME NEW r \in Requests, Enqueue(r) PROVE Typed'
  BY <1>5, Constants DEF Enqueue, Reply, Accept, Unexpired, limiter, Inv, Typed, Outcomes
<1>6. ASSUME NEW r \in Requests, GetResult(r) PROVE Typed'
  BY <1>6, Constants DEF GetResult, limiter, Inv, Typed, Outcomes
<1>7. ASSUME NEW r \in Requests, NEW s \in {"done", "error"}, BackendEnds(r, s) PROVE Typed'
  BY <1>7, Constants DEF BackendEnds, Record, limiter, Inv, Typed, Outcomes
<1>8. ASSUME NEW r \in Requests, TimesOut(r) PROVE Typed'
  BY <1>8, Constants DEF TimesOut, Record, limiter, Inv, Typed, Outcomes
<1>9. ASSUME NEW r \in Requests, LateEnds(r) PROVE Typed'
  BY <1>9, Constants DEF LateEnds, limiter, Inv, Typed, Outcomes
<1>10. CASE Sweep
  BY <1>10, Constants DEF Sweep, Unexpired, limiter, Inv, Typed, Outcomes
<1>11. CASE Tick
  BY <1>11, Constants DEF Tick, limiter, queue, Inv, Typed, Outcomes
<1>12. CASE UNCHANGED vars
  BY <1>12, Constants DEF vars, limiter, queue, Inv, Typed, Outcomes
<1> QED BY <1>1, <1>2, <1>3, <1>4, <1>5, <1>6, <1>7, <1>8, <1>9, <1>10, <1>11, <1>12 DEF Next, Handle, Run

LEMMA OnlyAcceptedStep ==
  ASSUME Inv, [Next]_vars
  PROVE  OnlyAccepted'
PROOF
<1>1. ASSUME NEW r \in Requests, RejectHeaders(r) PROVE OnlyAccepted'
  BY <1>1 DEF RejectHeaders, Reply, limiter, queue, Inv, Typed, OnlyAccepted, PendingRuns
<1>2. ASSUME NEW r \in Requests, NEW ip \in Ips, PassLimiter(r, ip) PROVE OnlyAccepted'
  BY <1>2 DEF PassLimiter, Reply, queue, Inv, Typed, OnlyAccepted, PendingRuns
<1>3. ASSUME NEW r \in Requests, NEW ip \in Ips, RateLimit(r, ip) PROVE OnlyAccepted'
  BY <1>3 DEF RateLimit, Reply, queue, Inv, Typed, OnlyAccepted, PendingRuns
<1>4. ASSUME NEW r \in Requests, RejectBody(r) PROVE OnlyAccepted'
  BY <1>4 DEF RejectBody, Reply, limiter, queue, Inv, Typed, OnlyAccepted, PendingRuns
<1>5. ASSUME NEW r \in Requests, Enqueue(r) PROVE OnlyAccepted'
  BY <1>5 DEF Enqueue, Reply, Accept, Unexpired, limiter, Inv, Typed, OnlyAccepted, PendingRuns
<1>6. ASSUME NEW r \in Requests, GetResult(r) PROVE OnlyAccepted'
  BY <1>6 DEF GetResult, limiter, Inv, Typed, OnlyAccepted, PendingRuns
<1>7. ASSUME NEW r \in Requests, NEW s \in {"done", "error"}, BackendEnds(r, s) PROVE OnlyAccepted'
  BY <1>7 DEF BackendEnds, Record, limiter, Inv, Typed, OnlyAccepted, PendingRuns
<1>8. ASSUME NEW r \in Requests, TimesOut(r) PROVE OnlyAccepted'
  BY <1>8 DEF TimesOut, Record, limiter, Inv, Typed, OnlyAccepted, PendingRuns
<1>9. ASSUME NEW r \in Requests, LateEnds(r) PROVE OnlyAccepted'
  BY <1>9 DEF LateEnds, limiter, Inv, Typed, OnlyAccepted, PendingRuns
<1>10. CASE Sweep
  BY <1>10 DEF Sweep, Unexpired, limiter, Inv, Typed, OnlyAccepted, PendingRuns
<1>11. CASE Tick
  BY <1>11 DEF Tick, limiter, queue, Inv, Typed, OnlyAccepted, PendingRuns
<1>12. CASE UNCHANGED vars
  BY <1>12 DEF vars, limiter, queue, Inv, Typed, OnlyAccepted, PendingRuns
<1> QED BY <1>1, <1>2, <1>3, <1>4, <1>5, <1>6, <1>7, <1>8, <1>9, <1>10, <1>11, <1>12 DEF Next, Handle, Run

LEMMA PendingStep ==
  ASSUME Inv, Typed', [Next]_vars
  PROVE  PendingRuns'
PROOF
<1>1. ASSUME NEW r \in Requests, RejectHeaders(r) PROVE PendingRuns'
  BY <1>1, Constants DEF RejectHeaders, Reply, limiter, queue, Inv, Typed, OnlyAccepted, PendingRuns, Outcomes
<1>2. ASSUME NEW r \in Requests, NEW ip \in Ips, PassLimiter(r, ip) PROVE PendingRuns'
  BY <1>2, Constants DEF PassLimiter, Reply, queue, Inv, Typed, OnlyAccepted, PendingRuns, Outcomes
<1>3. ASSUME NEW r \in Requests, NEW ip \in Ips, RateLimit(r, ip) PROVE PendingRuns'
  BY <1>3, Constants DEF RateLimit, Reply, queue, Inv, Typed, OnlyAccepted, PendingRuns, Outcomes
<1>4. ASSUME NEW r \in Requests, RejectBody(r) PROVE PendingRuns'
  BY <1>4, Constants DEF RejectBody, Reply, limiter, queue, Inv, Typed, OnlyAccepted, PendingRuns, Outcomes
<1>5. ASSUME NEW r \in Requests, Enqueue(r) PROVE PendingRuns'
  BY <1>5, Constants DEF Enqueue, Reply, Accept, Unexpired, limiter, Inv, Typed, OnlyAccepted, PendingRuns, Outcomes
<1>6. ASSUME NEW r \in Requests, GetResult(r) PROVE PendingRuns'
  BY <1>6, Constants DEF GetResult, limiter, Inv, Typed, OnlyAccepted, PendingRuns, Outcomes
<1>7. ASSUME NEW r \in Requests, NEW s \in {"done", "error"}, BackendEnds(r, s) PROVE PendingRuns'
  BY <1>7, Constants DEF BackendEnds, Record, limiter, Inv, Typed, OnlyAccepted, PendingRuns, Outcomes
<1>8. ASSUME NEW r \in Requests, TimesOut(r) PROVE PendingRuns'
  BY <1>8, Constants DEF TimesOut, Record, limiter, Inv, Typed, OnlyAccepted, PendingRuns, Outcomes
<1>9. ASSUME NEW r \in Requests, LateEnds(r) PROVE PendingRuns'
  BY <1>9, Constants DEF LateEnds, limiter, Inv, Typed, OnlyAccepted, PendingRuns, Outcomes
<1>10. CASE Sweep
  BY <1>10, Constants DEF Sweep, Unexpired, limiter, Inv, Typed, OnlyAccepted, PendingRuns, Outcomes
<1>11. CASE Tick
  BY <1>11, Constants DEF Tick, limiter, queue, Inv, Typed, OnlyAccepted, PendingRuns, Outcomes
<1>12. CASE UNCHANGED vars
  BY <1>12, Constants DEF vars, limiter, queue, Inv, Typed, OnlyAccepted, PendingRuns, Outcomes
<1> QED BY <1>1, <1>2, <1>3, <1>4, <1>5, <1>6, <1>7, <1>8, <1>9, <1>10, <1>11, <1>12 DEF Next, Handle, Run

LEMMA KeptStep ==
  ASSUME Inv, Typed', PendingRuns', [Next]_vars
  PROVE  KeptForRetention'
PROOF
<1>1. ASSUME NEW r \in Requests, RejectHeaders(r) PROVE KeptForRetention'
  BY <1>1, Constants DEF RejectHeaders, Reply, limiter, queue, Inv, Typed, PendingRuns, KeptForRetention, OnlyAccepted, Outcomes
<1>2. ASSUME NEW r \in Requests, NEW ip \in Ips, PassLimiter(r, ip) PROVE KeptForRetention'
  BY <1>2, Constants DEF PassLimiter, Reply, queue, Inv, Typed, PendingRuns, KeptForRetention, OnlyAccepted, Outcomes
<1>3. ASSUME NEW r \in Requests, NEW ip \in Ips, RateLimit(r, ip) PROVE KeptForRetention'
  BY <1>3, Constants DEF RateLimit, Reply, queue, Inv, Typed, PendingRuns, KeptForRetention, OnlyAccepted, Outcomes
<1>4. ASSUME NEW r \in Requests, RejectBody(r) PROVE KeptForRetention'
  BY <1>4, Constants DEF RejectBody, Reply, limiter, queue, Inv, Typed, PendingRuns, KeptForRetention, OnlyAccepted, Outcomes
<1>5. ASSUME NEW r \in Requests, Enqueue(r) PROVE KeptForRetention'
  BY <1>5, Constants DEF Enqueue, Reply, Accept, Unexpired, limiter, Inv, Typed, PendingRuns, KeptForRetention, OnlyAccepted, Outcomes
<1>6. ASSUME NEW r \in Requests, GetResult(r) PROVE KeptForRetention'
  BY <1>6, Constants DEF GetResult, limiter, Inv, Typed, PendingRuns, KeptForRetention, OnlyAccepted, Outcomes
<1>7. ASSUME NEW r \in Requests, NEW s \in {"done", "error"}, BackendEnds(r, s) PROVE KeptForRetention'
  BY <1>7, Constants DEF BackendEnds, Record, limiter, Inv, Typed, PendingRuns, KeptForRetention, OnlyAccepted, Outcomes
<1>8. ASSUME NEW r \in Requests, TimesOut(r) PROVE KeptForRetention'
  BY <1>8, Constants DEF TimesOut, Record, limiter, Inv, Typed, PendingRuns, KeptForRetention, OnlyAccepted, Outcomes
<1>9. ASSUME NEW r \in Requests, LateEnds(r) PROVE KeptForRetention'
  BY <1>9, Constants DEF LateEnds, limiter, Inv, Typed, PendingRuns, KeptForRetention, OnlyAccepted, Outcomes
<1>10. CASE Sweep
  BY <1>10, Constants DEF Sweep, Unexpired, limiter, Inv, Typed, PendingRuns, KeptForRetention, OnlyAccepted, Outcomes
<1>11. CASE Tick
  BY <1>11, Constants DEF Tick, limiter, queue, Inv, Typed, PendingRuns, KeptForRetention, OnlyAccepted, Outcomes
<1>12. CASE UNCHANGED vars
  BY <1>12, Constants DEF vars, limiter, queue, Inv, Typed, PendingRuns, KeptForRetention, OnlyAccepted, Outcomes
<1> QED BY <1>1, <1>2, <1>3, <1>4, <1>5, <1>6, <1>7, <1>8, <1>9, <1>10, <1>11, <1>12 DEF Next, Handle, Run

LEMMA AnswersStep ==
  ASSUME Inv, [Next]_vars
  PROVE  AnswersStand'
PROOF
<1>1. ASSUME NEW r \in Requests, RejectHeaders(r) PROVE AnswersStand'
  BY <1>1, Constants DEF RejectHeaders, Reply, limiter, queue, Inv, Typed, OnlyAccepted, PendingRuns, AnswersStand, Outcomes
<1>2. ASSUME NEW r \in Requests, NEW ip \in Ips, PassLimiter(r, ip) PROVE AnswersStand'
  BY <1>2, Constants DEF PassLimiter, Reply, queue, Inv, Typed, OnlyAccepted, PendingRuns, AnswersStand, Outcomes
<1>3. ASSUME NEW r \in Requests, NEW ip \in Ips, RateLimit(r, ip) PROVE AnswersStand'
  BY <1>3, Constants DEF RateLimit, Reply, queue, Inv, Typed, OnlyAccepted, PendingRuns, AnswersStand, Outcomes
<1>4. ASSUME NEW r \in Requests, RejectBody(r) PROVE AnswersStand'
  BY <1>4, Constants DEF RejectBody, Reply, limiter, queue, Inv, Typed, OnlyAccepted, PendingRuns, AnswersStand, Outcomes
<1>5. ASSUME NEW r \in Requests, Enqueue(r) PROVE AnswersStand'
  BY <1>5, Constants DEF Enqueue, Reply, Accept, Unexpired, limiter, Inv, Typed, OnlyAccepted, PendingRuns, AnswersStand, Outcomes
<1>6. ASSUME NEW r \in Requests, GetResult(r) PROVE AnswersStand'
  BY <1>6, Constants DEF GetResult, limiter, Inv, Typed, OnlyAccepted, PendingRuns, AnswersStand, Outcomes
<1>7. ASSUME NEW r \in Requests, NEW s \in {"done", "error"}, BackendEnds(r, s) PROVE AnswersStand'
  BY <1>7, Constants DEF BackendEnds, Record, limiter, Inv, Typed, OnlyAccepted, PendingRuns, AnswersStand, Outcomes
<1>8. ASSUME NEW r \in Requests, TimesOut(r) PROVE AnswersStand'
  BY <1>8, Constants DEF TimesOut, Record, limiter, Inv, Typed, OnlyAccepted, PendingRuns, AnswersStand, Outcomes
<1>9. ASSUME NEW r \in Requests, LateEnds(r) PROVE AnswersStand'
  BY <1>9, Constants DEF LateEnds, limiter, Inv, Typed, OnlyAccepted, PendingRuns, AnswersStand, Outcomes
<1>10. CASE Sweep
  BY <1>10, Constants DEF Sweep, Unexpired, limiter, Inv, Typed, OnlyAccepted, PendingRuns, AnswersStand, Outcomes
<1>11. CASE Tick
  BY <1>11, Constants DEF Tick, limiter, queue, Inv, Typed, OnlyAccepted, PendingRuns, AnswersStand, Outcomes
<1>12. CASE UNCHANGED vars
  BY <1>12, Constants DEF vars, limiter, queue, Inv, Typed, OnlyAccepted, PendingRuns, AnswersStand, Outcomes
<1> QED BY <1>1, <1>2, <1>3, <1>4, <1>5, <1>6, <1>7, <1>8, <1>9, <1>10, <1>11, <1>12 DEF Next, Handle, Run

Final ==
  \A q \in Requests :
    /\ answer[q] \in {"done", "error"} => answer'[q] \in {answer[q], "expired", "unknown"}
    /\ answer[q] \in {"expired", "unknown"} => answer'[q] = "unknown" \/ answer'[q] = answer[q]

\* Only GetResult answers, and what it answers agrees with what was said.
LEMMA FinalStep ==
  ASSUME Inv, [Next]_vars
  PROVE  Final
PROOF
<1>1. ASSUME NEW r \in Requests, RejectHeaders(r) PROVE Final
  BY <1>1, Constants DEF RejectHeaders, Reply, limiter, queue, Final, Inv, Typed, OnlyAccepted, PendingRuns, AnswersStand, Outcomes
<1>2. ASSUME NEW r \in Requests, NEW ip \in Ips, PassLimiter(r, ip) PROVE Final
  BY <1>2, Constants DEF PassLimiter, Reply, queue, Final, Inv, Typed, OnlyAccepted, PendingRuns, AnswersStand, Outcomes
<1>3. ASSUME NEW r \in Requests, NEW ip \in Ips, RateLimit(r, ip) PROVE Final
  BY <1>3, Constants DEF RateLimit, Reply, queue, Final, Inv, Typed, OnlyAccepted, PendingRuns, AnswersStand, Outcomes
<1>4. ASSUME NEW r \in Requests, RejectBody(r) PROVE Final
  BY <1>4, Constants DEF RejectBody, Reply, limiter, queue, Final, Inv, Typed, OnlyAccepted, PendingRuns, AnswersStand, Outcomes
<1>5. ASSUME NEW r \in Requests, Enqueue(r) PROVE Final
  BY <1>5, Constants DEF Enqueue, Reply, Accept, Unexpired, limiter, Final, Inv, Typed, OnlyAccepted, PendingRuns, AnswersStand, Outcomes
<1>6. ASSUME NEW r \in Requests, GetResult(r) PROVE Final
  BY <1>6, Constants DEF GetResult, limiter, Final, Inv, Typed, OnlyAccepted, PendingRuns, AnswersStand, Outcomes
<1>7. ASSUME NEW r \in Requests, NEW s \in {"done", "error"}, BackendEnds(r, s) PROVE Final
  BY <1>7, Constants DEF BackendEnds, Record, limiter, Final, Inv, Typed, OnlyAccepted, PendingRuns, AnswersStand, Outcomes
<1>8. ASSUME NEW r \in Requests, TimesOut(r) PROVE Final
  BY <1>8, Constants DEF TimesOut, Record, limiter, Final, Inv, Typed, OnlyAccepted, PendingRuns, AnswersStand, Outcomes
<1>9. ASSUME NEW r \in Requests, LateEnds(r) PROVE Final
  BY <1>9, Constants DEF LateEnds, limiter, Final, Inv, Typed, OnlyAccepted, PendingRuns, AnswersStand, Outcomes
<1>10. CASE Sweep
  BY <1>10, Constants DEF Sweep, Unexpired, limiter, Final, Inv, Typed, OnlyAccepted, PendingRuns, AnswersStand, Outcomes
<1>11. CASE Tick
  BY <1>11, Constants DEF Tick, limiter, queue, Final, Inv, Typed, OnlyAccepted, PendingRuns, AnswersStand, Outcomes
<1>12. CASE UNCHANGED vars
  BY <1>12, Constants DEF vars, limiter, queue, Final, Inv, Typed, OnlyAccepted, PendingRuns, AnswersStand, Outcomes
<1> QED BY <1>1, <1>2, <1>3, <1>4, <1>5, <1>6, <1>7, <1>8, <1>9, <1>10, <1>11, <1>12 DEF Next, Handle, Run

LEMMA NextInv == Inv /\ [Next]_vars => Inv'
PROOF
<1> SUFFICES ASSUME Inv, [Next]_vars PROVE Inv'
  OBVIOUS
<1>1. Typed' /\ OnlyAccepted' /\ AnswersStand'
  BY TypedStep, OnlyAcceptedStep, AnswersStep
<1>2. PendingRuns'
  BY <1>1, PendingStep
<1>3. KeptForRetention'
  BY <1>1, <1>2, KeptStep
<1> QED BY <1>1, <1>2, <1>3 DEF Inv

LEMMA InvHolds == Spec => []Inv
BY InitInv, NextInv, PTL DEF Spec

-----------------------------------------------------------------------------
(* The rate limiter.  What it may have forgotten is too old for any window *)
(* that a request could still fall into.                                   *)

Visits == [ip : Ips, at : Nat]

VisitsTyped ==
  /\ hits \in [Ips -> SUBSET Requests] /\ visit \in [Requests -> Visits \cup {None}]
  /\ \A r \in Requests :
       /\ state[r] = "new" => visit[r] = None
       /\ visit[r] # None => visit[r].at <= now
  /\ \A ip \in Ips : /\ IsFiniteSet(hits[ip])
                      /\ \A r \in hits[ip] : visit[r] # None /\ visit[r].ip = ip

\* Whatever passed less than a window ago is on record.
RecentOnRecord ==
  \A r \in Requests :
    visit[r] # None /\ now - visit[r].at < Window => r \in hits[visit[r].ip]

WindowsBounded ==
  \A ip \in Ips, t \in Nat :
    IsFiniteSet(PassedIn(ip, t)) /\ Cardinality(PassedIn(ip, t)) <= RateMax

LimiterInv == VisitsTyped /\ RecentOnRecord /\ WindowsBounded

LEMMA LimiterConstants ==
  RateMax \in Nat /\ Window \in Nat /\ Window > 0 /\ None \notin Visits
BY TimesAssumption, NoneAssumption DEF Visits

LEMMA InitLimiter == Init => LimiterInv
PROOF
<1> SUFFICES ASSUME Init PROVE LimiterInv
  OBVIOUS
<1>1. VisitsTyped
  BY FS_EmptySet DEF Init, VisitsTyped
<1>2. RecentOnRecord
  BY DEF Init, RecentOnRecord
<1>3. ASSUME NEW ip \in Ips, NEW t \in Nat PROVE PassedIn(ip, t) = {}
  BY DEF Init, PassedIn
<1>4. WindowsBounded
  BY <1>3, FS_EmptySet, LimiterConstants DEF WindowsBounded
<1> QED BY <1>1, <1>2, <1>4 DEF LimiterInv

\* The steps that neither record a visit nor forget one.
LEMMA LimiterIdle ==
  ASSUME Inv, LimiterInv, UNCHANGED limiter, now' \in Nat, now <= now',
         \A r \in Requests : state'[r] = "new" => state[r] = "new"
  PROVE  LimiterInv'
PROOF
<1>1. hits' = hits /\ visit' = visit
  BY DEF limiter
<1>2. VisitsTyped'
  BY <1>1 DEF LimiterInv, VisitsTyped, Visits, Inv, Typed
<1>3. RecentOnRecord'
  BY <1>1, LimiterConstants DEF LimiterInv, RecentOnRecord, VisitsTyped, Visits, Inv, Typed
<1>4. ASSUME NEW ip \in Ips, NEW t \in Nat PROVE PassedIn(ip, t)' = PassedIn(ip, t)
  BY <1>1 DEF PassedIn
<1>5. WindowsBounded'
  BY <1>4 DEF LimiterInv, WindowsBounded
<1> QED BY <1>2, <1>3, <1>5 DEF LimiterInv

LEMMA FreshIsFinite ==
  ASSUME LimiterInv, NEW ip \in Ips
  PROVE  IsFiniteSet(Fresh(ip)) /\ Cardinality(Fresh(ip)) \in Nat
PROOF
<1>1. Fresh(ip) \in SUBSET hits[ip] /\ IsFiniteSet(hits[ip])
  BY DEF Fresh, LimiterInv, VisitsTyped
<1>2. IsFiniteSet(Fresh(ip))
  BY <1>1, FS_Subset
<1> QED BY <1>2, FS_CardinalityType

\* A window that now falls into holds no visit the limiter has not on record.
LEMMA WindowIsFresh ==
  ASSUME Inv, LimiterInv, NEW ip \in Ips, NEW t \in Nat, now < t + Window
  PROVE  PassedIn(ip, t) \subseteq Fresh(ip)
PROOF
<1> SUFFICES ASSUME NEW q \in PassedIn(ip, t) PROVE q \in Fresh(ip)
  OBVIOUS
<1>1. q \in Requests /\ visit[q] # None /\ visit[q].ip = ip /\ t <= visit[q].at
  BY DEF PassedIn
<1>2. visit[q].at \in Nat /\ now \in Nat
  BY <1>1 DEF LimiterInv, VisitsTyped, Visits, Inv, Typed
<1>3. now - visit[q].at < Window
  BY <1>1, <1>2, LimiterConstants
<1>4. q \in hits[ip]
  BY <1>1, <1>3 DEF LimiterInv, RecentOnRecord
<1> QED BY <1>3, <1>4 DEF Fresh

LEMMA PassKeepsLimiter ==
  ASSUME Inv, LimiterInv, NEW r \in Requests, NEW ip \in Ips, PassLimiter(r, ip)
  PROVE  LimiterInv'
PROOF
<1>1. /\ state[r] = "new" /\ visit[r] = None /\ now' = now /\ now \in Nat
      /\ hits' = [hits EXCEPT ![ip] = Fresh(ip) \cup {r}]
      /\ visit' = [visit EXCEPT ![r] = [ip |-> ip, at |-> now]]
      /\ Cardinality(Fresh(ip)) < RateMax
  BY DEF PassLimiter, LimiterInv, VisitsTyped, Inv, Typed
<1>2. \A q \in Requests : state'[q] = "new" => state[q] = "new" /\ q # r
  BY DEF PassLimiter, Reply, Inv, Typed
<1>3. Fresh(ip) \subseteq hits[ip] /\ IsFiniteSet(Fresh(ip) \cup {r})
  BY FreshIsFinite, FS_AddElement DEF Fresh
<1>4. /\ hits' \in [Ips -> SUBSET Requests] /\ visit' \in [Requests -> Visits \cup {None}]
      /\ visit'[r] = [ip |-> ip, at |-> now] /\ \A q \in Requests \ {r} : visit'[q] = visit[q]
      /\ hits'[ip] = Fresh(ip) \cup {r} /\ \A i \in Ips \ {ip} : hits'[i] = hits[i]
  BY <1>1, <1>3 DEF LimiterInv, VisitsTyped, Visits
<1>5. VisitsTyped'
  <2>1. ASSUME NEW q \in Requests
        PROVE  /\ state'[q] = "new" => visit'[q] = None
               /\ visit'[q] # None => visit'[q].at <= now'
    BY <1>1, <1>2, <1>4 DEF LimiterInv, VisitsTyped, Visits
  <2>2. ASSUME NEW i \in Ips
        PROVE  /\ IsFiniteSet(hits'[i])
               /\ \A q \in hits'[i] : visit'[q] # None /\ visit'[q].ip = i
    <3>1. IsFiniteSet(hits'[i])
      BY <1>3, <1>4 DEF LimiterInv, VisitsTyped
    <3>2. visit'[r] # None /\ visit'[r].ip = ip
      BY <1>1, <1>4, LimiterConstants DEF Visits
    <3>3. ASSUME NEW q \in hits'[i] PROVE visit'[q] # None /\ visit'[q].ip = i
      <4>1. CASE q = r
        <5>1. i = ip
          <6>1. r \notin hits[i]
            BY <1>1 DEF LimiterInv, VisitsTyped
          <6> QED BY <1>4, <3>3, <4>1, <6>1
        <5> QED BY <3>2, <4>1, <5>1
      <4>2. CASE q # r
        BY <1>3, <1>4, <3>3, <4>2 DEF LimiterInv, VisitsTyped
      <4> QED BY <4>1, <4>2
    <3> QED BY <3>1, <3>3
  <2> QED BY <1>4, <2>1, <2>2 DEF VisitsTyped
<1>6. RecentOnRecord'
  <2> SUFFICES ASSUME NEW q \in Requests, visit'[q] # None, now' - visit'[q].at < Window
               PROVE  q \in hits'[visit'[q].ip]
    BY DEF RecentOnRecord
  <2>1. CASE q = r
    BY <1>4, <2>1
  <2>2. CASE q # r
    <3>1. q \in hits[visit[q].ip] /\ visit[q].ip \in Ips /\ visit'[q] = visit[q]
      BY <1>1, <1>4, <2>2 DEF LimiterInv, RecentOnRecord, VisitsTyped, Visits
    <3>2. q \in Fresh(visit[q].ip)
      BY <1>1, <3>1 DEF Fresh
    <3> QED BY <1>4, <3>1, <3>2
  <2> QED BY <2>1, <2>2
<1>7. WindowsBounded'
  <2> SUFFICES ASSUME NEW i \in Ips, NEW t \in Nat
               PROVE  /\ IsFiniteSet(PassedIn(i, t)')
                      /\ Cardinality(PassedIn(i, t)') <= RateMax
    BY DEF WindowsBounded
  <2>1. IsFiniteSet(PassedIn(i, t)) /\ Cardinality(PassedIn(i, t)) <= RateMax
    BY DEF LimiterInv, WindowsBounded
  <2>2. CASE i = ip /\ t <= now /\ now < t + Window
    <3>1. PassedIn(i, t)' \subseteq PassedIn(i, t) \cup {r}
      BY <1>4 DEF PassedIn
    <3>2. PassedIn(i, t)' \in SUBSET (Fresh(ip) \cup {r})
      BY <2>2, <3>1, WindowIsFresh
    <3>3. /\ IsFiniteSet(Fresh(ip) \cup {r}) /\ Cardinality(Fresh(ip)) \in Nat
          /\ Cardinality(Fresh(ip) \cup {r}) \in Nat
          /\ Cardinality(Fresh(ip) \cup {r}) <= Cardinality(Fresh(ip)) + 1
      <4>1. IsFiniteSet(Fresh(ip)) /\ Cardinality(Fresh(ip)) \in Nat
        BY FreshIsFinite
      <4>2. \/ Cardinality(Fresh(ip) \cup {r}) = Cardinality(Fresh(ip))
            \/ Cardinality(Fresh(ip) \cup {r}) = Cardinality(Fresh(ip)) + 1
        BY <4>1, FS_AddElement
      <4> QED BY <1>3, <4>1, <4>2
    <3>4. /\ IsFiniteSet(PassedIn(i, t)')
          /\ Cardinality(PassedIn(i, t)') <= Cardinality(Fresh(ip) \cup {r})
      BY <3>2, <3>3, FS_Subset
    <3>5. Cardinality(PassedIn(i, t)') \in Nat
      BY <3>4, FS_CardinalityType
    <3> QED BY <1>1, <3>3, <3>4, <3>5, LimiterConstants
  <2>3. CASE ~(i = ip /\ t <= now /\ now < t + Window)
    <3>1. r \notin PassedIn(i, t)'
      BY <1>4, <2>3 DEF PassedIn
    <3>2. PassedIn(i, t)' \in SUBSET PassedIn(i, t)
      BY <1>4, <3>1 DEF PassedIn
    <3>3. /\ IsFiniteSet(PassedIn(i, t)')
          /\ Cardinality(PassedIn(i, t)') <= Cardinality(PassedIn(i, t))
      BY <2>1, <3>2, FS_Subset
    <3>4. Cardinality(PassedIn(i, t)') \in Nat /\ Cardinality(PassedIn(i, t)) \in Nat
      BY <2>1, <3>3, FS_CardinalityType
    <3> QED BY <2>1, <3>3, <3>4, LimiterConstants
  <2> QED BY <2>2, <2>3
<1> QED BY <1>5, <1>6, <1>7 DEF LimiterInv

LEMMA RefusalKeepsLimiter ==
  ASSUME Inv, LimiterInv, NEW r \in Requests, NEW ip \in Ips, RateLimit(r, ip)
  PROVE  LimiterInv'
PROOF
<1>1. /\ now' = now /\ now \in Nat /\ visit' = visit
      /\ hits' = [hits EXCEPT ![ip] = Fresh(ip)]
      /\ \A q \in Requests : state'[q] = "new" => state[q] = "new"
  BY DEF RateLimit, Reply, Inv, Typed
<1>2. Fresh(ip) \subseteq hits[ip] /\ IsFiniteSet(Fresh(ip))
  BY FreshIsFinite DEF Fresh
<1>3. VisitsTyped'
  BY <1>1, <1>2 DEF LimiterInv, VisitsTyped
<1>4. RecentOnRecord'
  <2> SUFFICES ASSUME NEW q \in Requests, visit[q] # None, now - visit[q].at < Window
               PROVE  q \in hits'[visit[q].ip]
    BY <1>1 DEF RecentOnRecord
  <2>1. q \in hits[visit[q].ip] /\ visit[q].ip \in Ips
    BY DEF LimiterInv, RecentOnRecord, VisitsTyped, Visits
  <2>2. q \in Fresh(visit[q].ip)
    BY <2>1 DEF Fresh
  <2> QED BY <1>1, <2>1, <2>2 DEF LimiterInv, VisitsTyped
<1>5. ASSUME NEW i \in Ips, NEW t \in Nat PROVE PassedIn(i, t)' = PassedIn(i, t)
  BY <1>1 DEF PassedIn
<1>6. WindowsBounded'
  BY <1>5 DEF LimiterInv, WindowsBounded
<1> QED BY <1>3, <1>4, <1>6 DEF LimiterInv

LEMMA LimiterStep == Inv /\ LimiterInv /\ [Next]_vars => LimiterInv'
PROOF
<1> SUFFICES ASSUME Inv, LimiterInv, [Next]_vars PROVE LimiterInv'
  OBVIOUS
<1>1. ASSUME NEW r \in Requests, NEW ip \in Ips, PassLimiter(r, ip) PROVE LimiterInv'
  BY <1>1, PassKeepsLimiter
<1>2. ASSUME NEW r \in Requests, NEW ip \in Ips, RateLimit(r, ip) PROVE LimiterInv'
  BY <1>2, RefusalKeepsLimiter
<1>3. ASSUME NEW r \in Requests,
             RejectHeaders(r) \/ RejectBody(r) \/ Enqueue(r) \/ GetResult(r) \/ Run(r)
      PROVE  LimiterInv'
  <2>1. UNCHANGED limiter /\ now' = now /\ now \in Nat
    BY <1>3 DEF RejectHeaders, RejectBody, Enqueue, Accept, GetResult, Run, BackendEnds, TimesOut,
                LateEnds, Record, Inv, Typed
  <2>2. \A q \in Requests : state'[q] = "new" => state[q] = "new"
    BY <1>3 DEF RejectHeaders, RejectBody, Enqueue, Accept, GetResult, Run, BackendEnds, TimesOut,
                LateEnds, Record, Reply, Inv, Typed
  <2> QED BY <2>1, <2>2, LimiterIdle
<1>4. CASE Sweep
  BY <1>4, LimiterIdle DEF Sweep, Inv, Typed
<1>5. CASE Tick
  BY <1>5, LimiterIdle DEF Tick, Inv, Typed
<1>6. CASE UNCHANGED vars
  BY <1>6, LimiterIdle DEF vars, Inv, Typed
<1> QED BY <1>1, <1>2, <1>3, <1>4, <1>5, <1>6 DEF Next, Handle

\* In no window of the limiter's length do more than RateMax requests of one
\* address get past it, however their uploads interleave.
THEOREM RateIsLimited == Spec => []RateLimited
<1>1. LimiterInv => RateLimited
  BY TimesAssumption DEF LimiterInv, WindowsBounded, RateLimited, Times
<1> QED BY <1>1, InitLimiter, LimiterStep, InvHolds, PTL DEF Spec

-----------------------------------------------------------------------------
\* No sweep and no status call removes a scan that runs, or a result before its
\* retention has ended.
THEOREM ResultsAreKept == Spec => []KeptForRetention
<1>1. Inv => KeptForRetention
  BY DEF Inv
<1> QED BY <1>1, InvHolds, PTL

\* A client that was told an outcome is never told another one.
THEOREM OutcomesAreFinal == Spec => OutcomeFinal
<1>1. Inv /\ [Next]_vars =>
        [\A r \in Requests :
           /\ answer[r] \in {"done", "error"} => answer'[r] \in {answer[r], "expired", "unknown"}
           /\ answer[r] \in {"expired", "unknown"} => answer'[r] = "unknown" \/ answer'[r] = answer[r]
        ]_vars
  BY FinalStep DEF Final
<1> QED BY <1>1, InvHolds, PTL DEF Spec, OutcomeFinal
=============================================================================
