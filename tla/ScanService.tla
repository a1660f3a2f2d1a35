----------------------------- MODULE ScanService -----------------------------
(***************************************************************************)
(* The HTTP scan service: POST /scan and GET /scan/:id of                  *)
(* packages/api/src/server.ts with its RateLimiter, and the ScanQueue and  *)
(* DefaultScanBackend of scan-queue.ts.                                    *)
(*                                                                         *)
(* A request is one POST /scan; its name also names the scan it creates.   *)
(* Between the limiter's check and enqueue the handler waits for the       *)
(* body, and any other handler, timer or backend callback may run.  Time   *)
(* is Date.now() in units the constants are given in.                      *)
(***************************************************************************)
EXTENDS Integers, FiniteSets

CONSTANTS
  Requests, Ips,
  RateMax, Window,      \* RATE_LIMIT_MAX, RATE_LIMIT_WINDOW_MS
  MaxQueueJobs,         \* MAX_QUEUE_JOBS
  ScanTimeout,          \* SCAN_TIMEOUT_MS
  ResultTtl,            \* RESULT_TTL_MS
  LastArrival,          \* bound: no request arrives and no body ends after it
  Horizon,              \* bound: the clock stops here
  None

ASSUME TimesAssumption ==
  /\ {RateMax, Window, MaxQueueJobs, ScanTimeout, ResultTtl} \subseteq Nat \ {0}
  /\ LastArrival \in Nat /\ Horizon \in Nat
  /\ ScanTimeout < ResultTtl
  /\ LastArrival + ScanTimeout + ResultTtl < Horizon

ASSUME NoneAssumption ==
  /\ None \notin Requests \cup Ips \cup Int \cup {"done", "error", "expired", "unknown"}
  /\ None \notin [ip : Ips, at : Nat]

VARIABLES
  now,
  hits,       \* RateLimiter.hits: ip -> the requests whose timestamps it holds
  visit,      \* when a request passed the limiter and from where
  state,      \* of the handler: "new", "reading", or the status code it sent
  jobs,       \* the ids in ScanQueue.jobs
  status,     \* of each job's record, which its callbacks keep after a sweep
  startedAt, expiresAt,
  backend,    \* "idle", "running", "late" (given up on), "over"
  settledAt,  \* when the record stopped being pending
  answer      \* what the last GET /scan/:id said

limiter == <<hits, visit>>
queue   == <<jobs, status, startedAt, expiresAt, backend, settledAt>>
vars    == <<now, limiter, state, queue, answer>>

Init ==
  /\ now = 0
  /\ hits = [ip \in Ips |-> {}] /\ visit = [r \in Requests |-> None]
  /\ state = [r \in Requests |-> "new"]
  /\ jobs = {} /\ status = [r \in Requests |-> None]
  /\ startedAt = [r \in Requests |-> 0] /\ expiresAt = [r \in Requests |-> 0]
  /\ backend = [r \in Requests |-> "idle"]
  /\ settledAt = [r \in Requests |-> None]
  /\ answer = [r \in Requests |-> None]

-----------------------------------------------------------------------------
(* POST /scan.                                                             *)

Reply(r, code) == state' = [state EXCEPT ![r] = code]

\* Variant: windows start at multiples of their length.
FreshOfFixedWindow(ip) == {r \in hits[ip] : visit[r].at \div Window = now \div Window}

Fresh(ip) == {r \in hits[ip] : now - visit[r].at < Window}

\* 415 and 413 from the headers, before the limiter counts the request.
RejectHeaders(r) ==
  /\ now <= LastArrival /\ state[r] = "new"
  /\ Reply(r, "rejected")
  /\ UNCHANGED <<now, limiter, queue, answer>>

\* The limiter records the attempt before the API key and the body are looked at.
PassLimiter(r, ip) ==
  /\ now <= LastArrival /\ state[r] = "new"
  /\ Cardinality(Fresh(ip)) < RateMax
  /\ hits' = [hits EXCEPT ![ip] = Fresh(ip) \cup {r}]
  /\ visit' = [visit EXCEPT ![r] = [ip |-> ip, at |-> now]]
  /\ \E keyAccepted \in BOOLEAN : Reply(r, IF keyAccepted THEN "reading" ELSE "rejected")
  /\ UNCHANGED <<now, queue, answer>>

RateLimit(r, ip) ==
  /\ now <= LastArrival /\ state[r] = "new"
  /\ Cardinality(Fresh(ip)) >= RateMax
  /\ hits' = [hits EXCEPT ![ip] = Fresh(ip)]
  /\ Reply(r, "429")
  /\ UNCHANGED <<now, visit, queue, answer>>

\* Too large, not JSON, or not a scan request.
RejectBody(r) ==
  /\ state[r] = "reading"
  /\ Reply(r, "rejected")
  /\ UNCHANGED <<now, limiter, queue, answer>>

Unexpired(js) == {r \in js : ~(now > expiresAt[r])}

Accept(r, swept) ==
  /\ Reply(r, "202")
  /\ jobs' = swept \cup {r}
  /\ status' = [status EXCEPT ![r] = "pending"]
  /\ startedAt' = [startedAt EXCEPT ![r] = now]
  /\ expiresAt' = [expiresAt EXCEPT ![r] = now + ResultTtl]
  /\ backend' = [backend EXCEPT ![r] = "running"]
  /\ UNCHANGED <<now, limiter, settledAt, answer>>

\* enqueue sweeps, then looks at the size of the map.
Enqueue(r) ==
  /\ now <= LastArrival /\ state[r] = "reading"
  /\ IF Cardinality(Unexpired(jobs)) >= MaxQueueJobs
     THEN /\ Reply(r, "503")
          /\ jobs' = Unexpired(jobs)
          /\ UNCHANGED <<now, limiter, status, startedAt, expiresAt, backend, settledAt, answer>>
     ELSE Accept(r, Unexpired(jobs))

-----------------------------------------------------------------------------
(* The backend and the sweep.                                              *)

\* Variant: a result is kept for a TTL from its start.
RecordWithoutRenewal(r, s) ==
  /\ status' = [status EXCEPT ![r] = s]
  /\ settledAt' = [settledAt EXCEPT ![r] = now]
  /\ UNCHANGED <<now, limiter, state, jobs, startedAt, expiresAt, answer>>

Record(r, s) ==
  /\ status' = [status EXCEPT ![r] = s]
  /\ expiresAt' = [expiresAt EXCEPT ![r] = now + ResultTtl]
  /\ settledAt' = [settledAt EXCEPT ![r] = now]
  /\ UNCHANGED <<now, limiter, state, jobs, startedAt, answer>>

BackendEnds(r, s) ==
  /\ backend[r] = "running"
  /\ backend' = [backend EXCEPT ![r] = "over"]
  /\ Record(r, s)

\* Variant: nobody catches the timer's rejection.
TimesOutUnrecorded(r) ==
  /\ backend[r] = "running" /\ now >= startedAt[r] + ScanTimeout
  /\ backend' = [backend EXCEPT ![r] = "late"]
  /\ UNCHANGED <<now, limiter, state, jobs, status, startedAt, expiresAt, settledAt, answer>>

\* Promise.race: the timer wins, runInternal goes on.
TimesOut(r) ==
  /\ backend[r] = "running" /\ now >= startedAt[r] + ScanTimeout
  /\ backend' = [backend EXCEPT ![r] = "late"]
  /\ Record(r, "error")

\* Variant: the late result is recorded too.
LateEndsRecorded(r) ==
  /\ backend[r] = "late"
  /\ backend' = [backend EXCEPT ![r] = "over"]
  /\ Record(r, "done")

LateEnds(r) ==
  /\ backend[r] = "late"
  /\ backend' = [backend EXCEPT ![r] = "over"]
  /\ UNCHANGED <<now, limiter, state, jobs, status, startedAt, expiresAt, settledAt, answer>>

Sweep ==
  /\ Unexpired(jobs) # jobs
  /\ jobs' = Unexpired(jobs)
  /\ UNCHANGED <<now, limiter, state, status, startedAt, expiresAt, backend, settledAt, answer>>

-----------------------------------------------------------------------------
\* GET /scan/:id of a scan that was accepted.
GetResult(r) ==
  /\ state[r] = "202"
  /\ LET gone    == r \notin jobs
         expired == ~gone /\ status[r] # "pending" /\ now > expiresAt[r]
     IN  /\ answer' = [answer EXCEPT ![r] =
              CASE gone -> "unknown" [] expired -> "expired" [] OTHER -> status[r]]
         /\ jobs' = IF expired THEN jobs \ {r} ELSE jobs
  /\ UNCHANGED <<now, limiter, state, status, startedAt, expiresAt, backend, settledAt>>

\* Timers fire before the clock passes them.
Tick ==
  /\ now < Horizon
  /\ \A r \in Requests : backend[r] = "running" => now < startedAt[r] + ScanTimeout
  /\ now' = now + 1
  /\ UNCHANGED <<limiter, state, queue, answer>>

Handle(r) ==
  \/ RejectHeaders(r) \/ (\E ip \in Ips : PassLimiter(r, ip) \/ RateLimit(r, ip))
  \/ RejectBody(r) \/ Enqueue(r) \/ GetResult(r)

Run(r) == (\E s \in {"done", "error"} : BackendEnds(r, s)) \/ TimesOut(r) \/ LateEnds(r)

Next == (\E r \in Requests : Handle(r) \/ Run(r)) \/ Sweep \/ Tick

Spec == Init /\ [][Next]_vars

\* The clock advances and timers fire; clients and backends owe nothing.
FairSpec == Spec /\ WF_vars(Tick) /\ WF_vars(Sweep) /\ \A r \in Requests : WF_vars(TimesOut(r))

-----------------------------------------------------------------------------
Times == 0..Horizon

\* Those of one address that passed the limiter in the window from t on.
PassedIn(ip, t) ==
  {r \in Requests : /\ visit[r] # None /\ visit[r].ip = ip
                    /\ t <= visit[r].at /\ visit[r].at < t + Window}

(***************************************************************************)
(* In no interval of the window's length, wherever it starts, do more than *)
(* RateMax requests of one address get past the limiter, however their     *)
(* uploads interleave.                                                     *)
(***************************************************************************)
RateLimited == \A ip \in Ips, t \in Times : Cardinality(PassedIn(ip, t)) <= RateMax

(***************************************************************************)
(* An accepted scan can be asked for until its retention after completion  *)
(* ends: no sweep removes it while it runs, and none removes it early.     *)
(***************************************************************************)
KeptForRetention ==
  \A r \in Requests :
    state[r] = "202" /\ (settledAt[r] = None \/ now <= settledAt[r] + ResultTtl) => r \in jobs

(***************************************************************************)
(* A client that was told a scan's outcome is never told another one, even *)
(* when the analysis it gave up on ends later.                             *)
(***************************************************************************)
OutcomeFinal ==
  [][\A r \in Requests :
       /\ answer[r] \in {"done", "error"} => answer'[r] \in {answer[r], "expired", "unknown"}
       /\ answer[r] \in {"expired", "unknown"} => answer'[r] = "unknown" \/ answer'[r] = answer[r]
    ]_vars

(***************************************************************************)
(* Every accepted scan gets an outcome although its analysis may hang.     *)
(***************************************************************************)
AcceptedScanSettles ==
  \A r \in Requests : (state[r] = "202") ~> (status[r] \in {"done", "error"})
=============================================================================
