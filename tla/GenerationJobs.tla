---------------------------- MODULE GenerationJobs ----------------------------
(***************************************************************************)
(* The queue that drafts questions for a lesson, a job for each source of   *)
(* it and each version of the generator: 20260726100000 and 20260730210000  *)
(* (enqueue, claim, mark, complete, fail, retry), the worker                *)
(* generate-db-question-drafts.ts and the administrator of                  *)
(* api/admin/generation-jobs.  A lease and a delay have no clock: a lease   *)
(* may end, and a deferred job be ready, at any time.                       *)
(***************************************************************************)
EXTENDS Naturals, FiniteSets

CONSTANTS Workers, Sources, Versions, None, MaxAttempts,
          MaxSyncs, MaxRetries, MaxCalls  \* bounds

Jobs == Sources \X Versions
Source(j) == j[1]
Version(j) == j[2]

VARIABLES
  job,      \* job -> status, attempts, token, expired, dispatched
  worker,   \* worker -> pc, job, provider, calls
  lesson,   \* its current source
  drafted,  \* source -> batches of questions stored for it
  paid,     \* source -> calls that may have been paid, but for the ones whose
            \* questions came after the source had been replaced
  agreed,   \* source -> retries in spite of that, agreed to by the administrator
  syncs, retries

vars == <<job, worker, lesson, drafted, paid, agreed, syncs, retries>>

\* Calls are counted by the workers that may make them.
JobsAssumption == IsFiniteSet(Workers) /\ None \notin Workers

NoJob == [status |-> "none", attempts |-> 0, token |-> None, expired |-> FALSE, dispatched |-> FALSE]
Idle == [pc |-> "idle", job |-> None, provider |-> None, calls |-> 0]
Zero == [s \in Sources |-> 0]

Init ==
  /\ job = [j \in Jobs |-> NoJob] /\ worker = [w \in Workers |-> Idle] /\ lesson \in Sources
  /\ drafted = Zero /\ paid = Zero /\ agreed = Zero /\ syncs = 0 /\ retries = 0

Queued == {"pending", "deferred"}
Freed(j, status) == [j EXCEPT !.status = status, !.token = None]

------------------------------------------------------------------------------
(* Content sync: another source of the lesson, and the jobs of a generator. *)

Revise ==
  /\ syncs < MaxSyncs /\ syncs' = syncs + 1 /\ lesson' \in Sources \ {lesson}
  /\ UNCHANGED <<job, worker, drafted, paid, agreed, retries>>

Enqueue(v) ==
  /\ drafted[lesson] = 0 /\ job[<<lesson, v>>].status = "none"
  /\ job' = [job EXCEPT ![<<lesson, v>>].status = "pending"]
  /\ UNCHANGED <<worker, lesson, drafted, paid, agreed, syncs, retries>>

------------------------------------------------------------------------------
(* Claim: it closes what is stale or already drafted, settles the expired   *)
(* leases, and gives one job of the worker's version, unless a sibling of   *)
(* its source is open or has an outcome nobody confirmed.                   *)

Closed(j) == job[j].status \in Queued /\ (Source(j) # lesson \/ drafted[Source(j)] > 0)

Settled(j) ==
  CASE Closed(j) -> Freed(job[j], "completed")
    [] ~ Closed(j) /\ job[j].status = "running" /\ job[j].expired ->
         Freed(job[j], IF job[j].dispatched \/ job[j].attempts >= MaxAttempts
                       THEN "dead_letter" ELSE "deferred")
    [] OTHER -> job[j]

\* Mutant: only a sibling that is open blocks.
BlockedByOpen(jobs, j) ==
  \E k \in Jobs \ {j} : Source(k) = Source(j) /\ jobs[k].status \in Queued \cup {"running"}

Blocked(jobs, j) ==
  \E k \in Jobs \ {j} : Source(k) = Source(j) /\
    \/ jobs[k].status \in Queued \cup {"running"}
    \/ jobs[k].status \in {"failed", "dead_letter"} /\ jobs[k].dispatched

Candidates(jobs, v) ==
  {j \in Jobs : Version(j) = v /\ jobs[j].status \in Queued /\ jobs[j].attempts < MaxAttempts}

\* Without a job, or with the answer lost, the worker ends.
Claim(w, v) ==
  LET jobs == [j \in Jobs |-> Settled(j)]
  IN /\ worker[w].pc = "idle"
     /\ \/ /\ \A j \in Candidates(jobs, v) : Blocked(jobs, j)
           /\ jobs # job /\ job' = jobs /\ UNCHANGED worker
        \/ \E j \in Candidates(jobs, v) :
             /\ ~Blocked(jobs, j)
             /\ job' = [jobs EXCEPT ![j] = [NoJob EXCEPT !.status = "running", !.token = w,
                                              !.attempts = jobs[j].attempts + 1]]
             /\ worker' = [worker EXCEPT ![w] = [Idle EXCEPT !.pc = "mark", !.job = j,
                                                             !.provider = "openai"]]
     /\ UNCHANGED <<lesson, drafted, paid, agreed, syncs, retries>>

------------------------------------------------------------------------------
(* The worker.                                                             *)

Mine(w) == job[worker[w].job].status = "running" /\ job[worker[w].job].token = w
Go(w, pc) == worker' = [worker EXCEPT ![w].pc = pc]

\* mark_content_generation_dispatched, before every request; an answer that is
\* refused or lost fails the job.
Mark(w) ==
  /\ worker[w].pc = "mark"
  /\ IF Mine(w) /\ ~job[worker[w].job].expired
     THEN /\ job' = [job EXCEPT ![worker[w].job].dispatched = TRUE]
          /\ \E pc \in {"call", "fail"} : Go(w, pc)
     ELSE UNCHANGED job /\ Go(w, "fail")
  /\ UNCHANGED <<lesson, drafted, paid, agreed, syncs, retries>>

\* Drafts, or an outcome that is not certain.
Call(w) ==
  /\ worker[w].pc = "call" /\ worker[w].calls < MaxCalls
  /\ paid' = [paid EXCEPT ![Source(worker[w].job)] = @ + 1]
  /\ \E pc \in {"complete", "fail"} :
       worker' = [worker EXCEPT ![w].pc = pc, ![w].calls = @ + 1]
  /\ UNCHANGED <<job, lesson, drafted, agreed, syncs, retries>>

\* The provider says 429: the request is sent again, or to the other provider,
\* or the job is deferred.
Limited(w) ==
  /\ worker[w].pc = "call" /\ worker[w].calls < MaxCalls
  /\ \/ /\ worker[w].provider = "openai"
        /\ \E provider \in {"openai", "gemini"} : worker' = [worker EXCEPT ![w].pc = "mark", ![w].provider = provider, ![w].calls = @ + 1]
     \/ Go(w, "defer")
  /\ UNCHANGED <<job, lesson, drafted, paid, agreed, syncs, retries>>

\* complete_content_generation_job: an ended lease is an error, a source that
\* has gone is closed without questions.  A lost answer is a failure too.
Complete(w) ==
  LET j == worker[w].job
  IN /\ worker[w].pc = "complete"
     /\ IF Mine(w) /\ ~job[j].expired
        THEN /\ job' = [job EXCEPT ![j] = Freed(@, "completed")]
             /\ drafted' = IF Source(j) = lesson THEN [drafted EXCEPT ![lesson] = @ + 1] ELSE drafted
             /\ paid' = IF Source(j) = lesson THEN paid ELSE [paid EXCEPT ![Source(j)] = @ - 1]
             /\ (worker' = [worker EXCEPT ![w] = Idle] \/ Go(w, "fail"))
        ELSE UNCHANGED <<job, drafted, paid>> /\ Go(w, "fail")
     /\ UNCHANGED <<lesson, agreed, syncs, retries>>

\* fail_content_generation_job: only a confirmed 429 clears the mark and may
\* queue the job again.
Fail(w) ==
  LET j == worker[w].job
      limited == worker[w].pc = "defer"
  IN /\ worker[w].pc \in {"fail", "defer"} /\ worker' = [worker EXCEPT ![w] = Idle]
     /\ IF ~Mine(w) THEN UNCHANGED job
        ELSE job' = [job EXCEPT ![j] =
               [Freed(job[j], CASE ~limited -> "failed"
                                [] limited /\ job[j].attempts < MaxAttempts -> "deferred"
                                [] OTHER -> "dead_letter")
                 EXCEPT !.dispatched = @ /\ ~limited]]
     /\ UNCHANGED <<lesson, drafted, paid, agreed, syncs, retries>>

\* It dies, perhaps while the provider answers.
Die(w) ==
  /\ worker[w].pc # "idle" /\ (worker[w].pc = "call" => worker[w].calls < MaxCalls)
  /\ worker' = [worker EXCEPT ![w] = Idle]
  /\ paid' = IF worker[w].pc = "call" THEN [paid EXCEPT ![Source(worker[w].job)] = @ + 1] ELSE paid
  /\ UNCHANGED <<job, lesson, drafted, agreed, syncs, retries>>

Expire(j) ==
  /\ job[j].status = "running" /\ ~job[j].expired /\ job' = [job EXCEPT ![j].expired = TRUE]
  /\ UNCHANGED <<worker, lesson, drafted, paid, agreed, syncs, retries>>

\* retry_content_generation_job by an administrator of version v: the job is
\* queued again, or closed when it is of another version.  A mark must be
\* agreed to.
Retry(j, v) ==
  /\ retries < MaxRetries /\ retries' = retries + 1
  /\ \/ job[j].status \in {"deferred", "failed", "dead_letter"}
     \/ (job[j].status = "pending" /\ Version(j) # v)
  /\ job' = [job EXCEPT ![j] = IF Version(j) = v THEN [NoJob EXCEPT !.status = "pending"]
                               ELSE [Freed(@, "completed") EXCEPT !.dispatched = FALSE]]
  /\ agreed' = IF job[j].dispatched THEN [agreed EXCEPT ![Source(j)] = @ + 1] ELSE agreed
  /\ UNCHANGED <<worker, lesson, drafted, paid, syncs>>

Next ==
  \/ Revise
  \/ \E v \in Versions : Enqueue(v) \/ \E j \in Jobs : Retry(j, v)
  \/ \E j \in Jobs : Expire(j)
  \/ \E w \in Workers :
       \/ \E v \in Versions : Claim(w, v)
       \/ Mark(w) \/ Call(w) \/ Limited(w) \/ Complete(w) \/ Fail(w) \/ Die(w)

Spec == Init /\ [][Next]_vars

------------------------------------------------------------------------------
(* Properties.                                                             *)

\* A source is paid once, and once more for each time an administrator agreed
\* to it: whatever workers died, leases ended, versions were deployed or sources
\* came and went.
PaidTwiceIsAgreed == \A s \in DOMAIN paid : paid[s] <= 1 + agreed[s]
==============================================================================
