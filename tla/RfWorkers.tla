------------------------------ MODULE RfWorkers ------------------------------
(***************************************************************************)
(* core/rf/geo_supervisor.py: processes that take links from one queue,    *)
(* evaluate each with an engine of their own (RfEngine), put the answers   *)
(* into another queue and end after max_links links.  The supervisor looks *)
(* for processes that have ended only when a link is submitted or an       *)
(* answer is collected, and replaces them then.                            *)
(*                                                                         *)
(* A process may also crash, with a link in its hands.  One caller submits *)
(* and collects; collect waits with a timeout or without.                  *)
(***************************************************************************)
EXTENDS RfEngine, FiniteSets

CONSTANTS
  Requests,    \* request ids
  LinkOf,      \* request -> link
  NumWorkers, MaxLinks,
  MaxWorkers,  \* bound on the processes started
  MaxCrashes,  \* bound on the crashes
  MaxFailures  \* bound on the loads that fail

WorkerIds == 0..(MaxWorkers - 1)

\* Each process serves at least one link or crashes, so that the bound on the
\* processes is never in the way.
ASSUME WorkersAssumption ==
  /\ NumWorkers \in Nat \ {0} /\ MaxLinks \in Nat \ {0} /\ MaxCrashes \in Nat
  /\ MaxWorkers \in Nat /\ MaxFailures \in Nat
  /\ NumWorkers + Cardinality(Requests) + MaxCrashes <= MaxWorkers
  /\ LinkOf \in [Requests -> Links]

VARIABLES
  tasks,      \* task_q, request ids and None
  results,    \* result_q
  workers,    \* the worker ids in self.workers
  seq,        \* _worker_seq
  proc,       \* worker id -> its process
  caller,     \* "idle", in collect "waiting" or "blocked", "closing", "closed"
  submitted,  \* requests submitted
  answered,   \* requests collected
  lost,       \* requests a process had in its hands when it crashed or was ended
  crashes,
  failures    \* failed loads

queues == <<tasks, results>>
pool == <<workers, seq>>
history == <<submitted, answered, lost, crashes, failures>>
vars == <<queues, pool, proc, caller, history>>

\* clean: no load of this process has failed.
Started == [pc |-> "ready", left |-> MaxLinks, task |-> None, engine |-> NewEngine, clean |-> TRUE]

Gone == [Started EXCEPT !.pc = "gone"]

Init ==
  /\ tasks = <<>> /\ results = <<>>
  /\ workers = 0..(NumWorkers - 1)
  /\ seq = NumWorkers
  /\ proc = [w \in WorkerIds |-> IF w < NumWorkers THEN Started ELSE Gone]
  /\ caller = "idle"
  /\ submitted = {} /\ answered = {} /\ lost = {}
  /\ crashes = 0 /\ failures = 0

-----------------------------------------------------------------------------
\* _rf_worker_loop

Take(w) ==
  /\ proc[w].pc = "ready" /\ tasks # <<>>
  /\ tasks' = Tail(tasks)
  /\ proc' = [proc EXCEPT ![w] = IF Head(tasks) = None THEN Gone
                                 ELSE [@ EXCEPT !.pc = "busy", !.task = Head(tasks)]]
  /\ UNCHANGED <<results, pool, caller, history>>

\* An error is an answer too; after the last link the process ends.
Serve(w) ==
  /\ proc[w].pc = "busy"
  /\ LET p == proc[w]
         l == LinkOf[p.task]
     IN \E fail \in IF failures < MaxFailures THEN FailuresOf(l) ELSE {NoFailure} :
          \E done \in {Evaluate(p.engine, l, fail)} :
             /\ failures' = IF fail = NoFailure THEN failures ELSE failures + 1
             /\ results' = Append(results, [id |-> p.task, answer |-> done.answer,
                                            clean |-> p.clean /\ fail = NoFailure])
             /\ proc' = [proc EXCEPT ![w] =
                           IF p.left = 1 THEN Gone
                           ELSE [pc |-> "ready", left |-> p.left - 1, task |-> None,
                                 engine |-> done.engine, clean |-> p.clean /\ done.loaded]]
  /\ UNCHANGED <<tasks, pool, caller, submitted, answered, lost, crashes>>

Crash(w) ==
  /\ proc[w].pc \in {"ready", "busy"} /\ crashes < MaxCrashes
  /\ proc' = [proc EXCEPT ![w] = Gone]
  /\ lost' = lost \cup ({proc[w].task} \ {None})
  /\ crashes' = crashes + 1
  /\ UNCHANGED <<queues, pool, caller, submitted, answered, failures>>

-----------------------------------------------------------------------------
\* GeoSupervisor

\* Variant: processes that have ended are forgotten and not replaced.
ReapOnly ==
  /\ workers' = {w \in workers : proc[w].pc # "gone"}
  /\ UNCHANGED <<seq, proc>>

\* _reap_and_respawn
ReapAndRespawn ==
  LET dead == {w \in workers : proc[w].pc = "gone"}
      new  == seq..(seq + Cardinality(dead) - 1)
  IN /\ workers' = (workers \ dead) \cup new
     /\ seq' = seq + Cardinality(dead)
     /\ proc' = [w \in WorkerIds |-> IF w \in new THEN Started ELSE proc[w]]

Submit(r) ==
  /\ caller = "idle" /\ r \notin submitted
  /\ ReapAndRespawn
  /\ tasks' = Append(tasks, r)
  /\ submitted' = submitted \cup {r}
  /\ UNCHANGED <<results, caller, answered, lost, crashes, failures>>

\* collect reaps first and then waits, with a timeout or until there is a result.
Collect(blocking) ==
  /\ caller = "idle"
  /\ ReapAndRespawn
  /\ caller' = IF blocking THEN "blocked" ELSE "waiting"
  /\ UNCHANGED <<queues, history>>

CollectResult ==
  /\ caller \in {"waiting", "blocked"} /\ results # <<>>
  /\ results' = Tail(results)
  /\ answered' = answered \cup {Head(results).id}
  /\ caller' = "idle"
  /\ UNCHANGED <<tasks, pool, proc, submitted, lost, crashes, failures>>

CollectTimeout ==
  /\ caller = "waiting" /\ results = <<>>
  /\ caller' = "idle"
  /\ UNCHANGED <<queues, pool, proc, history>>

Shutdown ==
  /\ caller = "idle"
  /\ tasks' = tasks \o [i \in 1..Cardinality(workers) |-> None]
  /\ caller' = "closing"
  /\ UNCHANGED <<results, pool, proc, history>>

\* A second after, processes that have not ended are terminated.
ShutdownEnd ==
  /\ caller = "closing"
  /\ lost' = lost \cup ({proc[w].task : w \in workers} \ {None})
  /\ proc' = [w \in WorkerIds |-> IF w \in workers THEN Gone ELSE proc[w]]
  /\ workers' = {}
  /\ caller' = "closed"
  /\ UNCHANGED <<queues, seq, submitted, answered, crashes, failures>>

Next ==
  \/ \E w \in WorkerIds : Take(w) \/ Serve(w) \/ Crash(w)
  \/ \E r \in Requests : Submit(r)
  \/ \E blocking \in BOOLEAN : Collect(blocking)
  \/ CollectResult
  \/ CollectTimeout
  \/ Shutdown
  \/ ShutdownEnd

\* Some process that can run runs: weak fairness of \E w : Take(w) \/ Serve(w),
\* spelt out, since only these steps change a process and nothing of the caller.
CanRun == \E w \in WorkerIds :
            proc[w].pc = "busy" \/ (proc[w].pc = "ready" /\ tasks # <<>>)

Runs == proc' # proc /\ UNCHANGED <<pool, caller, submitted, answered, lost, crashes>>

\* A caller that waits for answers collects until it has them; nothing makes it
\* submit, block or shut down.
Fairness ==
  /\ []<>~CanRun \/ []<><<Runs>>_vars
  /\ WF_vars(Collect(FALSE))
  /\ WF_vars(CollectResult \/ CollectTimeout)

Spec == Init /\ [][Next]_vars /\ Fairness

-----------------------------------------------------------------------------
\* Until the supervisor is shut down, links that wait always have a process that
\* will serve them, or the next call of the caller starts one: a request is
\* answered unless it was lost with its process, whatever number of processes
\* has retired meanwhile.  The exception is a collect without a timeout: the
\* processes may retire after it has looked for them.
RequestsAnswered ==
  []<>(submitted \subseteq (answered \cup lost) \/ caller \in {"blocked", "closing", "closed"})

\* A process that has failed no load before answers a covered link, when nothing
\* fails meanwhile, as a new process would, from the link's own terrain, data sets, bands and buildings,
\* whatever links it has evaluated before: the cache of open tiles, the current
\* data sets and the buildings paged in do not show.  Links with buildings
\* outside the footprint tiles of their ends are excepted.
AnswersAsFresh ==
  \A i \in DOMAIN results :
    LET l == LinkOf[results[i].id]
    IN results[i].clean /\ Covered(l) /\ EndsSuffice(l) => results[i].answer = FreshAnswer(l)

=============================================================================
