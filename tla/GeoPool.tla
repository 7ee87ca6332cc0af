------------------------------- MODULE GeoPool -------------------------------
(***************************************************************************)
(* cisei_lib/io/async_geo_service_pool.py: coroutines ask one pool for the *)
(* features of a link.  The pool answers from its cache, joins an          *)
(* extraction that is in flight, or starts one, which borrows a client     *)
(* from a queue and runs three blocking calls on a thread.  The service    *)
(* keeps one current link per client, so a client must serve one           *)
(* extraction at a time.                                                   *)
(*                                                                         *)
(* A step is what the event loop runs between two awaits, or one effect of *)
(* a thread.  start and close are called by one coroutine, as get_geo_pool *)
(* and lifespan do; close may come while others still use the pool.  A key *)
(* stands for a request with its options, features for the key of the link *)
(* they describe.                                                          *)
(***************************************************************************)
CONSTANTS
  Keys,         \* what _make_key distinguishes
  Tasks,        \* extraction tasks, reused when they are over
  Callers,      \* coroutines in get_request
  Samplers,     \* coroutines in point_samples
  Clients,      \* pool_size clients
  None

ASSUME GeoPoolAssumption ==
  /\ None \notin Keys \cup Tasks \cup Clients
  /\ Keys \cap {"busy", "error"} = {}
  /\ Tasks \cap Samplers = {}

VARIABLES
  life,         \* of the pool: _started, _closed and where close() waits
  free,         \* _clients
  cache,        \* _cache: key -> the key its features belong to
  inFlight,     \* _in_flight: key -> task
  task,         \* task -> [at, key, client, result]
  caller,       \* caller -> the task it awaits under the shield
  sampler,      \* sampler -> [at, client]
  pending,      \* close: the tasks it gathers
  closing,      \* close: the clients whose close_worker runs
  link,         \* service: client -> its current link
  remote        \* service: client -> its worker

poolVars == <<cache, inFlight, task, caller>>
closeVars == <<pending, closing>>
serviceVars == <<link, remote>>
vars == <<life, free, poolVars, sampler, closeVars, serviceVars>>

Job(at, k, c, result) == [at |-> at, key |-> k, client |-> c, result |-> result]

NoTask == Job("over", None, None, None)

Loan(at, c) == [at |-> at, client |-> c]

NoSample == Loan("over", None)

Started == life \in {"started", "closing", "draining"}

Alive == {t \in Tasks : task[t].at # "over"}

\* Threads of the executor that have not returned.
ThreadsIdle ==
  /\ \A t \in Tasks : task[t].at \notin {"linking", "linked"}
  /\ \A s \in Samplers : sampler[s].at # "sampling"

Init ==
  /\ life = "new"
  /\ free = {}
  /\ cache = [k \in Keys |-> None]
  /\ inFlight = [k \in Keys |-> None]
  /\ task = [t \in Tasks |-> NoTask]
  /\ caller = [c \in Callers |-> None]
  /\ sampler = [s \in Samplers |-> NoSample]
  /\ pending = {}
  /\ closing = {}
  /\ link = [c \in Clients |-> None]
  /\ remote = [c \in Clients |-> "none"]

-----------------------------------------------------------------------------
\* start

StartBegin ==
  /\ life = "new"
  /\ life' = "starting"
  /\ UNCHANGED <<free, poolVars, sampler, closeVars, serviceVars>>

\* Clients register one after the other; the last one ends start.
Register(c) ==
  /\ life = "starting"
  /\ c \notin free
  /\ remote' = [remote EXCEPT ![c] = "open"]
  /\ free' = free \cup {c}
  /\ life' = IF free' = Clients THEN "started" ELSE "starting"
  /\ UNCHANGED <<poolVars, sampler, closeVars, link>>

\* A registration fails: start raises, the clients registered before are
\* forgotten with their workers open, and start may be called again.
StartFails ==
  /\ life = "starting"
  /\ life' = "new"
  /\ free' = {}
  /\ UNCHANGED <<poolVars, sampler, closeVars, serviceVars>>

-----------------------------------------------------------------------------
\* get_request

\* Variant: every request that misses the cache starts an extraction.
RequestAlone(c, k) ==
  /\ Started
  /\ caller[c] = None
  /\ cache[k] = None
  /\ \E t \in Tasks \ Alive :
       /\ task' = [task EXCEPT ![t] = Job("waiting", k, None, None)]
       /\ inFlight' = [inFlight EXCEPT ![k] = t]
       /\ caller' = [caller EXCEPT ![c] = t]
  /\ UNCHANGED <<life, free, cache, sampler, closeVars, serviceVars>>

\* A request that is not cached (a cached one is answered at once): the caller
\* joins the key's task, or creates it.
Request(c, k) ==
  /\ Started
  /\ caller[c] = None
  /\ cache[k] = None
  /\ \/ /\ inFlight[k] # None
        /\ caller' = [caller EXCEPT ![c] = inFlight[k]]
        /\ UNCHANGED <<task, inFlight>>
     \/ /\ inFlight[k] = None
        /\ \E t \in Tasks \ Alive :
             /\ task' = [task EXCEPT ![t] = Job("waiting", k, None, None)]
             /\ inFlight' = [inFlight EXCEPT ![k] = t]
             /\ caller' = [caller EXCEPT ![c] = t]
  /\ UNCHANGED <<life, free, cache, sampler, closeVars, serviceVars>>

\* The shield: the task goes on without the caller.
CancelCaller(c) ==
  /\ caller[c] # None
  /\ caller' = [caller EXCEPT ![c] = None]
  /\ UNCHANGED <<life, free, cache, inFlight, task, sampler, closeVars, serviceVars>>

\* The end of _calculate_and_cache, which wakes the callers and close().
EndTask(t) ==
  /\ inFlight' = [inFlight EXCEPT ![task[t].key] = None]
  /\ task' = [task EXCEPT ![t] = NoTask]
  /\ caller' = [c \in Callers |-> IF caller[c] = t THEN None ELSE caller[c]]
  /\ pending' = pending \ {t}

-----------------------------------------------------------------------------
\* _extract and _extract_blocking

\* Variant: the client stays in the queue.
TakeShared(t) ==
  /\ task[t].at = "waiting"
  /\ life # "closed"
  /\ \E c \in free : task' = [task EXCEPT ![t] = Job("linking", @.key, c, None)]
  /\ UNCHANGED <<life, free, cache, inFlight, caller, sampler, closeVars, serviceVars>>

\* Variant: a task is no longer registered once its extraction starts.
TakeUnregistered(t) ==
  /\ task[t].at = "waiting"
  /\ \E c \in free :
       /\ free' = free \ {c}
       /\ IF life = "closed"
          THEN EndTask(t)
          ELSE /\ task' = [task EXCEPT ![t] = Job("linking", @.key, c, None)]
               /\ inFlight' = [inFlight EXCEPT ![task[t].key] = None]
               /\ UNCHANGED <<caller, pending>>
  /\ UNCHANGED <<life, cache, sampler, closing, serviceVars>>

\* The task takes a client and its thread starts.  (After close it may still
\* take one that was returned late, and fails for want of an executor.)
Take(t) ==
  /\ task[t].at = "waiting"
  /\ \E c \in free :
       /\ free' = free \ {c}
       /\ IF life = "closed"
          THEN EndTask(t)
          ELSE /\ task' = [task EXCEPT ![t] = Job("linking", @.key, c, None)]
               /\ UNCHANGED <<inFlight, caller, pending>>
  /\ UNCHANGED <<life, cache, sampler, closing, serviceVars>>

\* set_link moves the client's link on the service.
SetLink(t) ==
  /\ task[t].at = "linking"
  /\ link' = [link EXCEPT ![task[t].client] = task[t].key]
  /\ task' = [task EXCEPT ![t] = Job("linked", @.key, @.client, None)]
  /\ UNCHANGED <<life, free, cache, inFlight, caller, sampler, closeVars, remote>>

\* prepare_profiles and link_features speak of the client's current link.
LinkFeatures(t) ==
  /\ task[t].at = "linked"
  /\ task' = [task EXCEPT ![t] = Job("back", @.key, @.client, link[@.client])]
  /\ UNCHANGED <<life, free, cache, inFlight, caller, sampler, closeVars, serviceVars>>

\* Any of the three calls is answered 503 or fails.
CallFails(t, how) ==
  /\ task[t].at \in {"linking", "linked"}
  /\ task' = [task EXCEPT ![t] = Job("back", @.key, @.client, how)]
  /\ UNCHANGED <<life, free, cache, inFlight, caller, sampler, closeVars, serviceVars>>

\* The client goes back to the queue; close has taken the queue away.
PutBack(c) == free' = IF life = "closed" THEN free ELSE free \cup {c}

\* Variant: a busy client is kept aside while its task sleeps.
ResumeBusyHolding(t) ==
  /\ task[t].at = "back"
  /\ task[t].result = "busy"
  /\ IF life = "closed"
     THEN EndTask(t)
     ELSE /\ task' = [task EXCEPT ![t] = Job("sleeping", @.key, None, None)]
          /\ UNCHANGED <<inFlight, caller, pending>>
  /\ UNCHANGED <<life, free, cache, sampler, closing, serviceVars>>

\* After 503 the client is returned before the task sleeps.
ResumeBusy(t) ==
  /\ task[t].at = "back"
  /\ task[t].result = "busy"
  /\ PutBack(task[t].client)
  /\ IF life = "closed"
     THEN EndTask(t)
     ELSE /\ task' = [task EXCEPT ![t] = Job("sleeping", @.key, None, None)]
          /\ UNCHANGED <<inFlight, caller, pending>>
  /\ UNCHANGED <<life, cache, sampler, closing, serviceVars>>

\* Features are cached and the task is over, in one step; an error, or the loss
\* of the queue, raises into the callers instead.
Resume(t) ==
  /\ task[t].at = "back"
  /\ task[t].result # "busy"
  /\ PutBack(task[t].client)
  /\ cache' = [cache EXCEPT ![task[t].key] =
                 IF task[t].result \in Keys /\ life # "closed" THEN task[t].result ELSE @]
  /\ EndTask(t)
  /\ UNCHANGED <<life, sampler, closing, serviceVars>>

\* Retry-After is over: queue again, or fail when the queue is gone.
Wake(t) ==
  /\ task[t].at = "sleeping"
  /\ IF life = "closed"
     THEN EndTask(t)
     ELSE /\ task' = [task EXCEPT ![t] = Job("waiting", @.key, None, None)]
          /\ UNCHANGED <<inFlight, caller, pending>>
  /\ UNCHANGED <<life, free, cache, sampler, closing, serviceVars>>

ClearCache ==
  /\ cache' = [k \in Keys |-> None]
  /\ UNCHANGED <<life, free, inFlight, task, caller, sampler, closeVars, serviceVars>>

-----------------------------------------------------------------------------
\* point_samples

SampleBegin(s) ==
  /\ Started
  /\ sampler[s] = NoSample
  /\ sampler' = [sampler EXCEPT ![s] = Loan("waiting", None)]
  /\ UNCHANGED <<life, free, poolVars, closeVars, serviceVars>>

SampleTake(s) ==
  /\ sampler[s].at = "waiting"
  /\ \E c \in free :
       /\ free' = free \ {c}
       /\ sampler' = [sampler EXCEPT ![s] =
                        IF life = "closed" THEN NoSample ELSE Loan("sampling", c)]
  /\ UNCHANGED <<life, poolVars, closeVars, serviceVars>>

SampleReturns(s) ==
  /\ sampler[s].at = "sampling"
  /\ sampler' = [sampler EXCEPT ![s] = Loan("back", @.client)]
  /\ UNCHANGED <<life, free, poolVars, closeVars, serviceVars>>

SampleEnd(s) ==
  /\ sampler[s].at = "back"
  /\ PutBack(sampler[s].client)
  /\ sampler' = [sampler EXCEPT ![s] = NoSample]
  /\ UNCHANGED <<life, poolVars, closeVars, serviceVars>>

\* Nothing shields a sampler: a cancelled one returns its client at once.
CancelSample(s) ==
  /\ sampler[s].at \in {"waiting", "sampling", "back"}
  /\ IF sampler[s].client = None THEN UNCHANGED free ELSE PutBack(sampler[s].client)
  /\ sampler' = [sampler EXCEPT ![s] = NoSample]
  /\ UNCHANGED <<life, poolVars, closeVars, serviceVars>>

-----------------------------------------------------------------------------
\* close

CloseUnstarted ==
  /\ life = "new"
  /\ life' = "closed"
  /\ UNCHANGED <<free, poolVars, sampler, closeVars, serviceVars>>

CloseBegin ==
  /\ life = "started"
  /\ Alive # {}
  /\ life' = "closing"
  /\ pending' = Alive
  /\ UNCHANGED <<free, poolVars, sampler, closing, serviceVars>>

\* The queue is emptied and its clients' workers are stopped by the executor;
\* with no client there is no await before the executor is shut down.
DrainClients ==
  /\ IF free = {}
     THEN ThreadsIdle /\ life' = "closed"
     ELSE life' = "draining"
  /\ closing' = free
  /\ free' = {}
  /\ UNCHANGED <<poolVars, sampler, pending, serviceVars>>

\* Nothing is in flight when close is called.
CloseIdle ==
  /\ life = "started"
  /\ Alive = {}
  /\ DrainClients

\* Variant: close waits until nothing is in flight.
DrainWhenIdle ==
  /\ life = "closing"
  /\ Alive = {}
  /\ DrainClients

\* Variant: the extractions in flight are not gathered.
DrainAtOnce ==
  /\ life = "closing"
  /\ DrainClients

\* The extractions that were in flight when close was called are over.
Drain ==
  /\ life = "closing"
  /\ pending = {}
  /\ DrainClients

CloseWorker(c) ==
  /\ c \in closing
  /\ closing' = closing \ {c}
  /\ \/ remote' = [remote EXCEPT ![c] = "stopped"]
     \/ UNCHANGED remote
  /\ UNCHANGED <<life, free, poolVars, sampler, pending, link>>

\* The executor waits for its threads, then the queue and the executor go.
CloseEnd ==
  /\ life = "draining"
  /\ closing = {}
  /\ ThreadsIdle
  /\ life' = "closed"
  /\ UNCHANGED <<free, poolVars, sampler, closeVars, serviceVars>>

-----------------------------------------------------------------------------

ThreadEnds(t) == LinkFeatures(t) \/ CallFails(t, "error")

Extract(t) ==
  \/ Take(t) \/ SetLink(t) \/ ThreadEnds(t) \/ CallFails(t, "busy")
  \/ ResumeBusy(t) \/ Resume(t) \/ Wake(t)

Sample(s) == SampleTake(s) \/ SampleReturns(s) \/ SampleEnd(s)

Next ==
  \/ StartBegin \/ StartFails
  \/ \E c \in Clients : Register(c) \/ CloseWorker(c)
  \/ \E c \in Callers : CancelCaller(c) \/ \E k \in Keys : Request(c, k)
  \/ \E t \in Tasks : Extract(t)
  \/ ClearCache
  \/ \E s \in Samplers : SampleBegin(s) \/ Sample(s) \/ CancelSample(s)
  \/ CloseUnstarted \/ CloseBegin \/ CloseIdle \/ Drain \/ CloseEnd

\* The loop and the threads run on; the queue serves its waiters in order; the
\* service is not busy for ever.
Fairness ==
  /\ \A t \in Tasks :
       /\ SF_vars(Take(t)) /\ WF_vars(Wake(t))
       /\ WF_vars(SetLink(t) \/ CallFails(t, "error") \/ CallFails(t, "busy"))
       /\ SF_vars(ThreadEnds(t))
       /\ WF_vars(ResumeBusy(t) \/ Resume(t))
  /\ \A s \in Samplers : SF_vars(SampleTake(s)) /\ WF_vars(SampleReturns(s)) /\ WF_vars(SampleEnd(s))
  /\ \A c \in Clients : WF_vars(CloseWorker(c))
  /\ SF_vars(Drain) /\ SF_vars(CloseEnd)

Spec == Init /\ [][Next]_vars /\ Fairness

-----------------------------------------------------------------------------

Jobs ==
  {NoTask}
    \cup [at : {"waiting", "sleeping"}, key : Keys, client : {None}, result : {None}]
    \cup [at : {"linking", "linked"}, key : Keys, client : Clients, result : {None}]
    \cup [at : {"back"}, key : Keys, client : Clients, result : Keys \cup {"busy", "error"}]

Loans ==
  [at : {"over", "waiting"}, client : {None}] \cup [at : {"sampling", "back"}, client : Clients]

TypeOK ==
  /\ life \in {"new", "starting", "started", "closing", "draining", "closed"}
  /\ free \subseteq Clients
  /\ cache \in [Keys -> Keys \cup {None}]
  /\ inFlight \in [Keys -> Tasks \cup {None}]
  /\ task \in [Tasks -> Jobs]
  /\ caller \in [Callers -> Tasks \cup {None}]
  /\ sampler \in [Samplers -> Loans]
  /\ pending \subseteq Alive
  /\ closing \subseteq Clients
  /\ link \in [Clients -> Keys \cup {None}]
  /\ remote \in [Clients -> {"none", "open", "stopped"}]

Holders(c) == {t \in Tasks : task[t].client = c} \cup {s \in Samplers : sampler[s].client = c}

\* Work is not repeated: no two extractions run for one key, and none runs for
\* a key that is cached, however callers come, join and are cancelled, and
\* whenever the cache is cleared.
NoRepeatedExtraction ==
  \A t \in Alive :
    /\ cache[task[t].key] = None
    /\ \A other \in Alive : task[other].key = task[t].key => other = t

\* Features are cached under the link they describe: between set_link and
\* link_features no other extraction moves the client's link.
CachedUnderItsKey == \A k \in Keys : cache[k] \in {None, k}

\* While the pool serves, no client is lost and none is lent twice: each is
\* queued or held by exactly one coroutine, busy answers, errors and cancelled
\* samples included.
ClientsConserved ==
  life \in {"started", "closing"} =>
    \A c \in Clients :
      \/ c \in free /\ Holders(c) = {}
      \/ c \notin free /\ \E h \in Tasks \cup Samplers : Holders(c) = {h}

\* A caller waits for a task that will wake it: one that runs, is the one
\* registered for its key, and has not been reused for another key.
CallersAwaitLiveTasks ==
  \A c \in Callers :
    caller[c] # None => /\ caller[c] \in Alive
                        /\ inFlight[task[caller[c]].key] = caller[c]

\* A client that close() neither stops nor was bound to miss.
Missed(c) ==
  /\ c \notin closing'
  /\ \A s \in Samplers : sampler[s].client # c
  /\ \A t \in Alive \ pending : task[t].client # c

\* close() waits for the extractions in flight: when it takes the clients, those
\* it misses (and whose workers it will not stop) are held by samples or by
\* requests that came after close was called.
CloseWaitsForInFlight ==
  [][(life \in {"started", "closing"} /\ life' \in {"draining", "closed"}) =>
       \A c \in Clients : ~Missed(c)]_vars

\* A request made while the pool is open is answered (with features or an
\* error), even if close() is called meanwhile.
RequestsAnswered ==
  \A c \in Callers : (life = "started" /\ caller[c] # None) ~> caller[c] = None

\* close() comes to its end.
CloseEnds == life \in {"closing", "draining"} ~> life = "closed"

=============================================================================
