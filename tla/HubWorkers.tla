----------------------------- MODULE HubWorkers -----------------------------
(***************************************************************************)
(* app/main_hub.py: the hub keeps one worker process per user.  A request  *)
(* starts the user's worker on demand under STARTUP_LOCK and is proxied to *)
(* it; registering again, the idle reaper and the shutdown of the hub stop *)
(* workers.  All of it is asyncio: a step below is what runs between two   *)
(* awaits, and steps of different handlers interleave at will.             *)
(*                                                                         *)
(* stop_worker resumes from proc.wait() some time after the exit: asyncio  *)
(* (up to 3.12) wakes the waiters only when the pipes of the process are   *)
(* closed too, or the 5 s timeout does, while returncode shows at once.    *)
(*                                                                         *)
(* The operating system's part is external: processes boot, exit, crash    *)
(* and bind their port when they choose.  Connecting to a port is one step *)
(* with reading it from the registry.  Authentication only rejects, and is *)
(* left out; time is the flag idle (600 s since last_active).              *)
(***************************************************************************)
EXTENDS FiniteSets

CONSTANTS
  Users,
  Workers,      \* process identities, reused once nothing refers to them
  Ports,
  Requests,     \* concurrent proxied requests
  Registers,    \* concurrent calls of /register
  Reaper,       \* the background task
  Closer,       \* the shutdown part of lifespan
  None

ASSUME HubAssumption ==
  /\ None \notin Users \cup Workers \cup Ports \cup Requests
  /\ Reaper # Closer
  /\ {Reaper, Closer} \cap Registers = {}

Stoppers == Registers \cup {Reaper, Closer}

VARIABLES
  registered,   \* the keys of user_registry
  worker,       \* user -> the entry's process and port, set and cleared together
  idle,         \* user -> now - last_active > MAX_IDLE_SECONDS
  proc,         \* process -> its life
  owner,        \* process -> the user it was spawned for
  port,         \* process -> the --port it was given
  lock,         \* STARTUP_LOCK: the request that holds it
  req,          \* request -> [at, user, worker]
  stop,         \* stopper -> [at, user, worker]: a suspended stop_worker
  left,         \* Reaper and Closer -> users their loops have still to look at
  hub           \* the hub's life

regVars  == <<registered, worker, idle>>
procVars == <<proc, owner, port>>
vars == <<regVars, procVars, lock, req, stop, left, hub>>

NoCall == [at |-> "no", user |-> None, worker |-> None]

Call(at, u, w) == [at |-> at, user |-> u, worker |-> w]

Init ==
  /\ registered = {}
  /\ worker = [u \in Users |-> None]
  /\ idle = [u \in Users |-> FALSE]
  /\ proc = [w \in Workers |-> "free"]
  /\ owner = [w \in Workers |-> None]
  /\ port = [w \in Workers |-> None]
  /\ lock = None
  /\ req = [r \in Requests |-> NoCall]
  /\ stop = [s \in Stoppers |-> NoCall]
  /\ left = [s \in {Reaper, Closer} |-> {}]
  /\ hub = "serving"

-----------------------------------------------------------------------------
\* Processes (external: uvicorn and the operating system)

Listening(p) == {w \in Workers : proc[w] = "up" /\ port[w] = p}

Boot(w) ==
  /\ proc[w] = "booting"
  /\ proc' = [proc EXCEPT ![w] = IF Listening(port[w]) = {} THEN "up" ELSE "dead"]
  /\ UNCHANGED <<regVars, owner, port, lock, req, stop, left, hub>>

\* After SIGTERM the server closes its socket and drains its requests.
Exit(w) ==
  /\ proc[w] = "term"
  /\ \A r \in Requests : ~(req[r].at = "proxied" /\ req[r].worker = w)
  /\ proc' = [proc EXCEPT ![w] = "dead"]
  /\ UNCHANGED <<regVars, owner, port, lock, req, stop, left, hub>>

Crash(w) ==
  /\ proc[w] \in {"booting", "up"}
  /\ proc' = [proc EXCEPT ![w] = "dead"]
  /\ UNCHANGED <<regVars, owner, port, lock, req, stop, left, hub>>

\* process.terminate(): no effect on a process that has exited; one that is
\* still booting dies of it.
Terminated(w) ==
  [proc EXCEPT ![w] = CASE @ = "up" -> "term" [] @ = "booting" -> "dead" [] OTHER -> @]

Referenced(w) ==
  \/ \E u \in Users : worker[u] = w
  \/ \E r \in Requests : req[r].worker = w
  \/ \E s \in Stoppers : stop[s].worker = w

Spare == {w \in Workers : proc[w] = "free" \/ (proc[w] = "dead" /\ ~Referenced(w))}

FreePorts == {p \in Ports : Listening(p) = {}}

-----------------------------------------------------------------------------
\* route_request and start_worker_instance

\* Variant: the check does not look at returncode.
ProvisionedByPort(u) == worker[u] # None

\* The check of just-in-time provisioning, negated.
Provisioned(u) == worker[u] # None /\ proc[worker[u]] # "dead"

\* The answer of a request whose port is p: proxied to whoever listens there,
\* or a 502.
Proxy(r, u, p) ==
  \/ \E w \in Listening(p) : req' = [req EXCEPT ![r] = Call("proxied", u, w)]
  \/ Listening(p) = {} /\ req' = [req EXCEPT ![r] = NoCall]

Arrive(r, u) ==
  /\ hub = "serving"
  /\ req[r] = NoCall
  /\ u \in registered
  /\ idle' = [idle EXCEPT ![u] = FALSE]
  /\ \/ Provisioned(u) /\ Proxy(r, u, port[worker[u]])
     \/ ~Provisioned(u) /\ req' = [req EXCEPT ![r] = Call("queued", u, None)]
  /\ UNCHANGED <<registered, worker, procVars, lock, stop, left, hub>>

\* The lock is taken and the check repeated: another request may have started
\* the worker meanwhile.
AcquireProvisioned(r) ==
  /\ req[r].at = "queued"
  /\ lock = None
  /\ Provisioned(req[r].user)
  /\ Proxy(r, req[r].user, port[worker[req[r].user]])
  /\ UNCHANGED <<regVars, procVars, lock, stop, left, hub>>

\* Variant: the worker is started outside the lock.
SpawnUnlocked(r) ==
  /\ req[r].at = "queued"
  /\ ~Provisioned(req[r].user)
  /\ \E w \in Spare, p \in FreePorts :
       /\ lock' = r
       /\ proc' = [proc EXCEPT ![w] = "booting"]
       /\ owner' = [owner EXCEPT ![w] = req[r].user]
       /\ port' = [port EXCEPT ![w] = p]
       /\ req' = [req EXCEPT ![r] = Call("starting", @.user, w)]
  /\ UNCHANGED <<regVars, stop, left, hub>>

\* Otherwise a port is chosen and the process spawned.
AcquireSpawn(r) ==
  /\ req[r].at = "queued"
  /\ lock = None
  /\ ~Provisioned(req[r].user)
  /\ \E w \in Spare, p \in FreePorts :
       /\ lock' = r
       /\ proc' = [proc EXCEPT ![w] = "booting"]
       /\ owner' = [owner EXCEPT ![w] = req[r].user]
       /\ port' = [port EXCEPT ![w] = p]
       /\ req' = [req EXCEPT ![r] = Call("starting", @.user, w)]
  /\ UNCHANGED <<regVars, stop, left, hub>>

\* No free port, or the spawn fails: the exception leaves the lock.
AcquireFails(r) ==
  /\ req[r].at = "queued"
  /\ lock = None
  /\ ~Provisioned(req[r].user)
  /\ Spare = {} \/ FreePorts = {}
  /\ req' = [req EXCEPT ![r] = NoCall]
  /\ UNCHANGED <<regVars, procVars, lock, stop, left, hub>>

\* The health check is answered by whoever listens on the port.
Healthy(r) ==
  LET u == req[r].user
      w == req[r].worker
  IN /\ req[r].at = "starting"
     /\ proc[w] # "dead"
     /\ Listening(port[w]) # {}
     /\ worker' = [worker EXCEPT ![u] = w]
     /\ idle' = [idle EXCEPT ![u] = FALSE]
     /\ req' = [req EXCEPT ![r].at = "started"]
     /\ UNCHANGED <<registered, procVars, lock, stop, left, hub>>

\* Variant: the exception of a failed start keeps the lock.
StartFailsHoldingLock(r) ==
  /\ req[r].at = "starting"
  /\ \/ proc[req[r].worker] = "dead" /\ UNCHANGED proc
     \/ proc' = Terminated(req[r].worker)
     \/ proc[req[r].worker] = "up" /\ UNCHANGED proc
  /\ req' = [req EXCEPT ![r] = NoCall]
  /\ UNCHANGED <<regVars, owner, port, lock, stop, left, hub>>

\* The start fails: the process has exited, or 30 checks went unanswered and it
\* is terminated (and not waited for), or a check failed with an error other
\* than a refused connection or a timeout, which leaves the process running.
StartFails(r) ==
  /\ req[r].at = "starting"
  /\ \/ proc[req[r].worker] = "dead" /\ UNCHANGED proc
     \/ proc' = Terminated(req[r].worker)
     \/ proc[req[r].worker] = "up" /\ UNCHANGED proc
  /\ req' = [req EXCEPT ![r] = NoCall]
  /\ lock' = None
  /\ UNCHANGED <<regVars, owner, port, stop, left, hub>>

\* The health-check client is closed, the lock released, the port read.  When
\* the entry was cleared meanwhile the URL is invalid and the request fails.
Started(r) ==
  LET u == req[r].user
  IN /\ req[r].at = "started"
     /\ lock' = None
     /\ \/ worker[u] # None /\ Proxy(r, u, port[worker[u]])
        \/ worker[u] = None /\ req' = [req EXCEPT ![r] = NoCall]
     /\ UNCHANGED <<regVars, procVars, stop, left, hub>>

\* The response, the 502 of a lost worker, or the 600 s timeout.
Reply(r) ==
  /\ req[r].at = "proxied"
  /\ req' = [req EXCEPT ![r] = NoCall]
  /\ UNCHANGED <<regVars, procVars, lock, stop, left, hub>>

-----------------------------------------------------------------------------
\* stop_worker and its callers

\* stop_worker(u) up to its await.  An exited process is not waited for.
StopBegin(s, u) ==
  LET w == worker[u]
  IN IF w = None THEN UNCHANGED <<worker, proc, stop>>
     ELSE IF proc[w] = "dead"
     THEN worker' = [worker EXCEPT ![u] = None] /\ UNCHANGED <<proc, stop>>
     ELSE /\ proc' = Terminated(w)
          /\ stop' = [stop EXCEPT ![s] = Call("waiting", u, w)]
          /\ UNCHANGED worker

\* Variant: a process that ignores SIGTERM is not killed.
StopTimeoutWithoutKill(s) ==
  /\ stop[s].at = "waiting"
  /\ proc[stop[s].worker] # "dead"
  /\ UNCHANGED vars

\* wait_for timed out: the process is killed.
StopTimeout(s) ==
  /\ stop[s].at = "waiting"
  /\ proc[stop[s].worker] # "dead"
  /\ proc' = [proc EXCEPT ![stop[s].worker] = "dead"]
  /\ UNCHANGED <<regVars, owner, port, lock, req, stop, left, hub>>

\* The wait is over; the entry is cleared, whatever it holds by now.
StopEnd(s) ==
  LET u == stop[s].user
  IN /\ stop[s].at = "waiting"
     /\ proc[stop[s].worker] = "dead"
     /\ worker' = [worker EXCEPT ![u] = None]
     /\ stop' = [stop EXCEPT ![s] = NoCall]
     /\ UNCHANGED <<registered, idle, procVars, lock, req, left, hub>>

RegisterNew(u) ==
  /\ hub = "serving"
  /\ u \notin registered
  /\ registered' = registered \cup {u}
  /\ idle' = [idle EXCEPT ![u] = FALSE]
  /\ UNCHANGED <<worker, procVars, lock, req, stop, left, hub>>

RegisterAgain(s, u) ==
  /\ hub = "serving"
  /\ u \in registered
  /\ stop[s] = NoCall
  /\ StopBegin(s, u)
  /\ UNCHANGED <<registered, idle, owner, port, lock, req, left, hub>>

\* 600 s pass without a request for u.
GrowIdle(u) ==
  /\ u \in registered
  /\ ~idle[u]
  /\ idle' = [idle EXCEPT ![u] = TRUE]
  /\ UNCHANGED <<registered, worker, procVars, lock, req, stop, left, hub>>

\* now is taken once per round, so only users idle at that moment can be reaped.
ReaperWakes ==
  /\ hub = "serving"
  /\ stop[Reaper] = NoCall
  /\ left[Reaper] = {}
  /\ left' = [left EXCEPT ![Reaper] = {u \in registered : idle[u]}]
  /\ left[Reaper] # left'[Reaper]
  /\ UNCHANGED <<regVars, procVars, lock, req, stop, hub>>

ReaperLooks(u) ==
  /\ hub = "serving"
  /\ stop[Reaper] = NoCall
  /\ u \in left[Reaper]
  /\ left' = [left EXCEPT ![Reaper] = @ \ {u}]
  /\ IF idle[u] THEN StopBegin(Reaper, u) ELSE UNCHANGED <<worker, proc, stop>>
  /\ UNCHANGED <<registered, idle, owner, port, lock, req, hub>>

\* Variant: the shutdown goes by the users' activity.
ShutdownOfIdle ==
  /\ hub = "serving"
  /\ \A r \in Requests : req[r] = NoCall
  /\ \A s \in Registers : stop[s] = NoCall
  /\ hub' = "closing"
  /\ stop' = [stop EXCEPT ![Reaper] = NoCall]
  /\ left' = [left EXCEPT ![Reaper] = {}, ![Closer] = {u \in registered : idle[u]}]
  /\ UNCHANGED <<regVars, procVars, lock, req>>

\* The server lets its handlers finish, then lifespan cancels the reaper, in the
\* middle of a stop_worker or not.
Shutdown ==
  /\ hub = "serving"
  /\ \A r \in Requests : req[r] = NoCall
  /\ \A s \in Registers : stop[s] = NoCall
  /\ hub' = "closing"
  /\ stop' = [stop EXCEPT ![Reaper] = NoCall]
  /\ left' = [left EXCEPT ![Reaper] = {}, ![Closer] = registered]
  /\ UNCHANGED <<regVars, procVars, lock, req>>

CloserStops(u) ==
  /\ hub = "closing"
  /\ stop[Closer] = NoCall
  /\ u \in left[Closer]
  /\ left' = [left EXCEPT ![Closer] = @ \ {u}]
  /\ StopBegin(Closer, u)
  /\ UNCHANGED <<registered, idle, owner, port, lock, req, hub>>

Closed ==
  /\ hub = "closing"
  /\ stop[Closer] = NoCall
  /\ left[Closer] = {}
  /\ hub' = "closed"
  /\ UNCHANGED <<regVars, procVars, lock, req, stop, left>>

-----------------------------------------------------------------------------

Acquire(r) == AcquireProvisioned(r) \/ AcquireSpawn(r) \/ AcquireFails(r)

StartEnds(r) == Healthy(r) \/ StartFails(r)

Next ==
  \/ \E w \in Workers : Boot(w) \/ Exit(w) \/ Crash(w)
  \/ \E r \in Requests, u \in Users : Arrive(r, u)
  \/ \E r \in Requests : Acquire(r) \/ StartEnds(r) \/ Started(r) \/ Reply(r)
  \/ \E s \in Stoppers : StopTimeout(s) \/ StopEnd(s)
  \/ \E u \in Users : RegisterNew(u) \/ GrowIdle(u) \/ ReaperLooks(u) \/ CloserStops(u)
  \/ \E s \in Registers, u \in Users : RegisterAgain(s, u)
  \/ ReaperWakes
  \/ Shutdown
  \/ Closed

\* Handlers run on: starts, replies and stops have timeouts, the reaper's sleep
\* ends, and asyncio.Lock serves its waiters in order.
Fairness ==
  /\ \A r \in Requests :
       SF_vars(Acquire(r)) /\ WF_vars(StartEnds(r)) /\ WF_vars(Started(r)) /\ WF_vars(Reply(r))
  /\ \A s \in Stoppers : WF_vars(StopTimeout(s)) /\ WF_vars(StopEnd(s))
  /\ WF_vars(ReaperWakes)
  /\ WF_vars(Closed)
  /\ \A u \in Users : WF_vars(ReaperLooks(u)) /\ WF_vars(CloserStops(u))

Spec == Init /\ [][Next]_vars /\ Fairness

-----------------------------------------------------------------------------

\* What a request and a stopper are about.
Handling ==
  {NoCall} \cup [at : {"queued"}, user : Users, worker : {None}]
           \cup [at : {"starting", "started", "proxied"}, user : Users, worker : Workers]

Waiting == {NoCall} \cup [at : {"waiting"}, user : Users, worker : Workers]

TypeOK ==
  /\ registered \subseteq Users
  /\ worker \in [Users -> Workers \cup {None}]
  /\ idle \in [Users -> BOOLEAN]
  /\ proc \in [Workers -> {"free", "booting", "up", "term", "dead"}]
  /\ owner \in [Workers -> Users \cup {None}]
  /\ port \in [Workers -> Ports \cup {None}]
  /\ lock \in Requests \cup {None}
  /\ req \in [Requests -> Handling]
  /\ stop \in [Stoppers -> Waiting]
  /\ left \in [{Reaper, Closer} -> SUBSET Users]
  /\ hub \in {"serving", "closing", "closed"}

\* A request is never handed to a worker spawned for another user, although a
\* dead worker's entry may name a port that is another user's by now: all but
\* the requests that come while their own worker is being stopped, whose port
\* is given up before the entry is cleared.
RoutedToOwnWorker ==
  [][\A r \in Requests :
       LET u == req'[r].user
       IN req'[r].at = "proxied" /\ req[r].at # "proxied"
            => \/ owner[req'[r].worker] = u
               \/ \E s \in Stoppers : stop[s].at = "waiting" /\ stop[s].user = u]_vars

\* The holder of STARTUP_LOCK is the one request inside start_worker_instance,
\* and nobody else's process is registered under its hands.
OneStarter ==
  \A r \in Requests : req[r].at \in {"starting", "started"} <=> lock = r

\* When the hub has shut down, no entry still names a process, and none was
\* left half stopped by the cancelled reaper.
ClosedRegistryIsEmpty == hub = "closed" => \A u \in Users : worker[u] = None

\* Every request is answered: starts that fail release the lock.
RequestsAnswered == \A r \in Requests : req[r] # NoCall ~> req[r] = NoCall

\* The worker of a user who stays idle is stopped and its entry cleared, unless the hub
\* is shut down first.
IdleWorkersReaped ==
  \A u \in Users : <>[]idle[u] => <>[](worker[u] = None)

=============================================================================
