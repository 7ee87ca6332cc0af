---------------------------- MODULE GeoPoolProofs ----------------------------
(***************************************************************************)
(* The safety properties of GeoPool for any number of clients, keys and    *)
(* coroutines.  Three invariants carry them: which task is registered for  *)
(* which key, where every client is, and what each client's link says.     *)
(***************************************************************************)
EXTENDS GeoPool, TLAPS

\* _in_flight is the inverse of the keys of the live tasks, of which none is
\* cached, and callers wait for live tasks only.
Registration ==
  /\ \A k \in Keys : inFlight[k] # None =>
       inFlight[k] \in Alive /\ task[inFlight[k]].key = k
  /\ \A t \in Alive : inFlight[task[t].key] = t /\ cache[task[t].key] = None
  /\ \A c \in Callers : caller[c] # None => caller[c] \in Alive

Held(c) ==
  \/ \E t \in Tasks : task[t].client = c
  \/ \E s \in Samplers : sampler[s].client = c

\* No client is in two places, and before close took the queue none is nowhere.
Lending ==
  /\ \A t, u \in Tasks : task[t].client # None /\ task[t].client = task[u].client => t = u
  /\ \A r, s \in Samplers : sampler[r].client # None /\ sampler[r].client = sampler[s].client => r = s
  /\ \A t \in Tasks, s \in Samplers : task[t].client # None => task[t].client # sampler[s].client
  /\ \A c \in Clients : Held(c) => c \notin free /\ c \notin closing
  /\ free \cap closing = {}
  /\ life \in {"new", "starting"} =>
       Alive = {} /\ (\A s \in Samplers : sampler[s] = NoSample)
  /\ life = "new" => free = {}
  /\ life # "draining" => closing = {}
  /\ life \in {"started", "closing"} => \A c \in Clients : c \in free \/ Held(c)

\* What set_link set is still there when link_features asks.
Linking ==
  /\ \A t \in Tasks : task[t].at = "linked" => link[task[t].client] = task[t].key
  /\ \A t \in Tasks : task[t].at = "back" /\ task[t].result \in Keys => task[t].result = task[t].key
  /\ \A k \in Keys : cache[k] \in {None, k}

IInv == TypeOK /\ Registration /\ Lending /\ Linking

-----------------------------------------------------------------------------

\* The initial state satisfies the inductive invariant.
LEMMA InitInv == Init => IInv
  BY GeoPoolAssumption DEF Init, IInv, TypeOK, Registration, Lending, Linking, Held, Alive, NoTask, NoSample, Job, Loan, Jobs, Loans

\* What a task record's position says about its fields.
LEMMA JobFields ==
  ASSUME NEW j \in Jobs
  PROVE  /\ j.at \in {"over", "waiting", "sleeping", "linking", "linked", "back"}
         /\ j.at = "over" => j = NoTask
         /\ j.at # "over" => j.key \in Keys
         /\ j.at \in {"waiting", "sleeping"} => j.client = None /\ j.result = None
         /\ j.at \in {"linking", "linked"} => j.client \in Clients /\ j.result = None
         /\ j.at = "back" => j.client \in Clients /\ j.result \in Keys \cup {"busy", "error"}
  BY DEF Jobs, Job, NoTask

\* The records the actions build are tasks.
LEMMA JobTypes ==
  ASSUME NEW k \in Keys, NEW c \in Clients
  PROVE  /\ NoTask \in Jobs
         /\ Job("waiting", k, None, None) \in Jobs
         /\ Job("sleeping", k, None, None) \in Jobs
         /\ Job("linking", k, c, None) \in Jobs
         /\ Job("linked", k, c, None) \in Jobs
         /\ \A r \in Keys \cup {"busy", "error"} : Job("back", k, c, r) \in Jobs
  BY DEF Jobs, Job, NoTask

\* Every step keeps the types; the features a thread returns are a key because
\* set_link set one.
LEMMA NextTypes == TypeOK /\ Linking /\ [Next]_vars => TypeOK'
<1> SUFFICES ASSUME TypeOK, Linking, [Next]_vars PROVE TypeOK'
  OBVIOUS
<1> USE GeoPoolAssumption, JobFields, JobTypes
<1> USE DEF poolVars, closeVars, serviceVars
<1>0. ASSUME NEW t \in Tasks, NEW j \in Jobs, j.at # "over", task' = [task EXCEPT ![t] = j]
      PROVE  task' \in [Tasks -> Jobs] /\ Alive \subseteq Alive'
  BY <1>0 DEF TypeOK, Alive
<1>1. CASE StartBegin \/ StartFails
  BY <1>1 DEF TypeOK, StartBegin, StartFails, Alive
<1>2. ASSUME NEW c \in Clients, Register(c) \/ CloseWorker(c) PROVE TypeOK'
  BY <1>2 DEF TypeOK, Register, CloseWorker, Alive
<1>3. ASSUME NEW c \in Callers, CancelCaller(c) PROVE TypeOK'
  BY <1>3 DEF TypeOK, CancelCaller, Alive
<1>4. ASSUME NEW c \in Callers, NEW k \in Keys, Request(c, k) PROVE TypeOK'
  <2>1. CASE inFlight[k] # None
    BY <1>4, <2>1 DEF TypeOK, Request, Alive
  <2>2. CASE inFlight[k] = None
    <3>1. PICK t \in Tasks : /\ task' = [task EXCEPT ![t] = Job("waiting", k, None, None)]
                             /\ inFlight' = [inFlight EXCEPT ![k] = t]
                             /\ caller' = [caller EXCEPT ![c] = t]
      BY <1>4, <2>2 DEF Request
    <3>2. task' \in [Tasks -> Jobs] /\ Alive \subseteq Alive'
      <4>1. Job("waiting", k, None, None) \in Jobs /\ Job("waiting", k, None, None).at # "over"
        BY DEF Jobs, Job
      <4> QED
        BY <3>1, <4>1, <1>0
    <3> QED
      BY <1>4, <3>1, <3>2 DEF TypeOK, Request
  <2> QED
    BY <2>1, <2>2
<1>5. ASSUME NEW t \in Tasks, task[t].at # "over", EndTask(t)
      PROVE  /\ task' \in [Tasks -> Jobs]
             /\ inFlight' \in [Keys -> Tasks \cup {None}]
             /\ caller' \in [Callers -> Tasks \cup {None}]
             /\ pending' \subseteq Alive'
  <2>1. task' = [task EXCEPT ![t] = NoTask]
    BY <1>5 DEF EndTask
  <2>2. task' \in [Tasks -> Jobs]
    BY <2>1 DEF TypeOK, Jobs
  <2>3. inFlight' \in [Keys -> Tasks \cup {None}] /\ caller' \in [Callers -> Tasks \cup {None}]
    BY <1>5 DEF TypeOK, EndTask
  <2>4. Alive \ {t} \subseteq Alive'
    BY <2>1 DEF TypeOK, Alive
  <2> QED
    BY <1>5, <2>2, <2>3, <2>4 DEF TypeOK, EndTask
<1>7. ASSUME NEW t \in Tasks, Take(t) PROVE TypeOK'
  <2>1. CASE life = "closed"
    BY <1>5, <1>7, <2>1 DEF TypeOK, Take
  <2>2. CASE life # "closed"
    <3>1. PICK c \in free : task' = [task EXCEPT ![t] = Job("linking", task[t].key, c, None)]
      BY <1>7, <2>2 DEF Take, TypeOK
    <3>2. task' \in [Tasks -> Jobs] /\ Alive \subseteq Alive'
      <4>1. task[t].key \in Keys /\ c \in Clients
        BY <1>7, <3>1 DEF TypeOK, Take
      <4>2. Job("linking", task[t].key, c, None) \in Jobs /\ Job("linking", task[t].key, c, None).at # "over"
        BY <4>1 DEF Job, Jobs
      <4> QED
        BY <1>0, <3>1, <4>2
    <3> QED
      BY <1>7, <2>2, <3>2 DEF TypeOK, Take
  <2> QED
    BY <2>1, <2>2
<1>8. ASSUME NEW t \in Tasks, SetLink(t) PROVE TypeOK'
  <2>1. task' \in [Tasks -> Jobs] /\ Alive \subseteq Alive'
    <3>1. task[t].key \in Keys /\ task[t].client \in Clients
      BY <1>8 DEF TypeOK, SetLink
    <3>2. Job("linked", task[t].key, task[t].client, None) \in Jobs /\ Job("linked", task[t].key, task[t].client, None).at # "over"
      BY <3>1 DEF Job, Jobs
    <3> QED
      BY <1>0, <1>8, <3>2 DEF SetLink
  <2> QED
    BY <1>8, <2>1 DEF TypeOK, SetLink
<1>9. ASSUME NEW t \in Tasks, LinkFeatures(t) PROVE TypeOK'
  <2>1. link[task[t].client] \in Keys
    BY <1>9 DEF LinkFeatures, Linking, TypeOK
  <2>2. task' \in [Tasks -> Jobs] /\ Alive \subseteq Alive'
    <3>1. task[t].key \in Keys /\ task[t].client \in Clients
      BY <1>9 DEF TypeOK, LinkFeatures
    <3>2. Job("back", task[t].key, task[t].client, link[task[t].client]) \in Jobs /\ Job("back", task[t].key, task[t].client, link[task[t].client]).at # "over"
      BY <2>1, <3>1 DEF Job, Jobs
    <3> QED
      BY <1>0, <1>9, <3>2 DEF LinkFeatures
  <2> QED
    BY <1>9, <2>2 DEF TypeOK, LinkFeatures
<1>10. ASSUME NEW t \in Tasks, NEW how \in {"busy", "error"}, CallFails(t, how) PROVE TypeOK'
  <2>1. task' \in [Tasks -> Jobs] /\ Alive \subseteq Alive'
    <3>1. task[t].key \in Keys /\ task[t].client \in Clients
      BY <1>10 DEF TypeOK, CallFails
    <3>2. Job("back", task[t].key, task[t].client, how) \in Jobs /\ Job("back", task[t].key, task[t].client, how).at # "over"
      BY <1>10, <3>1 DEF Job, Jobs
    <3> QED
      BY <1>0, <1>10, <3>2 DEF CallFails
  <2> QED
    BY <1>10, <2>1 DEF TypeOK, CallFails
<1>11. ASSUME NEW t \in Tasks, ResumeBusy(t) PROVE TypeOK'
  <2>1. CASE life = "closed"
    BY <1>5, <1>11, <2>1 DEF TypeOK, ResumeBusy, PutBack
  <2>2. CASE life # "closed"
    <3>1. task' \in [Tasks -> Jobs] /\ Alive \subseteq Alive'
      <4>1. task[t].key \in Keys
        BY <1>11 DEF TypeOK, ResumeBusy
      <4>2. Job("sleeping", task[t].key, None, None) \in Jobs /\ Job("sleeping", task[t].key, None, None).at # "over"
        BY <4>1 DEF Job, Jobs
      <4> QED
        BY <1>0, <1>11, <2>2, <4>2 DEF ResumeBusy
    <3> QED
      BY <1>11, <2>2, <3>1 DEF TypeOK, ResumeBusy, PutBack
  <2> QED
    BY <2>1, <2>2
<1>12. ASSUME NEW t \in Tasks, Resume(t) PROVE TypeOK'
  BY <1>5, <1>12 DEF TypeOK, Resume, PutBack
<1>13. ASSUME NEW t \in Tasks, Wake(t) PROVE TypeOK'
  <2>1. CASE life = "closed"
    BY <1>5, <1>13, <2>1 DEF TypeOK, Wake
  <2>2. CASE life # "closed"
    <3>1. task' \in [Tasks -> Jobs] /\ Alive \subseteq Alive'
      <4>1. task[t].key \in Keys
        BY <1>13 DEF TypeOK, Wake
      <4>2. Job("waiting", task[t].key, None, None) \in Jobs /\ Job("waiting", task[t].key, None, None).at # "over"
        BY <4>1 DEF Job, Jobs
      <4> QED
        BY <1>0, <1>13, <2>2, <4>2 DEF Wake
    <3> QED
      BY <1>13, <2>2, <3>1 DEF TypeOK, Wake
  <2> QED
    BY <2>1, <2>2
<1>14. CASE ClearCache
  BY <1>14 DEF TypeOK, ClearCache, Alive
<1>15. ASSUME NEW s \in Samplers,
              SampleBegin(s) \/ SampleTake(s) \/ SampleReturns(s) \/ SampleEnd(s) \/ CancelSample(s)
       PROVE TypeOK'
  <2>1. UNCHANGED <<life, poolVars, closeVars, serviceVars>>
    BY <1>15 DEF SampleBegin, SampleTake, SampleReturns, SampleEnd, CancelSample
  <2>2. free' \subseteq Clients
    BY <1>15 DEF SampleBegin, SampleTake, SampleReturns, SampleEnd, CancelSample, PutBack, TypeOK, Loans
  <2>3. sampler' \in [Samplers -> Loans]
    <3>1. CASE SampleTake(s)
      BY <3>1 DEF SampleTake, TypeOK, Loans, Loan, NoSample
    <3>2. CASE SampleBegin(s) \/ SampleEnd(s) \/ CancelSample(s)
      <4>1. NoSample \in Loans /\ Loan("waiting", None) \in Loans
        BY DEF Loans, Loan, NoSample
      <4> QED
        BY <3>2, <4>1 DEF SampleBegin, SampleEnd, CancelSample, TypeOK
    <3>3. CASE SampleReturns(s)
      <4>1. Loan("back", sampler[s].client) \in Loans
        BY <3>3 DEF SampleReturns, TypeOK, Loans, Loan
      <4> QED
        BY <3>3, <4>1 DEF SampleReturns, TypeOK
    <3> QED
      BY <1>15, <3>1, <3>2, <3>3
  <2> QED
    BY <2>1, <2>2, <2>3 DEF TypeOK, Alive
<1>16. CASE CloseUnstarted \/ CloseBegin \/ CloseIdle \/ Drain \/ CloseEnd
  BY <1>16 DEF TypeOK, CloseUnstarted, CloseBegin, CloseIdle, Drain, DrainClients, CloseEnd, Alive
<1>17. CASE UNCHANGED vars
  BY <1>17 DEF TypeOK, vars, Alive
<1> QED
  BY <1>1, <1>2, <1>3, <1>4, <1>7, <1>8, <1>9, <1>10, <1>11, <1>12, <1>13, <1>14,
     <1>15, <1>16, <1>17 DEF Next, Extract, ThreadEnds, Sample

\* A step that neither starts nor ends a task, adds no caller and at most
\* forgets cached features keeps the registration.
LEMMA QuietRegistration ==
  ASSUME TypeOK, Registration, UNCHANGED inFlight,
         \A t \in Tasks : task'[t].key = task[t].key /\ (task'[t].at = "over" <=> task[t].at = "over"),
         \A k \in Keys : cache'[k] \in {cache[k], None},
         \A c \in Callers : caller'[c] \in {caller[c], None}
  PROVE  Registration'
<1>1. Alive' = Alive
  BY DEF Alive
<1>2. \A t \in Alive : task[t].key \in Keys
  BY JobFields DEF TypeOK, Alive
<1>3. \A k \in Keys : inFlight'[k] # None => inFlight'[k] \in Alive' /\ task'[inFlight'[k]].key = k
  BY <1>1 DEF Registration, Alive
<1>4. \A t \in Alive' : inFlight'[task'[t].key] = t /\ cache'[task'[t].key] = None
  BY <1>1, <1>2 DEF Registration, Alive
<1>5. \A c \in Callers : caller'[c] # None => caller'[c] \in Alive'
  BY <1>1 DEF Registration
<1> QED
  BY <1>3, <1>4, <1>5 DEF Registration

\* The end of a task keeps it: the key is free again, nobody waits for the
\* task, and only features of the ended task's key may be cached.
LEMMA EndRegistration ==
  ASSUME TypeOK, Registration,
         NEW t \in Alive, EndTask(t),
         \A k \in Keys : k # task[t].key => cache'[k] = cache[k]
  PROVE  Registration'
<1>1. /\ Alive' = Alive \ {t}
      /\ \A u \in Alive' : task'[u] = task[u]
  BY DEF EndTask, Alive, NoTask, Job, TypeOK
<1>2. \A u \in Alive : task[u].key \in Keys
  BY JobFields DEF TypeOK, Alive
<1>3. \A u \in Alive' : task[u].key # task[t].key
  BY <1>1 DEF Registration
<1>4. \A k \in Keys : inFlight'[k] = IF k = task[t].key THEN None ELSE inFlight[k]
  BY <1>2 DEF EndTask, TypeOK
<1>5. \A c \in Callers : caller'[c] = IF caller[c] = t THEN None ELSE caller[c]
  BY DEF EndTask, TypeOK
<1>6. \A k \in Keys : inFlight'[k] # None => inFlight'[k] \in Alive' /\ task'[inFlight'[k]].key = k
  BY <1>1, <1>4 DEF Registration
<1>7. \A u \in Alive' : inFlight'[task'[u].key] = u /\ cache'[task'[u].key] = None
  BY <1>1, <1>2, <1>3, <1>4 DEF Registration
<1>8. \A c \in Callers : caller'[c] # None => caller'[c] \in Alive'
  BY <1>1, <1>5 DEF Registration
<1> QED
  BY <1>6, <1>7, <1>8 DEF Registration

\* Every step keeps the registration.
LEMMA NextRegistration == TypeOK /\ Registration /\ [Next]_vars => Registration'
<1> SUFFICES ASSUME TypeOK, Registration, [Next]_vars PROVE Registration'
  OBVIOUS
<1> USE GeoPoolAssumption
<1> USE DEF poolVars, closeVars, serviceVars
<1>1. ASSUME UNCHANGED poolVars PROVE Registration'
  BY <1>1, QuietRegistration
<1>2. ASSUME NEW c \in Callers, CancelCaller(c) PROVE Registration'
  BY <1>2, QuietRegistration DEF CancelCaller, TypeOK
<1>3. ASSUME NEW c \in Callers, NEW k \in Keys, Request(c, k) PROVE Registration'
  <2>1. CASE inFlight[k] # None
    BY <1>3, <2>1 DEF Request, Registration, Alive, TypeOK
  <2>2. CASE inFlight[k] = None
    <3>1. PICK t \in Tasks \ Alive :
            /\ task' = [task EXCEPT ![t] = Job("waiting", k, None, None)]
            /\ inFlight' = [inFlight EXCEPT ![k] = t]
            /\ caller' = [caller EXCEPT ![c] = t]
      BY <1>3, <2>2 DEF Request
    <3>2. /\ Alive' = Alive \cup {t}
          /\ task'[t].key = k
          /\ \A u \in Alive : u # t /\ task'[u] = task[u]
      BY <3>1 DEF Alive, Job, TypeOK
    <3>3. \A u \in Alive : task[u].key \in Keys /\ task[u].key # k
      BY <2>2, JobFields DEF TypeOK, Alive, Registration
    <3>4. cache' = cache /\ cache[k] = None
      BY <1>3 DEF Request
    <3> QED
      BY <3>1, <3>2, <3>3, <3>4 DEF Registration, TypeOK
  <2> QED
    BY <2>1, <2>2
<1>5. ASSUME NEW t \in Tasks, task[t].at # "over", EndTask(t), UNCHANGED cache PROVE Registration'
  BY <1>5, EndRegistration DEF Alive
<1>6. ASSUME NEW t \in Tasks, Resume(t) PROVE Registration'
  <2>1. t \in Alive /\ \A k \in Keys : k # task[t].key => cache'[k] = cache[k]
    BY <1>6 DEF Resume, Alive, TypeOK
  <2> QED
    BY <1>6, <2>1, EndRegistration DEF Resume
<1>7. ASSUME NEW t \in Tasks,
             Take(t) \/ SetLink(t) \/ LinkFeatures(t) \/ CallFails(t, "error") \/ CallFails(t, "busy")
             \/ ResumeBusy(t) \/ Wake(t)
      PROVE  Registration'
  <2>1. task[t].at # "over" /\ UNCHANGED cache
    BY <1>7 DEF Take, SetLink, LinkFeatures, CallFails, ResumeBusy, Wake
  <2>2. CASE EndTask(t)
    BY <1>5, <2>1, <2>2
  <2>3. CASE ~EndTask(t)
    <3>1. PICK at, c, r :
            /\ at \in {"waiting", "sleeping", "linking", "linked", "back"}
            /\ task' = [task EXCEPT ![t] = Job(at, task[t].key, c, r)]
      BY <1>7, <2>3 DEF Take, SetLink, LinkFeatures, CallFails, ResumeBusy, Wake
    <3>2. UNCHANGED <<inFlight, caller>>
      BY <1>7, <2>3 DEF Take, SetLink, LinkFeatures, CallFails, ResumeBusy, Wake
    <3>3. \A u \in Tasks : task'[u].key = task[u].key /\ (task'[u].at = "over" <=> task[u].at = "over")
      BY <2>1, <3>1 DEF TypeOK, Job
    <3> QED
      BY <2>1, <3>2, <3>3, QuietRegistration
  <2> QED
    BY <2>2, <2>3
<1>8. CASE ClearCache
  BY <1>8, QuietRegistration DEF ClearCache, TypeOK
<1>9. ASSUME \/ StartBegin \/ StartFails
             \/ \E c \in Clients : Register(c) \/ CloseWorker(c)
             \/ \E s \in Samplers : SampleBegin(s) \/ Sample(s) \/ CancelSample(s)
             \/ CloseUnstarted \/ CloseBegin \/ CloseIdle \/ Drain \/ CloseEnd
             \/ UNCHANGED vars
      PROVE  UNCHANGED poolVars
  BY <1>9 DEF StartBegin, StartFails, Register, CloseWorker, SampleBegin, Sample, SampleTake,
              SampleReturns, SampleEnd, CancelSample, CloseUnstarted, CloseBegin, CloseIdle, Drain,
              DrainClients, CloseEnd, vars
<1> QED
  BY <1>1, <1>2, <1>3, <1>6, <1>7, <1>8, <1>9 DEF Next, Extract, ThreadEnds

\* Steps that move no client.
LEMMA SamePlaces ==
  ASSUME TypeOK, Lending, UNCHANGED <<life, free, closing>>,
         \A t \in Tasks : task'[t].client = task[t].client,
         \A s \in Samplers : sampler'[s].client = sampler[s].client,
         life \in {"new", "starting"} => UNCHANGED <<task, sampler>>
  PROVE  Lending'
  BY DEF Lending, Held, Alive

\* A coroutine takes a client from the queue of a pool that is not closed.
LEMMA Borrow ==
  ASSUME TypeOK, Lending, NEW c \in free, life \notin {"new", "starting"},
         free' = free \ {c}, UNCHANGED <<life, closing>>,
         \/ /\ UNCHANGED sampler
            /\ \E t \in Tasks : /\ task[t].client = None /\ task'[t].client = c
                                /\ \A u \in Tasks \ {t} : task'[u].client = task[u].client
         \/ /\ UNCHANGED task
            /\ \E s \in Samplers : /\ sampler[s].client = None /\ sampler'[s].client = c
                                   /\ \A u \in Samplers \ {s} : sampler'[u].client = sampler[u].client
  PROVE  Lending'
<1> USE GeoPoolAssumption
<1>1. c \in Clients /\ c # None /\ ~Held(c) /\ c \notin closing
  BY DEF TypeOK, Lending
<1>2. \A d \in Clients : Held(d)' => Held(d) \/ d = c
  BY DEF Held
<1>3. \A d \in Clients : Held(d) \/ d = c => Held(d)'
  BY DEF Held, TypeOK
<1>4. \A d \in Clients : Held(d)' => d \notin free' /\ d \notin closing'
  BY <1>1, <1>2 DEF Lending
<1>5. life \in {"started", "closing"} => \A d \in Clients : d \in free' \/ Held(d)'
  BY <1>3 DEF Lending
<1>6. /\ \A t, u \in Tasks : task'[t].client # None /\ task'[t].client = task'[u].client => t = u
      /\ \A r, s \in Samplers : sampler'[r].client # None /\ sampler'[r].client = sampler'[s].client => r = s
      /\ \A t \in Tasks, s \in Samplers : task'[t].client # None => task'[t].client # sampler'[s].client
  BY <1>1 DEF Lending, Held
<1> QED
  BY <1>4, <1>5, <1>6 DEF Lending

\* A coroutine lets go of its client, which goes back to the queue of a pool
\* that is not closed.
LEMMA Return ==
  ASSUME TypeOK, Lending, NEW c \in Clients, life \notin {"new", "starting"},
         PutBack(c), UNCHANGED <<life, closing>>,
         \/ /\ UNCHANGED sampler
            /\ \E t \in Tasks : /\ task[t].client = c /\ task'[t].client = None
                                /\ \A u \in Tasks \ {t} : task'[u].client = task[u].client
         \/ /\ UNCHANGED task
            /\ \E s \in Samplers : /\ sampler[s].client = c /\ sampler'[s].client = None
                                   /\ \A u \in Samplers \ {s} : sampler'[u].client = sampler[u].client
  PROVE  Lending'
<1> USE GeoPoolAssumption
<1>1. Held(c) /\ c # None /\ c \notin closing
  BY DEF Held, Lending
<1>2. ~Held(c)'
  BY <1>1 DEF Held, Lending
<1>3. \A d \in Clients : d # c => (Held(d)' <=> Held(d))
  BY DEF Held
<1>4. \A d \in Clients : Held(d)' => d \notin free' /\ d \notin closing'
  BY <1>2, <1>3 DEF Lending, PutBack
<1>5. life \in {"started", "closing"} => \A d \in Clients : d \in free' \/ Held(d)'
  BY <1>3 DEF Lending, PutBack
<1>6. /\ \A t, u \in Tasks : task'[t].client # None /\ task'[t].client = task'[u].client => t = u
      /\ \A r, s \in Samplers : sampler'[r].client # None /\ sampler'[r].client = sampler'[s].client => r = s
      /\ \A t \in Tasks, s \in Samplers : task'[t].client # None => task'[t].client # sampler'[s].client
  BY DEF Lending
<1>7. free' \cap closing' = {}
  BY <1>1 DEF Lending, PutBack
<1> QED
  BY <1>4, <1>5, <1>6, <1>7 DEF Lending

\* Every step keeps the lending.
LEMMA NextLending == TypeOK /\ Lending /\ [Next]_vars => Lending'
<1> SUFFICES ASSUME TypeOK, Lending, [Next]_vars PROVE Lending'
  OBVIOUS
<1> USE GeoPoolAssumption
<1> USE DEF poolVars, closeVars, serviceVars
<1>1. CASE StartBegin \/ StartFails
  BY <1>1 DEF StartBegin, StartFails, Lending, Held, Alive
<1>2. ASSUME NEW c \in Clients, Register(c) PROVE Lending'
  <2>1. \A d \in Clients : ~Held(d)
    BY <1>2 DEF Register, Lending, Held, Alive, NoSample, Loan, TypeOK, Jobs, NoTask, Job
  <2>2. /\ life' \in {"starting", "started"} /\ life' = "started" => free' = Clients
        /\ \A d \in Clients : ~Held(d)'
        /\ closing = {}
    BY <1>2, <2>1 DEF Register, Held, Lending
  <2> QED
    BY <1>2, <2>2 DEF Register, Lending, Alive
<1>3. ASSUME NEW c \in Clients, CloseWorker(c) PROVE Lending'
  BY <1>3 DEF CloseWorker, Lending, Held, Alive
<1>4. CASE \/ ClearCache \/ UNCHANGED vars \/ \E c \in Callers : CancelCaller(c)
  BY <1>4, SamePlaces DEF ClearCache, CancelCaller, vars
<1>5. ASSUME NEW c \in Callers, NEW k \in Keys, Request(c, k) PROVE Lending'
  <2>1. UNCHANGED <<life, free, closing, sampler>> /\ life \notin {"new", "starting"}
    BY <1>5 DEF Request, Started
  <2>2. \A t \in Tasks : task'[t].client = task[t].client
    BY <1>5 DEF Request, TypeOK, Alive, Job, NoTask, Jobs
  <2> QED
    BY <2>1, <2>2, SamePlaces
<1>6. ASSUME NEW t \in Tasks, task[t].at # "over" PROVE life \notin {"new", "starting"}
  BY <1>6 DEF Lending, Alive
<1>7. ASSUME NEW t \in Tasks, Take(t) PROVE Lending'
  <2>1. PICK c \in free : /\ free' = free \ {c}
                          /\ IF life = "closed" THEN EndTask(t)
                             ELSE task' = [task EXCEPT ![t] = Job("linking", @.key, c, None)]
    BY <1>7 DEF Take
  <2>2. UNCHANGED <<life, closing, sampler>> /\ task[t].at = "waiting" /\ task[t].client = None
    BY <1>7, JobFields DEF Take, TypeOK
  <2>3. CASE life = "closed"
    <3>1. \A u \in Tasks : task'[u].client = task[u].client
      BY <2>1, <2>2, <2>3 DEF EndTask, TypeOK, NoTask, Job
    <3> QED
      BY <2>1, <2>2, <2>3, <3>1 DEF Lending, Held
  <2>4. CASE life # "closed"
    <3>1. task'[t].client = c /\ \A u \in Tasks \ {t} : task'[u].client = task[u].client
      BY <2>1, <2>4 DEF TypeOK, Job
    <3> QED
      BY <1>6, <2>1, <2>2, <3>1, Borrow
  <2> QED
    BY <2>3, <2>4
<1>8. ASSUME NEW t \in Tasks,
             SetLink(t) \/ LinkFeatures(t) \/ CallFails(t, "error") \/ CallFails(t, "busy")
      PROVE  Lending'
  <2>1. UNCHANGED <<life, free, closing, sampler>> /\ task[t].at # "over"
    BY <1>8 DEF SetLink, LinkFeatures, CallFails
  <2>2. \A u \in Tasks : task'[u].client = task[u].client
    BY <1>8 DEF SetLink, LinkFeatures, CallFails, TypeOK, Job
  <2> QED
    BY <1>6, <2>1, <2>2, SamePlaces
<1>9. ASSUME NEW t \in Tasks, ResumeBusy(t) \/ Resume(t) PROVE Lending'
  <2>1. /\ task[t].at = "back" /\ task[t].client \in Clients
        /\ PutBack(task[t].client) /\ UNCHANGED <<life, closing, sampler>>
    BY <1>9, JobFields DEF ResumeBusy, Resume, TypeOK
  <2>2. task'[t].client = None /\ \A u \in Tasks \ {t} : task'[u].client = task[u].client
    BY <1>9 DEF ResumeBusy, Resume, EndTask, TypeOK, Job, NoTask
  <2> QED
    BY <1>6, <2>1, <2>2, Return
<1>10. ASSUME NEW t \in Tasks, Wake(t) PROVE Lending'
  <2>1. UNCHANGED <<life, free, closing, sampler>> /\ task[t].at = "sleeping" /\ task[t].client = None
    BY <1>10, JobFields DEF Wake, TypeOK
  <2>2. \A u \in Tasks : task'[u].client = task[u].client
    BY <1>10, <2>1 DEF Wake, EndTask, TypeOK, Job, NoTask
  <2> QED
    BY <1>6, <2>1, <2>2, SamePlaces
<1>11. ASSUME NEW s \in Samplers, SampleBegin(s) \/ SampleReturns(s) PROVE Lending'
  <2>1. UNCHANGED <<life, free, closing, task>> /\ life \notin {"new", "starting"}
    BY <1>11 DEF SampleBegin, SampleReturns, Started, Lending, NoSample, Loan
  <2>2. \A r \in Samplers : sampler'[r].client = sampler[r].client
    BY <1>11 DEF SampleBegin, SampleReturns, TypeOK, NoSample, Loan
  <2> QED
    BY <2>1, <2>2, SamePlaces
<1>12. ASSUME NEW s \in Samplers, SampleTake(s) PROVE Lending'
  <2>1. PICK c \in free : /\ free' = free \ {c}
                          /\ sampler' = [sampler EXCEPT ![s] =
                                IF life = "closed" THEN NoSample ELSE Loan("sampling", c)]
    BY <1>12 DEF SampleTake
  <2>2. /\ UNCHANGED <<life, closing, task>>
        /\ sampler[s].client = None /\ life \notin {"new", "starting"}
    BY <1>12 DEF SampleTake, TypeOK, Loans, Lending, NoSample, Loan
  <2>3. CASE life = "closed"
    <3>1. \A r \in Samplers : sampler'[r].client = sampler[r].client
      BY <2>1, <2>2, <2>3 DEF TypeOK, NoSample, Loan
    <3> QED
      BY <2>1, <2>2, <2>3, <3>1 DEF Lending, Held
  <2>4. CASE life # "closed"
    <3>1. sampler'[s].client = c /\ \A r \in Samplers \ {s} : sampler'[r].client = sampler[r].client
      BY <2>1, <2>4 DEF TypeOK, Loan
    <3> QED
      BY <2>1, <2>2, <3>1, Borrow
  <2> QED
    BY <2>3, <2>4
<1>13. ASSUME NEW s \in Samplers, SampleEnd(s) \/ CancelSample(s) PROVE Lending'
  <2>1. /\ sampler' = [sampler EXCEPT ![s] = NoSample]
        /\ UNCHANGED <<life, closing, task>>
        /\ sampler[s].client = None \/ sampler[s].client \in Clients
    BY <1>13 DEF SampleEnd, CancelSample, TypeOK, Loans
  <2>2. life \notin {"new", "starting"}
    BY <1>13 DEF SampleEnd, CancelSample, Lending, NoSample, Loan
  <2>3. sampler'[s].client = None /\ \A r \in Samplers \ {s} : sampler'[r].client = sampler[r].client
    BY <2>1 DEF TypeOK, NoSample, Loan
  <2>4. CASE sampler[s].client = None
    <3>1. UNCHANGED free
      BY <1>13, <2>4 DEF SampleEnd, CancelSample, TypeOK, Loans
    <3> QED
      BY <2>1, <2>2, <2>3, <2>4, <3>1, SamePlaces
  <2>5. CASE sampler[s].client # None
    <3>1. PutBack(sampler[s].client)
      BY <1>13, <2>5 DEF SampleEnd, CancelSample
    <3> QED
      BY <2>1, <2>2, <2>3, <2>5, <3>1, Return
  <2> QED
    BY <2>4, <2>5
<1>14. CASE CloseUnstarted \/ CloseBegin \/ CloseEnd
  BY <1>14 DEF CloseUnstarted, CloseBegin, CloseEnd, Lending, Held, Alive
<1>15. CASE CloseIdle \/ Drain
  BY <1>15 DEF CloseIdle, Drain, DrainClients, Lending, Held, Alive
<1> QED
  BY <1>1, <1>2, <1>3, <1>4, <1>5, <1>7, <1>8, <1>9, <1>10, <1>11, <1>12, <1>13, <1>14, <1>15
     DEF Next, Extract, ThreadEnds, Sample

\* Every step keeps the links: a client is lent to one extraction at a time, so
\* only the extraction that holds it moves its link.
LEMMA NextLinking == TypeOK /\ Lending /\ Linking /\ [Next]_vars => Linking'
<1> SUFFICES ASSUME TypeOK, Lending, Linking, [Next]_vars PROVE Linking'
  OBVIOUS
<1> USE GeoPoolAssumption
<1> USE DEF poolVars, closeVars, serviceVars
<1>1. ASSUME UNCHANGED <<link, task>>, \A k \in Keys : cache'[k] \in {cache[k], None}
      PROVE  Linking'
  BY <1>1 DEF Linking
<1>2. ASSUME UNCHANGED <<link, cache>>, NEW t \in Tasks,
             \A u \in Tasks \ {t} : task'[u] = task[u],
             task'[t].at \notin {"linked", "back"}
      PROVE  Linking'
  BY <1>2 DEF Linking
<1>3. ASSUME NEW c \in Callers, NEW k \in Keys, Request(c, k) PROVE Linking'
  <2>1. CASE UNCHANGED task
    BY <1>1, <1>3, <2>1 DEF Request
  <2>2. CASE ~UNCHANGED task
    <3>1. PICK t \in Tasks : task' = [task EXCEPT ![t] = Job("waiting", k, None, None)]
      BY <1>3, <2>2 DEF Request
    <3> QED
      BY <1>2, <1>3, <3>1 DEF Request, TypeOK, Job
  <2> QED
    BY <2>1, <2>2
<1>4. ASSUME NEW t \in Tasks, Take(t) \/ ResumeBusy(t) \/ Wake(t) PROVE Linking'
  <2>1. UNCHANGED <<link, cache>>
    BY <1>4 DEF Take, ResumeBusy, Wake
  <2>2. PICK at, k, c :
          /\ at \in {"over", "linking", "sleeping", "waiting"}
          /\ task' = [task EXCEPT ![t] = Job(at, k, c, None)]
    BY <1>4 DEF Take, ResumeBusy, Wake, EndTask, NoTask
  <2>3. /\ task'[t].at \notin {"linked", "back"}
        /\ \A u \in Tasks \ {t} : task'[u] = task[u]
    BY <2>2 DEF TypeOK, Job
  <2> QED
    BY <1>2, <2>1, <2>3
<1>5. ASSUME NEW t \in Tasks, SetLink(t) PROVE Linking'
  <2>1. /\ task[t].at = "linking" /\ task[t].client \in Clients
        /\ link' = [link EXCEPT ![task[t].client] = task[t].key]
        /\ task' = [task EXCEPT ![t] = Job("linked", @.key, @.client, None)]
        /\ UNCHANGED cache
    BY <1>5, JobFields DEF SetLink, TypeOK
  <2>2. /\ task'[t].at = "linked" /\ link'[task'[t].client] = task'[t].key
        /\ \A u \in Tasks \ {t} : task'[u] = task[u]
    BY <2>1 DEF TypeOK, Job
  <2>3. \A u \in Tasks \ {t} : task[u].at = "linked" =>
          task[u].client \in Clients /\ task[u].client # task[t].client
    BY <2>1, JobFields DEF TypeOK, Lending
  <2>4. \A u \in Tasks \ {t} : task[u].at = "linked" => link'[task[u].client] = link[task[u].client]
    BY <2>1, <2>3 DEF TypeOK
  <2> QED
    BY <2>1, <2>2, <2>4 DEF Linking
<1>6. ASSUME NEW t \in Tasks, LinkFeatures(t) PROVE Linking'
  <2>1. task'[t].at = "back" /\ task'[t].result = task'[t].key
    BY <1>6 DEF LinkFeatures, Linking, TypeOK, Job
  <2> QED
    BY <1>6, <2>1 DEF LinkFeatures, Linking, TypeOK
<1>7. ASSUME NEW t \in Tasks, NEW how \in {"busy", "error"}, CallFails(t, how) PROVE Linking'
  <2>1. task'[t].at = "back" /\ task'[t].result \notin Keys
    BY <1>7 DEF CallFails, TypeOK, Job
  <2> QED
    BY <1>7, <2>1 DEF CallFails, Linking, TypeOK
<1>8. ASSUME NEW t \in Tasks, Resume(t) PROVE Linking'
  <2>1. \A k \in Keys : cache'[k] \in {None, k}
    BY <1>8 DEF Resume, Linking, TypeOK
  <2>2. task' = [task EXCEPT ![t] = NoTask] /\ UNCHANGED link
    BY <1>8 DEF Resume, EndTask
  <2> QED
    BY <2>1, <2>2 DEF Linking, TypeOK, NoTask, Job
<1>9. ASSUME \/ StartBegin \/ StartFails \/ ClearCache
             \/ \E c \in Clients : Register(c) \/ CloseWorker(c)
             \/ \E c \in Callers : CancelCaller(c)
             \/ \E s \in Samplers : SampleBegin(s) \/ Sample(s) \/ CancelSample(s)
             \/ CloseUnstarted \/ CloseBegin \/ CloseIdle \/ Drain \/ CloseEnd
             \/ UNCHANGED vars
      PROVE  UNCHANGED <<link, task>> /\ \A k \in Keys : cache'[k] \in {cache[k], None}
  BY <1>9 DEF StartBegin, StartFails, ClearCache, Register, CloseWorker, CancelCaller, SampleBegin,
              Sample, SampleTake, SampleReturns, SampleEnd, CancelSample, CloseUnstarted, CloseBegin,
              CloseIdle, Drain, DrainClients, CloseEnd, vars, TypeOK
<1> QED
  BY <1>1, <1>3, <1>4, <1>5, <1>6, <1>7, <1>8, <1>9 DEF Next, Extract, ThreadEnds

-----------------------------------------------------------------------------

\* The inductive invariant holds for ever.
THEOREM Invariance == Spec => []IInv
<1>1. IInv /\ [Next]_vars => IInv'
  BY NextTypes, NextRegistration, NextLending, NextLinking DEF IInv
<1> QED
  BY <1>1, InitInv, PTL DEF Spec

\* The pool's variables keep their types, whatever the numbers of clients and
\* coroutines and whenever close() comes.
THEOREM TypeCorrect == Spec => []TypeOK
BY Invariance, PTL DEF IInv

\* get_request never extracts for a key twice at a time, nor for a cached one.
THEOREM ExtractsOnce == Spec => []NoRepeatedExtraction
<1>1. IInv => NoRepeatedExtraction
  BY DEF IInv, Registration, NoRepeatedExtraction
<1> QED
  BY <1>1, Invariance, PTL

\* The cache never holds the features of another link.
THEOREM CacheCorrect == Spec => []CachedUnderItsKey
<1>1. IInv => CachedUnderItsKey
  BY DEF IInv, Linking, CachedUnderItsKey
<1> QED
  BY <1>1, Invariance, PTL

\* No client is lost or lent twice while the pool is open.
THEOREM KeepsClients == Spec => []ClientsConserved
<1>1. IInv => ClientsConserved
  <2> SUFFICES ASSUME TypeOK, Lending, life \in {"started", "closing"}, NEW c \in Clients
               PROVE  \/ c \in free /\ Holders(c) = {}
                      \/ c \notin free /\ \E h \in Tasks \cup Samplers : Holders(c) = {h}
    BY DEF IInv, ClientsConserved
  <2>1. CASE ~Held(c)
    BY <2>1 DEF Lending, Held, Holders
  <2>2. CASE \E t \in Tasks : task[t].client = c
    <3>1. PICK t \in Tasks : task[t].client = c
      BY <2>2
    <3>2. Holders(c) = {t} /\ c \notin free
      BY <3>1, GeoPoolAssumption DEF Lending, Held, Holders
    <3> QED
      BY <3>2
  <2>3. CASE \E s \in Samplers : sampler[s].client = c
    <3>1. PICK s \in Samplers : sampler[s].client = c
      BY <2>3
    <3>2. Holders(c) = {s} /\ c \notin free
      BY <3>1, GeoPoolAssumption DEF Lending, Held, Holders
    <3> QED
      BY <3>2
  <2> QED
    BY <2>1, <2>2, <2>3 DEF Held
<1> QED
  BY <1>1, Invariance, PTL

\* No caller waits for a task that is over or answers another key.
THEOREM AwaitsLiveTasks == Spec => []CallersAwaitLiveTasks
<1>1. IInv => CallersAwaitLiveTasks
  BY DEF IInv, Registration, CallersAwaitLiveTasks
<1> QED
  BY <1>1, Invariance, PTL

\* close() misses no client of an extraction that was in flight when it began.
THEOREM ClosesAfterInFlight == Spec => CloseWaitsForInFlight
<1>1. ASSUME IInv, [Next]_vars,
             life \in {"started", "closing"}, life' \in {"draining", "closed"},
             NEW c \in Clients
      PROVE  ~Missed(c)
  <2>1. /\ CloseIdle \/ Drain
        /\ closing' = free
    BY <1>1 DEF Next, Extract, ThreadEnds, Sample, StartBegin, StartFails, Register, CloseWorker,
       CancelCaller, Request, Take, SetLink, LinkFeatures, CallFails, ResumeBusy, Resume, Wake,
       ClearCache, SampleBegin, SampleTake, SampleReturns, SampleEnd, CancelSample, CloseUnstarted,
       CloseBegin, CloseIdle, Drain, DrainClients, CloseEnd, vars
  <2>2. c \in free \/ Held(c)
    BY <1>1 DEF IInv, Lending
  <2>3. \A t \in Tasks : task[t].client = c => t \in Alive \ pending
    <3>1. \A t \in Tasks : task[t].client = c => t \in Alive
      BY <1>1, GeoPoolAssumption DEF IInv, TypeOK, Jobs, NoTask, Job, Alive
    <3> QED
      BY <2>1, <3>1 DEF CloseIdle, Drain
  <2> QED
    BY <2>1, <2>2, <2>3 DEF Missed, Held
<1>2. IInv /\ [Next]_vars =>
        ((life \in {"started", "closing"} /\ life' \in {"draining", "closed"})
           => \A c \in Clients : ~Missed(c))
  BY <1>1
<1> QED
  BY <1>2, Invariance, PTL DEF Spec, CloseWaitsForInFlight

=============================================================================
