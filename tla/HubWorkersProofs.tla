-------------------------- MODULE HubWorkersProofs --------------------------
(***************************************************************************)
(* The safety properties of HubWorkers for any number of users, processes, *)
(* ports and concurrent requests.  Fairness plays no part in them.         *)
(***************************************************************************)
EXTENDS HubWorkers, TLAPS

\* The registry names processes of the right users, started to the end; one that
\* is being stopped has somebody waiting for its exit.
Entries ==
  /\ \A u \in Users : worker[u] # None =>
       /\ u \in registered
       /\ owner[worker[u]] = u
       /\ proc[worker[u]] \notin {"free", "booting"}
       /\ hub = "serving" /\ proc[worker[u]] = "term" =>
            \E s \in Stoppers : stop[s].at = "waiting" /\ stop[s].user = u
  /\ \A r \in Requests : req[r] # NoCall => req[r].user \in registered

\* Nobody else listens on the port of the process being started, which is not
\* registered before it answers, and no other is registered for its user then.
Starts ==
  \A r \in Requests : req[r].at \in {"starting", "started"} =>
    LET w == req[r].worker
    IN /\ owner[w] = req[r].user
       /\ \A v \in Listening(port[w]) : v = w
       /\ req[r].at = "starting" => \A u \in Users : worker[u] # w
       /\ req[r].at = "started" => proc[w] # "booting" /\ worker[req[r].user] \in {None, w}

\* No two processes listen on one port, and what boots is being started.
Listeners ==
  /\ \A v, w \in Workers : proc[v] = "up" /\ proc[w] = "up" /\ port[v] = port[w] => v = w
  /\ \A w \in Workers :
       proc[w] = "booting" => \E r \in Requests : req[r].at = "starting" /\ req[r].worker = w

\* Once the hub is closing nothing but the shutdown goes on, and what is still
\* registered is ahead of it or being stopped by it.
Closing ==
  /\ hub # "serving" =>
       /\ \A r \in Requests : req[r] = NoCall
       /\ \A s \in Stoppers \ {Closer} : stop[s] = NoCall
       /\ \A u \in Users : worker[u] # None =>
            u \in left[Closer] \/ (stop[Closer].at = "waiting" /\ stop[Closer].user = u)
  /\ hub = "closed" => left[Closer] = {} /\ stop[Closer] = NoCall

IInv == TypeOK /\ OneStarter /\ Entries /\ Starts /\ Listeners /\ Closing

-----------------------------------------------------------------------------

\* The initial state satisfies the inductive invariant.
LEMMA InitInv == Init => IInv
  BY HubAssumption
  DEF Init, IInv, TypeOK, Handling, Waiting, OneStarter, Entries, Starts, Listeners, Closing,
      Stoppers, NoCall, Listening

\* The records of requests and stoppers, by what they are doing.
LEMMA Records ==
  ASSUME TypeOK
  PROVE  /\ \A r \in Requests :
              /\ req[r] \in Handling
              /\ req[r] # NoCall => req[r].at # "no" /\ req[r].user \in Users
              /\ req[r].at \in {"starting", "started", "proxied"} => req[r].worker \in Workers
         /\ \A s \in Stoppers :
              /\ stop[s] \in Waiting
              /\ stop[s].at = "waiting" => stop[s].user \in Users /\ stop[s].worker \in Workers
         /\ NoCall.at = "no"
         /\ \A u \in Users : Call("queued", u, None) \in Handling
         /\ \A u \in Users, w \in Workers, at \in {"starting", "started", "proxied"} :
              Call(at, u, w) \in Handling
         /\ \A u \in Users, w \in Workers : Call("waiting", u, w) \in Waiting
         /\ NoCall \in Handling /\ NoCall \in Waiting
         /\ \A at, u, w : /\ Call(at, u, w).at = at
                          /\ Call(at, u, w).user = u
                          /\ Call(at, u, w).worker = w
<1>1. /\ req \in [Requests -> Handling]
      /\ stop \in [Stoppers -> Waiting]
  BY DEF TypeOK
<1>2. NoCall.at = "no" /\ NoCall \in Handling /\ NoCall \in Waiting
  BY DEF NoCall, Handling, Waiting
<1>3. /\ \A u \in Users : Call("queued", u, None) \in Handling
      /\ \A u \in Users, w \in Workers, at \in {"starting", "started", "proxied"} :
           Call(at, u, w) \in Handling
      /\ \A u \in Users, w \in Workers : Call("waiting", u, w) \in Waiting
  BY DEF Call, Handling, Waiting
<1>4. \A at, u, w : /\ Call(at, u, w).at = at
                    /\ Call(at, u, w).user = u
                    /\ Call(at, u, w).worker = w
  BY DEF Call
<1>5. \A h \in Handling : /\ h # NoCall => h.at # "no" /\ h.user \in Users
                          /\ h.at \in {"starting", "started", "proxied"} => h.worker \in Workers
  BY DEF Handling, NoCall
<1>6. \A h \in Waiting : h.at = "waiting" => h.user \in Users /\ h.worker \in Workers
  BY DEF Waiting, NoCall
<1> QED
  BY <1>1, <1>2, <1>3, <1>4, <1>5, <1>6

\* What stop_worker does up to its await: it ends with the entry cleared or with
\* the stopper waiting, and touches no process but the user's.
LEMMA StopBegins ==
  ASSUME TypeOK, NEW s \in Stoppers, NEW u \in Users, StopBegin(s, u)
  PROVE  /\ worker' \in [Users -> Workers \cup {None}]
         /\ proc' \in [Workers -> {"free", "booting", "up", "term", "dead"}]
         /\ stop' \in [Stoppers -> Waiting]
         /\ \A v \in Users \ {u} : worker'[v] = worker[v]
         /\ \A t \in Stoppers \ {s} : stop'[t] = stop[t]
         /\ \A w \in Workers \ {worker[u]} : proc'[w] = proc[w]
         /\ \A w \in Workers : proc'[w] # proc[w] =>
              proc[w] \in {"booting", "up"} /\ proc'[w] \in {"term", "dead"}
         /\ worker'[u] \in {worker[u], None}
         /\ \/ worker'[u] = None
            \/ stop'[s].at = "waiting" /\ stop'[s].user = u
<1>1. CASE worker[u] = None
  BY <1>1 DEF StopBegin, TypeOK
<1>2. CASE worker[u] # None /\ proc[worker[u]] = "dead"
  BY <1>2 DEF StopBegin, TypeOK
<1>3. CASE worker[u] # None /\ proc[worker[u]] # "dead"
  <2>1. /\ UNCHANGED worker
        /\ worker[u] \in Workers
        /\ stop' = [stop EXCEPT ![s] = Call("waiting", u, worker[u])]
        /\ proc' = Terminated(worker[u])
    BY <1>3 DEF StopBegin, TypeOK
  <2>2. /\ stop' \in [Stoppers -> Waiting]
        /\ \A t \in Stoppers \ {s} : stop'[t] = stop[t]
        /\ stop'[s].at = "waiting" /\ stop'[s].user = u
    BY <2>1, Records DEF TypeOK
  <2>3. /\ proc' \in [Workers -> {"free", "booting", "up", "term", "dead"}]
        /\ \A w \in Workers \ {worker[u]} : proc'[w] = proc[w]
        /\ \A w \in Workers : proc'[w] # proc[w] =>
             proc[w] \in {"booting", "up"} /\ proc'[w] \in {"term", "dead"}
    BY <2>1 DEF TypeOK, Terminated
  <2> QED
    BY <2>1, <2>2, <2>3 DEF TypeOK
<1> QED
  BY <1>1, <1>2, <1>3

\* A request that is answered or proxied keeps its user.
LEMMA Proxies ==
  ASSUME TypeOK, NEW r \in Requests, NEW u \in Users, NEW p, Proxy(r, u, p)
  PROVE  /\ req' \in [Requests -> Handling]
         /\ \A t \in Requests \ {r} : req'[t] = req[t]
         /\ \/ req'[r] = NoCall
            \/ /\ req'[r].at = "proxied" /\ req'[r].user = u
               /\ req'[r].worker \in Listening(p)
<1>1. CASE \E w \in Listening(p) : req' = [req EXCEPT ![r] = Call("proxied", u, w)]
  BY <1>1, Records DEF TypeOK, Listening
<1>2. CASE req' = [req EXCEPT ![r] = NoCall]
  BY <1>2, Records DEF TypeOK
<1> QED
  BY <1>1, <1>2 DEF Proxy

-----------------------------------------------------------------------------

\* Every step keeps the types.
LEMMA NextTypes == TypeOK /\ [Next]_vars => TypeOK'
<1> SUFFICES ASSUME TypeOK, [Next]_vars PROVE TypeOK'
  OBVIOUS
<1> USE DEF regVars, procVars
<1>0. /\ {Reaper, Closer} \subseteq Stoppers /\ Registers \subseteq Stoppers
      /\ req \in [Requests -> Handling]
  BY DEF Stoppers, TypeOK
<1>1. ASSUME NEW w \in Workers, Boot(w) \/ Exit(w) \/ Crash(w) PROVE TypeOK'
  <2>1. proc' \in [Workers -> {"free", "booting", "up", "term", "dead"}]
    BY <1>1 DEF TypeOK, Boot, Exit, Crash
  <2> QED
    BY <1>1, <2>1 DEF TypeOK, Boot, Exit, Crash
<1>2. ASSUME NEW r \in Requests, NEW u \in Users, Arrive(r, u) PROVE TypeOK'
  <2>1. CASE Proxy(r, u, port[worker[u]])
    BY <1>2, <2>1, Proxies DEF TypeOK, Arrive
  <2>2. CASE req' = [req EXCEPT ![r] = Call("queued", u, None)]
    <3>1. req' \in [Requests -> Handling]
      BY <1>0, <2>2, Records
    <3> QED
      BY <1>2, <3>1 DEF TypeOK, Arrive
  <2> QED
    BY <1>2, <2>1, <2>2 DEF Arrive
<1>3. ASSUME NEW r \in Requests, AcquireProvisioned(r) PROVE TypeOK'
  <2>1. req[r].user \in Users
    BY <1>3, Records DEF AcquireProvisioned
  <2>2. req' \in [Requests -> Handling]
    BY <1>3, <2>1, Proxies DEF AcquireProvisioned
  <2> QED
    BY <1>3, <2>2 DEF TypeOK, AcquireProvisioned
<1>4. ASSUME NEW r \in Requests, AcquireSpawn(r) PROVE TypeOK'
  <2>1. req[r].user \in Users
    BY <1>4, Records DEF AcquireSpawn
  <2>2. PICK w \in Workers, p \in Ports :
          /\ lock' = r
          /\ proc' = [proc EXCEPT ![w] = "booting"]
          /\ owner' = [owner EXCEPT ![w] = req[r].user]
          /\ port' = [port EXCEPT ![w] = p]
          /\ req' = [req EXCEPT ![r] = Call("starting", @.user, w)]
    BY <1>4 DEF AcquireSpawn, Spare, FreePorts
  <2>3. req' \in [Requests -> Handling]
    BY <1>0, <2>1, <2>2, Records
  <2> QED
    BY <1>4, <2>1, <2>2, <2>3 DEF TypeOK, AcquireSpawn
<1>5. ASSUME NEW r \in Requests, AcquireFails(r) \/ Reply(r) PROVE TypeOK'
  <2>1. req' \in [Requests -> Handling]
    BY <1>0, <1>5, Records DEF AcquireFails, Reply
  <2> QED
    BY <1>5, <2>1 DEF TypeOK, AcquireFails, Reply
<1>6. ASSUME NEW r \in Requests, Healthy(r) PROVE TypeOK'
  <2>1. req[r].at = "starting" /\ req[r].user \in Users /\ req[r].worker \in Workers
    BY <1>6, Records DEF Healthy
  <2>2. [req[r] EXCEPT !.at = "started"] \in Handling
    BY <1>0, <2>1 DEF Handling, NoCall
  <2>3. req' \in [Requests -> Handling]
    BY <1>0, <1>6, <2>2 DEF Healthy
  <2> QED
    BY <1>6, <2>1, <2>3 DEF TypeOK, Healthy
<1>7. ASSUME NEW r \in Requests, StartFails(r) PROVE TypeOK'
  <2>1. req' \in [Requests -> Handling]
    BY <1>0, <1>7, Records DEF StartFails
  <2>2. proc' \in [Workers -> {"free", "booting", "up", "term", "dead"}]
    BY <1>7 DEF TypeOK, StartFails, Terminated
  <2> QED
    BY <1>7, <2>1, <2>2 DEF TypeOK, StartFails
<1>8. ASSUME NEW r \in Requests, Started(r) PROVE TypeOK'
  <2>1. req[r].user \in Users
    BY <1>8, Records DEF Started
  <2>2. req' \in [Requests -> Handling]
    BY <1>0, <1>8, <2>1, Proxies, Records DEF Started
  <2> QED
    BY <1>8, <2>2 DEF TypeOK, Started
<1>9. ASSUME NEW s \in Stoppers, StopTimeout(s) PROVE TypeOK'
  BY <1>9 DEF TypeOK, StopTimeout
<1>10. ASSUME NEW s \in Stoppers, StopEnd(s) PROVE TypeOK'
  <2>1. stop' \in [Stoppers -> Waiting]
    BY <1>10, Records DEF TypeOK, StopEnd
  <2> QED
    BY <1>10, <2>1 DEF TypeOK, StopEnd
<1>11. ASSUME NEW u \in Users, RegisterNew(u) \/ GrowIdle(u) PROVE TypeOK'
  BY <1>11 DEF TypeOK, RegisterNew, GrowIdle
<1>12. ASSUME NEW u \in Users, ReaperLooks(u) PROVE TypeOK'
  <2>1. left' \in [{Reaper, Closer} -> SUBSET Users]
    BY <1>12 DEF TypeOK, ReaperLooks
  <2>2. CASE StopBegin(Reaper, u)
    BY <1>0, <1>12, <2>1, <2>2, StopBegins DEF TypeOK, ReaperLooks
  <2>3. CASE UNCHANGED <<worker, proc, stop>>
    BY <1>12, <2>1, <2>3 DEF TypeOK, ReaperLooks
  <2> QED
    BY <1>12, <2>2, <2>3 DEF ReaperLooks
<1>13. ASSUME NEW u \in Users, CloserStops(u) PROVE TypeOK'
  <2>1. left' \in [{Reaper, Closer} -> SUBSET Users]
    BY <1>13 DEF TypeOK, CloserStops
  <2> QED
    BY <1>0, <1>13, <2>1, StopBegins DEF TypeOK, CloserStops
<1>14. ASSUME NEW s \in Registers, NEW u \in Users, RegisterAgain(s, u) PROVE TypeOK'
  BY <1>0, <1>14, StopBegins DEF TypeOK, RegisterAgain
<1>15. CASE ReaperWakes
  BY <1>15 DEF TypeOK, ReaperWakes
<1>16. CASE Shutdown
  <2>1. stop' \in [Stoppers -> Waiting]
    BY <1>16, Records DEF TypeOK, Shutdown
  <2>2. left' \in [{Reaper, Closer} -> SUBSET Users]
    BY <1>16 DEF TypeOK, Shutdown
  <2> QED
    BY <1>16, <2>1, <2>2 DEF TypeOK, Shutdown
<1>17. CASE Closed
  BY <1>17 DEF TypeOK, Closed
<1>18. CASE UNCHANGED vars
  BY <1>18 DEF TypeOK, vars
<1> QED
  BY <1>1, <1>2, <1>3, <1>4, <1>5, <1>6, <1>7, <1>8, <1>9, <1>10, <1>11, <1>12, <1>13, <1>14,
     <1>15, <1>16, <1>17, <1>18
  DEF Next, Acquire, StartEnds

-----------------------------------------------------------------------------

\* What a step does to the requests but those that begin, take or leave the lock:
\* nothing, or one of them ends or is proxied without it.
LEMMA OtherSteps ==
  ASSUME TypeOK, Next,
         ~ \E r \in Requests : AcquireSpawn(r) \/ Healthy(r) \/ StartFails(r) \/ Started(r)
  PROVE  /\ UNCHANGED <<lock, owner, port>>
         /\ \A r \in Requests :
              \/ req'[r] = req[r]
              \/ req[r].at \notin {"starting", "started"} /\ req'[r].at \notin {"starting", "started"}
<1> USE Records DEF procVars
<1>0. req \in [Requests -> Handling]
  BY DEF TypeOK
<1>1. ASSUME NEW r \in Requests, NEW u \in Users, Arrive(r, u)
      PROVE  /\ UNCHANGED <<lock, owner, port>>
             /\ \A t \in Requests \ {r} : req'[t] = req[t]
             /\ req[r].at \notin {"starting", "started"} /\ req'[r].at \notin {"starting", "started"}
  BY <1>0, <1>1, Proxies DEF Arrive
<1>2. ASSUME NEW r \in Requests, AcquireProvisioned(r)
      PROVE  /\ UNCHANGED <<lock, owner, port>>
             /\ \A t \in Requests \ {r} : req'[t] = req[t]
             /\ req[r].at \notin {"starting", "started"} /\ req'[r].at \notin {"starting", "started"}
  <2>1. req[r].user \in Users
    BY <1>2 DEF AcquireProvisioned
  <2> QED
    BY <1>2, <2>1, Proxies DEF AcquireProvisioned
<1>3. ASSUME NEW r \in Requests, AcquireFails(r) \/ Reply(r)
      PROVE  /\ UNCHANGED <<lock, owner, port>>
             /\ \A t \in Requests \ {r} : req'[t] = req[t]
             /\ req[r].at \notin {"starting", "started"} /\ req'[r].at \notin {"starting", "started"}
  BY <1>0, <1>3 DEF AcquireFails, Reply
<1>4. ASSUME ~ \E r \in Requests : Acquire(r) \/ StartEnds(r) \/ Started(r) \/ Reply(r),
             ~ \E r \in Requests, u \in Users : Arrive(r, u)
      PROVE  UNCHANGED <<lock, owner, port, req>>
  BY <1>4 DEF Next, Boot, Exit, Crash, StopTimeout, StopEnd, RegisterNew, GrowIdle, ReaperLooks,
              CloserStops, RegisterAgain, ReaperWakes, Shutdown, Closed
<1> QED
  BY <1>1, <1>2, <1>3, <1>4 DEF Acquire, StartEnds

-----------------------------------------------------------------------------

\* Only the holder of the lock is inside start_worker_instance after every step.
LEMMA NextStarter == TypeOK /\ OneStarter /\ [Next]_vars => OneStarter'
<1> SUFFICES ASSUME TypeOK, OneStarter, [Next]_vars,
                    NEW r \in Requests
             PROVE  req'[r].at \in {"starting", "started"} <=> lock' = r
  BY DEF OneStarter
<1> USE Records, HubAssumption
<1>0. /\ \A t \in Requests : req[t].at \in {"starting", "started"} <=> lock = t
      /\ req \in [Requests -> Handling]
  BY DEF TypeOK, OneStarter
<1>1. ASSUME NEW t \in Requests, AcquireSpawn(t)
      PROVE  req'[r].at \in {"starting", "started"} <=> lock' = r
  <2>1. /\ lock = None /\ lock' = t
        /\ \E w : req' = [req EXCEPT ![t] = Call("starting", @.user, w)]
    BY <1>1 DEF AcquireSpawn
  <2>2. /\ \A v \in Requests \ {t} : req'[v] = req[v]
        /\ req'[t].at = "starting"
    BY <1>0, <2>1
  <2> QED
    BY <1>0, <2>1, <2>2
<1>2. ASSUME NEW t \in Requests, Healthy(t)
      PROVE  req'[r].at \in {"starting", "started"} <=> lock' = r
  <2>1. req'[t].at = "started" /\ UNCHANGED lock /\ req[t].at = "starting"
    BY <1>0, <1>2 DEF Healthy, Handling, NoCall
  <2> QED
    BY <1>0, <1>2, <2>1 DEF Healthy
<1>3. ASSUME NEW t \in Requests, StartFails(t) \/ Started(t)
      PROVE  req'[r].at \in {"starting", "started"} <=> lock' = r
  <2>1. /\ lock = t /\ lock' = None
        /\ \A v \in Requests \ {t} : req'[v] = req[v]
        /\ req'[t].at \notin {"starting", "started"}
    <3>1. CASE StartFails(t)
      BY <1>0, <3>1 DEF StartFails
    <3>2. CASE Started(t)
      <4>1. req[t].user \in Users
        BY <3>2 DEF Started
      <4> QED
        BY <1>0, <3>2, <4>1, Proxies DEF Started
    <3> QED
      BY <1>3, <3>1, <3>2
  <2> QED
    BY <1>0, <2>1
<1>4. CASE ~ \E t \in Requests : AcquireSpawn(t) \/ Healthy(t) \/ StartFails(t) \/ Started(t)
  <2>1. CASE Next
    BY <1>0, <1>4, <2>1, OtherSteps
  <2>2. CASE UNCHANGED vars
    BY <1>0, <2>2 DEF vars
  <2> QED
    BY <2>1, <2>2
<1> QED
  BY <1>1, <1>2, <1>3, <1>4

-----------------------------------------------------------------------------

-----------------------------------------------------------------------------

\* What a step other than a spawn does to the processes: one boots, some end, and
\* one is sent SIGTERM by a stopper of its user or by the start that gives it up.
LEMMA ProcSteps ==
  ASSUME TypeOK, [Next]_vars, ~ \E r \in Requests : AcquireSpawn(r)
  PROVE  /\ UNCHANGED <<owner, port>>
         /\ \A w \in Workers :
              \/ proc'[w] = proc[w]
              \/ proc'[w] = "dead"
              \/ proc'[w] = "up" /\ Boot(w)
              \/ /\ proc'[w] = "term"
                 /\ \/ \E s \in Stoppers, u \in Users : StopBegin(s, u) /\ worker[u] = w
                    \/ \E r \in Requests : req[r].at = "starting" /\ req[r].worker = w
<1> USE DEF regVars, procVars
<1> DEFINE Steps == \A w \in Workers :
              \/ proc'[w] = proc[w]
              \/ proc'[w] = "dead"
              \/ proc'[w] = "up" /\ Boot(w)
              \/ /\ proc'[w] = "term"
                 /\ \/ \E s \in Stoppers, u \in Users : StopBegin(s, u) /\ worker[u] = w
                    \/ \E r \in Requests : req[r].at = "starting" /\ req[r].worker = w
<1> SUFFICES UNCHANGED <<owner, port>> /\ Steps
  OBVIOUS
<1>0. {Reaper, Closer} \subseteq Stoppers /\ Registers \subseteq Stoppers
  BY DEF Stoppers
<1>1. ASSUME NEW w \in Workers, Boot(w) \/ Exit(w) \/ Crash(w)
      PROVE  UNCHANGED <<owner, port>> /\ Steps
  BY <1>1 DEF TypeOK, Boot, Exit, Crash
<1>2. ASSUME NEW r \in Requests, StartFails(r) PROVE UNCHANGED <<owner, port>> /\ Steps
  <2>1. \A w \in Workers : proc'[w] # proc[w] =>
          w = req[r].worker /\ proc'[w] \in {"term", "dead"}
    BY <1>2 DEF TypeOK, StartFails, Terminated
  <2> QED
    BY <1>2, <2>1 DEF StartFails
<1>3. ASSUME NEW s \in Stoppers, StopTimeout(s) PROVE UNCHANGED <<owner, port>> /\ Steps
  BY <1>3 DEF TypeOK, StopTimeout
<1>4. ASSUME NEW s \in Stoppers, NEW u \in Users, StopBegin(s, u) PROVE Steps
  <2>1. \A w \in Workers : proc'[w] # proc[w] =>
          w = worker[u] /\ proc'[w] \in {"term", "dead"}
    BY <1>4, StopBegins
  <2> QED
    BY <1>4, <2>1
<1>5. ASSUME NEW u \in Users, ReaperLooks(u) \/ CloserStops(u)
      PROVE  UNCHANGED <<owner, port>> /\ Steps
  BY <1>0, <1>4, <1>5 DEF ReaperLooks, CloserStops
<1>6. ASSUME NEW s \in Registers, NEW u \in Users, RegisterAgain(s, u)
      PROVE  UNCHANGED <<owner, port>> /\ Steps
  BY <1>0, <1>4, <1>6 DEF RegisterAgain
<1>7. CASE UNCHANGED procVars
  BY <1>7
<1> QED
  BY <1>1, <1>2, <1>3, <1>5, <1>6, <1>7
  DEF Next, Acquire, StartEnds, Arrive, AcquireProvisioned, AcquireFails, Healthy, Started, Reply,
      StopEnd, RegisterNew, GrowIdle, ReaperWakes, Shutdown, Closed, vars

\* A step registers no process but the one that has just answered, and a stopper
\* of a serving hub waits on, or has cleared its user's entry.
LEMMA EntrySteps ==
  ASSUME TypeOK, [Next]_vars
  PROVE  /\ (~ \E r \in Requests : Healthy(r)) =>
              \A u \in Users : worker'[u] \in {worker[u], None}
         /\ hub' = "serving" =>
              /\ hub = "serving"
              /\ \A s \in Stoppers, u \in Users : stop[s].at = "waiting" /\ stop[s].user = u =>
                   stop'[s] = stop[s] \/ worker'[u] = None
         /\ registered \subseteq registered'
<1> USE Records DEF regVars
<1> DEFINE Entry == \A u \in Users : worker'[u] \in {worker[u], None}
           Stops == \A s \in Stoppers, u \in Users : stop[s].at = "waiting" /\ stop[s].user = u =>
                      stop'[s] = stop[s] \/ worker'[u] = None
<1>0. {Reaper, Closer} \subseteq Stoppers /\ Registers \subseteq Stoppers
  BY DEF Stoppers
<1>1. ASSUME NEW s \in Stoppers, NEW u \in Users, stop[s] = NoCall, StopBegin(s, u)
      PROVE  Entry /\ Stops
  BY <1>1, StopBegins
<1>2. ASSUME NEW s \in Stoppers, StopEnd(s)
      PROVE  Entry /\ Stops /\ UNCHANGED <<registered, hub>>
  BY <1>2 DEF StopEnd, TypeOK
<1>3. ASSUME NEW u \in Users, ReaperLooks(u)
      PROVE  Entry /\ Stops /\ UNCHANGED <<registered, hub>>
  BY <1>0, <1>1, <1>3 DEF ReaperLooks
<1>4. ASSUME NEW u \in Users, CloserStops(u)
      PROVE  Entry /\ Stops /\ UNCHANGED <<registered, hub>>
  BY <1>0, <1>1, <1>4 DEF CloserStops
<1>5. ASSUME NEW s \in Registers, NEW u \in Users, RegisterAgain(s, u)
      PROVE  Entry /\ Stops /\ UNCHANGED <<registered, hub>>
  BY <1>0, <1>1, <1>5 DEF RegisterAgain
<1>6. ASSUME NEW r \in Requests, Healthy(r) PROVE UNCHANGED <<registered, stop, hub>>
  BY <1>6 DEF Healthy
<1>7. ASSUME NEW u \in Users, RegisterNew(u)
      PROVE  UNCHANGED <<worker, stop, hub>> /\ registered \subseteq registered'
  BY <1>7 DEF RegisterNew
<1>8. CASE Shutdown \/ Closed
  BY <1>8 DEF Shutdown, Closed
<1>9. CASE UNCHANGED <<registered, worker, stop, hub>>
  BY <1>9
<1> QED
  BY <1>2, <1>3, <1>4, <1>5, <1>6, <1>7, <1>8, <1>9
  DEF Next, Boot, Exit, Crash, Acquire, StartEnds, Arrive, AcquireProvisioned, AcquireSpawn,
      AcquireFails, StartFails, Started, Reply, StopTimeout, GrowIdle, ReaperWakes, vars

\* What spawning does: the process is nobody's, and its port nobody listens on.
LEMMA Spawns ==
  ASSUME TypeOK, Entries, NEW r \in Requests, AcquireSpawn(r)
  PROVE  /\ lock = None /\ lock' = r /\ req[r] # NoCall
         /\ UNCHANGED <<registered, worker, stop, left, hub>>
         /\ \A t \in Requests \ {r} : req'[t] = req[t]
         /\ \E w \in Workers :
              /\ req'[r] = Call("starting", req[r].user, w)
              /\ owner'[w] = req[r].user
              /\ proc'[w] = "booting"
              /\ Listening(port'[w]) = {}
              /\ \A u \in Users : worker[u] # w
              /\ \A v \in Workers \ {w} :
                   proc'[v] = proc[v] /\ owner'[v] = owner[v] /\ port'[v] = port[v]
<1>1. PICK w \in Spare, p \in FreePorts :
        /\ lock' = r
        /\ proc' = [proc EXCEPT ![w] = "booting"]
        /\ owner' = [owner EXCEPT ![w] = req[r].user]
        /\ port' = [port EXCEPT ![w] = p]
        /\ req' = [req EXCEPT ![r] = Call("starting", @.user, w)]
  BY DEF AcquireSpawn
<1>2. w \in Workers /\ \A u \in Users : worker[u] # w
  BY HubAssumption DEF Spare, Referenced, Entries, TypeOK
<1>3. req[r].at = "queued" /\ req[r] # NoCall
  BY Records DEF AcquireSpawn
<1>4. /\ req'[r] = Call("starting", req[r].user, w)
      /\ \A t \in Requests \ {r} : req'[t] = req[t]
      /\ owner'[w] = req[r].user /\ proc'[w] = "booting" /\ port'[w] = p
      /\ \A v \in Workers \ {w} :
           proc'[v] = proc[v] /\ owner'[v] = owner[v] /\ port'[v] = port[v]
  BY <1>1, <1>2 DEF TypeOK
<1>5. Listening(p) = {}
  BY DEF FreePorts
<1> QED
  BY <1>1, <1>2, <1>3, <1>4, <1>5 DEF AcquireSpawn, regVars

\* What registering does: the process that is registered listens.
LEMMA Registered ==
  ASSUME TypeOK, Starts, NEW r \in Requests, Healthy(r)
  PROVE  /\ UNCHANGED <<registered, proc, owner, port, lock, stop, left, hub>>
         /\ \A t \in Requests \ {r} : req'[t] = req[t]
         /\ req[r].at = "starting" /\ req'[r].at = "started" /\ req[r] # NoCall
         /\ req'[r].user = req[r].user /\ req'[r].worker = req[r].worker
         /\ req[r].user \in Users /\ req[r].worker \in Workers
         /\ proc[req[r].worker] = "up"
         /\ owner[req[r].worker] = req[r].user
         /\ worker'[req[r].user] = req[r].worker
         /\ \A u \in Users \ {req[r].user} : worker'[u] = worker[u]
<1>1. req[r].at = "starting" /\ req[r].user \in Users /\ req[r].worker \in Workers
  BY Records DEF Healthy
<1>2. /\ \A v \in Listening(port[req[r].worker]) : v = req[r].worker
      /\ owner[req[r].worker] = req[r].user
  BY <1>1 DEF Starts
<1>3. proc[req[r].worker] = "up"
  BY <1>2 DEF Healthy, Listening
<1>4. /\ \A t \in Requests \ {r} : req'[t] = req[t]
      /\ req'[r].at = "started"
      /\ req'[r].user = req[r].user /\ req'[r].worker = req[r].worker
  BY <1>1 DEF Healthy, TypeOK, Handling, NoCall
<1> QED
  BY <1>1, <1>2, <1>3, <1>4, Records DEF Healthy, TypeOK, procVars

-----------------------------------------------------------------------------

\* Every step keeps the registry's entries right.
LEMMA NextEntries == TypeOK /\ Entries /\ Starts /\ [Next]_vars => Entries'
<1> SUFFICES ASSUME TypeOK, Entries, Starts, [Next]_vars PROVE Entries'
  OBVIOUS
<1> USE Records
<1> DEFINE Entry(u) ==
             worker[u] # None =>
               /\ u \in registered
               /\ owner[worker[u]] = u
               /\ proc[worker[u]] \notin {"free", "booting"}
               /\ hub = "serving" /\ proc[worker[u]] = "term" =>
                    \E s \in Stoppers : stop[s].at = "waiting" /\ stop[s].user = u
           Known(r) == req[r] # NoCall => req[r].user \in registered
<1>0. /\ \A u \in Users : Entry(u)
      /\ \A r \in Requests : Known(r)
      /\ \A u \in Users : worker[u] # None => worker[u] \in Workers
      /\ req \in [Requests -> Handling]
  BY DEF Entries, TypeOK
<1>1. ASSUME NEW r \in Requests, AcquireSpawn(r) PROVE \A u \in Users : Entry(u)'
  <2>1. /\ UNCHANGED <<registered, worker, stop, hub>>
        /\ \E w \in Workers :
             /\ \A u \in Users : worker[u] # w
             /\ \A v \in Workers \ {w} : proc'[v] = proc[v] /\ owner'[v] = owner[v]
    BY <1>1, Spawns
  <2> QED
    BY <1>0, <2>1
<1>2. ASSUME NEW r \in Requests, Healthy(r) PROVE \A u \in Users : Entry(u)'
  BY <1>0, <1>2, Registered
<1>3. ASSUME ~ \E r \in Requests : AcquireSpawn(r) \/ Healthy(r), NEW u \in Users
      PROVE  Entry(u)'
  <2> SUFFICES ASSUME worker'[u] # None PROVE Entry(u)'
    OBVIOUS
  <2>1. worker'[u] = worker[u] /\ worker[u] \in Workers
    BY <1>0, <1>3, EntrySteps
  <2>2. u \in registered' /\ owner'[worker'[u]] = u
    BY <1>0, <1>3, <2>1, EntrySteps, ProcSteps
  <2>3. proc'[worker'[u]] \notin {"free", "booting"}
    BY <1>0, <1>3, <2>1, ProcSteps
  <2>4. ASSUME hub' = "serving", proc'[worker'[u]] = "term"
        PROVE  \E s \in Stoppers : stop'[s].at = "waiting" /\ stop'[s].user = u
    <3>1. CASE proc[worker[u]] = "term"
      BY <1>0, <2>1, <2>4, <3>1, EntrySteps
    <3>2. CASE proc[worker[u]] # "term"
      <4>1. \A r \in Requests : req[r].at = "starting" => req[r].worker # worker[u]
        BY DEF Starts
      <4>2. PICK s \in Stoppers, v \in Users : StopBegin(s, v) /\ worker[v] = worker[u]
        BY <1>3, <2>1, <2>4, <3>2, <4>1, ProcSteps
      <4>3. v = u
        BY <1>0, <2>1, <4>2
      <4> QED
        BY <4>2, <4>3, StopBegins
    <3> QED
      BY <3>1, <3>2
  <2> QED
    BY <2>2, <2>3, <2>4
<1>4. ASSUME NEW r \in Requests PROVE Known(r)'
  <2>1. registered \subseteq registered'
    BY EntrySteps
  <2>2. \/ req'[r] = NoCall
        \/ req'[r].user = req[r].user /\ req[r] # NoCall
        \/ req'[r].user \in registered
    <3>1. CASE req'[r] = req[r]
      BY <3>1
    <3>2. ASSUME NEW t \in Requests, NEW u \in Users, Arrive(t, u), req'[r] # req[r]
          PROVE  req'[r] = NoCall \/ req'[r].user \in registered
      <4>1. r = t
        BY <1>0, <3>2, Proxies DEF Arrive
      <4> QED
        BY <1>0, <3>2, <4>1, Proxies DEF Arrive
    <3>3. ASSUME NEW t \in Requests, AcquireProvisioned(t) \/ Started(t), req'[r] # req[r]
          PROVE  req'[r] = NoCall \/ (req'[r].user = req[r].user /\ req[r] # NoCall)
      <4>1. req[t].user \in Users /\ req[t] # NoCall
        BY <3>3 DEF AcquireProvisioned, Started
      <4> QED
        BY <1>0, <3>3, <4>1, Proxies DEF AcquireProvisioned, Started
    <3>4. ASSUME NEW t \in Requests, AcquireFails(t) \/ StartFails(t) \/ Reply(t), req'[r] # req[r]
          PROVE  req'[r] = NoCall
      BY <1>0, <3>4 DEF AcquireFails, StartFails, Reply
    <3>5. ASSUME NEW t \in Requests, AcquireSpawn(t), req'[r] # req[r]
          PROVE  req'[r].user = req[r].user /\ req[r] # NoCall
      <4>1. r = t
        BY <3>5, Spawns
      <4> QED
        BY <3>5, <4>1, Spawns
    <3>6. ASSUME NEW t \in Requests, Healthy(t), req'[r] # req[r]
          PROVE  req'[r].user = req[r].user /\ req[r] # NoCall
      BY <3>6, Registered
    <3> QED
      BY <3>1, <3>2, <3>3, <3>4, <3>5, <3>6
      DEF Next, Boot, Exit, Crash, Acquire, StartEnds, StopTimeout, StopEnd, RegisterNew, GrowIdle,
          ReaperLooks, CloserStops, RegisterAgain, ReaperWakes, Shutdown, Closed, vars
  <2> QED
    BY <1>0, <2>1, <2>2
<1> QED
  BY <1>1, <1>2, <1>3, <1>4 DEF Entries

-----------------------------------------------------------------------------

\* Every step keeps the process being started apart from the others.
LEMMA NextStarts ==
  TypeOK /\ OneStarter /\ Entries /\ Starts /\ Listeners /\ [Next]_vars => Starts'
<1> SUFFICES ASSUME TypeOK, OneStarter, Entries, Starts, Listeners, [Next]_vars,
                    NEW r \in Requests, req'[r].at \in {"starting", "started"}
             PROVE  /\ owner'[req'[r].worker] = req'[r].user
                    /\ \A v \in Workers :
                         proc'[v] = "up" /\ port'[v] = port'[req'[r].worker] => v = req'[r].worker
                    /\ req'[r].at = "starting" => \A u \in Users : worker'[u] # req'[r].worker
                    /\ req'[r].at = "started" =>
                         /\ proc'[req'[r].worker] # "booting"
                         /\ worker'[req'[r].user] \in {None, req'[r].worker}
  BY DEF Starts, Listening
<1> USE Records, HubAssumption
<1>0. \A t \in Requests : req[t].at \in {"starting", "started"} <=> lock = t
  BY DEF OneStarter
<1>1. CASE \E t \in Requests : AcquireSpawn(t)
  <2>1. PICK t \in Requests : AcquireSpawn(t)
    BY <1>1
  <2>2. t = r
    BY <1>0, <2>1, Spawns
  <2>3. PICK w \in Workers :
          /\ req'[r] = Call("starting", req[r].user, w)
          /\ owner'[w] = req[r].user
          /\ proc'[w] = "booting"
          /\ Listening(port'[w]) = {}
          /\ \A u \in Users : worker[u] # w
          /\ \A v \in Workers \ {w} :
               proc'[v] = proc[v] /\ owner'[v] = owner[v] /\ port'[v] = port[v]
    BY <2>1, <2>2, Spawns
  <2>4. UNCHANGED worker
    BY <2>1, Spawns
  <2>5. req'[r].at = "starting" /\ req'[r].user = req[r].user /\ req'[r].worker = w
    BY <2>3
  <2>6. \A v \in Workers : proc'[v] = "up" => port'[v] # port'[w]
    BY <2>3 DEF Listening
  <2> QED
    BY <2>3, <2>4, <2>5, <2>6
<1>2. CASE \E t \in Requests : Healthy(t)
  <2>1. PICK t \in Requests : Healthy(t)
    BY <1>2
  <2>2. t = r
    BY <1>0, <2>1, Registered
  <2>3. \A v \in Listening(port[req[r].worker]) : v = req[r].worker
    BY <2>1, <2>2, Registered DEF Starts
  <2> QED
    BY <2>1, <2>2, <2>3, Registered DEF Listening
<1>3. CASE ~ \E t \in Requests : AcquireSpawn(t) \/ Healthy(t)
  <2>1. req'[r] = req[r]
    <3>1. ASSUME NEW t \in Requests, StartFails(t) \/ Started(t) PROVE req'[r] = req[r]
      <4>1. req[t].user \in Users /\ req[t].at \in {"starting", "started"}
        BY <3>1 DEF StartFails, Started
      <4>2. req'[t].at \notin {"starting", "started"}
        BY <3>1, <4>1, Proxies DEF StartFails, Started, TypeOK
      <4>3. \A v \in Requests \ {t} : req'[v] = req[v]
        BY <3>1, <4>1, Proxies DEF StartFails, Started, TypeOK
      <4> QED
        BY <4>2, <4>3
    <3>2. CASE UNCHANGED vars
      BY <3>2 DEF vars
    <3> QED
      BY <1>3, <3>1, <3>2, OtherSteps
  <2> DEFINE w == req[r].worker
  <2>2. w \in Workers /\ req[r].user \in Users
    BY <2>1
  <2>3. /\ owner[w] = req[r].user
        /\ \A v \in Workers : proc[v] = "up" /\ port[v] = port[w] => v = w
        /\ req[r].at = "starting" => \A u \in Users : worker[u] # w
        /\ req[r].at = "started" => proc[w] # "booting" /\ worker[req[r].user] \in {None, w}
    BY <2>1 DEF Starts, Listening
  <2>4. UNCHANGED <<owner, port>>
    BY <1>3, ProcSteps
  <2>5. \A v \in Workers : proc'[v] = "up" => proc[v] = "up" \/ proc[v] = "booting"
    BY <1>3, ProcSteps DEF Boot
  <2>6. ASSUME NEW v \in Workers, proc[v] = "booting" PROVE v = w
    BY <1>0, <2>1, <2>6 DEF Listeners
  <2>7. \A u \in Users : worker'[u] \in {worker[u], None}
    BY <1>3, EntrySteps
  <2>8. proc'[w] = "booting" => proc[w] = "booting"
    BY <1>3, <2>2, ProcSteps
  <2> QED
    BY <2>1, <2>2, <2>3, <2>4, <2>5, <2>6, <2>7, <2>8
<1> QED
  BY <1>1, <1>2, <1>3

\* Every step keeps the listeners apart.
LEMMA NextListeners ==
  TypeOK /\ OneStarter /\ Entries /\ Starts /\ Listeners /\ [Next]_vars => Listeners'
<1> SUFFICES ASSUME TypeOK, OneStarter, Entries, Starts, Listeners, [Next]_vars
             PROVE  Listeners'
  OBVIOUS
<1> USE Records, HubAssumption
<1> DEFINE Apart == \A v, w \in Workers :
                      proc[v] = "up" /\ proc[w] = "up" /\ port[v] = port[w] => v = w
           Booting == \A w \in Workers : proc[w] = "booting" =>
                        \E r \in Requests : req[r].at = "starting" /\ req[r].worker = w
<1>0. /\ Apart /\ Booting
      /\ \A t \in Requests : req[t].at \in {"starting", "started"} <=> lock = t
  BY DEF OneStarter, Listeners
<1>1. ASSUME NEW r \in Requests, AcquireSpawn(r) PROVE Apart' /\ Booting'
  <2>1. PICK w \in Workers :
          /\ req'[r] = Call("starting", req[r].user, w)
          /\ proc'[w] = "booting"
          /\ \A v \in Workers \ {w} : proc'[v] = proc[v] /\ port'[v] = port[v]
    BY <1>1, Spawns
  <2>2. \A v \in Workers : proc[v] # "booting"
    BY <1>0, <1>1, Spawns
  <2> QED
    BY <1>0, <2>1, <2>2
<1>2. ASSUME NEW r \in Requests, Healthy(r) PROVE Apart' /\ Booting'
  <2>1. UNCHANGED <<proc, port>>
    BY <1>2, Registered
  <2>2. \A w \in Workers : proc[w] # "booting"
    BY <1>0, <1>2, Registered
  <2> QED
    BY <1>0, <2>1, <2>2
<1>3. CASE ~ \E r \in Requests : AcquireSpawn(r) \/ Healthy(r)
  <2>1. UNCHANGED port
    BY <1>3, ProcSteps
  <2>2. ASSUME NEW v \in Workers, NEW w \in Workers, Boot(v), proc'[v] = "up", w # v
        PROVE  ~ (proc'[w] = "up" /\ port'[w] = port'[v])
    BY <2>1, <2>2 DEF Boot, Listening, TypeOK
  <2>3. Apart'
    BY <1>0, <1>3, <2>1, <2>2, ProcSteps
  <2>4. ASSUME NEW w \in Workers, proc'[w] = "booting"
        PROVE  \E r \in Requests : req'[r].at = "starting" /\ req'[r].worker = w
    <3>1. proc[w] = "booting"
      BY <1>3, <2>4, ProcSteps
    <3>2. PICK r \in Requests : req[r].at = "starting" /\ req[r].worker = w
      BY <1>0, <3>1
    <3>3. ASSUME NEW t \in Requests, StartFails(t) \/ Started(t) PROVE FALSE
      <4>1. t = r
        BY <1>0, <3>2, <3>3 DEF StartFails, Started
      <4> QED
        BY <2>4, <3>1, <3>2, <3>3, <4>1 DEF StartFails, Started, Terminated, TypeOK
    <3>4. req'[r] = req[r]
      <4>1. CASE UNCHANGED vars
        BY <4>1 DEF vars
      <4>2. CASE Next
        <5>1. ~ \E t \in Requests : AcquireSpawn(t) \/ Healthy(t) \/ StartFails(t) \/ Started(t)
          BY <1>3, <3>3
        <5> QED
          BY <3>2, <4>2, <5>1, OtherSteps
      <4> QED
        BY <4>1, <4>2
    <3> QED
      BY <3>2, <3>4
  <2> QED
    BY <2>3, <2>4 DEF Listeners
<1> QED
  BY <1>1, <1>2, <1>3 DEF Listeners

\* Every step of the shutdown leaves what is registered ahead of it.
LEMMA NextClosing == TypeOK /\ Entries /\ Closing /\ [Next]_vars => Closing'
<1> SUFFICES ASSUME TypeOK, Entries, Closing, [Next]_vars PROVE Closing'
  OBVIOUS
<1> USE Records, HubAssumption DEF regVars, procVars
<1> DEFINE Ahead == \A u \in Users : worker[u] # None =>
                      u \in left[Closer] \/ (stop[Closer].at = "waiting" /\ stop[Closer].user = u)
           Quiet == /\ \A r \in Requests : req[r] = NoCall
                    /\ \A s \in Stoppers \ {Closer} : stop[s] = NoCall
<1>0. /\ hub # "serving" => Quiet /\ Ahead
      /\ hub = "closed" => left[Closer] = {} /\ stop[Closer] = NoCall
      /\ hub \in {"serving", "closing", "closed"}
      /\ Closer \in Stoppers /\ Reaper \in Stoppers
      /\ \A s \in Stoppers \ {Closer} : s \in Registers \/ s = Reaper
  BY DEF Closing, TypeOK, Stoppers
<1>1. CASE hub = "serving" /\ hub' = "serving"
  BY <1>1 DEF Closing
<1>2. CASE hub = "serving" /\ hub' # "serving"
  <2>1. Shutdown
    BY <1>2
    DEF Next, Boot, Exit, Crash, Acquire, StartEnds, Arrive, AcquireProvisioned, AcquireSpawn,
        AcquireFails, Healthy, StartFails, Started, Reply, StopTimeout, StopEnd, RegisterNew,
        GrowIdle, ReaperLooks, CloserStops, RegisterAgain, ReaperWakes, Closed, vars
  <2>2. /\ hub' = "closing" /\ UNCHANGED <<worker, req>>
        /\ left'[Closer] = registered
        /\ \A s \in Stoppers \ {Closer} : stop'[s] = NoCall
    BY <1>0, <2>1 DEF Shutdown, TypeOK
  <2>3. Quiet'
    BY <2>1, <2>2 DEF Shutdown
  <2>4. Ahead'
    BY <2>2 DEF Entries
  <2> QED
    BY <2>2, <2>3, <2>4 DEF Closing
<1>3. CASE hub # "serving"
  <2>1. /\ Quiet /\ Ahead
        /\ \A r \in Requests : req[r].at = "no"
        /\ \A s \in Stoppers \ {Closer} : stop[s].at = "no"
    BY <1>0, <1>3
  <2>2. ASSUME NEW u \in Users, CloserStops(u) PROVE Closing'
    <3>1. StopBegin(Closer, u)
      BY <2>2 DEF CloserStops
    <3>2. /\ \A v \in Users \ {u} : worker'[v] = worker[v]
          /\ \A t \in Stoppers \ {Closer} : stop'[t] = stop[t]
          /\ worker'[u] = None \/ (stop'[Closer].at = "waiting" /\ stop'[Closer].user = u)
      BY <1>0, <3>1, StopBegins
    <3>3. /\ left'[Closer] = left[Closer] \ {u} /\ stop[Closer] = NoCall
          /\ hub = "closing" /\ UNCHANGED <<req, hub>>
      BY <2>2 DEF CloserStops, TypeOK
    <3>4. Ahead'
      BY <2>1, <3>2, <3>3
    <3> QED
      BY <2>1, <3>2, <3>3, <3>4 DEF Closing
  <2>3. ASSUME NEW s \in Stoppers, StopEnd(s) PROVE Closing'
    <3>1. s = Closer
      BY <2>1, <2>3 DEF StopEnd
    <3>2. /\ \A v \in Users \ {stop[Closer].user} : worker'[v] = worker[v]
          /\ worker'[stop[Closer].user] = None
          /\ \A t \in Stoppers \ {Closer} : stop'[t] = stop[t]
          /\ stop'[Closer] = NoCall
          /\ stop[Closer].at = "waiting"
          /\ UNCHANGED <<req, left, hub>>
      BY <1>0, <2>3, <3>1 DEF StopEnd, TypeOK
    <3>3. hub # "closed"
      BY <1>0, <3>2
    <3>4. Ahead'
      BY <2>1, <3>2
    <3> QED
      BY <2>1, <3>2, <3>3, <3>4 DEF Closing
  <2>4. CASE Closed
    BY <2>1, <2>4 DEF Closing, Closed
  <2>5. ASSUME UNCHANGED <<worker, req, stop, left, hub>> PROVE Closing'
    BY <2>5 DEF Closing
  <2>6. \A r \in Requests : ~ Acquire(r) /\ ~ StartEnds(r) /\ ~ Started(r) /\ ~ Reply(r)
    BY <2>1 DEF Acquire, StartEnds, AcquireProvisioned, AcquireSpawn, AcquireFails, Healthy,
                StartFails, Started, Reply
  <2> QED
    BY <1>3, <2>2, <2>3, <2>4, <2>5, <2>6
    DEF Next, Boot, Exit, Crash, Arrive, StopTimeout, RegisterNew, GrowIdle, ReaperLooks,
        RegisterAgain, ReaperWakes, Shutdown, vars
<1> QED
  BY <1>1, <1>2, <1>3

-----------------------------------------------------------------------------

\* IInv holds in every reachable state.
LEMMA Invariance == Spec => []IInv
<1>1. IInv /\ [Next]_vars => IInv'
  BY NextTypes, NextStarter, NextEntries, NextStarts, NextListeners, NextClosing DEF IInv
<1> QED
  BY InitInv, <1>1, PTL DEF Spec

\* The state has the shape TypeOK gives it.
THEOREM TypeCorrect == Spec => []TypeOK
<1>1. IInv => TypeOK
  BY DEF IInv
<1> QED
  BY Invariance, <1>1, PTL

\* STARTUP_LOCK is held by the request inside start_worker_instance, by none other
\* and by nobody else.
THEOREM StartsAreSerial == Spec => []OneStarter
<1>1. IInv => OneStarter
  BY DEF IInv
<1> QED
  BY Invariance, <1>1, PTL

\* A hub that has shut down names no process, whatever the shutdown interrupted.
THEOREM ShutdownClearsTheRegistry == Spec => []ClosedRegistryIsEmpty
<1>1. IInv => ClosedRegistryIsEmpty
  BY DEF IInv, Closing, ClosedRegistryIsEmpty, NoCall
<1> QED
  BY Invariance, <1>1, PTL

\* A registered process that has not exited listens alone on its port, is its
\* user's, or somebody waits for its exit.
LEMMA EntryServes ==
  ASSUME IInv, hub = "serving", NEW u \in Users, Provisioned(u),
         NEW v \in Listening(port[worker[u]])
  PROVE  owner[v] = u \/ \E s \in Stoppers : stop[s].at = "waiting" /\ stop[s].user = u
<1>1. /\ worker[u] \in Workers /\ proc[worker[u]] \in {"up", "term"}
      /\ owner[worker[u]] = u
      /\ proc[worker[u]] = "term" => \E s \in Stoppers : stop[s].at = "waiting" /\ stop[s].user = u
  BY DEF IInv, TypeOK, Entries, Provisioned
<1>2. proc[worker[u]] = "up" => v = worker[u]
  BY <1>1 DEF IInv, Listeners, Listening
<1> QED
  BY <1>1, <1>2

\* No step hands a request to a worker spawned for another user, but while the
\* user's own is being stopped.
THEOREM RequestsReachTheirOwnWorker == Spec => RoutedToOwnWorker
<1> DEFINE Routed(r) ==
             LET u == req'[r].user
             IN req'[r].at = "proxied" /\ req[r].at # "proxied"
                  => \/ owner[req'[r].worker] = u
                     \/ \E s \in Stoppers : stop[s].at = "waiting" /\ stop[s].user = u
<1>1. ASSUME IInv, [Next]_vars, NEW r \in Requests, req'[r].at = "proxied", req[r].at # "proxied"
      PROVE  \/ owner[req'[r].worker] = req'[r].user
             \/ \E s \in Stoppers : stop[s].at = "waiting" /\ stop[s].user = req'[r].user
  <2> TypeOK /\ OneStarter /\ Entries /\ Starts /\ Closing
    BY <1>1 DEF IInv
  <2> USE Records, HubAssumption
  <2>0. \A t \in Requests : req[t].at # "no" => hub = "serving"
    BY DEF Closing, TypeOK
  <2>1. ASSUME NEW t \in Requests, NEW u \in Users, Arrive(t, u)
        PROVE  \/ owner[req'[r].worker] = req'[r].user
               \/ \E s \in Stoppers : stop[s].at = "waiting" /\ stop[s].user = req'[r].user
    <3>1. CASE Provisioned(u) /\ Proxy(t, u, port[worker[u]])
      <4>1. t = r /\ req'[r].user = u /\ req'[r].worker \in Listening(port[worker[u]])
        BY <1>1, <3>1, Proxies
      <4> QED
        BY <1>1, <2>1, <3>1, <4>1, EntryServes DEF Arrive
    <3>2. CASE req' = [req EXCEPT ![t] = Call("queued", u, None)]
      BY <1>1, <3>2 DEF TypeOK
    <3> QED
      BY <2>1, <3>1, <3>2 DEF Arrive
  <2>2. ASSUME NEW t \in Requests, AcquireProvisioned(t)
        PROVE  \/ owner[req'[r].worker] = req'[r].user
               \/ \E s \in Stoppers : stop[s].at = "waiting" /\ stop[s].user = req'[r].user
    <3> DEFINE u == req[t].user
    <3>1. u \in Users /\ hub = "serving" /\ Provisioned(u) /\ Proxy(t, u, port[worker[u]])
      BY <2>0, <2>2 DEF AcquireProvisioned
    <3>2. t = r /\ req'[r].user = u /\ req'[r].worker \in Listening(port[worker[u]])
      BY <1>1, <3>1, Proxies
    <3> QED
      BY <1>1, <3>1, <3>2, EntryServes
  <2>3. ASSUME NEW t \in Requests, Started(t) PROVE owner[req'[r].worker] = req'[r].user
    <3> DEFINE u == req[t].user
               w == req[t].worker
    <3>1. /\ u \in Users /\ w \in Workers /\ owner[w] = u
          /\ \A v \in Listening(port[w]) : v = w
          /\ worker[u] \in {None, w}
      BY <2>3 DEF Started, Starts
    <3>2. CASE worker[u] # None /\ Proxy(t, u, port[worker[u]])
      <4>1. t = r /\ req'[r].user = u /\ req'[r].worker \in Listening(port[w])
        BY <1>1, <3>1, <3>2, Proxies
      <4> QED
        BY <3>1, <4>1
    <3>3. CASE req' = [req EXCEPT ![t] = NoCall]
      BY <1>1, <3>3 DEF TypeOK
    <3> QED
      BY <2>3, <3>2, <3>3 DEF Started
  <2>4. ASSUME NEW t \in Requests, AcquireSpawn(t) PROVE FALSE
    BY <1>1, <2>4, Spawns
  <2>5. ASSUME NEW t \in Requests, Healthy(t) PROVE FALSE
    BY <1>1, <2>5, Registered
  <2>6. ASSUME NEW t \in Requests, AcquireFails(t) \/ StartFails(t) \/ Reply(t) PROVE FALSE
    <3>1. req' = [req EXCEPT ![t] = NoCall]
      BY <2>6 DEF AcquireFails, StartFails, Reply
    <3>2. req'[r] = req[r] \/ req'[r] = NoCall
      BY <3>1 DEF TypeOK
    <3> QED
      BY <1>1, <3>2
  <2> QED
    BY <1>1, <2>1, <2>2, <2>3, <2>4, <2>5, <2>6
    DEF Next, Boot, Exit, Crash, Acquire, StartEnds, StopTimeout, StopEnd, RegisterNew, GrowIdle,
        ReaperLooks, CloserStops, RegisterAgain, ReaperWakes, Shutdown, Closed, vars
<1>2. IInv /\ [Next]_vars => [\A r \in Requests : Routed(r)]_vars
  BY <1>1
<1> QED
  BY Invariance, <1>2, PTL DEF Spec, RoutedToOwnWorker

=============================================================================
