-------------------------- MODULE LeaderElection --------------------------
(***************************************************************************)
(* The leader election of src/leader/index.ts, with the parts of           *)
(* src/daemon.ts that use it.  Daemons compete for one key of a NATS       *)
(* JetStream KV bucket whose entries expire: the daemon that creates the   *)
(* key runs the singleton runners (heartbeat, cron, session followups,     *)
(* task checkpoints) and re-puts the key on a timer; the others poll the   *)
(* key and create it when it is gone.                                      *)
(*                                                                         *)
(* One unit of time is a common divisor of LEASE_TTL_S and                 *)
(* RENEWAL_INTERVAL_MS.  A restarted daemon has a new daemonId in the      *)
(* code; here it keeps its name, which is sound because no code ever       *)
(* compares the value of the key with anything.                            *)
(***************************************************************************)
EXTENDS Integers, FiniteSets

CONSTANTS
    Daemons,    \* the daemons of the deployment
    NoOne,      \* the key is absent
    Ttl,        \* LEASE_TTL_S
    Interval,   \* RENEWAL_INTERVAL_MS
    Tolerated,  \* failed renewals in a row that the lease outlives
    MaxLost     \* bound: create answers that the network may lose

ASSUME NoOneAssumption == NoOne \notin Daemons

\* "Must be < LEASE_TTL_S" (index.ts:32).  Tolerated is a reading of the two
\* numbers, not a bound: renewals may fail any number of times.
ASSUME LeaseAssumption ==
    /\ Ttl \in Nat /\ Interval \in Nat \ {0} /\ Tolerated \in Nat /\ MaxLost \in Nat
    /\ (Tolerated + 1) * Interval < Ttl

VARIABLES
    key,       \* the value of the KV entry, NoOne when it is absent
    keyAge,    \* time since the entry was last written
    life,      \* stage of each process: see Lives
    watch,     \* the vacancy watcher of each process: see Watches
    renewing,  \* daemons whose renewalTimer is set
    renewAge,  \* time since the renewal timer last fired, up to when it is due
    missed,    \* puts that failed since the last one that reached the server,
               \* counted up to the first that the lease does not outlive
    lost,      \* create answers lost so far
    runners,   \* daemons whose singleton runners are started
    faults     \* history: the faults that the design does not survive

vars == <<key, keyAge, life, watch, renewing, renewAge, missed, lost, runners, faults>>
server == <<key, keyAge>>
timers == <<renewing, renewAge, missed>>

Lives   == {"off", "up", "stopping", "released"}
Watches == {"none", "sleeping", "vacant", "won"}

\* A graceful stop of a daemon that still watches for a vacancy; and a lease
\* that is not renewed in time, because the timer fires late (the process was
\* suspended, its event loop blocked) or because more puts fail in a row than
\* the lease outlives.
Faults == {"follower_stop", "unrenewed"}

TypeOK ==
    /\ key \in Daemons \cup {NoOne}
    /\ keyAge \in 0..Ttl
    /\ life \in [Daemons -> Lives]
    /\ watch \in [Daemons -> Watches]
    /\ renewing \subseteq Daemons
    /\ renewAge \in [Daemons -> 0..Interval]
    /\ missed \in [Daemons -> 0..(Tolerated + 1)]
    /\ lost \in 0..MaxLost
    /\ runners \subseteq Daemons
    /\ faults \subseteq Faults
    /\ \A d \in Daemons :
          /\ d \in runners \/ watch[d] = "won" => d \in renewing \/ life[d] = "released"
          /\ life[d] = "off" => d \notin renewing \cup runners /\ watch[d] = "none"

Init ==
    /\ key = NoOne
    /\ keyAge = 0
    /\ life = [d \in Daemons |-> "off"]
    /\ watch = [d \in Daemons |-> "none"]
    /\ renewing = {}
    /\ renewAge = [d \in Daemons |-> 0]
    /\ missed = [d \in Daemons |-> 0]
    /\ lost = 0
    /\ runners = {}
    /\ faults = {}

-----------------------------------------------------------------------------
(* The key-value store.                                                    *)

\* Slips: here and below, operators named Slip... are wrong versions of the
\* definition that follows them.  No action uses them: put in its place, each
\* breaks a property, which shows that the property depends on it.

\* kv.put where kv.create is meant.
SlipCreateIsPut(d) == key' = d /\ keyAge' = 0

\* kv.create succeeds only when the key does not exist.
Create(d) == key = NoOne /\ key' = d /\ keyAge' = 0

\* The server creates the key but its answer is lost: tryAcquireLeadership
\* returns false on any error, so the key has an owner that does not know it.
CreateUnanswered(d) == Create(d) /\ lost < MaxLost /\ lost' = lost + 1

\* tryAcquireLeadership returns false and the caller leads nothing.
NotAcquired(d) ==
    \/ key # NoOne /\ UNCHANGED <<server, lost>>
    \/ CreateUnanswered(d)

\* kv.put writes whatever the key holds: renewal never compares owners.
Put(d) == key' = d /\ keyAge' = 0

\* kv.delete removes the key whoever wrote it.
Delete(d) == key' = NoOne /\ keyAge' = 0

\* The bucket's max_age: the server drops an entry some time after its age
\* reaches Ttl, never before, and emits no event (index.ts:118).
Expire ==
    /\ key # NoOne /\ keyAge = Ttl
    /\ key' = NoOne /\ keyAge' = 0
    /\ UNCHANGED <<life, watch, timers, lost, runners, faults>>

-----------------------------------------------------------------------------
(* Acquiring.                                                              *)

\* The timer is not started.
SlipNoTimer(d) == UNCHANGED timers

\* startLeadershipRenewal: the timer starts from zero, unless it runs.
StartRenewal(d) ==
    \/ d \in renewing /\ UNCHANGED timers
    \/ /\ d \notin renewing
       /\ renewing' = renewing \cup {d}
       /\ renewAge' = [renewAge EXCEPT ![d] = 0]
       /\ missed' = [missed EXCEPT ![d] = 0]

\* startDaemon: the boot-time tryAcquireLeadership succeeds.
BootAsLeader(d) ==
    /\ life[d] = "off"
    /\ Create(d)
    /\ StartRenewal(d)
    /\ life' = [life EXCEPT ![d] = "up"]
    /\ runners' = runners \cup {d}
    /\ UNCHANGED <<watch, lost, faults>>

\* startDaemon: the boot-time tryAcquireLeadership returns false, so the
\* daemon watches for a vacancy.
BootAsFollower(d) ==
    /\ life[d] = "off"
    /\ NotAcquired(d)
    /\ life' = [life EXCEPT ![d] = "up"]
    /\ watch' = [watch EXCEPT ![d] = "sleeping"]
    /\ UNCHANGED <<timers, runners, faults>>

\* One poll of watchForLeadershipVacancy.  A get that fails is read as a
\* missing key (`.catch(() => null)`).
Poll(d) ==
    /\ watch[d] = "sleeping"
    /\ \E seen \in {key, NoOne} :
          watch' = [watch EXCEPT ![d] = IF seen = NoOne THEN "vacant" ELSE "sleeping"]
    /\ UNCHANGED <<server, life, timers, lost, runners, faults>>

\* The poller saw no key; by now it may exist.  Winning starts the renewal.
TakeOver(d) ==
    /\ watch[d] = "vacant"
    /\ Create(d)
    /\ StartRenewal(d)
    /\ watch' = [watch EXCEPT ![d] = "won"]
    /\ UNCHANGED <<life, lost, runners, faults>>

\* The poller returns after a lost race.
SlipStopPolling(d) ==
    /\ watch[d] = "vacant"
    /\ NotAcquired(d)
    /\ watch' = [watch EXCEPT ![d] = "none"]
    /\ UNCHANGED <<life, timers, runners, faults>>

\* The race is lost, or won without an answer: keep polling.
LoseRace(d) ==
    /\ watch[d] = "vacant"
    /\ NotAcquired(d)
    /\ watch' = [watch EXCEPT ![d] = "sleeping"]
    /\ UNCHANGED <<life, timers, runners, faults>>

\* onVacancy: start the runners, then the watcher returns.
StartRunners(d) ==
    /\ watch[d] = "won"
    /\ watch' = [watch EXCEPT ![d] = "none"]
    /\ runners' = runners \cup {d}
    /\ UNCHANGED <<server, life, timers, lost, faults>>

\* onVacancy throws, before or after some of the runners were started: the
\* poll's catch says "will retry", and the watcher polls on beside its own
\* renewal timer.
StartFails(d) ==
    /\ watch[d] = "won"
    /\ watch' = [watch EXCEPT ![d] = "sleeping"]
    /\ runners' \in {runners, runners \cup {d}}
    /\ UNCHANGED <<server, life, timers, lost, faults>>

-----------------------------------------------------------------------------
(* Renewing, and time.                                                     *)

\* The renewal timer fires and the put reaches the server.
Renew(d) ==
    /\ d \in renewing /\ renewAge[d] = Interval
    /\ Put(d)
    /\ renewAge' = [renewAge EXCEPT ![d] = 0]
    /\ missed' = [missed EXCEPT ![d] = 0]
    /\ UNCHANGED <<life, watch, renewing, lost, runners, faults>>

\* The put fails: "logs a warning but keeps trying", for ever, and the daemon
\* goes on as the leader.
MissRenewal(d) ==
    /\ d \in renewing /\ renewAge[d] = Interval
    /\ renewAge' = [renewAge EXCEPT ![d] = 0]
    /\ IF missed[d] < Tolerated
       THEN missed' = [missed EXCEPT ![d] = @ + 1] /\ UNCHANGED faults
       ELSE missed' = [missed EXCEPT ![d] = Tolerated + 1] /\ faults' = faults \cup {"unrenewed"}
    /\ UNCHANGED <<server, life, watch, renewing, lost, runners>>

Older(age, last) == IF age < last THEN age + 1 ELSE last

Overdue == {d \in renewing : renewAge[d] = Interval}

\* Time passes.  A timer that is due fires before the clock moves on, unless
\* its process is stalled, which is recorded as a fault.
Tick ==
    /\ keyAge' = (IF key = NoOne THEN 0 ELSE Older(keyAge, Ttl))
    /\ renewAge' = [d \in Daemons |-> IF d \in renewing THEN Older(renewAge[d], Interval) ELSE 0]
    /\ faults' = (IF Overdue = {} THEN faults ELSE faults \cup {"unrenewed"})
    /\ UNCHANGED <<key, life, watch, renewing, missed, lost, runners>>

-----------------------------------------------------------------------------
(* Stopping.                                                               *)

\* shutdown: the runners are stopped (a no-op when they do not run).  The
\* vacancy watcher is not stopped by anything.
BeginShutdown(d) ==
    /\ life[d] = "up"
    /\ life' = [life EXCEPT ![d] = "stopping"]
    /\ runners' = runners \ {d}
    /\ faults' = (IF d \in runners /\ watch[d] = "none"
                  THEN faults ELSE faults \cup {"follower_stop"})
    /\ UNCHANGED <<server, watch, timers, lost>>

\* The key is released and the renewal timer goes on.
SlipKeepsTimer(d) ==
    /\ life[d] = "stopping"
    /\ Delete(d)
    /\ life' = [life EXCEPT ![d] = "released"]
    /\ UNCHANGED <<watch, timers, lost, runners, faults>>

\* releaseLeadership: it clears the timer and deletes the key, and shutdown
\* calls it whether or not this daemon leads.  A failed delete is logged.
Release(d) ==
    /\ life[d] = "stopping"
    /\ \/ Delete(d)
       \/ UNCHANGED server
    /\ life' = [life EXCEPT ![d] = "released"]
    /\ renewing' = renewing \ {d}
    /\ renewAge' = [renewAge EXCEPT ![d] = 0]
    /\ missed' = [missed EXCEPT ![d] = 0]
    /\ UNCHANGED <<watch, lost, runners, faults>>

\* Only the key survives a process.
Gone(d) ==
    /\ life' = [life EXCEPT ![d] = "off"]
    /\ watch' = [watch EXCEPT ![d] = "none"]
    /\ renewing' = renewing \ {d}
    /\ renewAge' = [renewAge EXCEPT ![d] = 0]
    /\ missed' = [missed EXCEPT ![d] = 0]
    /\ runners' = runners \ {d}
    /\ UNCHANGED <<server, lost, faults>>

\* process.exit at the end of shutdown, or its timeout forcing it before the
\* key is released.
Exit(d) == life[d] \in {"stopping", "released"} /\ Gone(d)

Crash(d) == life[d] = "up" /\ Gone(d)

-----------------------------------------------------------------------------

Next ==
    \/ Expire
    \/ Tick
    \/ \E d \in Daemons :
          \/ BootAsLeader(d) \/ BootAsFollower(d)
          \/ Poll(d) \/ TakeOver(d) \/ LoseRace(d) \/ StartRunners(d) \/ StartFails(d)
          \/ Renew(d) \/ MissRenewal(d)
          \/ BeginShutdown(d) \/ Release(d) \/ Exit(d) \/ Crash(d)

\* The clock runs, the server expires entries, a live watcher keeps polling,
\* tries to take over and comes to an end with the start of what it won, good
\* or bad, and shutdown ends (it is forced to after 15 s).  A daemon that finds
\* the key free again and again is answered some time: it does not always come
\* second.
Fairness ==
    /\ WF_vars(Tick)
    /\ WF_vars(Expire)
    /\ \A d \in Daemons :
          /\ WF_vars(Poll(d))
          /\ WF_vars(StartRunners(d) \/ StartFails(d))
          /\ WF_vars(Exit(d))
          /\ WF_vars(TakeOver(d) \/ LoseRace(d))
          /\ SF_vars(TakeOver(d))

Spec == Init /\ [][Next]_vars
FairSpec == Spec /\ Fairness

-----------------------------------------------------------------------------
(* Properties.                                                             *)

\* A daemon that runs the singleton runners.
Leading(d) == d \in runners

\* "Only one daemon per role runs the associated work" (index.ts:5).
OneRunner == \A d, e \in Daemons : Leading(d) /\ Leading(e) => d = e

\* A follower that is stopped does no harm to the leader either: the same
\* promise, for deployments whose renewals come in time.
OneRunnerOnTime == faults \subseteq {"follower_stop"} => OneRunner

\* At most one daemon runs the runners, through crashes, restarts, stops of
\* leaders, failed starts, lost create answers and polls that read an error as
\* a vacancy, until a daemon is stopped that still watches, a renewal timer is
\* late, or more than Tolerated renewals fail in a row.  The leader hears of
\* none of these and never steps down (index.ts:100-108), so each of them may
\* leave two daemons with runners.
OneRunnerUnlessFaulty == faults = {} => OneRunner

\* The strengthening that makes OneRunnerUnlessFaulty inductive: a daemon that
\* renews owns the key, and the key is never older than the renewals it has
\* missed allow, so it cannot have expired under its owner.
LeaseHeld(d) ==
    /\ key = d
    /\ missed[d] <= Tolerated
    /\ keyAge <= missed[d] * Interval + renewAge[d]

\* Only a daemon that leads is ever on its way down, and it watches nothing.
StagesAgree == \A d \in Daemons :
    /\ life[d] # "up" => watch[d] = "none" /\ d \notin runners
    /\ life[d] = "stopping" => d \in renewing
    /\ life[d] \in {"off", "released"} => d \notin renewing

LeaseInv ==
    faults = {} =>
        /\ \A d \in renewing : LeaseHeld(d)
        /\ StagesAgree

\* From some point on no daemon is stopped and none crashes.
SettledDown == <>[][\A d \in Daemons : ~BeginShutdown(d) /\ ~Crash(d)]_vars

\* The runners were all started: the watcher, if there was one, is done.
Serves(d) == d \in runners /\ watch[d] = "none"

\* The start failed: the daemon polls for a vacancy that its own renewals
\* prevent, and no other daemon can win the key either.
Stuck(d) == d \in renewing /\ watch[d] \in {"sleeping", "vacant"}

\* A vacancy does not last: once daemons stop coming and going, a daemon that
\* watches comes to see the runners run somewhere, whatever has crashed,
\* expired or been lost before (watchForLeadershipVacancy polls until it
\* wins) - unless the start of the runners failed after a win, which nothing
\* in the code repairs before the daemon that failed goes away.  Without
\* SettledDown a daemon that restarts for ever can win the key every time
\* between its runners' stop and its exit.
VacancyIsFilled ==
    SettledDown =>
        \A d \in Daemons : watch[d] # "none" ~>
            (life[d] # "up" \/ \E e \in Daemons : Serves(e) \/ Stuck(e))

=============================================================================
