--------------------------- MODULE CrashRecovery ---------------------------
(***************************************************************************)
(* The coordinator of src/runtime/crash-recovery.ts, one per daemon        *)
(* process, over the ledger.  A process makes one boot epoch, so processes *)
(* are named by their boots.  Every operation reads the clock and compares *)
(* it with the leases it holds in memory, writes to the ledger, and reads  *)
(* the clock again before it believes what it wrote.  The write may take   *)
(* any time (executeWrite sleeps and retries while the database is         *)
(* locked): other processes and the clock move between these steps, but    *)
(* the process itself does nothing else, because the calls are             *)
(* synchronous.  It may crash at any of them.                              *)
(*                                                                         *)
(* The sweeper that abandons boots and claims attempts is not written yet. *)
(* What it does here is what SPEC.md:130-139 allows it, through the        *)
(* ledger's own transactions; it is marked external.                       *)
(***************************************************************************)
EXTENDS RecoveryLedger

CONSTANTS
    Lease,      \* leaseMs
    MaxNow,     \* bound: the clock stops here
    MaxEffects  \* bound: how often an effect of an attempt is counted

ASSUME ClockAssumption == Lease \in Nat \ {0} /\ MaxNow \in Nat /\ MaxEffects \in Nat

VARIABLES
    now,      \* Date.now(), the same for all processes of the host
    life,     \* CoordinatorState of each process, or "dead"
    own,      \* currentBoot.leaseExpiresAt, as the process knows it
    active,   \* the keys of activeAttempts
    known,    \* their records, as the process knows them: lease and markers
    op,       \* the coordinator call in progress
    effects   \* history: how often each effect was allowed

memory == <<life, own, active, known, op>>
vars == <<ledger, memory, now, effects>>

Lives == {"idle", "running", "stopping", "graceful_stopped", "ownership_lost", "dead"}
Calls == {"none", "boot", "beat", "beatAttempt", "start", "mark", "end", "abort", "stop"}
Steps == {"next", "observed", "written"}

NoCall == [call |-> "none", on |-> Null, effect |-> Null, at |-> 0, step |-> "next", todo |-> {}]
Blank  == [lease |-> 0, marks |-> {}]

TypeOK ==
    /\ LedgerTypeOK
    /\ now \in 0..MaxNow
    /\ life \in [Boots -> Lives]
    /\ own \in [Boots -> Nat]
    /\ active \in SUBSET Attempts
    /\ known \in [Attempts -> [lease : Nat, marks : SUBSET Effects]]
    /\ op \in [Boots -> [call : Calls, on : Attempts \cup {Null}, effect : Effects \cup {Null},
                         at : 0..MaxNow, step : Steps, todo : SUBSET Attempts]]
    /\ effects \in [Attempts -> [Effects -> 0..MaxEffects]]
    /\ \A a \in active : attempts[a].owner \in Boots

Init ==
    /\ LedgerInit
    /\ now = 0
    /\ life = [b \in Boots |-> "idle"]
    /\ own = [b \in Boots |-> 0]
    /\ active = {}
    /\ known = [a \in Attempts |-> Blank]
    /\ op = [b \in Boots |-> NoCall]
    /\ effects = [a \in Attempts |-> [e \in Effects |-> 0]]

-----------------------------------------------------------------------------
(* Ownership, as the process judges it from its memory and the clock.      *)

Free(b) == life[b] = "running" /\ op[b] = NoCall

\* The attempts of this process's activeAttempts.
Mine(b) == {a \in active : attempts[a].owner = b}

\* observeLiveBoot, observeOwnedBoot: assertBootLeaseLive.
BootLive(b) == now < own[b]

\* requireLiveActiveAttempt.
Holds(b, a) ==
    /\ BootLive(b)
    /\ a \in Mine(b) /\ known[a].lease <= own[b]
    /\ now < known[a].lease

Earlier(x, y) == IF x < y THEN x ELSE y

\* The lease that the call in progress writes.
BootLease(b)    == op[b].at + Lease
AttemptLease(b) == Earlier(op[b].at + Lease, own[b])

InCall(b, call, step) == op[b].call = call /\ op[b].step = step

\* The call starts: the clock is read, and nothing is written yet.  Only the
\* calls that write a lease use the time they read in what they write.
Observe(b, call, a, e, todo) ==
    op' = [op EXCEPT ![b] =
              [call |-> call, on |-> a, effect |-> e, step |-> "observed", todo |-> todo,
               at |-> IF call \in {"boot", "beat", "beatAttempt", "start"} THEN now ELSE 0]]

\* The call goes on with the rest of the attempts.
Proceed(b, call, todo) ==
    op' = [op EXCEPT ![b] = [NoCall EXCEPT !.call = call, !.todo = todo]]

Return(b) == op' = [op EXCEPT ![b] = NoCall]

Forget(gone) ==
    /\ active' = active \ gone
    /\ known' = [a \in Attempts |-> IF a \in gone THEN Blank ELSE known[a]]

\* enterFailClosed: all attempts are dropped and told, the timer is cleared,
\* and no call is accepted any more, so that nothing reads the lease again.
FailClosed(b) ==
    /\ life' = [life EXCEPT ![b] = "ownership_lost"]
    /\ own' = [own EXCEPT ![b] = 0]
    /\ Forget(Mine(b))
    /\ Return(b)
    /\ UNCHANGED <<ledger, now, effects>>

-----------------------------------------------------------------------------
(* The calls: what they check before they write.                           *)

Start(b) ==
    /\ life[b] = "idle" /\ op[b] = NoCall
    /\ Observe(b, "boot", Null, Null, {})
    /\ UNCHANGED <<ledger, life, own, active, known, now, effects>>

\* heartbeatNow: the boot first.
Heartbeat(b) ==
    /\ Free(b) /\ BootLive(b)
    /\ Observe(b, "beat", Null, Null, {})
    /\ UNCHANGED <<ledger, life, own, active, known, now, effects>>

\* Then each of the active attempts.
HeartbeatNext(b) ==
    /\ InCall(b, "beatAttempt", "next")
    /\ \E a \in op[b].todo :
          /\ Holds(b, a)
          /\ Observe(b, "beatAttempt", a, Null, op[b].todo \ {a})
    /\ UNCHANGED <<ledger, life, own, active, known, now, effects>>

\* The attempt id is new.
StartTurnAttempt(b, a) ==
    /\ Free(b) /\ BootLive(b)
    /\ attempts[a].status = "none" /\ \A c \in Boots : op[c].on # a
    /\ Observe(b, "start", a, Null, {})
    /\ UNCHANGED <<ledger, life, own, active, known, now, effects>>

MarkTurnAttemptSafety(b, a, e) ==
    /\ Free(b) /\ Holds(b, a)
    /\ e \notin known[a].marks
    /\ Observe(b, "mark", a, e, {})
    /\ UNCHANGED <<ledger, life, own, active, known, now, effects>>

Allow(a, e) ==
    /\ effects[a][e] < MaxEffects
    /\ effects' = [effects EXCEPT ![a][e] = @ + 1]

\* A marker that is set already is not written again: the effect is allowed on
\* what the process remembers.
MarkedBefore(b, a, e) ==
    /\ Free(b) /\ Holds(b, a)
    /\ e \in known[a].marks
    /\ Allow(a, e)
    /\ UNCHANGED <<ledger, memory, now>>

TerminalizeTurnAttempt(b, a) ==
    /\ Free(b) /\ Holds(b, a)
    /\ Observe(b, "end", a, Null, {})
    /\ UNCHANGED <<ledger, life, own, active, known, now, effects>>

\* stopGracefully: the timer is cleared, and no other call is accepted.
StopGracefully(b) ==
    /\ Free(b) /\ BootLive(b)
    /\ life' = [life EXCEPT ![b] = "stopping"]
    /\ Proceed(b, "abort", Mine(b))
    /\ UNCHANGED <<ledger, own, active, known, now, effects>>

\* Each attempt is aborted, then the boot is stopped.
SlipStopsFirst(b) ==
    /\ InCall(b, "abort", "next")
    /\ BootLive(b)
    /\ Observe(b, "stop", Null, Null, {})
    /\ UNCHANGED <<ledger, life, own, active, known, now, effects>>

StopNext(b) ==
    /\ InCall(b, "abort", "next")
    /\ \/ \E a \in op[b].todo :
             /\ Holds(b, a)
             /\ Observe(b, "abort", a, Null, op[b].todo \ {a})
       \/ /\ op[b].todo = {} /\ BootLive(b)
          /\ Observe(b, "stop", Null, Null, {})
    /\ UNCHANGED <<ledger, life, own, active, known, now, effects>>

-----------------------------------------------------------------------------
(* The calls: the write.                                                   *)

Commits(b) ==
    LET a == op[b].on
    IN  \/ op[b].call = "boot" /\ CreateBoot(b, BootLease(b))
        \/ op[b].call = "beat" /\ HeartbeatBoot(b, BootLease(b))
        \/ op[b].call = "beatAttempt" /\ HeartbeatAttempt(a, b, op[b].at, AttemptLease(b))
        \/ op[b].call = "start" /\ CreateAttempt(a, b, op[b].at, AttemptLease(b))
        \/ op[b].call = "mark" /\ MarkSafety(a, op[b].effect)
        \/ op[b].call \in {"end", "abort"} /\ TerminalizeAttempt(a)
        \/ op[b].call = "stop" /\ StopBoot(b)

Write(b) ==
    /\ op[b].step = "observed"
    /\ Commits(b)
    /\ op' = [op EXCEPT ![b].step = "written"]
    /\ UNCHANGED <<life, own, active, known, now, effects>>

-----------------------------------------------------------------------------
(* The calls: the second look at the clock, and what they publish.  A      *)
(* renewal is judged by the lease it renews.                               *)

StartReturns(b) ==
    /\ InCall(b, "boot", "written")
    /\ now < BootLease(b)
    /\ own' = [own EXCEPT ![b] = BootLease(b)]
    /\ life' = [life EXCEPT ![b] = "running"]
    /\ Return(b)
    /\ UNCHANGED <<ledger, active, known, now, effects>>

Renewed(b) ==
    /\ InCall(b, "beat", "written")
    /\ BootLive(b) /\ now < BootLease(b)
    /\ own' = [own EXCEPT ![b] = BootLease(b)]
    /\ IF Mine(b) = {} THEN Return(b) ELSE Proceed(b, "beatAttempt", Mine(b))
    /\ UNCHANGED <<ledger, life, active, known, now, effects>>

AttemptRenewed(b) ==
    LET a == op[b].on
    IN  /\ InCall(b, "beatAttempt", "written")
        /\ Holds(b, a)
        /\ known' = [known EXCEPT ![a].lease = AttemptLease(b)]
        /\ IF op[b].todo = {} THEN Return(b) ELSE Proceed(b, "beatAttempt", op[b].todo)
        /\ UNCHANGED <<ledger, life, own, active, now, effects>>

\* The attempt is published before it is written.
SlipStartsUnwritten(b) ==
    LET a == op[b].on
    IN  /\ InCall(b, "start", "observed")
        /\ BootLive(b) /\ now < AttemptLease(b)
        /\ active' = active \cup {a}
        /\ known' = [known EXCEPT ![a] = [lease |-> AttemptLease(b), marks |-> {}]]
        /\ Return(b)
        /\ UNCHANGED <<ledger, life, own, now, effects>>

AttemptStarted(b) ==
    LET a == op[b].on
    IN  /\ InCall(b, "start", "written")
        /\ BootLive(b) /\ now < AttemptLease(b)
        /\ active' = active \cup {a}
        /\ known' = [known EXCEPT ![a] = [lease |-> AttemptLease(b), marks |-> {}]]
        /\ Return(b)
        /\ UNCHANGED <<ledger, life, own, now, effects>>

\* The clock is not read again after the write.
SlipMarkedBlindly(b) ==
    LET a == op[b].on
    IN  /\ InCall(b, "mark", "written")
        /\ known' = [known EXCEPT ![a].marks = @ \cup {op[b].effect}]
        /\ Allow(a, op[b].effect)
        /\ Return(b)
        /\ UNCHANGED <<ledger, life, own, active, now>>

\* Now the caller lets the effect happen (installCrashRecoveryApprovalFences,
\* the PreToolUse hook, the event loop before it projects what it received).
Marked(b) ==
    LET a == op[b].on
    IN  /\ InCall(b, "mark", "written")
        /\ Holds(b, a)
        /\ known' = [known EXCEPT ![a].marks = @ \cup {op[b].effect}]
        /\ Allow(a, op[b].effect)
        /\ Return(b)
        /\ UNCHANGED <<ledger, life, own, active, now>>

Terminalized(b) ==
    /\ InCall(b, "end", "written")
    /\ Holds(b, op[b].on)
    /\ Forget({op[b].on})
    /\ Return(b)
    /\ UNCHANGED <<ledger, life, own, now, effects>>

Aborted(b) ==
    /\ InCall(b, "abort", "written")
    /\ Holds(b, op[b].on)
    /\ Forget({op[b].on})
    /\ Proceed(b, "abort", op[b].todo)
    /\ UNCHANGED <<ledger, life, own, now, effects>>

Stopped(b) ==
    /\ InCall(b, "stop", "written")
    /\ BootLive(b)
    /\ life' = [life EXCEPT ![b] = "graceful_stopped"]
    /\ own' = [own EXCEPT ![b] = 0]
    /\ Return(b)
    /\ UNCHANGED <<ledger, active, known, now, effects>>

\* The call finds that a lease it relies on is over.
Doubts(b) ==
    \/ Free(b) /\ ~BootLive(b)
    \/ Free(b) /\ \E a \in Mine(b) : ~Holds(b, a)
    \/ op[b].step = "next" /\ op[b].todo # {} /\ \E a \in op[b].todo : ~Holds(b, a)
    \/ InCall(b, "abort", "next") /\ op[b].todo = {} /\ ~BootLive(b)
    \/ InCall(b, "boot", "written") /\ now >= BootLease(b)
    \/ op[b].step = "written" /\ op[b].call \in {"beat", "start", "stop"} /\ ~BootLive(b)
    \/ op[b].step = "written" /\ op[b].call \in {"beatAttempt", "mark", "end", "abort"}
          /\ ~Holds(b, op[b].on)

\* Or its write throws: the ledger refuses it, or the database stays locked.
\* When the boot is not created, start throws and the process ends (Crash).
LoseOwnership(b) ==
    /\ \/ Doubts(b)
       \/ op[b].step = "observed" /\ op[b].call # "boot"
    /\ FailClosed(b)

-----------------------------------------------------------------------------
(* The host.                                                               *)

Tick ==
    /\ now < MaxNow
    /\ now' = now + 1
    /\ UNCHANGED <<ledger, memory, effects>>

\* The process dies.  What it had committed stays.
Crash(b) ==
    /\ \/ life[b] \in {"running", "stopping"}
       \/ life[b] = "idle" /\ op[b] # NoCall
    /\ life' = [life EXCEPT ![b] = "dead"]
    /\ own' = [own EXCEPT ![b] = 0]
    /\ Forget(Mine(b))
    /\ Return(b)
    /\ UNCHANGED <<ledger, now, effects>>

-----------------------------------------------------------------------------
(* The sweeper (external).                                                 *)

\* The row may have been read at any time before, while its lease was another.
Abandon(b) ==
    /\ \E observed \in 0..now : AbandonBoot(b, observed, now)
    /\ UNCHANGED <<memory, now, effects>>

\* "candidates MUST come from expired non-terminal attempts owned by an
\* abandoned boot" (SPEC.md:134).
Orphan(a) ==
    /\ Running(a)
    /\ boots[attempts[a].owner].status = "abandoned"

\* "unsafe tool execution, or materialized output MUST fail closed" (135).
Verdict(a) == IF attempts[a].marks = {} THEN "resume" ELSE "manual_review"

Sweep(b) ==
    /\ Free(b)
    /\ \E r \in Runs :
          \/ CreateRun(r, b, now)
          \/ CompleteRun(r) /\ runs[r].boot = b
          \/ \E a \in Attempts :
                \/ runs[r].boot = b /\ Orphan(a) /\ RecordCandidate(r, a, Verdict(a))
                \/ AcquireClaim(r, a, b, now)
                \/ LoseClaim(r, a, b, now)
                \/ claims[a].run = r /\ CompleteClaim(a, b, now)
    /\ UNCHANGED <<memory, now, effects>>

-----------------------------------------------------------------------------

Step(b) ==
    \/ Start(b) \/ Heartbeat(b) \/ HeartbeatNext(b) \/ StopGracefully(b) \/ StopNext(b)
    \/ \E a \in Attempts :
          \/ StartTurnAttempt(b, a) \/ TerminalizeTurnAttempt(b, a)
          \/ \E e \in Effects : MarkTurnAttemptSafety(b, a, e) \/ MarkedBefore(b, a, e)
    \/ Write(b)
    \/ StartReturns(b) \/ Renewed(b) \/ AttemptRenewed(b) \/ AttemptStarted(b)
    \/ Marked(b) \/ Terminalized(b) \/ Aborted(b) \/ Stopped(b)
    \/ LoseOwnership(b)

Next ==
    \/ Tick
    \/ \E b \in Boots : Step(b) \/ Crash(b) \/ Abandon(b) \/ Sweep(b)

Spec == Init /\ [][Next]_vars

-----------------------------------------------------------------------------
(* Properties.                                                             *)

\* A boot is graceful only when none of its attempts runs (SPEC.md:185).
GracefulIsClean == \A a \in Attempts :
    Running(a) => boots[attempts[a].owner].status # "graceful_stopped"

HolderOf(a) ==
    CASE attempts[a].status = "none"  -> "none"
      [] attempts[a].status = "ended" -> "ended"
      [] Running(a) /\ ~Unclaimed(a)  -> "claimed"
      [] Orphan(a) /\ Unclaimed(a)    -> "fenced"
      [] OTHER                        -> "owner"

Resumed == {a \in Attempts : \E r \in Runs :
    /\ candidates[r][a].decision = "resume"
    /\ candidates[r][a].status \in {"claimed", "done"}}

Fence == INSTANCE EffectFence WITH
    holder <- [a \in Attempts |-> HolderOf(a)],
    evidence <- [a \in Attempts |-> attempts[a].marks],
    resumed <- Resumed

\* Leases and clocks implement the fence.
ImplementsFence == Fence!Spec

=============================================================================
