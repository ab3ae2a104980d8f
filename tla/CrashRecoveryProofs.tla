------------------------ MODULE CrashRecoveryProofs ------------------------
(* Proofs about CrashRecovery, for any boots, attempts, runs and effects,  *)
(* any lease and any bounds.                                               *)
EXTENDS CrashRecovery, TLAPS

\* No name of a boot, attempt, run or effect is Null, and times are numbers.
LEMMA Constants ==
    /\ Null \notin Boots /\ Null \notin Attempts /\ Null \notin Runs /\ Null \notin Effects
    /\ Lease \in Nat /\ Lease > 0 /\ MaxNow \in Nat /\ MaxEffects \in Nat
BY NullAssumption, ClockAssumption

-----------------------------------------------------------------------------
(* The inductive invariant.                                                *)

\* What the call in progress of a process relies on: the state the process is
\* in, an attempt that it holds, and what its write has left in the ledger.
CallFor(b) ==
    /\ op[b].call = "boot" => life[b] = "idle"
    /\ op[b].call \in {"beat", "beatAttempt", "start", "mark", "end"} => life[b] = "running"
    /\ op[b].call \in {"abort", "stop"} => life[b] = "stopping"
    /\ op[b].call = "start" => op[b].on \in Attempts
    /\ InCall(b, "start", "written") => Running(op[b].on) /\ attempts[op[b].on].owner = b
    /\ op[b].call \in {"mark", "end"} => op[b].on \in Mine(b)
    /\ op[b].call = "abort" /\ op[b].step # "next" => op[b].on \in Mine(b)
    /\ op[b].call = "mark" => op[b].effect \in Effects
    /\ InCall(b, "mark", "written") => op[b].effect \in attempts[op[b].on].marks
    /\ op[b].call \in {"end", "abort"} /\ op[b].step = "written" =>
          attempts[op[b].on].status = "ended"
    /\ op[b].call \in {"boot", "beat"} /\ op[b].step = "written" =>
          BootLease(b) <= boots[b].lease

CallOK == \A b \in Boots : CallFor(b)

\* The row of an attempt, what its owner knows of it, and its effects.
AttemptsOK == \A a \in Attempts :
    /\ attempts[a].status = "none" => attempts[a].marks = {} /\ attempts[a].owner = Null
    /\ attempts[a].status # "none" => attempts[a].owner \in Boots
    /\ known[a].marks \subseteq attempts[a].marks
    /\ \A e \in Effects : effects[a][e] > 0 => e \in attempts[a].marks

\* What a process owns it knows of, until it is gone: nothing before it has
\* started, every running attempt while it lives, none when it stops, and no
\* ended one but that of the call that ends it.
OwnedFor(b) == \A a \in Attempts : attempts[a].owner = b =>
    /\ life[b] # "idle"
    /\ life[b] \in {"running", "stopping"} /\ Running(a) =>
          a \in active \/ (InCall(b, "start", "written") /\ op[b].on = a)
    /\ op[b].call = "abort" /\ a \in active =>
          a \in op[b].todo \/ (op[b].step # "next" /\ op[b].on = a)
    /\ op[b].call = "stop" => ~Running(a)
    /\ a \in active /\ attempts[a].status = "ended" =>
          op[b].call \in {"end", "abort"} /\ op[b].step = "written" /\ op[b].on = a

OwnedOK == \A b \in Boots : OwnedFor(b)

\* No process believes in a longer lease than the ledger has, and no boot is
\* abandoned before its lease is over.
LeaseOK == \A b \in Boots :
    /\ own[b] <= boots[b].lease
    /\ boots[b].status = "none" => boots[b].lease = 0
    /\ boots[b].status = "abandoned" => now >= boots[b].lease

\* Whatever a recovery touches has lost its owner for good, and what it means
\* to resume has had no effect.
Gone(a) == attempts[a].owner \in Boots /\ boots[attempts[a].owner].status = "abandoned"

RecoveryOK == \A a \in Attempts :
    /\ ~Unclaimed(a) => Running(a) /\ Gone(a)
    /\ \A r \in Runs : candidates[r][a].status # "none" =>
          /\ Gone(a)
          /\ candidates[r][a].decision = "resume" => \A e \in Effects : effects[a][e] = 0

FenceInv == TypeOK /\ CallOK /\ AttemptsOK /\ OwnedOK /\ LeaseOK /\ RecoveryOK
IInv == FenceInv /\ OneWinner /\ GracefulIsClean

-----------------------------------------------------------------------------
(* Types.                                                                  *)

\* A call that is no call is well typed.
LEMMA NoCallType ==
    NoCall \in [call : Calls, on : Attempts \cup {Null}, effect : Effects \cup {Null},
                at : 0..MaxNow, step : Steps, todo : SUBSET Attempts]
BY Constants DEF NoCall, Calls, Steps

\* The transactions keep the tables well typed.
LEMMA BootRowsStep ==
    ASSUME boots \in BootRows, NEW b \in Boots, NEW lease \in Nat, NEW observed, NEW at,
           \/ CreateBoot(b, lease) \/ HeartbeatBoot(b, lease)
           \/ StopBoot(b) \/ AbandonBoot(b, observed, at)
    PROVE  boots' \in BootRows
BY DEF BootRows, BootStatuses, CreateBoot, HeartbeatBoot, StopBoot, AbandonBoot

LEMMA AttemptRowsStep ==
    ASSUME attempts \in AttemptRows, NEW a \in Attempts, NEW b \in Boots, NEW e \in Effects,
           NEW at, NEW lease,
           CreateAttempt(a, b, at, lease) \/ MarkSafety(a, e) \/ TerminalizeAttempt(a)
    PROVE  attempts' \in AttemptRows
BY DEF AttemptRows, AttemptStatuses, CreateAttempt, MarkSafety, TerminalizeAttempt

LEMMA RunRowsStep ==
    ASSUME runs \in RunRows, NEW r \in Runs, NEW b \in Boots, NEW at,
           CreateRun(r, b, at) \/ CompleteRun(r)
    PROVE  runs' \in RunRows
BY DEF RunRows, RunStatuses, CreateRun, CompleteRun

LEMMA CandidateRowsStep ==
    ASSUME candidates \in CandidateRows, NEW r \in Runs, NEW a \in Attempts, NEW b, NEW at,
           NEW decision \in Decisions,
           \/ RecordCandidate(r, a, decision)
           \/ AcquireClaim(r, a, b, at) \/ LoseClaim(r, a, b, at)
           \/ claims[a].run = r /\ CompleteClaim(a, b, at)
    PROVE  candidates' \in CandidateRows
<1> DEFINE Row == [status : CandidateStatuses, decision : Decisions]
<1>1. candidates[r] \in [Attempts -> Row] /\ candidates[r][a] \in Row
  BY DEF CandidateRows
<1>2. ASSUME NEW s \in CandidateStatuses
      PROVE  [candidates EXCEPT ![r][a].status = s] \in CandidateRows
  <2>1. [candidates[r][a] EXCEPT !.status = s] \in Row
    BY <1>1
  <2>2. [candidates[r] EXCEPT ![a] = [candidates[r][a] EXCEPT !.status = s]] \in [Attempts -> Row]
    BY <1>1, <2>1
  <2> QED  BY <2>2 DEF CandidateRows
<1>3. CASE RecordCandidate(r, a, decision)
  <2>1. [status |-> "pending", decision |-> decision] \in Row
    BY DEF CandidateStatuses
  <2>2. [candidates[r] EXCEPT ![a] = [status |-> "pending", decision |-> decision]]
           \in [Attempts -> Row]
    BY <1>1, <2>1
  <2> QED  BY <1>3, <2>2 DEF RecordCandidate, CandidateRows
<1>4. CASE AcquireClaim(r, a, b, at)
  BY <1>2, <1>4 DEF AcquireClaim, CandidateStatuses
<1>5. CASE LoseClaim(r, a, b, at)
  BY <1>2, <1>5 DEF LoseClaim, CandidateStatuses
<1>6. CASE claims[a].run = r /\ CompleteClaim(a, b, at)
  BY <1>2, <1>6 DEF CompleteClaim, CandidateStatuses
<1> QED  BY <1>3, <1>4, <1>5, <1>6

LEMMA ClaimRowsStep ==
    ASSUME claims \in ClaimRows, NEW r \in Runs, NEW a \in Attempts, NEW b, NEW at,
           AcquireClaim(r, a, b, at) \/ CompleteClaim(a, b, at)
    PROVE  claims' \in ClaimRows
BY DEF ClaimRows, ClaimStatuses, AcquireClaim, CompleteClaim

\* Every step keeps the types.
LEMMA TypeStep ==
    ASSUME TypeOK, CallOK, [Next]_vars
    PROVE  TypeOK'
<1> DEFINE Op == [call : Calls, on : Attempts \cup {Null}, effect : Effects \cup {Null},
                  at : 0..MaxNow, step : Steps, todo : SUBSET Attempts]
           Known == [lease : Nat, marks : SUBSET Effects]
<1> USE Constants
<1>1. /\ now \in 0..MaxNow /\ life \in [Boots -> Lives] /\ own \in [Boots -> Nat]
      /\ active \in SUBSET Attempts /\ known \in [Attempts -> Known] /\ op \in [Boots -> Op]
      /\ effects \in [Attempts -> [Effects -> 0..MaxEffects]]
      /\ LedgerTypeOK /\ \A a \in active : attempts[a].owner \in Boots
  BY DEF TypeOK
<1>2. NoCall \in Op
  BY NoCallType
<1>3. Blank \in Known
  BY DEF Blank
<1>4. ASSUME NEW b \in Boots, NEW call \in Calls, NEW a \in Attempts \cup {Null},
             NEW e \in Effects \cup {Null}, NEW todo \in SUBSET Attempts, Observe(b, call, a, e, todo)
      PROVE  op' \in [Boots -> Op]
  BY <1>1, <1>4 DEF Observe, Steps
<1>5. ASSUME NEW b \in Boots, NEW call \in Calls, NEW todo \in SUBSET Attempts, Proceed(b, call, todo)
      PROVE  op' \in [Boots -> Op]
  <2>1. [NoCall EXCEPT !.call = call, !.todo = todo] \in Op
    BY <1>2 DEF NoCall, Calls, Steps
  <2> QED  BY <1>1, <1>5, <2>1 DEF Proceed
<1>6. ASSUME NEW b \in Boots, Return(b)
      PROVE  op' \in [Boots -> Op]
  BY <1>1, <1>2, <1>6 DEF Return
<1>7. ASSUME NEW gone \in SUBSET Attempts, Forget(gone)
      PROVE  active' \in SUBSET Attempts /\ active' \subseteq active /\ known' \in [Attempts -> Known]
  BY <1>1, <1>3, <1>7 DEF Forget
<1>8. ASSUME NEW a \in Attempts, NEW e \in Effects, Allow(a, e)
      PROVE  effects' \in [Attempts -> [Effects -> 0..MaxEffects]]
  BY <1>1, <1>8 DEF Allow
<1>9. \A b \in Boots : Mine(b) \subseteq Attempts /\ Mine(b) \subseteq active
  BY <1>1 DEF Mine
<1>10. ASSUME NEW b \in Boots
       PROVE  /\ op[b].call \in Calls /\ op[b].on \in Attempts \cup {Null}
              /\ op[b].effect \in Effects \cup {Null} /\ op[b].at \in 0..MaxNow
              /\ op[b].step \in Steps /\ op[b].todo \in SUBSET Attempts
              /\ BootLease(b) \in Nat /\ AttemptLease(b) \in Nat
  BY <1>1 DEF BootLease, AttemptLease, Earlier
<1>11. ASSUME NEW b \in Boots, FailClosed(b)
       PROVE  TypeOK'
  <2>1. op' \in [Boots -> Op] /\ active' \in SUBSET Attempts /\ active' \subseteq active
        /\ known' \in [Attempts -> Known]
    BY <1>6, <1>7, <1>9, <1>11 DEF FailClosed
  <2>2. life' \in [Boots -> Lives] /\ own' \in [Boots -> Nat]
    BY <1>1, <1>11 DEF FailClosed, Lives
  <2> QED
    BY <1>1, <1>11, <2>1, <2>2 DEF FailClosed, TypeOK, ledger, LedgerTypeOK
<1>12. CASE UNCHANGED vars
  BY <1>1, <1>12 DEF vars, memory, ledger, TypeOK, LedgerTypeOK
<1>13. CASE Tick
  BY <1>1, <1>13 DEF Tick, memory, ledger, TypeOK, LedgerTypeOK
<1>14. ASSUME NEW b \in Boots, op' \in [Boots -> Op], UNCHANGED <<ledger, own, active, known, now>>,
              life' \in [Boots -> Lives], effects' \in [Attempts -> [Effects -> 0..MaxEffects]]
       PROVE  TypeOK'
  BY <1>1, <1>14 DEF ledger, TypeOK, LedgerTypeOK
<1>15. ASSUME NEW b \in Boots,
              \/ Start(b) \/ Heartbeat(b) \/ HeartbeatNext(b) \/ StopNext(b)
              \/ \E a \in Attempts :
                    \/ StartTurnAttempt(b, a) \/ TerminalizeTurnAttempt(b, a)
                    \/ \E e \in Effects : MarkTurnAttemptSafety(b, a, e)
       PROVE  TypeOK'
  <2>1. /\ UNCHANGED <<ledger, life, own, active, known, now, effects>>
        /\ \E call \in Calls, a \in Attempts \cup {Null}, e \in Effects \cup {Null},
               todo \in SUBSET Attempts : Observe(b, call, a, e, todo)
    BY <1>10, <1>15
       DEF Start, Heartbeat, HeartbeatNext, StopNext, StartTurnAttempt, TerminalizeTurnAttempt,
           MarkTurnAttemptSafety, Calls
  <2> QED  BY <1>1, <1>4, <1>14, <2>1
<1>16. ASSUME NEW b \in Boots, StopGracefully(b)
       PROVE  TypeOK'
  <2>1. op' \in [Boots -> Op] /\ life' \in [Boots -> Lives]
    BY <1>1, <1>5, <1>9, <1>16 DEF StopGracefully, Calls, Lives
  <2> QED  BY <1>1, <1>14, <1>16, <2>1 DEF StopGracefully
<1>17. ASSUME NEW b \in Boots, NEW a \in Attempts, NEW e \in Effects, MarkedBefore(b, a, e)
       PROVE  TypeOK'
  BY <1>1, <1>8, <1>14, <1>17 DEF MarkedBefore, memory
<1>18. ASSUME NEW b \in Boots, Write(b)
       PROVE  TypeOK'
  <2>1. op' \in [Boots -> Op] /\ UNCHANGED <<life, own, active, known, now, effects>>
    <3>1. op[b] \in Op
      BY <1>1
    <3>2. [op[b] EXCEPT !.step = "written"] \in Op
      BY <3>1 DEF Steps
    <3> QED  BY <1>1, <1>18, <3>2 DEF Write
  <2>2. op[b].call \in {"mark", "end", "abort"} => op[b].on \in Attempts
    BY <1>1, <1>9, <1>18 DEF CallOK, CallFor, Write
  <2>3. op[b].call = "mark" => op[b].effect \in Effects
    BY DEF CallOK, CallFor
  <2>4. op[b].call = "start" => op[b].on \in Attempts
    BY DEF CallOK, CallFor
  <2>5. boots' \in BootRows
    BY <1>1, <1>10, <1>18, BootRowsStep
       DEF Write, Commits, LedgerTypeOK, HeartbeatAttempt, CreateAttempt, MarkSafety,
           TerminalizeAttempt, ledger
  <2>6. attempts' \in AttemptRows /\ \A a \in active : attempts'[a].owner \in Boots
    <3>1. CASE op[b].call = "start" /\ CreateAttempt(op[b].on, b, op[b].at, AttemptLease(b))
      BY <1>1, <1>10, <2>4, <3>1 DEF CreateAttempt, LedgerTypeOK, AttemptRows, AttemptStatuses
    <3>2. CASE op[b].call = "mark" /\ MarkSafety(op[b].on, op[b].effect)
      <4>1. attempts \in AttemptRows
        BY <1>1 DEF LedgerTypeOK
      <4>2. op[b].on \in Attempts /\ op[b].effect \in Effects
        BY <2>2, <2>3, <3>2
      <4>3. attempts' \in AttemptRows
        BY <1>10, <3>2, <4>1, <4>2, AttemptRowsStep
      <4>4. \A a \in Attempts : attempts'[a].owner = attempts[a].owner
        BY <3>2, <4>1, <4>2 DEF MarkSafety, AttemptRows
      <4> QED  BY <1>1, <4>3, <4>4
    <3>3. CASE op[b].call \in {"end", "abort"} /\ TerminalizeAttempt(op[b].on)
      <4>1. attempts \in AttemptRows
        BY <1>1 DEF LedgerTypeOK
      <4>2. attempts' \in AttemptRows
        BY <2>2, <3>3, <4>1 DEF TerminalizeAttempt, AttemptRows, AttemptStatuses
      <4>3. \A a \in Attempts : attempts'[a].owner = attempts[a].owner
        BY <2>2, <3>3, <4>1 DEF TerminalizeAttempt, AttemptRows
      <4> QED  BY <1>1, <4>2, <4>3
    <3>4. CASE UNCHANGED attempts
      BY <1>1, <3>4 DEF LedgerTypeOK
    <3> QED
      BY <1>18, <3>1, <3>2, <3>3, <3>4
         DEF Write, Commits, CreateBoot, HeartbeatBoot, StopBoot, HeartbeatAttempt, ledger
  <2>7. UNCHANGED <<runs, candidates, claims>>
    BY <1>18 DEF Write, Commits, CreateBoot, HeartbeatBoot, StopBoot, HeartbeatAttempt,
                 CreateAttempt, MarkSafety, TerminalizeAttempt, ledger
  <2> QED  BY <1>1, <2>1, <2>5, <2>6, <2>7 DEF TypeOK, LedgerTypeOK
<1>19. ASSUME NEW b \in Boots, StartReturns(b) \/ Stopped(b)
       PROVE  TypeOK'
  <2>1. op' \in [Boots -> Op]
    BY <1>6, <1>19 DEF StartReturns, Stopped
  <2>2. life' \in [Boots -> Lives]
    BY <1>1, <1>19 DEF StartReturns, Stopped, Lives
  <2>3. own' \in [Boots -> Nat]
    BY <1>1, <1>10, <1>19 DEF StartReturns, Stopped
  <2> QED
    BY <1>1, <1>19, <2>1, <2>2, <2>3 DEF StartReturns, Stopped, TypeOK, LedgerTypeOK, ledger
<1>20. ASSUME NEW b \in Boots, Renewed(b) \/ AttemptRenewed(b)
       PROVE  TypeOK'
  <2>1. op' \in [Boots -> Op]
    BY <1>5, <1>6, <1>9, <1>10, <1>20 DEF Renewed, AttemptRenewed, Calls
  <2>2. own' \in [Boots -> Nat]
    BY <1>1, <1>10, <1>20 DEF Renewed, AttemptRenewed
  <2>3. known' \in [Attempts -> Known]
    BY <1>1, <1>10, <1>20 DEF Renewed, AttemptRenewed
  <2> QED
    BY <1>1, <1>20, <2>1, <2>2, <2>3 DEF Renewed, AttemptRenewed, TypeOK, LedgerTypeOK, ledger
<1>21. ASSUME NEW b \in Boots, AttemptStarted(b)
       PROVE  TypeOK'
  <2>1. op' \in [Boots -> Op]
    BY <1>6, <1>21 DEF AttemptStarted
  <2>2. op[b].on \in Attempts /\ attempts[op[b].on].owner = b
    BY <1>21 DEF AttemptStarted, CallOK, CallFor, InCall
  <2>3. active' \in SUBSET Attempts /\ known' \in [Attempts -> Known]
    BY <1>1, <1>10, <1>21, <2>2 DEF AttemptStarted
  <2> QED
    BY <1>1, <1>21, <2>1, <2>2, <2>3 DEF AttemptStarted, TypeOK, LedgerTypeOK, ledger
<1>22. ASSUME NEW b \in Boots, Marked(b)
       PROVE  TypeOK'
  <2>1. op' \in [Boots -> Op]
    BY <1>6, <1>22 DEF Marked
  <2>2. op[b].on \in Attempts /\ op[b].effect \in Effects
    BY <1>1, <1>9, <1>22 DEF Marked, CallOK, CallFor, InCall
  <2>3. known' \in [Attempts -> Known]
    BY <1>1, <1>22, <2>2 DEF Marked
  <2>4. effects' \in [Attempts -> [Effects -> 0..MaxEffects]]
    BY <1>8, <1>22, <2>2 DEF Marked
  <2> QED
    BY <1>1, <1>22, <2>1, <2>3, <2>4 DEF Marked, TypeOK, LedgerTypeOK, ledger
<1>23. ASSUME NEW b \in Boots, Terminalized(b) \/ Aborted(b)
       PROVE  TypeOK'
  <2>1. op' \in [Boots -> Op]
    BY <1>5, <1>6, <1>10, <1>23 DEF Terminalized, Aborted, Calls
  <2>2. {op[b].on} \in SUBSET Attempts
    BY <1>9, <1>23 DEF Terminalized, Aborted, Holds
  <2>3. active' \subseteq active /\ active' \in SUBSET Attempts /\ known' \in [Attempts -> Known]
    BY <1>7, <1>23, <2>2 DEF Terminalized, Aborted
  <2> QED
    BY <1>1, <1>23, <2>1, <2>3 DEF Terminalized, Aborted, TypeOK, LedgerTypeOK, ledger
<1>24. ASSUME NEW b \in Boots, LoseOwnership(b)
       PROVE  TypeOK'
  BY <1>11, <1>24 DEF LoseOwnership
<1>25. ASSUME NEW b \in Boots, Crash(b)
       PROVE  TypeOK'
  <2>1. op' \in [Boots -> Op] /\ active' \in SUBSET Attempts /\ active' \subseteq active
        /\ known' \in [Attempts -> Known]
    BY <1>6, <1>7, <1>9, <1>25 DEF Crash
  <2>2. life' \in [Boots -> Lives] /\ own' \in [Boots -> Nat]
    BY <1>1, <1>25 DEF Crash, Lives
  <2> QED
    BY <1>1, <1>25, <2>1, <2>2 DEF Crash, TypeOK, LedgerTypeOK, ledger
<1>26. ASSUME NEW b \in Boots, Abandon(b)
       PROVE  TypeOK'
  <2>1. boots' \in BootRows /\ UNCHANGED <<attempts, runs, candidates, claims>>
    <3>1. PICK observed \in 0..now : AbandonBoot(b, observed, now)
      BY <1>26 DEF Abandon
    <3>2. boots \in BootRows /\ 0 \in Nat
      BY <1>1 DEF LedgerTypeOK
    <3>3. boots' \in BootRows
      BY <3>1, <3>2, BootRowsStep
    <3> QED  BY <3>1, <3>3 DEF AbandonBoot
  <2> QED  BY <1>1, <1>26, <2>1 DEF Abandon, memory, TypeOK, LedgerTypeOK
<1>27. ASSUME NEW b \in Boots, Sweep(b)
       PROVE  TypeOK'
  <2>1. boots \in BootRows /\ attempts \in AttemptRows /\ runs \in RunRows
        /\ candidates \in CandidateRows /\ claims \in ClaimRows
    BY <1>1 DEF LedgerTypeOK
  <2>2. PICK r \in Runs :
          \/ CreateRun(r, b, now)
          \/ CompleteRun(r)
          \/ \E a \in Attempts :
                \/ RecordCandidate(r, a, Verdict(a))
                \/ AcquireClaim(r, a, b, now)
                \/ LoseClaim(r, a, b, now)
                \/ claims[a].run = r /\ CompleteClaim(a, b, now)
    BY <1>27 DEF Sweep
  <2>3. UNCHANGED <<boots, attempts>>
    BY <2>2 DEF CreateRun, CompleteRun, RecordCandidate, AcquireClaim, LoseClaim, CompleteClaim
  <2>4. CASE CreateRun(r, b, now) \/ CompleteRun(r)
    <3>1. runs' \in RunRows /\ UNCHANGED <<candidates, claims>>
      BY <2>1, <2>4, RunRowsStep DEF CreateRun, CompleteRun
    <3> QED  BY <1>1, <1>27, <2>3, <3>1 DEF Sweep, memory, TypeOK, LedgerTypeOK
  <2>5. ASSUME NEW a \in Attempts,
               \/ RecordCandidate(r, a, Verdict(a)) \/ AcquireClaim(r, a, b, now)
               \/ LoseClaim(r, a, b, now) \/ (claims[a].run = r /\ CompleteClaim(a, b, now))
        PROVE  TypeOK'
    <3>1. Verdict(a) \in Decisions
      BY DEF Verdict, Decisions
    <3>2. candidates' \in CandidateRows
      BY <2>1, <2>5, <3>1, CandidateRowsStep
    <3>3. claims' \in ClaimRows
      BY <2>1, <2>5, ClaimRowsStep DEF RecordCandidate, LoseClaim
    <3>4. UNCHANGED runs
      BY <2>5 DEF RecordCandidate, AcquireClaim, LoseClaim, CompleteClaim
    <3> QED  BY <1>1, <1>27, <2>3, <3>2, <3>3, <3>4 DEF Sweep, memory, TypeOK, LedgerTypeOK
  <2>6. CASE ~(CreateRun(r, b, now) \/ CompleteRun(r))
    <3>1. PICK a \in Attempts :
            \/ RecordCandidate(r, a, Verdict(a)) \/ AcquireClaim(r, a, b, now)
            \/ LoseClaim(r, a, b, now) \/ (claims[a].run = r /\ CompleteClaim(a, b, now))
      BY <2>2, <2>6
    <3> QED  BY <2>5, <3>1
  <2> QED  BY <2>4, <2>6
<1> QED
  BY <1>12, <1>13, <1>15, <1>16, <1>17, <1>18, <1>19, <1>20, <1>21, <1>22, <1>23, <1>24, <1>25,
     <1>26, <1>27 DEF Next, Step

-----------------------------------------------------------------------------
(* What a step leaves alone.                                               *)

\* Nothing happens to the process of c, or to the attempts it owns, that it
\* could notice: its lease is not shortened and its markers are not lost.
Undisturbed(c) ==
    /\ op'[c] = op[c] /\ life'[c] = life[c] /\ boots'[c].lease >= boots[c].lease
    /\ \A a \in Attempts :
          /\ attempts'[a].owner = c <=> attempts[a].owner = c
          /\ attempts[a].owner = c =>
                /\ attempts'[a].status = attempts[a].status
                /\ attempts[a].marks \subseteq attempts'[a].marks
                /\ a \in active' <=> a \in active

\* Then the invariant about it is kept.
LEMMA UndisturbedKeeps ==
    ASSUME TypeOK, TypeOK', NEW c \in Boots, CallFor(c), OwnedFor(c), Undisturbed(c)
    PROVE  CallFor(c)' /\ OwnedFor(c)'
<1> USE DEF Undisturbed
<1>1. op \in [Boots -> [call : Calls, on : Attempts \cup {Null}, effect : Effects \cup {Null},
                        at : 0..MaxNow, step : Steps, todo : SUBSET Attempts]]
      /\ active \in SUBSET Attempts /\ boots[c].lease \in Nat /\ boots'[c].lease \in Nat
  BY DEF TypeOK, LedgerTypeOK, BootRows
<1>2. \A a \in Mine(c) : a \in Attempts /\ a \in Mine(c)'
  BY <1>1 DEF Mine
<1>3. BootLease(c) <= boots[c].lease => BootLease(c)' <= boots'[c].lease
  BY <1>1, Constants DEF BootLease
<1>4. CallFor(c)'
  <2> DEFINE o == op[c]
  <2>1. o' = o /\ life'[c] = life[c]
    OBVIOUS
  <2>2. o.on \in Mine(c) => /\ o.on \in Mine(c)'
                            /\ attempts'[o.on].status = attempts[o.on].status
                            /\ attempts[o.on].marks \subseteq attempts'[o.on].marks
    BY <1>2 DEF Mine
  <2>3. o.on \in Attempts /\ attempts[o.on].owner = c =>
           /\ attempts'[o.on].owner = c /\ attempts'[o.on].status = attempts[o.on].status
    OBVIOUS
  <2> HIDE DEF Undisturbed
  <2> QED  BY <1>3, <2>1, <2>2, <2>3 DEF CallFor, InCall, Running
<1>5. OwnedFor(c)'
  BY DEF OwnedFor, InCall, Running
<1> QED  BY <1>4, <1>5

\* The steps of a process leave the other processes alone.
LEMMA OthersUndisturbed ==
    ASSUME TypeOK, TypeOK', CallOK, AttemptsOK, NEW b \in Boots, Step(b) \/ Crash(b),
           NEW c \in Boots, c # b
    PROVE  Undisturbed(c)
<1> USE Constants
<1>1. /\ life \in [Boots -> Lives] /\ active \in SUBSET Attempts
      /\ DOMAIN op = Boots
      /\ boots \in BootRows /\ boots' \in BootRows /\ attempts \in AttemptRows
  BY DEF TypeOK, LedgerTypeOK
<1>2. boots[c].lease \in Nat /\ boots'[c].lease \in Nat
  BY <1>1 DEF BootRows
<1>3. ASSUME op'[c] = op[c], life'[c] = life[c], UNCHANGED ledger,
             \A a \in Attempts : attempts[a].owner = c => (a \in active' <=> a \in active)
      PROVE  Undisturbed(c)
  BY <1>2, <1>3 DEF Undisturbed, ledger
<1>4. ASSUME NEW call, NEW a, NEW e, NEW todo, Observe(b, call, a, e, todo)
      PROVE  op'[c] = op[c]
  BY <1>1, <1>4 DEF Observe
<1>5. ASSUME NEW call, NEW todo, Proceed(b, call, todo)
      PROVE  op'[c] = op[c]
  BY <1>1, <1>5 DEF Proceed
<1>6. ASSUME Return(b)
      PROVE  op'[c] = op[c]
  BY <1>1, <1>6 DEF Return
<1>7. ASSUME NEW gone, gone \subseteq Mine(b), Forget(gone)
      PROVE  \A a \in Attempts : attempts[a].owner = c => (a \in active' <=> a \in active)
  BY <1>7 DEF Forget, Mine
<1>8. CASE FailClosed(b) \/ Crash(b)
  BY <1>1, <1>3, <1>6, <1>7, <1>8 DEF FailClosed, Crash
<1>9. CASE Start(b) \/ Heartbeat(b) \/ HeartbeatNext(b) \/ StopNext(b)
  BY <1>3, <1>4, <1>9 DEF Start, Heartbeat, HeartbeatNext, StopNext
<1>10. CASE StopGracefully(b)
  BY <1>1, <1>3, <1>5, <1>10 DEF StopGracefully
<1>11. ASSUME NEW a \in Attempts,
              StartTurnAttempt(b, a) \/ TerminalizeTurnAttempt(b, a)
       PROVE  Undisturbed(c)
  BY <1>3, <1>4, <1>11 DEF StartTurnAttempt, TerminalizeTurnAttempt
<1>12. ASSUME NEW a \in Attempts, NEW e \in Effects,
              MarkTurnAttemptSafety(b, a, e) \/ MarkedBefore(b, a, e)
       PROVE  Undisturbed(c)
  BY <1>3, <1>4, <1>12 DEF MarkTurnAttemptSafety, MarkedBefore, memory
<1>13. CASE StartReturns(b) \/ Stopped(b) \/ Renewed(b) \/ AttemptRenewed(b) \/ Marked(b)
  BY <1>1, <1>3, <1>5, <1>6, <1>13 DEF StartReturns, Stopped, Renewed, AttemptRenewed, Marked
<1>14. CASE AttemptStarted(b)
  <2>1. attempts[op[b].on].owner = b
    BY <1>14 DEF AttemptStarted, CallOK, CallFor, InCall
  <2> QED  BY <1>1, <1>3, <1>6, <1>14, <2>1 DEF AttemptStarted
<1>15. CASE Terminalized(b) \/ Aborted(b)
  <2>1. {op[b].on} \subseteq Mine(b)
    BY <1>15 DEF Terminalized, Aborted, Holds
  <2>2. op'[c] = op[c]
    BY <1>5, <1>6, <1>15 DEF Terminalized, Aborted
  <2> QED  BY <1>3, <1>7, <1>15, <2>1, <2>2 DEF Terminalized, Aborted
<1>16. CASE Write(b)
  <2>1. op'[c] = op[c] /\ life' = life /\ active' = active
    BY <1>1, <1>16 DEF Write
  <2>2. boots'[c].lease = boots[c].lease
    BY <1>1, <1>16 DEF Write, Commits, BootRows, CreateBoot, HeartbeatBoot, StopBoot, CreateAttempt,
       HeartbeatAttempt, MarkSafety, TerminalizeAttempt, ledger
  <2>3. ASSUME NEW a \in Attempts
        PROVE  /\ attempts'[a].owner = c <=> attempts[a].owner = c
               /\ attempts[a].owner = c =>
                    /\ attempts'[a].status = attempts[a].status
                    /\ attempts[a].marks \subseteq attempts'[a].marks
    <3>1. CASE UNCHANGED attempts
      BY <3>1
    <3>2. CASE op[b].call = "start" /\ CreateAttempt(op[b].on, b, op[b].at, AttemptLease(b))
      <4>1. op[b].on \in Attempts /\ attempts[op[b].on].owner = Null
        BY <3>2 DEF CreateAttempt, CallOK, CallFor, AttemptsOK
      <4> QED  BY <1>1, <3>2, <4>1 DEF CreateAttempt, AttemptRows
    <3>3. CASE op[b].call = "mark" /\ MarkSafety(op[b].on, op[b].effect)
      BY <1>1, <3>3 DEF MarkSafety, AttemptRows
    <3>4. CASE op[b].call \in {"end", "abort"} /\ TerminalizeAttempt(op[b].on)
      <4>1. attempts[op[b].on].owner = b
        BY <1>16, <3>4 DEF Write, CallOK, CallFor, Mine
      <4> QED  BY <1>1, <3>4, <4>1 DEF TerminalizeAttempt, AttemptRows
    <3> QED
      BY <1>16, <3>1, <3>2, <3>3, <3>4
         DEF Write, Commits, CreateBoot, HeartbeatBoot, StopBoot, HeartbeatAttempt, ledger
  <2> QED  BY <1>2, <2>1, <2>2, <2>3 DEF Undisturbed
<1> QED
  BY <1>8, <1>9, <1>10, <1>11, <1>12, <1>13, <1>14, <1>15, <1>16 DEF Step, LoseOwnership

\* So do the clock and the sweeper.
LEMMA AllUndisturbed ==
    ASSUME TypeOK, TypeOK', NEW c \in Boots,
           \/ UNCHANGED vars \/ Tick
           \/ \E b \in Boots : Abandon(b) \/ Sweep(b)
    PROVE  Undisturbed(c)
<1>1. boots \in BootRows /\ boots[c].lease \in Nat
  BY DEF TypeOK, LedgerTypeOK, BootRows
<1>2. CASE UNCHANGED vars \/ Tick
  BY <1>1, <1>2 DEF vars, Tick, memory, ledger, Undisturbed
<1>3. ASSUME NEW b \in Boots, Abandon(b)
      PROVE  Undisturbed(c)
  BY <1>1, <1>3 DEF Abandon, AbandonBoot, BootRows, memory, Undisturbed
<1>4. ASSUME NEW b \in Boots, Sweep(b)
      PROVE  Undisturbed(c)
  <2>1. UNCHANGED <<boots, attempts>>
    BY <1>4 DEF Sweep, CreateRun, CompleteRun, RecordCandidate, AcquireClaim, LoseClaim,
                CompleteClaim
  <2> QED  BY <1>1, <1>4, <2>1 DEF Sweep, memory, Undisturbed
<1> QED  BY <1>2, <1>3, <1>4

-----------------------------------------------------------------------------
(* The parts of the invariant, step by step.                               *)

\* A process keeps the invariant about itself.
LEMMA CallStep ==
    ASSUME TypeOK, TypeOK', CallOK, AttemptsOK, OwnedOK, NEW b \in Boots, Step(b) \/ Crash(b)
    PROVE  CallFor(b)' /\ OwnedFor(b)'
<1> USE Constants
<1>1. /\ life \in [Boots -> Lives] /\ active \in SUBSET Attempts
      /\ DOMAIN op = Boots
      /\ boots \in BootRows /\ boots' \in BootRows /\ attempts \in AttemptRows
  BY DEF TypeOK, LedgerTypeOK
<1>2. CallFor(b) /\ OwnedFor(b)
  BY DEF CallOK, OwnedOK
<1>3. CASE FailClosed(b) \/ Crash(b)
  <2>1. op'[b] = NoCall /\ UNCHANGED attempts /\ life'[b] \in {"dead", "ownership_lost"}
    BY <1>1, <1>3 DEF FailClosed, Crash, Return, ledger
  <2>2. \A a \in Attempts : attempts[a].owner = b => a \notin active'
    BY <1>3 DEF FailClosed, Crash, Forget, Mine
  <2> QED  BY <2>1, <2>2 DEF CallFor, OwnedFor, NoCall, InCall
<1>4. ASSUME NEW call, NEW a, NEW e, NEW todo, Observe(b, call, a, e, todo)
      PROVE  /\ op'[b].call = call /\ op'[b].on = a /\ op'[b].effect = e
             /\ op'[b].step = "observed" /\ op'[b].todo = todo
  BY <1>1, <1>4 DEF Observe
<1>5. ASSUME NEW call, NEW todo, Proceed(b, call, todo)
      PROVE  op'[b].call = call /\ op'[b].step = "next" /\ op'[b].todo = todo
  BY <1>1, <1>5 DEF Proceed, NoCall
<1>6. ASSUME Return(b)
      PROVE  op'[b].call = "none" /\ op'[b].step = "next"
  BY <1>1, <1>6 DEF Return, NoCall
<1>7. ASSUME Free(b), UNCHANGED <<ledger, life, active>>,
             op'[b].call \in {"none", "beat", "start", "mark", "end"}, op'[b].step # "written",
             op'[b].call = "start" => op'[b].on \in Attempts,
             op'[b].call \in {"mark", "end"} => op'[b].on \in Mine(b),
             op'[b].call = "mark" => op'[b].effect \in Effects
      PROVE  CallFor(b)' /\ OwnedFor(b)'
  <2>1. life[b] = "running" /\ op[b].call = "none" /\ op[b].step = "next"
    BY <1>7 DEF Free, NoCall
  <2> QED  BY <1>2, <1>7, <2>1 DEF CallFor, OwnedFor, InCall, Mine, Running, ledger
<1>8. CASE Start(b)
  BY <1>2, <1>4, <1>8 DEF Start, CallFor, OwnedFor, InCall, ledger
<1>9. CASE Heartbeat(b)
  BY <1>4, <1>7, <1>9 DEF Heartbeat
<1>10. CASE HeartbeatNext(b)
  <2>1. /\ op[b].call = "beatAttempt" /\ op'[b].call = "beatAttempt" /\ op'[b].step = "observed"
        /\ UNCHANGED <<attempts, life, active>>
    BY <1>4, <1>10 DEF HeartbeatNext, InCall, ledger
  <2> QED  BY <1>2, <2>1 DEF CallFor, OwnedFor, InCall, Running
<1>11. ASSUME NEW a \in Attempts, StartTurnAttempt(b, a)
       PROVE  CallFor(b)' /\ OwnedFor(b)'
  BY <1>4, <1>7, <1>11 DEF StartTurnAttempt
<1>12. ASSUME NEW a \in Attempts, TerminalizeTurnAttempt(b, a)
       PROVE  CallFor(b)' /\ OwnedFor(b)'
  BY <1>4, <1>7, <1>12 DEF TerminalizeTurnAttempt, Holds
<1>13. ASSUME NEW a \in Attempts, NEW e \in Effects, MarkTurnAttemptSafety(b, a, e)
       PROVE  CallFor(b)' /\ OwnedFor(b)'
  BY <1>4, <1>7, <1>13 DEF MarkTurnAttemptSafety, Holds
<1>14. ASSUME NEW a \in Attempts, NEW e \in Effects, MarkedBefore(b, a, e)
       PROVE  CallFor(b)' /\ OwnedFor(b)'
  <2>1. op'[b].call = "none" /\ op'[b].step = "next"
    BY <1>14 DEF MarkedBefore, Free, NoCall, memory
  <2> QED  BY <1>7, <1>14, <2>1 DEF MarkedBefore, memory
<1>15. CASE StopGracefully(b)
  <2>1. /\ life[b] = "running" /\ op[b].call = "none" /\ life'[b] = "stopping"
        /\ op'[b].call = "abort" /\ op'[b].step = "next" /\ op'[b].todo = Mine(b)
        /\ UNCHANGED <<attempts, active>>
    BY <1>1, <1>5, <1>15 DEF StopGracefully, Free, NoCall, ledger
  <2> QED  BY <1>2, <2>1 DEF CallFor, OwnedFor, InCall, Mine, Running
<1>16. CASE StopNext(b)
  <2>1. /\ op[b].call = "abort" /\ op[b].step = "next" /\ life[b] = "stopping"
        /\ op'[b].step = "observed" /\ UNCHANGED <<attempts, active, life>>
    BY <1>2, <1>4, <1>16 DEF StopNext, InCall, CallFor, ledger
  <2>2. CASE op[b].todo = {} /\ op'[b].call = "stop"
    BY <1>2, <2>1, <2>2 DEF CallFor, OwnedFor, InCall, Running
  <2>3. CASE /\ op'[b].call = "abort" /\ op'[b].on \in Mine(b)
             /\ op'[b].todo = op[b].todo \ {op'[b].on}
    BY <1>2, <2>1, <2>3 DEF CallFor, OwnedFor, InCall, Mine, Running
  <2> QED  BY <1>4, <1>16, <2>2, <2>3 DEF StopNext, Holds
<1>17. CASE Write(b)
  <2> DEFINE o == op[b]
  <2>1. o \in [call : Calls, on : Attempts \cup {Null}, effect : Effects \cup {Null},
               at : 0..MaxNow, step : Steps, todo : SUBSET Attempts]
    BY DEF TypeOK
  <2>2. o.step = "observed" /\ o' = [o EXCEPT !.step = "written"] /\ UNCHANGED <<life, active>>
    BY <1>1, <1>17 DEF Write
  <2>3. /\ o'.call = o.call /\ o'.on = o.on /\ o'.effect = o.effect
        /\ o'.at = o.at /\ o'.todo = o.todo /\ o'.step = "written"
    BY <2>1, <2>2
  <2>4. BootLease(b)' = BootLease(b) /\ BootLease(b) \in Nat
    BY <2>1, <2>3 DEF BootLease
  <2> HIDE DEF o
  <2>5. CASE o.call \in {"boot", "beat"}
    <3>1. UNCHANGED attempts /\ boots'[b].lease = BootLease(b)
      BY <1>1, <1>17, <2>5 DEF o, Write, Commits, CreateBoot, HeartbeatBoot, BootRows
    <3> QED  BY <1>2, <2>2, <2>3, <2>4, <2>5, <3>1 DEF o, CallFor, OwnedFor, InCall, Running
  <2>6. CASE o.call \in {"beatAttempt", "stop"}
    <3>1. UNCHANGED attempts
      BY <1>17, <2>6 DEF o, Write, Commits, HeartbeatAttempt, StopBoot, ledger
    <3> QED  BY <1>2, <2>2, <2>3, <2>6, <3>1 DEF o, CallFor, OwnedFor, InCall, Running
  <2>7. CASE o.call = "start"
    <3>1. o.on \in Attempts /\ attempts[o.on].status = "none" /\ attempts[o.on].owner = Null
      BY <1>2, <1>17, <2>7 DEF o, Write, Commits, CreateAttempt, CallFor, AttemptsOK
    <3>2. attempts' = [attempts EXCEPT ![o.on] = [owner |-> b, status |-> "running", marks |-> {}]]
      BY <1>17, <2>7 DEF o, Write, Commits, CreateAttempt
    <3>3. attempts'[o.on].owner = b /\ attempts'[o.on].status = "running"
      BY <1>1, <3>1, <3>2 DEF AttemptRows
    <3>4. \A a \in Attempts : a # o.on => attempts'[a] = attempts[a]
      BY <1>1, <3>1, <3>2 DEF AttemptRows
    <3>5. life[b] = "running"
      BY <1>2, <2>7 DEF o, CallFor
    <3>6. CallFor(b)'
      BY <2>2, <2>3, <2>7, <3>1, <3>3, <3>5 DEF o, CallFor, InCall, Running
    <3>7. OwnedFor(b)'
      BY <1>2, <2>2, <2>3, <2>7, <3>3, <3>4, <3>5 DEF o, OwnedFor, InCall, Running
    <3> QED  BY <3>6, <3>7
  <2>8. CASE o.call = "mark"
    <3>1. o.on \in Attempts /\ o.effect \in Effects /\ o.on \in Mine(b)
      BY <1>1, <1>2, <2>8 DEF o, CallFor, Mine
    <3>2. attempts' = [attempts EXCEPT ![o.on].marks = @ \cup {o.effect}]
      BY <1>17, <2>8 DEF o, Write, Commits, MarkSafety
    <3>3. o.effect \in attempts'[o.on].marks
      BY <1>1, <3>1, <3>2 DEF AttemptRows
    <3>4. \A a \in Attempts : /\ attempts'[a].owner = attempts[a].owner
                              /\ attempts'[a].status = attempts[a].status
      BY <1>1, <3>1, <3>2 DEF AttemptRows
    <3> QED
      BY <1>2, <2>2, <2>3, <2>8, <3>1, <3>3, <3>4 DEF o, CallFor, OwnedFor, InCall, Running, Mine
  <2>9. CASE o.call \in {"end", "abort"}
    <3>1. o.on \in Attempts /\ o.on \in Mine(b)
      BY <1>1, <1>2, <2>2, <2>9 DEF o, CallFor, Mine
    <3>2. attempts' = [attempts EXCEPT ![o.on].status = "ended"]
      BY <1>17, <2>9 DEF o, Write, Commits, TerminalizeAttempt
    <3>3. attempts'[o.on].status = "ended"
      BY <1>1, <3>1, <3>2 DEF AttemptRows
    <3>4. \A a \in Attempts : /\ attempts'[a].owner = attempts[a].owner
                              /\ a # o.on => attempts'[a].status = attempts[a].status
      BY <1>1, <3>1, <3>2 DEF AttemptRows
    <3>5. /\ o.call = "end" => life[b] = "running"
          /\ o.call = "abort" => life[b] = "stopping"
      BY <1>2 DEF o, CallFor
    <3>6. CallFor(b)'
      BY <2>2, <2>3, <2>9, <3>1, <3>3, <3>4, <3>5 DEF o, CallFor, InCall, Mine
    <3>7. \A a \in Attempts : attempts'[a].status = "running" => attempts[a].status = "running"
      BY <3>3, <3>4
    <3>8. OwnedFor(b)'
      BY <1>2, <2>2, <2>3, <2>9, <3>4, <3>5, <3>7 DEF o, OwnedFor, InCall, Running
    <3> QED  BY <3>6, <3>8
  <2> QED  BY <1>17, <2>5, <2>6, <2>7, <2>8, <2>9 DEF o, Write, Commits
<1>18. CASE StartReturns(b)
  <2>1. op[b].call = "boot" /\ op'[b].call = "none" /\ op'[b].step = "next" /\ UNCHANGED attempts
    BY <1>6, <1>18 DEF StartReturns, InCall, ledger
  <2> QED  BY <1>2, <2>1 DEF CallFor, OwnedFor, InCall
<1>19. CASE Renewed(b) \/ AttemptRenewed(b)
  <2>1. /\ op[b].call \in {"beat", "beatAttempt"} /\ life[b] = "running"
        /\ op'[b].call \in {"none", "beatAttempt"} /\ op'[b].step = "next"
        /\ UNCHANGED <<attempts, active, life>>
    BY <1>2, <1>5, <1>6, <1>19 DEF Renewed, AttemptRenewed, InCall, CallFor, ledger
  <2> QED  BY <1>2, <2>1 DEF CallFor, OwnedFor, InCall, Running
<1>20. CASE AttemptStarted(b)
  <2>1. /\ op[b].call = "start" /\ op[b].step = "written" /\ life[b] = "running"
        /\ op'[b].call = "none" /\ op'[b].step = "next"
        /\ active' = active \cup {op[b].on} /\ UNCHANGED <<attempts, life>>
    BY <1>2, <1>6, <1>20 DEF AttemptStarted, InCall, CallFor, ledger
  <2> QED  BY <1>2, <2>1 DEF CallFor, OwnedFor, InCall, Running
<1>21. CASE Marked(b)
  <2>1. /\ op[b].call = "mark" /\ op'[b].call = "none" /\ op'[b].step = "next"
        /\ life[b] = "running" /\ UNCHANGED <<attempts, active, life>>
    BY <1>2, <1>6, <1>21 DEF Marked, InCall, CallFor, ledger
  <2> QED  BY <1>2, <2>1 DEF CallFor, OwnedFor, InCall, Running
<1>22. CASE Terminalized(b) \/ Aborted(b)
  <2>1. /\ op[b].call \in {"end", "abort"} /\ op[b].step = "written"
        /\ attempts[op[b].on].status = "ended"
        /\ life[b] = (IF op[b].call = "end" THEN "running" ELSE "stopping")
        /\ op'[b].call = (IF op[b].call = "end" THEN "none" ELSE "abort")
        /\ op'[b].step = "next"
        /\ op[b].call = "abort" => op'[b].todo = op[b].todo
        /\ active' = active \ {op[b].on} /\ UNCHANGED <<attempts, life>>
    BY <1>2, <1>5, <1>6, <1>22 DEF Terminalized, Aborted, Forget, InCall, CallFor, ledger
  <2> QED  BY <1>2, <2>1 DEF CallFor, OwnedFor, InCall, Running
<1>23. CASE Stopped(b)
  <2>1. /\ op[b].call = "stop" /\ op'[b].call = "none" /\ op'[b].step = "next"
        /\ life'[b] = "graceful_stopped" /\ UNCHANGED <<attempts, active>>
    BY <1>1, <1>6, <1>23 DEF Stopped, InCall, ledger
  <2> QED  BY <1>2, <2>1 DEF CallFor, OwnedFor, InCall
<1> QED
  BY <1>3, <1>8, <1>9, <1>10, <1>11, <1>12, <1>13, <1>14, <1>15, <1>16, <1>17, <1>18, <1>19, <1>20,
     <1>21, <1>22, <1>23 DEF Step, LoseOwnership

\* The rows stay in order, and no marker that somebody relies on is lost.
LEMMA AttemptsStep ==
    ASSUME TypeOK, TypeOK', CallOK, AttemptsOK, [Next]_vars
    PROVE  AttemptsOK'
<1> USE Constants
<1>1. /\ attempts \in AttemptRows /\ attempts' \in AttemptRows /\ active \in SUBSET Attempts
      /\ known \in [Attempts -> [lease : Nat, marks : SUBSET Effects]]
      /\ effects \in [Attempts -> [Effects -> 0..MaxEffects]]
  BY DEF TypeOK, LedgerTypeOK
<1>2. ASSUME UNCHANGED attempts,
             \A a \in Attempts : known'[a].marks \subseteq attempts[a].marks,
             \A a \in Attempts, e \in Effects : effects'[a][e] > 0 => e \in attempts[a].marks
      PROVE  AttemptsOK'
  BY <1>2 DEF AttemptsOK
<1>3. ASSUME UNCHANGED <<attempts, known, effects>>
      PROVE  AttemptsOK'
  BY <1>3 DEF AttemptsOK
<1>4. ASSUME UNCHANGED <<attempts, effects>>, NEW gone, Forget(gone)
      PROVE  AttemptsOK'
  BY <1>1, <1>2, <1>4 DEF Forget, Blank, AttemptsOK
<1>5. ASSUME NEW b \in Boots, NEW a \in Attempts, NEW e \in Effects, Allow(a, e),
             e \in attempts[a].marks
      PROVE  \A x \in Attempts, y \in Effects : effects'[x][y] > 0 => y \in attempts[x].marks
  BY <1>1, <1>5 DEF Allow, AttemptsOK
<1>6. CASE UNCHANGED vars \/ Tick
  BY <1>3, <1>6 DEF vars, Tick, memory, ledger
<1>7. ASSUME NEW b \in Boots, Abandon(b)
      PROVE  AttemptsOK'
  BY <1>3, <1>7 DEF Abandon, AbandonBoot, memory
<1>8. ASSUME NEW b \in Boots, Sweep(b)
      PROVE  AttemptsOK'
  BY <1>3, <1>8 DEF Sweep, CreateRun, CompleteRun, RecordCandidate, AcquireClaim, LoseClaim,
                    CompleteClaim, memory
<1>9. ASSUME NEW b \in Boots, FailClosed(b) \/ Crash(b) \/ Terminalized(b) \/ Aborted(b)
      PROVE  AttemptsOK'
  BY <1>4, <1>9 DEF FailClosed, Crash, Terminalized, Aborted, ledger
<1>10. ASSUME NEW b \in Boots,
              \/ Start(b) \/ Heartbeat(b) \/ HeartbeatNext(b) \/ StopGracefully(b) \/ StopNext(b)
              \/ \E a \in Attempts :
                    \/ StartTurnAttempt(b, a) \/ TerminalizeTurnAttempt(b, a)
                    \/ \E e \in Effects : MarkTurnAttemptSafety(b, a, e)
              \/ StartReturns(b) \/ Renewed(b) \/ Stopped(b)
       PROVE  AttemptsOK'
  BY <1>3, <1>10
     DEF Start, Heartbeat, HeartbeatNext, StopGracefully, StopNext, StartTurnAttempt,
         TerminalizeTurnAttempt, MarkTurnAttemptSafety, StartReturns, Renewed, Stopped, ledger
<1>11. ASSUME NEW b \in Boots, NEW a \in Attempts, NEW e \in Effects, MarkedBefore(b, a, e)
       PROVE  AttemptsOK'
  <2>1. e \in attempts[a].marks
    BY <1>11 DEF MarkedBefore, AttemptsOK
  <2> QED  BY <1>2, <1>5, <1>11, <2>1 DEF MarkedBefore, AttemptsOK, memory, ledger
<1>12. ASSUME NEW b \in Boots, AttemptRenewed(b) \/ AttemptStarted(b)
       PROVE  AttemptsOK'
  <2>1. \A a \in Attempts : known'[a].marks \subseteq known[a].marks
    BY <1>1, <1>12 DEF AttemptRenewed, AttemptStarted
  <2> QED  BY <1>2, <1>12, <2>1 DEF AttemptRenewed, AttemptStarted, AttemptsOK, ledger
<1>13. ASSUME NEW b \in Boots, Marked(b)
       PROVE  AttemptsOK'
  <2>1. /\ op[b].on \in Attempts /\ op[b].effect \in Effects
        /\ op[b].effect \in attempts[op[b].on].marks
    BY <1>1, <1>13 DEF Marked, InCall, CallOK, CallFor, Mine
  <2>2. \A a \in Attempts : known'[a].marks \subseteq attempts[a].marks
    BY <1>1, <1>13, <2>1 DEF Marked, AttemptsOK
  <2> QED  BY <1>2, <1>5, <1>13, <2>1, <2>2 DEF Marked, ledger
<1>14. ASSUME NEW b \in Boots, Write(b)
       PROVE  AttemptsOK'
  <2>1. UNCHANGED <<known, effects>>
    BY <1>14 DEF Write
  <2>2. CASE UNCHANGED attempts
    BY <1>3, <2>1, <2>2
  <2>3. CASE op[b].call = "start" /\ CreateAttempt(op[b].on, b, op[b].at, AttemptLease(b))
    <3>1. op[b].on \in Attempts
      BY <2>3 DEF CallOK, CallFor
    <3> QED  BY <1>1, <2>1, <2>3, <3>1 DEF CreateAttempt, AttemptsOK, AttemptRows
  <2>4. CASE op[b].call = "mark" /\ MarkSafety(op[b].on, op[b].effect)
    <3>1. op[b].on \in Attempts /\ op[b].effect \in Effects
      BY <1>1, <2>4 DEF CallOK, CallFor, Mine
    <3> QED
      BY <1>1, <2>1, <2>4, <3>1 DEF MarkSafety, AttemptsOK, AttemptRows, Writable, Running
  <2>5. CASE op[b].call \in {"end", "abort"} /\ TerminalizeAttempt(op[b].on)
    <3>1. op[b].on \in Attempts
      BY <1>1, <1>14, <2>5 DEF Write, CallOK, CallFor, Mine
    <3> QED
      BY <1>1, <2>1, <2>5, <3>1 DEF TerminalizeAttempt, AttemptsOK, AttemptRows, Writable, Running
  <2> QED
    BY <1>14, <2>2, <2>3, <2>4, <2>5
       DEF Write, Commits, CreateBoot, HeartbeatBoot, StopBoot, HeartbeatAttempt, ledger
<1> QED
  BY <1>6, <1>7, <1>8, <1>9, <1>10, <1>11, <1>12, <1>13, <1>14 DEF Next, Step, LoseOwnership

\* A lease that was written covers the lease that is believed in, and a boot
\* is abandoned only when the lease in the ledger is over.
LEMMA LeaseStep ==
    ASSUME TypeOK, TypeOK', CallOK, LeaseOK, [Next]_vars
    PROVE  LeaseOK'
<1> USE Constants
<1>1. /\ boots \in BootRows /\ boots' \in BootRows /\ now \in Nat /\ now' \in Nat
      /\ own \in [Boots -> Nat] /\ own' \in [Boots -> Nat]
  BY DEF TypeOK, LedgerTypeOK
<1>2. ASSUME UNCHANGED <<boots, now>>, \A b \in Boots : own'[b] <= boots[b].lease
      PROVE  LeaseOK'
  BY <1>2 DEF LeaseOK
<1>3. ASSUME UNCHANGED <<boots, now, own>>
      PROVE  LeaseOK'
  BY <1>3 DEF LeaseOK
<1>4. CASE UNCHANGED vars
  BY <1>3, <1>4 DEF vars, memory, ledger
<1>5. CASE Tick
  BY <1>1, <1>5 DEF Tick, memory, ledger, LeaseOK, BootRows
<1>6. ASSUME NEW b \in Boots, Abandon(b)
      PROVE  LeaseOK'
  BY <1>1, <1>6 DEF Abandon, AbandonBoot, memory, LeaseOK, BootRows
<1>7. ASSUME NEW b \in Boots, Sweep(b)
      PROVE  LeaseOK'
  BY <1>3, <1>7 DEF Sweep, CreateRun, CompleteRun, RecordCandidate, AcquireClaim, LoseClaim,
                    CompleteClaim, memory
<1>8. ASSUME NEW b \in Boots, FailClosed(b) \/ Crash(b) \/ Stopped(b)
      PROVE  LeaseOK'
  <2>1. UNCHANGED <<boots, now>> /\ own' = [own EXCEPT ![b] = 0]
    BY <1>8 DEF FailClosed, Crash, Stopped, ledger
  <2>2. \A c \in Boots : own'[c] <= boots[c].lease
    BY <1>1, <2>1 DEF LeaseOK, BootRows
  <2> QED  BY <1>2, <2>1, <2>2
<1>9. ASSUME NEW b \in Boots, StartReturns(b) \/ Renewed(b)
      PROVE  LeaseOK'
  <2>1. UNCHANGED <<boots, now>> /\ own' = [own EXCEPT ![b] = BootLease(b)]
        /\ BootLease(b) <= boots[b].lease
    BY <1>9 DEF StartReturns, Renewed, InCall, CallOK, CallFor, ledger
  <2>2. \A c \in Boots : own'[c] <= boots[c].lease
    BY <1>1, <2>1 DEF LeaseOK
  <2> QED  BY <1>2, <2>1, <2>2
<1>10. ASSUME NEW b \in Boots,
              \/ Start(b) \/ Heartbeat(b) \/ HeartbeatNext(b) \/ StopGracefully(b) \/ StopNext(b)
              \/ \E a \in Attempts :
                    \/ StartTurnAttempt(b, a) \/ TerminalizeTurnAttempt(b, a)
                    \/ \E e \in Effects : MarkTurnAttemptSafety(b, a, e) \/ MarkedBefore(b, a, e)
              \/ AttemptRenewed(b) \/ AttemptStarted(b) \/ Marked(b) \/ Terminalized(b) \/ Aborted(b)
       PROVE  LeaseOK'
  BY <1>3, <1>10
     DEF Start, Heartbeat, HeartbeatNext, StopGracefully, StopNext, StartTurnAttempt,
         TerminalizeTurnAttempt, MarkTurnAttemptSafety, MarkedBefore, AttemptRenewed,
         AttemptStarted, Marked, Terminalized, Aborted, ledger, memory
<1>11. ASSUME NEW b \in Boots, Write(b)
       PROVE  LeaseOK'
  <2>1. UNCHANGED <<own, now>>
    BY <1>11 DEF Write
  <2>2. CASE UNCHANGED boots
    BY <1>3, <2>1, <2>2
  <2>3. CASE CreateBoot(b, BootLease(b)) \/ HeartbeatBoot(b, BootLease(b)) \/ StopBoot(b)
    <3>1. \A c \in Boots : /\ boots'[c].lease >= boots[c].lease
                           /\ boots'[c].status = "none" =>
                                 boots[c].status = "none" /\ boots'[c].lease = boots[c].lease
                           /\ boots'[c].status = "abandoned" =>
                                 boots[c].status = "abandoned" /\ boots'[c].lease = boots[c].lease
      BY <1>1, <2>3 DEF CreateBoot, HeartbeatBoot, StopBoot, Active, LeaseOK, BootRows
    <3> QED  BY <1>1, <2>1, <3>1 DEF LeaseOK, BootRows
  <2> QED
    BY <1>11, <2>2, <2>3
       DEF Write, Commits, CreateAttempt, HeartbeatAttempt, MarkSafety, TerminalizeAttempt, ledger
<1> QED
  BY <1>4, <1>5, <1>6, <1>7, <1>8, <1>9, <1>10, <1>11 DEF Next, Step, LoseOwnership

\* The only steps that touch the ledger.
LEMMA LedgerChanges ==
    ASSUME [Next]_vars
    PROVE  \/ UNCHANGED ledger
           \/ \E b \in Boots : Write(b) \/ Abandon(b) \/ Sweep(b)
<1>1. CASE UNCHANGED vars \/ Tick
  BY <1>1 DEF vars, Tick
<1>2. ASSUME NEW b \in Boots, FailClosed(b) \/ Crash(b)
      PROVE  UNCHANGED ledger
  BY <1>2 DEF FailClosed, Crash
<1>3. ASSUME NEW b \in Boots, Step(b), ~Write(b)
      PROVE  UNCHANGED ledger
  <2>1. CASE LoseOwnership(b)
    BY <1>2, <2>1 DEF LoseOwnership
  <2>2. CASE \/ StartReturns(b) \/ Renewed(b) \/ AttemptRenewed(b) \/ AttemptStarted(b)
             \/ Marked(b) \/ Terminalized(b) \/ Aborted(b) \/ Stopped(b)
    BY <2>2 DEF StartReturns, Renewed, AttemptRenewed, AttemptStarted, Marked, Terminalized,
                Aborted, Stopped
  <2>3. CASE \/ Start(b) \/ Heartbeat(b) \/ HeartbeatNext(b) \/ StopGracefully(b) \/ StopNext(b)
    BY <2>3 DEF Start, Heartbeat, HeartbeatNext, StopGracefully, StopNext
  <2>4. ASSUME NEW a \in Attempts,
               \/ StartTurnAttempt(b, a) \/ TerminalizeTurnAttempt(b, a)
               \/ \E e \in Effects : MarkTurnAttemptSafety(b, a, e) \/ MarkedBefore(b, a, e)
        PROVE  UNCHANGED ledger
    BY <2>4 DEF StartTurnAttempt, TerminalizeTurnAttempt, MarkTurnAttemptSafety, MarkedBefore
  <2> QED  BY <1>3, <2>1, <2>2, <2>3, <2>4 DEF Step
<1> QED  BY <1>1, <1>2, <1>3 DEF Next

\* The only steps that let an effect happen.
LEMMA EffectChanges ==
    ASSUME [Next]_vars
    PROVE  \/ UNCHANGED effects
           \/ \E b \in Boots : \/ Marked(b)
                              \/ \E a \in Attempts, e \in Effects : MarkedBefore(b, a, e)
<1>1. CASE UNCHANGED vars \/ Tick
  BY <1>1 DEF vars, Tick
<1>2. ASSUME NEW b \in Boots, Crash(b) \/ Abandon(b) \/ Sweep(b) \/ Write(b)
      PROVE  UNCHANGED effects
  BY <1>2 DEF Crash, Abandon, Sweep, Write
<1>3. ASSUME NEW b \in Boots, Step(b)
      PROVE  \/ UNCHANGED effects
             \/ Marked(b)
             \/ \E a \in Attempts, e \in Effects : MarkedBefore(b, a, e)
  <2>1. CASE LoseOwnership(b)
    BY <2>1 DEF LoseOwnership, FailClosed
  <2>2. CASE \/ StartReturns(b) \/ Renewed(b) \/ AttemptRenewed(b) \/ AttemptStarted(b)
             \/ Terminalized(b) \/ Aborted(b) \/ Stopped(b)
    BY <2>2 DEF StartReturns, Renewed, AttemptRenewed, AttemptStarted, Terminalized, Aborted,
                Stopped
  <2>3. CASE \/ Start(b) \/ Heartbeat(b) \/ HeartbeatNext(b) \/ StopGracefully(b) \/ StopNext(b)
    BY <2>3 DEF Start, Heartbeat, HeartbeatNext, StopGracefully, StopNext
  <2>4. ASSUME NEW a \in Attempts,
               \/ StartTurnAttempt(b, a) \/ TerminalizeTurnAttempt(b, a)
               \/ \E e \in Effects : MarkTurnAttemptSafety(b, a, e)
        PROVE  UNCHANGED effects
    BY <2>4 DEF StartTurnAttempt, TerminalizeTurnAttempt, MarkTurnAttemptSafety
  <2> QED  BY <1>2, <1>3, <2>1, <2>2, <2>3, <2>4 DEF Step
<1> QED  BY <1>1, <1>2, <1>3 DEF Next

\* What a write does to the rows.
LEMMA WriteCases ==
    ASSUME CallOK, TypeOK, NEW b \in Boots, Write(b)
    PROVE  /\ UNCHANGED <<runs, candidates, claims, effects, now>>
           /\ \/ UNCHANGED <<boots, attempts>>
              \/ CreateBoot(b, BootLease(b)) \/ HeartbeatBoot(b, BootLease(b))
              \/ op[b].call = "stop" /\ StopBoot(b)
              \/ \E a \in Attempts : CreateAttempt(a, b, op[b].at, AttemptLease(b))
              \/ \E a \in Attempts, e \in Effects : MarkSafety(a, e)
              \/ \E a \in Attempts : attempts[a].owner = b /\ TerminalizeAttempt(a)
<1>1. op[b].call \in {"start", "mark", "end", "abort"} => op[b].on \in Attempts
  BY DEF Write, CallOK, CallFor, Mine, TypeOK
<1>2. op[b].call = "mark" => op[b].effect \in Effects
  BY DEF CallOK, CallFor
<1>3. op[b].call \in {"end", "abort"} => attempts[op[b].on].owner = b
  BY DEF Write, CallOK, CallFor, Mine
<1>4. UNCHANGED <<runs, candidates, claims, effects, now>>
  BY DEF Write, Commits, CreateBoot, HeartbeatBoot, StopBoot, CreateAttempt, HeartbeatAttempt,
         MarkSafety, TerminalizeAttempt, ledger
<1> QED
  BY <1>1, <1>2, <1>3, <1>4 DEF Write, Commits, HeartbeatAttempt, ledger

\* Once abandoned, always abandoned, and an attempt never changes hands.
LEMMA GoneForGood ==
    ASSUME TypeOK, CallOK, AttemptsOK, [Next]_vars, NEW a \in Attempts, Gone(a)
    PROVE  Gone(a)'
<1> USE Constants
<1>1. boots \in BootRows /\ attempts \in AttemptRows
  BY DEF TypeOK, LedgerTypeOK
<1>2. CASE UNCHANGED <<boots, attempts>>
  BY <1>2 DEF Gone
<1>3. ASSUME NEW b \in Boots, Write(b)
      PROVE  Gone(a)'
  <2>1. CASE CreateBoot(b, BootLease(b)) \/ HeartbeatBoot(b, BootLease(b)) \/ StopBoot(b)
    BY <1>1, <2>1 DEF CreateBoot, HeartbeatBoot, StopBoot, Active, Gone, BootRows
  <2>2. ASSUME NEW x \in Attempts, CreateAttempt(x, b, op[b].at, AttemptLease(b))
        PROVE  Gone(a)'
    BY <1>1, <2>2 DEF CreateAttempt, Gone, AttemptRows, AttemptsOK
  <2>3. ASSUME NEW x \in Attempts, NEW e \in Effects, MarkSafety(x, e)
        PROVE  Gone(a)'
    BY <1>1, <2>3 DEF MarkSafety, Gone, AttemptRows
  <2>4. ASSUME NEW x \in Attempts, TerminalizeAttempt(x)
        PROVE  Gone(a)'
    BY <1>1, <2>4 DEF TerminalizeAttempt, Gone, AttemptRows
  <2> QED  BY <1>2, <1>3, <2>1, <2>2, <2>3, <2>4, WriteCases
<1>4. ASSUME NEW b \in Boots, Abandon(b)
      PROVE  Gone(a)'
  BY <1>1, <1>4 DEF Abandon, AbandonBoot, Gone, BootRows
<1>5. ASSUME NEW b \in Boots, Sweep(b)
      PROVE  Gone(a)'
  BY <1>2, <1>5 DEF Sweep, CreateRun, CompleteRun, RecordCandidate, AcquireClaim, LoseClaim,
                    CompleteClaim
<1> QED  BY <1>2, <1>3, <1>4, <1>5, LedgerChanges DEF ledger

\* A process that lets an effect happen owns the attempt, which runs, and its
\* boot is not abandoned; the marker of the effect is in the ledger.
LEMMA EffectsAreOwned ==
    ASSUME TypeOK, CallOK, AttemptsOK, OwnedOK, LeaseOK, NEW b \in Boots,
           NEW a \in Attempts, NEW e \in Effects,
           MarkedBefore(b, a, e) \/ (Marked(b) /\ a = op[b].on /\ e = op[b].effect)
    PROVE  Running(a) /\ ~Gone(a) /\ e \in attempts[a].marks
<1>1. Holds(b, a) /\ op[b].call \notin {"end", "abort"}
  BY DEF MarkedBefore, Marked, Free, NoCall, InCall
<1>2. a \in active /\ attempts[a].owner = b
  BY <1>1 DEF Holds, Mine
<1>3. Running(a)
  <2>1. attempts[a].status \in {"none", "running", "ended"}
    BY DEF TypeOK, LedgerTypeOK, AttemptRows, AttemptStatuses
  <2>2. attempts[a].status # "none"
    BY <1>2, Constants DEF AttemptsOK
  <2>3. attempts[a].status # "ended"
    BY <1>1, <1>2 DEF OwnedOK, OwnedFor
  <2> QED  BY <2>1, <2>2, <2>3 DEF Running
<1>4. ~Gone(a)
  <2>1. now \in Nat /\ own[b] \in Nat /\ boots[b].lease \in Nat
    BY DEF TypeOK, LedgerTypeOK, BootRows
  <2>2. now < own[b] /\ own[b] <= boots[b].lease
    BY <1>1 DEF Holds, BootLive, LeaseOK
  <2>3. boots[b].status # "abandoned"
    BY <2>1, <2>2 DEF LeaseOK
  <2> QED  BY <1>2, <2>3 DEF Gone
<1>5. e \in attempts[a].marks
  BY DEF MarkedBefore, Marked, InCall, CallOK, CallFor, AttemptsOK
<1> QED  BY <1>3, <1>4, <1>5

\* A recovery only touches what is gone, and what is gone has no more effects.
LEMMA RecoveryStep ==
    ASSUME TypeOK, CallOK, AttemptsOK, OwnedOK, LeaseOK, RecoveryOK, [Next]_vars
    PROVE  RecoveryOK'
<1> USE Constants
<1>1. /\ boots \in BootRows /\ attempts \in AttemptRows /\ claims \in ClaimRows
      /\ candidates \in CandidateRows
      /\ effects \in [Attempts -> [Effects -> 0..MaxEffects]]
  BY DEF TypeOK, LedgerTypeOK
<1>2. \A a \in Attempts : Gone(a) => Gone(a)'
  BY GoneForGood
<1>3. ASSUME NEW a \in Attempts, NEW e \in Effects, Gone(a)
      PROVE  effects'[a][e] = effects[a][e]
  <2>1. ASSUME NEW b \in Boots, NEW x \in Attempts, NEW y \in Effects, MarkedBefore(b, x, y)
        PROVE  effects'[a][e] = effects[a][e]
    <3>1. a # x
      BY <1>3, <2>1, EffectsAreOwned
    <3> QED  BY <1>1, <2>1, <3>1 DEF MarkedBefore, Allow
  <2>2. ASSUME NEW b \in Boots, Marked(b)
        PROVE  effects'[a][e] = effects[a][e]
    <3>1. op[b].on \in Attempts /\ op[b].effect \in Effects
      BY <2>2 DEF Marked, InCall, CallOK, CallFor, Mine, TypeOK
    <3>2. a # op[b].on
      BY <1>3, <2>2, <3>1, EffectsAreOwned
    <3> QED  BY <1>1, <2>2, <3>1, <3>2 DEF Marked, Allow
  <2> QED  BY <2>1, <2>2, EffectChanges
<1>4. ASSUME \A a \in Attempts : ~Unclaimed(a)' => Running(a)' /\ Gone(a)',
             \A a \in Attempts, r \in Runs : candidates'[r][a].status # "none" =>
                /\ Gone(a)
                /\ candidates'[r][a].decision = "resume" => \A e \in Effects : effects[a][e] = 0
      PROVE  RecoveryOK'
  BY <1>2, <1>3, <1>4 DEF RecoveryOK
<1>5. CASE UNCHANGED ledger
  BY <1>2, <1>4, <1>5 DEF RecoveryOK, ledger, Unclaimed, Running
<1>6. ASSUME NEW b \in Boots, Abandon(b)
      PROVE  RecoveryOK'
  BY <1>2, <1>4, <1>6 DEF Abandon, AbandonBoot, RecoveryOK, Unclaimed, Running
<1>7. ASSUME NEW b \in Boots, Write(b)
      PROVE  RecoveryOK'
  <2>1. UNCHANGED <<candidates, claims>>
    BY <1>7, WriteCases
  <2>2. ASSUME NEW a \in Attempts, Running(a), ~Unclaimed(a)
        PROVE  Running(a)'
    <3>1. CASE UNCHANGED attempts
      BY <2>2, <3>1 DEF Running
    <3>2. ASSUME NEW x \in Attempts, CreateAttempt(x, b, op[b].at, AttemptLease(b))
          PROVE  Running(a)'
      BY <1>1, <2>2, <3>2 DEF CreateAttempt, Running, AttemptRows
    <3>3. ASSUME NEW x \in Attempts, NEW e \in Effects, MarkSafety(x, e)
          PROVE  Running(a)'
      BY <1>1, <2>2, <3>3 DEF MarkSafety, Running, AttemptRows
    <3>4. ASSUME NEW x \in Attempts, TerminalizeAttempt(x)
          PROVE  Running(a)'
      BY <1>1, <2>2, <3>4 DEF TerminalizeAttempt, Writable, Running, AttemptRows
    <3> QED
      BY <1>7, <3>1, <3>2, <3>3, <3>4, WriteCases DEF CreateBoot, HeartbeatBoot, StopBoot
  <2> QED  BY <1>2, <1>4, <2>1, <2>2 DEF RecoveryOK, Unclaimed
<1>8. ASSUME NEW b \in Boots, Sweep(b)
      PROVE  RecoveryOK'
  <2>1. UNCHANGED <<boots, attempts>>
    BY <1>8 DEF Sweep, CreateRun, CompleteRun, RecordCandidate, AcquireClaim, LoseClaim, CompleteClaim
  <2>2. CASE UNCHANGED <<candidates, claims>>
    BY <1>2, <1>4, <2>1, <2>2 DEF RecoveryOK, Unclaimed, Running
  <2>3. ASSUME NEW r \in Runs, NEW a \in Attempts, Orphan(a), RecordCandidate(r, a, Verdict(a))
        PROVE  RecoveryOK'
    <3>1. Gone(a)
      BY <2>3, <1>1 DEF Orphan, Gone, Running, AttemptsOK
    <3>2. Verdict(a) = "resume" => \A e \in Effects : effects[a][e] = 0
      BY <1>1 DEF Verdict, AttemptsOK
    <3>3. \A x \in Attempts, q \in Runs : <<q, x>> # <<r, a>> => candidates'[q][x] = candidates[q][x]
      BY <1>1, <2>3 DEF RecordCandidate, CandidateRows
    <3>4. candidates'[r][a].decision = Verdict(a)
      BY <1>1, <2>3 DEF RecordCandidate, CandidateRows
    <3>5. UNCHANGED claims
      BY <2>3 DEF RecordCandidate
    <3> QED
      BY <1>2, <1>4, <2>1, <3>1, <3>2, <3>3, <3>4, <3>5 DEF RecoveryOK, Unclaimed, Running
  <2>4. ASSUME NEW r \in Runs, NEW a \in Attempts,
               \/ AcquireClaim(r, a, b, now) \/ LoseClaim(r, a, b, now)
               \/ claims[a].run = r /\ CompleteClaim(a, b, now)
        PROVE  RecoveryOK'
    <3>1. candidates[r][a].status # "none"
      BY <2>4 DEF AcquireClaim, LoseClaim, CompleteClaim
    <3>2. \A x \in Attempts, q \in Runs :
            /\ candidates'[q][x].decision = candidates[q][x].decision
            /\ <<q, x>> # <<r, a>> => candidates'[q][x] = candidates[q][x]
      <4>1. PICK s \in CandidateStatuses : candidates' = [candidates EXCEPT ![r][a].status = s]
        BY <2>4 DEF AcquireClaim, LoseClaim, CompleteClaim, CandidateStatuses
      <4>2. /\ candidates'[r] = [candidates[r] EXCEPT ![a].status = s]
            /\ \A q \in Runs : q # r => candidates'[q] = candidates[q]
        BY <1>1, <4>1 DEF CandidateRows
      <4>3. /\ candidates'[r][a] = [candidates[r][a] EXCEPT !.status = s]
            /\ \A x \in Attempts : x # a => candidates'[r][x] = candidates[r][x]
        BY <1>1, <4>2 DEF CandidateRows
      <4>4. candidates'[r][a].decision = candidates[r][a].decision
        BY <1>1, <4>3 DEF CandidateRows
      <4> QED  BY <4>2, <4>3, <4>4
    <3>3. \A x \in Attempts : x # a => claims'[x] = claims[x]
      BY <1>1, <2>4 DEF AcquireClaim, LoseClaim, CompleteClaim, ClaimRows
    <3>4. ~Unclaimed(a)' => Running(a)
      BY <1>1, <2>4 DEF AcquireClaim, LoseClaim, CompleteClaim, Writable, RecoveryOK, Unclaimed
    <3> QED
      BY <1>2, <1>4, <2>1, <3>1, <3>2, <3>3, <3>4 DEF RecoveryOK, Unclaimed, Running
  <2> QED
    BY <1>8, <2>2, <2>3, <2>4 DEF Sweep, CreateRun, CompleteRun
<1> QED  BY <1>5, <1>6, <1>7, <1>8, LedgerChanges

\* At most one candidate of an attempt is acted on.
LEMMA OneWinnerStep ==
    ASSUME TypeOK, CallOK, RecoveryOK', OneWinner, [Next]_vars
    PROVE  OneWinner'
<1> DEFINE Acted == {"claimed", "done"}
           Sole(a, r) == candidates[r][a].status \in Acted =>
                            claims[a].status = candidates[r][a].status /\ claims[a].run = r
           Shut(a, r) == runs[r].status = "closed" =>
                            candidates[r][a].status \notin {"pending", "claimed"}
<1>1. /\ runs \in RunRows /\ candidates \in CandidateRows
      /\ claims \in ClaimRows
  BY DEF TypeOK, LedgerTypeOK
<1>2. \A a \in Attempts, r \in Runs : Sole(a, r) /\ Shut(a, r)
  <2> SUFFICES ASSUME NEW a \in Attempts, NEW r \in Runs
               PROVE  Sole(a, r) /\ Shut(a, r)
    OBVIOUS
  <2>1. Sole(a, r)
    <3>1. candidates[r][a].status \in Acted =>
             claims[a] = [status |-> candidates[r][a].status, run |-> r]
      BY DEF OneWinner
    <3> QED  BY <3>1
  <2>2. Shut(a, r)
    BY DEF OneWinner
  <2> QED  BY <2>1, <2>2
<1>3. ASSUME \A a \in Attempts, r \in Runs : Sole(a, r)' /\ Shut(a, r)', claims' \in ClaimRows
      PROVE  OneWinner'
  <2>1. \A a \in Attempts : ~Unclaimed(a)' => Running(a)'
    BY DEF RecoveryOK
  <2>2. ASSUME NEW a \in Attempts, NEW r \in Runs, candidates'[r][a].status \in {"claimed", "done"}
        PROVE  claims'[a] = [status |-> candidates'[r][a].status, run |-> r]
    <3>1. claims'[a] \in [status : ClaimStatuses, run : Runs \cup {Null}]
      BY <1>3 DEF ClaimRows
    <3> QED  BY <1>3, <2>2, <3>1
  <2> QED  BY <1>3, <2>1, <2>2 DEF OneWinner
<1>4. CASE UNCHANGED <<runs, candidates, claims>>
  <2>1. \A a \in Attempts, r \in Runs : Sole(a, r)' /\ Shut(a, r)'
    BY <1>2, <1>4
  <2>2. claims' \in ClaimRows
    BY <1>1, <1>4
  <2> QED  BY <1>3, <2>1, <2>2
<1>5. ASSUME NEW b \in Boots, Sweep(b)
      PROVE  OneWinner'
  <2>1. ASSUME NEW r \in Runs, CreateRun(r, b, now) \/ CompleteRun(r)
        PROVE  OneWinner'
    <3>1. UNCHANGED <<candidates, claims>>
      BY <2>1 DEF CreateRun, CompleteRun
    <3>2. \A q \in Runs : runs'[q].status = "closed" =>
             runs[q].status = "closed" \/ (q = r /\ CompleteRun(r))
      BY <1>1, <2>1 DEF CreateRun, CompleteRun, RunRows
    <3> QED  BY <1>1, <1>2, <1>3, <3>1, <3>2 DEF CompleteRun
  <2>2. ASSUME NEW r \in Runs, NEW a \in Attempts,
               \/ RecordCandidate(r, a, Verdict(a)) \/ AcquireClaim(r, a, b, now)
               \/ LoseClaim(r, a, b, now) \/ (claims[a].run = r /\ CompleteClaim(a, b, now))
        PROVE  OneWinner'
    <3> DEFINE status == candidates'[r][a].status
    <3>1. /\ \A x \in Attempts, q \in Runs : <<q, x>> # <<r, a>> =>
                candidates'[q][x].status = candidates[q][x].status
          /\ UNCHANGED runs /\ runs[r].status = "running"
      <4>1. PICK row : candidates' = [candidates EXCEPT ![r][a] = row]
        BY <1>1, <2>2 DEF RecordCandidate, AcquireClaim, LoseClaim, CompleteClaim, CandidateRows
      <4>2. \A x \in Attempts, q \in Runs : <<q, x>> # <<r, a>> =>
                candidates'[q][x] = candidates[q][x]
        BY <1>1, <4>1 DEF CandidateRows
      <4>3. UNCHANGED runs /\ runs[r].status = "running"
        BY <2>2 DEF RecordCandidate, AcquireClaim, LoseClaim, CompleteClaim, MayClaim
      <4> QED  BY <4>2, <4>3
    <3>2. CASE /\ UNCHANGED claims /\ status \in {"pending", "not_applied"}
      BY <1>1, <1>2, <1>3, <3>1, <3>2
    <3>3. CASE AcquireClaim(r, a, b, now)
      <4>1. status = "claimed" /\ claims'[a].status = "claimed" /\ claims'[a].run = r
        BY <1>1, <3>3 DEF AcquireClaim, CandidateRows, ClaimRows
      <4>2. claims' \in ClaimRows /\ \A x \in Attempts : x # a => claims'[x] = claims[x]
        BY <1>1, <3>3, ClaimRowsStep DEF AcquireClaim, ClaimRows
      <4>3. claims[a].status = "none"
        BY <3>3 DEF AcquireClaim, Writable, Unclaimed
      <4>4. \A q \in Runs : candidates[q][a].status \notin Acted
        BY <1>2, <4>3
      <4> QED  BY <1>2, <1>3, <3>1, <4>1, <4>2, <4>4
    <3>4. CASE claims[a].run = r /\ CompleteClaim(a, b, now)
      <4>1. /\ status = "done" /\ claims'[a].status = "done" /\ claims'[a].run = r
        BY <1>1, <3>4 DEF CompleteClaim, CandidateRows, ClaimRows
      <4>2. claims' \in ClaimRows /\ \A x \in Attempts : x # a => claims'[x] = claims[x]
        BY <1>1, <3>4, ClaimRowsStep DEF CompleteClaim, ClaimRows
      <4>3. \A q \in Runs : q # r => candidates[q][a].status \notin Acted
        BY <1>2, <3>4
      <4> QED  BY <1>2, <1>3, <3>1, <4>1, <4>2, <4>3
    <3> QED
      BY <1>1, <2>2, <3>2, <3>3, <3>4 DEF RecordCandidate, LoseClaim, CandidateRows
  <2> QED  BY <1>5, <2>1, <2>2 DEF Sweep
<1>6. ASSUME NEW b \in Boots, Abandon(b)
      PROVE  OneWinner'
  BY <1>4, <1>6 DEF Abandon, AbandonBoot
<1>7. ASSUME NEW b \in Boots, Write(b)
      PROVE  OneWinner'
  BY <1>4, <1>7, WriteCases
<1> QED  BY <1>4, <1>5, <1>6, <1>7, LedgerChanges DEF ledger

\* Nothing of a boot runs when it is stopped, and nothing starts after that.
LEMMA GracefulStep ==
    ASSUME TypeOK, CallOK, AttemptsOK, OwnedOK, GracefulIsClean, [Next]_vars
    PROVE  GracefulIsClean'
<1> USE Constants
<1>1. boots \in BootRows /\ attempts \in AttemptRows
  BY DEF TypeOK, LedgerTypeOK
<1>2. CASE UNCHANGED <<boots, attempts>>
  BY <1>2 DEF GracefulIsClean, Running
<1>3. ASSUME NEW b \in Boots, Write(b)
      PROVE  GracefulIsClean'
  <2>1. CASE CreateBoot(b, BootLease(b)) \/ HeartbeatBoot(b, BootLease(b))
    <3>1. \A a \in Attempts : Running(a) => attempts[a].owner \in Boots
      BY DEF Running, AttemptsOK
    <3>2. \A c \in Boots : boots'[c].status = "graceful_stopped" => boots[c].status = "graceful_stopped"
      BY <1>1, <2>1 DEF CreateBoot, HeartbeatBoot, BootRows
    <3>3. UNCHANGED attempts
      BY <2>1 DEF CreateBoot, HeartbeatBoot
    <3> QED  BY <3>1, <3>2, <3>3 DEF GracefulIsClean, Running
  <2>2. CASE op[b].call = "stop" /\ StopBoot(b)
    BY <1>1, <2>2 DEF StopBoot, GracefulIsClean, Running, BootRows, OwnedOK, OwnedFor
  <2>3. ASSUME NEW x \in Attempts, CreateAttempt(x, b, op[b].at, AttemptLease(b))
        PROVE  GracefulIsClean'
    BY <1>1, <2>3 DEF CreateAttempt, Covers, Active, GracefulIsClean, Running, AttemptRows
  <2>4. ASSUME NEW x \in Attempts, NEW e \in Effects, MarkSafety(x, e)
        PROVE  GracefulIsClean'
    BY <1>1, <2>4 DEF MarkSafety, GracefulIsClean, Running, AttemptRows
  <2>5. ASSUME NEW x \in Attempts, TerminalizeAttempt(x)
        PROVE  GracefulIsClean'
    BY <1>1, <2>5 DEF TerminalizeAttempt, GracefulIsClean, Running, AttemptRows
  <2> QED  BY <1>2, <1>3, <2>1, <2>2, <2>3, <2>4, <2>5, WriteCases
<1>4. ASSUME NEW b \in Boots, Abandon(b)
      PROVE  GracefulIsClean'
  <2>1. \A a \in Attempts : Running(a) => attempts[a].owner \in Boots
    BY DEF Running, AttemptsOK
  <2> QED  BY <1>1, <1>4, <2>1 DEF Abandon, AbandonBoot, GracefulIsClean, Running, BootRows
<1>5. ASSUME NEW b \in Boots, Sweep(b)
      PROVE  GracefulIsClean'
  BY <1>2, <1>5 DEF Sweep, CreateRun, CompleteRun, RecordCandidate, AcquireClaim, LoseClaim,
                    CompleteClaim
<1> QED  BY <1>2, <1>3, <1>4, <1>5, LedgerChanges DEF ledger

-----------------------------------------------------------------------------
(* The theorems.                                                           *)

\* The invariant holds at the start.
LEMMA InvInit == Init => IInv
<1> SUFFICES ASSUME Init PROVE IInv
  OBVIOUS
<1> USE Constants DEF Init, LedgerInit
<1>1. TypeOK
  <2>1. LedgerTypeOK
    BY DEF LedgerTypeOK, BootRows, AttemptRows, RunRows, CandidateRows, ClaimRows, BootStatuses,
           AttemptStatuses, RunStatuses, CandidateStatuses, Decisions, ClaimStatuses
  <2>2. op \in [Boots -> [call : Calls, on : Attempts \cup {Null}, effect : Effects \cup {Null},
                          at : 0..MaxNow, step : Steps, todo : SUBSET Attempts]]
    BY NoCallType
  <2> QED  BY <2>1, <2>2 DEF TypeOK, Lives, Blank
<1>2. CallOK
  BY DEF CallOK, CallFor, NoCall, InCall
<1>3. AttemptsOK
  BY DEF AttemptsOK, Blank
<1>4. OwnedOK
  BY DEF OwnedOK, OwnedFor
<1>5. LeaseOK
  BY DEF LeaseOK
<1>6. RecoveryOK
  BY DEF RecoveryOK, Unclaimed
<1>7. OneWinner
  BY DEF OneWinner, Unclaimed
<1>8. GracefulIsClean
  BY DEF GracefulIsClean, Running
<1> QED  BY <1>1, <1>2, <1>3, <1>4, <1>5, <1>6, <1>7, <1>8 DEF IInv, FenceInv

\* Every step keeps it.
LEMMA InvStep == IInv /\ [Next]_vars => IInv'
<1> SUFFICES ASSUME IInv, [Next]_vars PROVE IInv'
  OBVIOUS
<1> USE DEF IInv, FenceInv
<1>1. TypeOK'
  BY TypeStep
<1>2. CallOK' /\ OwnedOK'
  <2> SUFFICES ASSUME NEW c \in Boots PROVE CallFor(c)' /\ OwnedFor(c)'
    BY DEF CallOK, OwnedOK
  <2>1. CallFor(c) /\ OwnedFor(c)
    BY DEF CallOK, OwnedOK
  <2>2. CASE Step(c) \/ Crash(c)
    BY <1>1, <2>2, CallStep
  <2>3. ASSUME NEW b \in Boots, b # c, Step(b) \/ Crash(b)
        PROVE  CallFor(c)' /\ OwnedFor(c)'
    <3>1. Undisturbed(c)
      BY <1>1, <2>3, OthersUndisturbed
    <3> QED  BY <1>1, <2>1, <3>1, UndisturbedKeeps
  <2>4. CASE \/ UNCHANGED vars \/ Tick
             \/ \E b \in Boots : Abandon(b) \/ Sweep(b)
    <3>1. Undisturbed(c)
      BY <1>1, <2>4, AllUndisturbed
    <3> QED  BY <1>1, <2>1, <3>1, UndisturbedKeeps
  <2> QED  BY <2>2, <2>3, <2>4 DEF Next
<1>3. AttemptsOK'
  BY <1>1, AttemptsStep
<1>4. LeaseOK'
  BY <1>1, LeaseStep
<1>5. RecoveryOK'
  BY RecoveryStep
<1>6. OneWinner'
  BY <1>5, OneWinnerStep
<1>7. GracefulIsClean'
  BY GracefulStep
<1> QED  BY <1>1, <1>2, <1>3, <1>4, <1>5, <1>6, <1>7

\* The invariant holds in every reachable state, whatever the processes of the
\* host, the clock and the sweeper do, and wherever a process crashes.
THEOREM InvHolds == Spec => []IInv
<1>1. Init => IInv
  BY InvInit
<1>2. IInv /\ [Next]_vars => IInv'
  BY InvStep
<1> QED  BY <1>1, <1>2, PTL DEF Spec

\* The tables and what the processes remember of them are well typed; an
\* attempt that is held in memory is in the table, with its owner.
THEOREM RecoveryTypeCorrect == Spec => []TypeOK
<1>1. IInv => TypeOK
  BY DEF IInv, FenceInv
<1> QED  BY <1>1, InvHolds, PTL

\* acquireRuntimeRecoveryClaim and completeRuntimeRecoveryRun: of the
\* candidates of an attempt, over all runs, at most one is acted on.
THEOREM ClaimsAreExclusive == Spec => []OneWinner
<1>1. IInv => OneWinner
  BY DEF IInv
<1> QED  BY <1>1, InvHolds, PTL

\* stopGracefully never leaves a running attempt to a boot that it stopped.
THEOREM StopsAreClean == Spec => []GracefulIsClean
<1>1. IInv => GracefulIsClean
  BY DEF IInv
<1> QED  BY <1>1, InvHolds, PTL

-----------------------------------------------------------------------------
(* The refinement.                                                         *)

\* The fence sees of the ledger only the attempts, the claims, and which boots
\* are abandoned.
LEMMA HolderKept ==
    ASSUME NEW a \in Attempts, attempts'[a].status = attempts[a].status,
           attempts'[a].owner = attempts[a].owner, Unclaimed(a)' <=> Unclaimed(a),
           Orphan(a)' <=> Orphan(a)
    PROVE  HolderOf(a)' = HolderOf(a)
BY DEF HolderOf, Running

\* A step of the fence that moves one attempt.
LEMMA FenceMove ==
    ASSUME NEW a \in Attempts, NEW from, NEW to, HolderOf(a) \in from, HolderOf(a)' = to,
           \A x \in Attempts : x # a => HolderOf(x)' = HolderOf(x),
           \A x \in Attempts : attempts'[x].marks = attempts[x].marks,
           UNCHANGED effects, Resumed' = Resumed
    PROVE  Fence!Move(a, from, to)
<1>1. [x \in Attempts |-> HolderOf(x)]' = [[x \in Attempts |-> HolderOf(x)] EXCEPT ![a] = to]
  OBVIOUS
<1>2. [x \in Attempts |-> attempts[x].marks]' = [x \in Attempts |-> attempts[x].marks]
  OBVIOUS
<1> QED  BY <1>1, <1>2 DEF Fence!Move

\* A step that the fence does not see.
LEMMA FenceStutters ==
    ASSUME \A x \in Attempts : HolderOf(x)' = HolderOf(x),
           \A x \in Attempts : attempts'[x].marks = attempts[x].marks,
           UNCHANGED effects, Resumed' = Resumed
    PROVE  UNCHANGED Fence!fence
<1>1. [x \in Attempts |-> HolderOf(x)]' = [x \in Attempts |-> HolderOf(x)]
  OBVIOUS
<1>2. [x \in Attempts |-> attempts[x].marks]' = [x \in Attempts |-> attempts[x].marks]
  OBVIOUS
<1> QED  BY <1>1, <1>2 DEF Fence!fence

\* The markers and effects are counted as the fence counts them.
LEMMA PerformStep ==
    ASSUME FenceInv, NEW b \in Boots, NEW a \in Attempts, NEW e \in Effects,
           MarkedBefore(b, a, e) \/ (Marked(b) /\ a = op[b].on /\ e = op[b].effect)
    PROVE  Fence!Perform(a, e)
<1> USE DEF FenceInv
<1>1. Running(a) /\ ~Gone(a) /\ e \in attempts[a].marks
  BY EffectsAreOwned
<1>2. HolderOf(a) = "owner"
  BY <1>1 DEF HolderOf, Running, Orphan, Gone, RecoveryOK, AttemptsOK
<1>3. UNCHANGED ledger /\ effects' = [effects EXCEPT ![a][e] = @ + 1]
  BY DEF MarkedBefore, Marked, Allow
<1>4. /\ UNCHANGED [x \in Attempts |-> HolderOf(x)]
      /\ UNCHANGED [x \in Attempts |-> attempts[x].marks]
      /\ Resumed' = Resumed
  BY <1>3 DEF ledger, HolderOf, Running, Orphan, Unclaimed, Resumed
<1> QED  BY <1>1, <1>2, <1>3, <1>4 DEF Fence!Perform

\* The writes of the coordinator.
LEMMA WriteRefines ==
    ASSUME FenceInv, NEW b \in Boots, Write(b)
    PROVE  [Fence!Next]_(Fence!fence)
<1> USE Constants DEF FenceInv
<1>1. /\ boots \in BootRows /\ attempts \in AttemptRows
      /\ attempts \in [Attempts -> [owner : Boots \cup {Null}, status : AttemptStatuses,
                                    marks : SUBSET Effects]]
  BY DEF TypeOK, LedgerTypeOK, AttemptRows
<1>2. UNCHANGED <<candidates, claims, effects>> /\ Resumed' = Resumed
  BY WriteCases DEF Resumed
<1>3. \A a \in Attempts : Unclaimed(a)' <=> Unclaimed(a)
  BY <1>2 DEF Unclaimed
<1>4. CASE UNCHANGED <<boots, attempts>>
  BY <1>2, <1>3, <1>4, HolderKept, FenceStutters DEF Orphan, Running
<1>5. CASE CreateBoot(b, BootLease(b)) \/ HeartbeatBoot(b, BootLease(b)) \/ StopBoot(b)
  <2>1. UNCHANGED attempts
    BY <1>5 DEF CreateBoot, HeartbeatBoot, StopBoot
  <2>2. \A c \in Boots : boots'[c].status = "abandoned" <=> boots[c].status = "abandoned"
    BY <1>1, <1>5 DEF CreateBoot, HeartbeatBoot, StopBoot, Active, BootRows
  <2>3. \A a \in Attempts : Orphan(a)' <=> Orphan(a)
    BY <2>1, <2>2 DEF Orphan, Running, AttemptsOK
  <2> QED  BY <1>2, <1>3, <2>1, <2>3, HolderKept, FenceStutters
<1>6. ASSUME NEW a \in Attempts, CreateAttempt(a, b, op[b].at, AttemptLease(b))
      PROVE  Fence!Begin(a)
  <2>1. /\ UNCHANGED boots /\ attempts[a].status = "none" /\ boots[b].status = "active"
        /\ attempts'[a] = [owner |-> b, status |-> "running", marks |-> {}]
        /\ \A x \in Attempts : x # a => attempts'[x] = attempts[x]
    BY <1>1, <1>6 DEF CreateAttempt, Covers, Active, AttemptRows
  <2>2. HolderOf(a) = "none"
    BY <2>1 DEF HolderOf, Running, Orphan
  <2>3. HolderOf(a)' = "owner"
    <3>1. Unclaimed(a)
      BY <2>1 DEF RecoveryOK, Running
    <3> QED  BY <1>3, <2>1, <3>1 DEF HolderOf, Running, Orphan
  <2>4. \A x \in Attempts : x # a => HolderOf(x)' = HolderOf(x)
    BY <1>3, <2>1, HolderKept DEF Orphan, Running
  <2>5. \A x \in Attempts : attempts'[x].marks = attempts[x].marks
    <3>1. attempts[a].marks = {}
      BY <2>1 DEF AttemptsOK
    <3>2. attempts'[a].marks = {}
      BY <2>1
    <3> QED  BY <2>1, <3>1, <3>2
  <2> QED  BY <1>2, <2>2, <2>3, <2>4, <2>5, FenceMove DEF Fence!Begin
<1>7. ASSUME NEW a \in Attempts, NEW e \in Effects, MarkSafety(a, e)
      PROVE  Fence!Record(a, e)
  <2>1. /\ UNCHANGED boots /\ Writable(a)
        /\ attempts' = [attempts EXCEPT ![a].marks = @ \cup {e}]
    BY <1>7 DEF MarkSafety
  <2>2. \A x \in Attempts : /\ attempts'[x].status = attempts[x].status
                            /\ attempts'[x].owner = attempts[x].owner
    BY <1>1, <2>1
  <2>3. \A x \in Attempts : HolderOf(x)' = HolderOf(x)
    BY <1>3, <2>1, <2>2, HolderKept DEF Orphan, Running
  <2>4. HolderOf(a) \in {"owner", "fenced"}
    BY <2>1 DEF HolderOf, Writable, Running
  <2>5. [x \in Attempts |-> attempts[x].marks]'
           = [[x \in Attempts |-> attempts[x].marks] EXCEPT ![a] = @ \cup {e}]
    <3>1. \A x \in Attempts : attempts'[x].marks =
             IF x = a THEN attempts[x].marks \cup {e} ELSE attempts[x].marks
      BY <1>1, <2>1
    <3> QED  BY <3>1
  <2>6. [x \in Attempts |-> HolderOf(x)]' = [x \in Attempts |-> HolderOf(x)]
    BY <2>3
  <2> QED  BY <1>2, <2>4, <2>5, <2>6 DEF Fence!Record
<1>8. ASSUME NEW a \in Attempts, TerminalizeAttempt(a)
      PROVE  Fence!End(a)
  <2>1. /\ UNCHANGED boots /\ Writable(a)
        /\ attempts' = [attempts EXCEPT ![a].status = "ended"]
    BY <1>8 DEF TerminalizeAttempt
  <2>2. /\ attempts'[a].status = "ended"
        /\ \A x \in Attempts : x # a => attempts'[x] = attempts[x]
        /\ \A x \in Attempts : attempts'[x].marks = attempts[x].marks
    BY <1>1, <2>1
  <2>3. HolderOf(a) \in {"owner", "fenced"}
    BY <2>1 DEF HolderOf, Writable, Running
  <2>4. HolderOf(a)' = "ended"
    BY <2>2 DEF HolderOf, Running, Orphan
  <2>5. \A x \in Attempts : x # a => HolderOf(x)' = HolderOf(x)
    BY <1>3, <2>1, <2>2, HolderKept DEF Orphan, Running
  <2> QED  BY <1>2, <2>2, <2>3, <2>4, <2>5, FenceMove DEF Fence!End
<1> QED  BY <1>4, <1>5, <1>6, <1>7, <1>8, WriteCases DEF Fence!Next

\* The sweeper.
LEMMA SweepRefines ==
    ASSUME FenceInv, NEW b \in Boots, Sweep(b)
    PROVE  [Fence!Next]_(Fence!fence)
<1> USE Constants DEF FenceInv
<1>1. /\ candidates \in CandidateRows /\ claims \in ClaimRows
      /\ candidates \in [Runs -> [Attempts -> [status : CandidateStatuses, decision : Decisions]]]
  BY DEF TypeOK, LedgerTypeOK, CandidateRows
<1>2. UNCHANGED <<boots, attempts, effects>>
  BY DEF Sweep, CreateRun, CompleteRun, RecordCandidate, AcquireClaim, LoseClaim, CompleteClaim
<1>3. \A a \in Attempts : (Unclaimed(a)' <=> Unclaimed(a)) => HolderOf(a)' = HolderOf(a)
  BY <1>2, HolderKept DEF Orphan, Running
<1>4. ASSUME \A a \in Attempts : Unclaimed(a)' <=> Unclaimed(a), Resumed' = Resumed
      PROVE  [Fence!Next]_(Fence!fence)
  BY <1>2, <1>3, <1>4, FenceStutters
<1> DEFINE Acted(row) == row.decision = "resume" /\ row.status \in {"claimed", "done"}
<1>5. CASE UNCHANGED <<candidates, claims>>
  BY <1>4, <1>5 DEF Unclaimed, Resumed
<1>6. ASSUME NEW r \in Runs, NEW a \in Attempts,
             \A x \in Attempts, q \in Runs : <<q, x>> # <<r, a>> => candidates'[q][x] = candidates[q][x],
             Acted(candidates'[r][a]) <=> Acted(candidates[r][a])
      PROVE  Resumed' = Resumed
  <2>1. \A x \in Attempts, q \in Runs : Acted(candidates'[q][x]) <=> Acted(candidates[q][x])
    BY <1>6
  <2>2. Resumed = {x \in Attempts : \E q \in Runs : Acted(candidates[q][x])}
    BY DEF Resumed
  <2>3. Resumed' = {x \in Attempts : \E q \in Runs : Acted(candidates'[q][x])}
    BY DEF Resumed
  <2> HIDE DEF Acted
  <2> QED  BY <2>1, <2>2, <2>3
<1>7. ASSUME NEW r \in Runs, NEW a \in Attempts, RecordCandidate(r, a, Verdict(a))
      PROVE  [Fence!Next]_(Fence!fence)
  <2>1. /\ \A x \in Attempts, q \in Runs : <<q, x>> # <<r, a>> => candidates'[q][x] = candidates[q][x]
        /\ candidates[r][a].status = "none" /\ candidates'[r][a].status = "pending"
        /\ UNCHANGED claims
    BY <1>1, <1>7 DEF RecordCandidate
  <2> QED  BY <1>4, <1>6, <2>1 DEF Unclaimed
<1>8. ASSUME NEW r \in Runs, NEW a \in Attempts, NEW s,
             candidates' = [candidates EXCEPT ![r][a].status = s]
      PROVE  /\ \A x \in Attempts, q \in Runs : <<q, x>> # <<r, a>> => candidates'[q][x] = candidates[q][x]
             /\ candidates'[r][a].status = s
             /\ candidates'[r][a].decision = candidates[r][a].decision
  <2>1. /\ candidates'[r] = [candidates[r] EXCEPT ![a].status = s]
        /\ \A q \in Runs : q # r => candidates'[q] = candidates[q]
    BY <1>1, <1>8
  <2>2. /\ candidates'[r][a] = [candidates[r][a] EXCEPT !.status = s]
        /\ \A x \in Attempts : x # a => candidates'[r][x] = candidates[r][x]
    BY <1>1, <2>1
  <2>3. candidates[r][a] \in [status : CandidateStatuses, decision : Decisions]
    BY <1>1
  <2>4. candidates'[r][a].status = s /\ candidates'[r][a].decision = candidates[r][a].decision
    BY <2>2, <2>3
  <2> QED  BY <2>1, <2>2, <2>4
<1>9. ASSUME NEW r \in Runs, NEW a \in Attempts, LoseClaim(r, a, b, now)
      PROVE  [Fence!Next]_(Fence!fence)
  <2>1. /\ candidates' = [candidates EXCEPT ![r][a].status = "not_applied"]
        /\ candidates[r][a].status = "pending" /\ UNCHANGED claims
    BY <1>9 DEF LoseClaim
  <2>2. Resumed' = Resumed
    BY <1>6, <1>8, <2>1
  <2> QED  BY <1>4, <2>1, <2>2 DEF Unclaimed
<1>10. ASSUME NEW r \in Runs, NEW a \in Attempts, claims[a].run = r, CompleteClaim(a, b, now)
       PROVE  [Fence!Next]_(Fence!fence)
  <2>1. /\ candidates' = [candidates EXCEPT ![r][a].status = "done"]
        /\ candidates[r][a].status = "claimed" /\ claims[a].status = "claimed"
        /\ claims' = [claims EXCEPT ![a].status = "done"]
    BY <1>10 DEF CompleteClaim
  <2>2. Resumed' = Resumed
    BY <1>6, <1>8, <2>1
  <2>3. \A x \in Attempts : Unclaimed(x)' <=> Unclaimed(x)
    BY <1>1, <2>1 DEF Unclaimed, ClaimRows
  <2> QED  BY <1>4, <2>2, <2>3
<1>11. ASSUME NEW r \in Runs, NEW a \in Attempts, AcquireClaim(r, a, b, now)
       PROVE  Fence!Claim(a) \/ Fence!ClaimToResume(a)
  <2>1. /\ candidates' = [candidates EXCEPT ![r][a].status = "claimed"]
        /\ candidates[r][a].status = "pending" /\ Running(a) /\ Unclaimed(a)
        /\ claims' = [claims EXCEPT ![a] = [status |-> "claimed", run |-> r]]
    BY <1>11 DEF AcquireClaim, Writable
  <2>2. Gone(a)
    BY <2>1 DEF RecoveryOK
  <2>3. HolderOf(a) = "fenced"
    BY <2>1, <2>2 DEF HolderOf, Running, Orphan, Gone
  <2>4. /\ ~Unclaimed(a)'
        /\ \A x \in Attempts : x # a => (Unclaimed(x)' <=> Unclaimed(x))
    BY <1>1, <2>1 DEF Unclaimed, ClaimRows
  <2>5. HolderOf(a)' = "claimed"
    BY <1>2, <2>1, <2>4 DEF HolderOf, Running, Orphan
  <2>6. \A x \in Attempts : x # a => HolderOf(x)' = HolderOf(x)
    BY <1>3, <2>4
  <2>7. CASE candidates[r][a].decision # "resume"
    <3>1. Resumed' = Resumed
      BY <1>6, <1>8, <2>1, <2>7
    <3> QED  BY <1>2, <2>3, <2>5, <2>6, <3>1, FenceMove DEF Fence!Claim
  <2>8. CASE candidates[r][a].decision = "resume"
    <3>1. \A e \in Effects : effects[a][e] = 0
      BY <2>1, <2>8 DEF RecoveryOK
    <3>2. Resumed' = Resumed \cup {a}
      <4>1. /\ \A x \in Attempts, q \in Runs : <<q, x>> # <<r, a>> =>
                  candidates'[q][x] = candidates[q][x]
            /\ Acted(candidates'[r][a])
        <5>1. /\ \A x \in Attempts, q \in Runs : <<q, x>> # <<r, a>> =>
                    candidates'[q][x] = candidates[q][x]
              /\ candidates'[r][a].status = "claimed"
              /\ candidates'[r][a].decision = candidates[r][a].decision
          BY <1>8, <2>1
        <5> QED  BY <2>8, <5>1
      <4>2. Resumed = {x \in Attempts : \E q \in Runs : Acted(candidates[q][x])}
        BY DEF Resumed
      <4>3. Resumed' = {x \in Attempts : \E q \in Runs : Acted(candidates'[q][x])}
        BY DEF Resumed
      <4> HIDE DEF Acted
      <4>4. \A x \in Attempts : x \in Resumed' <=> x \in Resumed \/ x = a
        BY <4>1, <4>2, <4>3
      <4>5. Resumed' \subseteq Attempts /\ Resumed \subseteq Attempts
        BY <4>2, <4>3
      <4> QED  BY <4>4, <4>5
    <3>3. [x \in Attempts |-> HolderOf(x)]'
             = [[x \in Attempts |-> HolderOf(x)] EXCEPT ![a] = "claimed"]
      BY <2>5, <2>6
    <3>4. UNCHANGED [x \in Attempts |-> attempts[x].marks]
      BY <1>2
    <3> QED  BY <1>2, <2>3, <3>1, <3>2, <3>3, <3>4 DEF Fence!ClaimToResume
  <2> QED  BY <2>7, <2>8
<1>12. CASE \E r \in Runs : CreateRun(r, b, now) \/ CompleteRun(r)
  BY <1>5, <1>12 DEF CreateRun, CompleteRun
<1> QED
  BY <1>7, <1>9, <1>10, <1>11, <1>12 DEF Sweep, Fence!Next

\* An abandoned boot loses all its running attempts at once.
LEMMA AbandonRefines ==
    ASSUME FenceInv, NEW b \in Boots, Abandon(b)
    PROVE  Fence!Next
<1> USE Constants DEF FenceInv
<1> DEFINE lost == {a \in Attempts : attempts[a].owner = b /\ Running(a)}
<1>1. /\ boots[b].status = "active" /\ boots' = [boots EXCEPT ![b].status = "abandoned"]
      /\ UNCHANGED <<attempts, runs, candidates, claims, effects>>
  BY DEF Abandon, AbandonBoot, Active
<1>2. boots \in BootRows
  BY DEF TypeOK, LedgerTypeOK
<1>3. boots'[b].status = "abandoned" /\ \A c \in Boots : c # b => boots'[c] = boots[c]
  BY <1>1, <1>2 DEF BootRows
<1>4. \A a \in Attempts : Unclaimed(a)' <=> Unclaimed(a)
  BY <1>1 DEF Unclaimed
<1>5. ASSUME NEW a \in lost
      PROVE  HolderOf(a) = "owner" /\ HolderOf(a)' = "fenced"
  <2>1. Unclaimed(a)
    BY <1>1 DEF RecoveryOK, Gone
  <2> QED  BY <1>1, <1>3, <1>4, <2>1 DEF HolderOf, Running, Orphan
<1>6. ASSUME NEW a \in Attempts, a \notin lost
      PROVE  HolderOf(a)' = HolderOf(a)
  <2>1. Orphan(a)' <=> Orphan(a)
    BY <1>1, <1>3, <1>6 DEF Orphan, Running, AttemptsOK
  <2> QED  BY <1>1, <1>4, <2>1, HolderKept
<1>7. [a \in Attempts |-> HolderOf(a)]'
         = [a \in Attempts |-> IF a \in lost THEN "fenced" ELSE [x \in Attempts |-> HolderOf(x)][a]]
  BY <1>5, <1>6
<1>8. UNCHANGED [a \in Attempts |-> attempts[a].marks] /\ Resumed' = Resumed
  BY <1>1 DEF Resumed
<1>9. Fence!Fence(lost)
  BY <1>1, <1>5, <1>7, <1>8 DEF Fence!Fence
<1> QED  BY <1>9 DEF Fence!Next

\* Leases and clocks implement the fence: an effect is allowed only while the
\* attempt is owned and after its evidence is durable, a recovery claims only
\* what is fenced, and resumes only what has had no effect.
THEOREM LeasesImplementFence == Spec => ImplementsFence
<1>1. Init => Fence!Init
  <2> SUFFICES ASSUME Init PROVE Fence!Init
    OBVIOUS
  <2>1. \A a \in Attempts : HolderOf(a) = "none"
    BY DEF Init, LedgerInit, HolderOf, Running, Orphan
  <2>2. Resumed = {}
    BY DEF Init, LedgerInit, Resumed
  <2>3. [a \in Attempts |-> attempts[a].marks] = [a \in Attempts |-> {}]
    BY DEF Init, LedgerInit
  <2> QED  BY <2>1, <2>2, <2>3 DEF Init, Fence!Init
<1>2. FenceInv /\ [Next]_vars => [Fence!Next]_(Fence!fence)
  <2> SUFFICES ASSUME FenceInv, [Next]_vars PROVE [Fence!Next]_(Fence!fence)
    OBVIOUS
  <2>1. CASE UNCHANGED <<ledger, effects>>
    BY <2>1, FenceStutters DEF ledger, HolderOf, Running, Orphan, Unclaimed, Resumed
  <2>2. ASSUME NEW b \in Boots, NEW a \in Attempts, NEW e \in Effects, MarkedBefore(b, a, e)
        PROVE  Fence!Next
    BY <2>2, PerformStep DEF Fence!Next
  <2>3. ASSUME NEW b \in Boots, Marked(b)
        PROVE  Fence!Next
    <3>1. op[b].on \in Attempts /\ op[b].effect \in Effects
      BY <2>3 DEF Marked, InCall, FenceInv, CallOK, CallFor, Mine, TypeOK
    <3> QED  BY <2>3, <3>1, PerformStep DEF Fence!Next
  <2>4. ASSUME NEW b \in Boots, Write(b)
        PROVE  [Fence!Next]_(Fence!fence)
    BY <2>4, WriteRefines
  <2>5. ASSUME NEW b \in Boots, Abandon(b)
        PROVE  [Fence!Next]_(Fence!fence)
    BY <2>5, AbandonRefines
  <2>6. ASSUME NEW b \in Boots, Sweep(b)
        PROVE  [Fence!Next]_(Fence!fence)
    BY <2>6, SweepRefines
  <2> QED  BY <2>1, <2>2, <2>3, <2>4, <2>5, <2>6, LedgerChanges, EffectChanges
<1>3. IInv => FenceInv
  BY DEF IInv
<1> QED  BY <1>1, <1>2, <1>3, InvHolds, PTL DEF Spec, ImplementsFence, Fence!Spec

=============================================================================
