--------------------------- MODULE RecoveryLedger ---------------------------
(***************************************************************************)
(* The crash-recovery tables of src/runtime/crash-recovery-store.ts and    *)
(* their transactions.  Each is one BEGIN IMMEDIATE transaction, so each   *)
(* is one step; when its guard does not hold the function throws and       *)
(* writes nothing.                                                         *)
(*                                                                         *)
(* Of the timestamps only the leases of the boots are kept, and the times  *)
(* they are compared with: a row has one writer until it is fenced, so the *)
(* other columns are in order by themselves.  The lease of an attempt is   *)
(* read by nobody but its owner, which holds it in memory, and is never    *)
(* later than that of its boot.  All terminal statuses of an attempt are   *)
(* "ended"; a claim that was applied or failed is "done".  The projections *)
(* of a claim onto its candidate and its attempt are written in the        *)
(* transaction that writes the claim.                                      *)
(***************************************************************************)
EXTENDS Integers, FiniteSets

CONSTANTS
    Boots,     \* boot epochs
    Attempts,  \* attempt ids
    Runs,      \* recovery runs, all in mode "apply"
    Effects,   \* what the safety markers tell apart: tool, output, input
    Null       \* NULL in a column that references a boot or a run

ASSUME NullAssumption == Null \notin Boots \cup Attempts \cup Runs \cup Effects

VARIABLES
    boots,       \* runtime_boot_epochs
    attempts,    \* runtime_turn_attempts
    runs,        \* runtime_recovery_runs
    candidates,  \* runtime_recovery_candidates of type turn_attempt
    claims       \* runtime_recovery_claims, by candidate key

ledger == <<boots, attempts, runs, candidates, claims>>

BootStatuses      == {"none", "active", "graceful_stopped", "abandoned"}
AttemptStatuses   == {"none", "running", "ended"}
RunStatuses       == {"none", "running", "closed"}
Decisions         == {"resume", "manual_review"}
CandidateStatuses == {"none", "pending", "not_applied", "claimed", "done"}
ClaimStatuses     == {"none", "claimed", "done"}

BootRows      == [Boots -> [status : BootStatuses, lease : Nat]]
AttemptRows   == [Attempts -> [owner : Boots \cup {Null}, status : AttemptStatuses,
                               marks : SUBSET Effects]]
RunRows       == [Runs -> [status : RunStatuses, boot : Boots \cup {Null}]]
CandidateRows == [Runs -> [Attempts -> [status : CandidateStatuses, decision : Decisions]]]
ClaimRows     == [Attempts -> [status : ClaimStatuses, run : Runs \cup {Null}]]

LedgerTypeOK ==
    /\ boots \in BootRows
    /\ attempts \in AttemptRows
    /\ runs \in RunRows
    /\ candidates \in CandidateRows
    /\ claims \in ClaimRows

LedgerInit ==
    /\ boots = [b \in Boots |-> [status |-> "none", lease |-> 0]]
    /\ attempts = [a \in Attempts |->
                      [owner |-> Null, status |-> "none", marks |-> {}]]
    /\ runs = [r \in Runs |-> [status |-> "none", boot |-> Null]]
    /\ candidates = [r \in Runs |-> [a \in Attempts |->
                                        [status |-> "none", decision |-> "manual_review"]]]
    /\ claims = [a \in Attempts |-> [status |-> "none", run |-> Null]]

Active(b)  == boots[b].status = "active"
Running(a) == attempts[a].status = "running"

\* recovery_claim_id IS NULL.
Unclaimed(a) == claims[a].status = "none"

\* What the owner may still change: the predicate of every UPDATE it does.
Writable(a) == Running(a) /\ Unclaimed(a)

-----------------------------------------------------------------------------
(* Boot epochs.                                                            *)

CreateBoot(b, lease) ==
    /\ boots[b].status = "none"
    /\ boots' = [boots EXCEPT ![b] = [status |-> "active", lease |-> lease]]
    /\ UNCHANGED <<attempts, runs, candidates, claims>>

\* A lease is never shortened.
HeartbeatBoot(b, lease) ==
    /\ Active(b) /\ lease >= boots[b].lease
    /\ boots' = [boots EXCEPT ![b].lease = lease]
    /\ UNCHANGED <<attempts, runs, candidates, claims>>

StopBoot(b) ==
    /\ Active(b)
    /\ boots' = [boots EXCEPT ![b].status = "graceful_stopped"]
    /\ UNCHANGED <<attempts, runs, candidates, claims>>

\* The observed lease is still the lease, and at, the abandonment's time, is
\* not before its end.
AbandonBoot(b, observed, at) ==
    /\ Active(b) /\ boots[b].lease = observed /\ at >= observed
    /\ boots' = [boots EXCEPT ![b].status = "abandoned"]
    /\ UNCHANGED <<attempts, runs, candidates, claims>>

-----------------------------------------------------------------------------
(* Turn attempts.                                                          *)

\* The boot b is live at that time, and its lease covers this one.
Covers(b, at, lease) == Active(b) /\ at < boots[b].lease /\ lease <= boots[b].lease

CreateAttempt(a, b, at, lease) ==
    /\ attempts[a].status = "none" /\ Covers(b, at, lease)
    /\ attempts' = [attempts EXCEPT ![a] =
                       [owner |-> b, status |-> "running", marks |-> {}]]
    /\ UNCHANGED <<boots, runs, candidates, claims>>

HeartbeatAttempt(a, b, at, lease) ==
    /\ attempts[a].owner = b /\ Writable(a) /\ Covers(b, at, lease)
    /\ UNCHANGED ledger

\* Markers only grow.  The owning boot is not looked at.
MarkSafety(a, e) ==
    /\ Writable(a)
    /\ attempts' = [attempts EXCEPT ![a].marks = @ \cup {e}]
    /\ UNCHANGED <<boots, runs, candidates, claims>>

\* Nor is it here.
TerminalizeAttempt(a) ==
    /\ Writable(a)
    /\ attempts' = [attempts EXCEPT ![a].status = "ended"]
    /\ UNCHANGED <<boots, runs, candidates, claims>>

-----------------------------------------------------------------------------
(* Recovery runs, candidates and claims.                                   *)

CreateRun(r, b, at) ==
    /\ runs[r].status = "none"
    /\ Active(b) /\ at < boots[b].lease
    /\ runs' = [runs EXCEPT ![r] = [status |-> "running", boot |-> b]]
    /\ UNCHANGED <<boots, attempts, candidates, claims>>

\* A candidate of an apply run is pending.  Whose attempt it is, and in which
\* state, is left to the caller.
RecordCandidate(r, a, decision) ==
    /\ runs[r].status = "running"
    /\ attempts[a].status # "none" /\ candidates[r][a].status = "none"
    /\ candidates' = [candidates EXCEPT ![r][a] = [status |-> "pending", decision |-> decision]]
    /\ UNCHANGED <<boots, attempts, runs, claims>>

\* The run is open and the boot that runs it is live.
MayClaim(r, b, at) ==
    /\ runs[r].status = "running" /\ runs[r].boot = b
    /\ Active(b) /\ at < boots[b].lease

\* A claim that another run holds is not looked for.
SlipSecondClaim(r, a, b, at) ==
    /\ MayClaim(r, b, at)
    /\ candidates[r][a].status = "pending" /\ Running(a)
    /\ claims' = [claims EXCEPT ![a] = [status |-> "claimed", run |-> r]]
    /\ candidates' = [candidates EXCEPT ![r][a].status = "claimed"]
    /\ UNCHANGED <<boots, attempts, runs>>

\* acquireRuntimeRecoveryClaim, won.  Neither the lease of the attempt nor its
\* markers are looked at again.
AcquireClaim(r, a, b, at) ==
    /\ MayClaim(r, b, at)
    /\ candidates[r][a].status = "pending" /\ Writable(a)
    /\ claims' = [claims EXCEPT ![a] = [status |-> "claimed", run |-> r]]
    /\ candidates' = [candidates EXCEPT ![r][a].status = "claimed"]
    /\ UNCHANGED <<boots, attempts, runs>>

\* acquireRuntimeRecoveryClaim, lost: the candidate is closed.
LoseClaim(r, a, b, at) ==
    /\ MayClaim(r, b, at)
    /\ candidates[r][a].status = "pending" /\ ~Unclaimed(a)
    /\ candidates' = [candidates EXCEPT ![r][a].status = "not_applied"]
    /\ UNCHANGED <<boots, attempts, runs, claims>>

\* completeRuntimeRecoveryClaim: the boot that claimed must be live.
CompleteClaim(a, b, at) ==
    /\ claims[a].status = "claimed"
    /\ MayClaim(claims[a].run, b, at)
    /\ candidates[claims[a].run][a].status = "claimed"
    /\ claims' = [claims EXCEPT ![a].status = "done"]
    /\ candidates' = [candidates EXCEPT ![claims[a].run][a].status = "done"]
    /\ UNCHANGED <<boots, attempts, runs>>

CompleteRun(r) ==
    /\ runs[r].status = "running"
    /\ \A a \in Attempts : candidates[r][a].status \notin {"pending", "claimed"}
    /\ runs' = [runs EXCEPT ![r].status = "closed"]
    /\ UNCHANGED <<boots, attempts, candidates, claims>>

-----------------------------------------------------------------------------
(* Properties.                                                             *)

\* Of all the candidates of an attempt, over all runs, at most one is acted
\* on, and it is the one of the run that holds the claim; a candidate of a
\* closed run is closed; an attempt that is claimed stays running, its owner
\* cannot end it (acquireRuntimeRecoveryClaim, completeRuntimeRecoveryClaim,
\* completeRuntimeRecoveryRun and terminalizeRuntimeTurnAttempt).
OneWinner ==
    /\ \A a \in Attempts, r \in Runs :
          candidates[r][a].status \in {"claimed", "done"} =>
              claims[a] = [status |-> candidates[r][a].status, run |-> r]
    /\ \A a \in Attempts : ~Unclaimed(a) => Running(a)
    /\ \A r \in Runs : runs[r].status = "closed" =>
          \A a \in Attempts : candidates[r][a].status \notin {"pending", "claimed"}

=============================================================================
