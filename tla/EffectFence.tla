----------------------------- MODULE EffectFence -----------------------------
(***************************************************************************)
(* What the crash-recovery ledger promises about a turn attempt and the    *)
(* side effects of its provider, without clocks, leases or processes.  An  *)
(* attempt has an owner until it is fenced or ends; an effect happens only *)
(* while the attempt is owned, and only after its evidence was recorded;   *)
(* a fenced attempt may be claimed, and it is resumed only if it had no    *)
(* effect.  (SPEC.md:83-90, 122-135 of daemon/restart/crash-recovery.)     *)
(***************************************************************************)
EXTENDS Naturals

CONSTANTS Attempts, Effects

VARIABLES
    holder,    \* who may act for the attempt: see Holders
    evidence,  \* the effects whose marker is durable
    effects,   \* how often each effect was allowed to happen
    resumed    \* the attempts a recovery claimed in order to resume them

fence == <<holder, evidence, effects, resumed>>

Holders == {"none", "owner", "fenced", "claimed", "ended"}

Init ==
    /\ holder = [a \in Attempts |-> "none"]
    /\ evidence = [a \in Attempts |-> {}]
    /\ effects = [a \in Attempts |-> [e \in Effects |-> 0]]
    /\ resumed = {}

Move(a, from, to) ==
    /\ holder[a] \in from
    /\ holder' = [holder EXCEPT ![a] = to]
    /\ UNCHANGED <<evidence, effects, resumed>>

Begin(a) == Move(a, {"none"}, "owner")

\* The markers of an attempt that is fenced may still arrive, until a claim
\* freezes them.
Record(a, e) ==
    /\ holder[a] \in {"owner", "fenced"}
    /\ evidence' = [evidence EXCEPT ![a] = @ \cup {e}]
    /\ UNCHANGED <<holder, effects, resumed>>

Perform(a, e) ==
    /\ holder[a] = "owner" /\ e \in evidence[a]
    /\ effects' = [effects EXCEPT ![a][e] = @ + 1]
    /\ UNCHANGED <<holder, evidence, resumed>>

\* An end that was under way when the fence came still counts.
End(a) == Move(a, {"owner", "fenced"}, "ended")

\* The owner is declared gone: it loses all its attempts at once.
Fence(lost) ==
    /\ \A a \in lost : holder[a] = "owner"
    /\ holder' = [a \in Attempts |-> IF a \in lost THEN "fenced" ELSE holder[a]]
    /\ UNCHANGED <<evidence, effects, resumed>>

Claim(a) == Move(a, {"fenced"}, "claimed")

ClaimToResume(a) ==
    /\ holder[a] = "fenced" /\ \A e \in Effects : effects[a][e] = 0
    /\ holder' = [holder EXCEPT ![a] = "claimed"]
    /\ resumed' = resumed \cup {a}
    /\ UNCHANGED <<evidence, effects>>

Next ==
    \/ \E lost \in SUBSET Attempts : Fence(lost)
    \/ \E a \in Attempts :
          \/ Begin(a) \/ End(a) \/ Claim(a) \/ ClaimToResume(a)
          \/ \E e \in Effects : Record(a, e) \/ Perform(a, e)

Spec == Init /\ [][Next]_fence

=============================================================================
