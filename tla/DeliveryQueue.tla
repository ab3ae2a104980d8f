--------------------------- MODULE DeliveryQueue ---------------------------
(* The prompt queue of one session of the runtime host: prompts are pushed *)
(* onto pendingMessages, released by their delivery barrier into turns of  *)
(* the provider, and carried over interruptions, failures and restarts of  *)
(* the runtime in the stash of the session's name.                         *)
(*                                                                         *)
(* src/src/runtime/delivery-queue.ts decides what is released and what may *)
(* interrupt, host-session.ts what a replacement runtime gets back,        *)
(* session-dispatcher.ts pushes, aborts and recovers, and                  *)
(* host-event-loop.ts follows the turns and tools of the provider.         *)
(*                                                                         *)
(* The provider pulls the prompt generator only when the event loop asks   *)
(* it for the next event, after the handler of the terminal event ended.   *)
EXTENDS Naturals, FiniteSets, SequencesExt

CONSTANTS
    Atoms,        \* prompt atoms, each sent once
    Channel,      \* those with a channel envelope: one to a turn, foldable
    Aside,        \* those of a second chat: a turn has one reply surface
    Barriers,     \* the lanes they may come in
    Providers,    \* what the runtimes can do about effects, see Kinds
    Turmoil       \* the kinds of trouble that may happen, see Troubles

Lanes == {"immediate_interrupt", "after_tool", "after_response", "after_task"}

\* What may go wrong or cut in.  A run names those it lets happen.
Troubles == {"interrupted", "failed", "recover", "credential", "prepare", "exit",
             "launch", "join", "abort", "earlyAbort", "switch", "compact",
             "idleCompact", "slow"}

\* Claude and Grok let the host write the evidence of a tool ahead of it
\* (toolEffectFence "host_write_ahead"); Pi and Codex only report it.  Codex can
\* find a turn it was given before by its clientMessageId, and says so
\* (ambiguousTurnRecoveryStrategy).
Kinds == {"ahead", "observed", "reconciling"}

ASSUME AtomAssumption ==
    /\ Channel \subseteq Atoms /\ Aside \subseteq Atoms
    /\ Barriers \subseteq Lanes
    /\ Providers \subseteq Kinds /\ Providers # {} /\ Turmoil \subseteq Troubles

VARIABLES
    lane,       \* deliveryBarrier of each atom
    rt,         \* the live RuntimeHostStreamingSession of the name, see Runtimes
    stash,      \* stashedMessages of the name
    stamped,    \* atoms that carry a clientMessageId: put into some turn
    replays,    \* atoms marked for reconciliation: replay is set
    carries,    \* the atoms whose text each atom carries, itself included
    task,       \* the session has an active task
    taskEvent,  \* the end of a task was announced and not handled yet
    arrived,    \* atoms in the order they were dispatched
    settled,    \* atoms that may never be handed over again
    touched,    \* atoms of turns that had effects
    told,       \* atoms whose sender was told that the start failed
    promised    \* the atom that interrupted the turn in progress
vars == <<lane, rt, stash, stamped, replays, carries, task, taskEvent, arrived, settled, touched,
          told, promised>>
history == <<arrived, settled, touched, told>>

\* "asked": a start waits or prepares, and the runtime is not in the map;
\* "launching": it is in the map with starting set.
Lives == {"none", "asked", "launching", "up"}

\* Where the prompt generator is: not pulled yet, on pushMessage, before
\* traceTurnStart is answered, on turnCompleted, released from it and not
\* pulled again, or ended by a failed preparation.
Places == {"none", "fresh", "waiting", "preparing", "running", "ended", "broken"}

\* "delivering" is a tool that ran while its result is not delivered yet.
Tools == {"none", "safe", "unsafe", "delivering"}

Runtimes ==
    [life : Lives, queue : Seq(Atoms), gen : Places,
     turn : SUBSET Atoms,                 \* currentTurnPendingIds
     active : BOOLEAN,                    \* turnActive
     superseded : BOOLEAN, interrupted : BOOLEAN,
     latch : {"none", "complete", "interrupted", "failed"}, \* currentCrashRecoveryTerminal
     ahead : BOOLEAN, reconciles : BOOLEAN, \* its kind of provider
     effects : SUBSET {"tool", "output"}, \* durable evidence of the turn
     tool : Tools, compacting : BOOLEAN, pendingAbort : BOOLEAN,
     wake : BOOLEAN, timer : BOOLEAN]     \* pendingWake, idleGapRecoveryTimer

Gone ==
    [life |-> "none", queue |-> <<>>, gen |-> "none", turn |-> {}, active |-> FALSE,
     superseded |-> FALSE, interrupted |-> FALSE, latch |-> "none", ahead |-> FALSE,
     reconciles |-> FALSE, effects |-> {}, tool |-> "none", compacting |-> FALSE, pendingAbort |-> FALSE,
     wake |-> FALSE, timer |-> FALSE]

TypeOK ==
    /\ lane \in [Atoms -> Barriers]
    /\ rt \in Runtimes
    /\ stash \in Seq(Atoms)
    /\ stamped \subseteq Atoms /\ replays \subseteq Atoms
    /\ settled \subseteq Atoms /\ touched \subseteq Atoms /\ told \subseteq Atoms
    /\ carries \in [Atoms -> SUBSET Atoms]
    /\ task \in BOOLEAN /\ taskEvent \in BOOLEAN
    /\ arrived \in Seq(Atoms)
    /\ promised \subseteq Atoms
    /\ rt.turn # {} => rt.gen \in {"preparing", "running", "ended"}
    /\ rt.active => rt.gen \in {"preparing", "running"}
    /\ ~(rt.ahead /\ rt.reconciles)

Init ==
    /\ lane \in [Atoms -> Barriers]
    /\ rt = Gone /\ stash = <<>>
    /\ stamped = {} /\ replays = {} /\ touched = {} /\ carries = [a \in Atoms |-> {a}]
    /\ task \in BOOLEAN /\ taskEvent = FALSE
    /\ arrived = <<>> /\ settled = {} /\ told = {} /\ promised = {}

\* The atoms of q that are in S, those that are not, and those before the
\* first that is.
Within(q, S) ==
    LET kept[n \in 0..Len(q)] ==
            IF n = 0 THEN <<>>
            ELSE IF q[n] \in S THEN Append(kept[n - 1], q[n]) ELSE kept[n - 1]
    IN  kept[Len(q)]

Without(q, S) == Within(q, Atoms \ S)

Before(q, S) ==
    LET found == {n \in 1..Len(q) : q[n] \in S}
    IN  IF found = {} THEN q ELSE SubSeq(q, 1, Min(found) - 1)

OtherSurface(a, b) == (a \in Aside) # (b \in Aside)

-----------------------------------------------------------------------------
(* What is released, what interrupts and what survives the runtime.        *)
(*                                                                         *)
(* An operator named Slip... is a wrong version of the definition that      *)
(* follows it.  No action uses it: in its place, it breaks a property.      *)

\* canReleaseRuntimeDeliveryBarrier
CanRelease(r, a) ==
    /\ r.life = "up" /\ ~r.compacting /\ r.tool # "delivering"
    /\ \/ lane[a] = "immediate_interrupt" /\ r.tool # "unsafe"
       \/ lane[a] = "after_tool" /\ r.tool = "none"
       \/ lane[a] = "after_response" /\ r.tool = "none" /\ ~r.active
       \/ lane[a] = "after_task" /\ r.tool = "none" /\ ~r.active /\ ~task

\* A replay is combined with prompts that came later.
SlipMixesReplays(a, b) == {a, b} \cap Channel # {} \/ OtherSurface(a, b)

\* An atom with an envelope of its own and an atom of another surface wait for
\* the next turn, and a turn that is replayed comes alone.  All replays in the
\* queue have one clientMessageId: whatever marks a turn saves that turn alone.
Apart(a, b) ==
    {a, b} \cap Channel # {} \/ OtherSurface(a, b) \/ (a \in replays) # (b \in replays)

\* getDeliverableRuntimeMessages: those that fit the first, up to one that does
\* not.
Deliverable(r) ==
    LET able == Within(r.queue, {a \in Atoms : CanRelease(r, a)})
    IN  Before(able, {b \in Atoms \ {able[1]} : Apart(able[1], b)})

\* An unsafe tool is cut like a safe one.
SlipCutsTool(r, a) ==
    /\ r.life = "up" /\ r.gen # "waiting" /\ ~r.compacting /\ r.active
    /\ \/ lane[a] = "immediate_interrupt" /\ r.tool # "delivering"
       \/ lane[a] = "after_tool" /\ r.tool = "none"

\* shouldInterruptRuntimeForIncoming
MayInterrupt(r, a) ==
    /\ r.life = "up" /\ r.gen # "waiting" /\ ~r.compacting /\ r.active
    /\ \/ lane[a] = "immediate_interrupt" /\ r.tool \in {"none", "safe"}
       \/ lane[a] = "after_tool" /\ r.tool = "none"

\* Compatible channel prompts are folded into one; a stamped one is a replay.
Foldable(a, b) ==
    {a, b} \subseteq Channel \ stamped /\ lane[a] = lane[b]

\* The successors of the turn's surface that may interrupt it, up to the
\* first of another surface.
Able(r) ==
    LET near == Before(Without(r.queue, r.turn),
                       {b \in Atoms : \E a \in r.turn : OtherSurface(a, b)})
    IN  IF r.turn = {} THEN <<>> ELSE Within(near, {a \in Atoms : MayInterrupt(r, a)})

\* The newest prompt interrupts, whoever came before.
SlipNewestFirst(r) == Within(Able(r), {Able(r)[Len(Able(r))]})

\* The atom that interrupts, behind those that are folded into it.
Cohort(r) ==
    LET able == Able(r)
    IN  Before(able, {b \in Atoms \ {able[1]} : ~Foldable(able[1], b)})

\* prepareRuntimeInterruptSuccessor and interruptForRuntimeSuccessor: the
\* cohort moves to the front of the successors under its last atom's name, and
\* the turn is superseded.  Nothing happens when no successor may interrupt.
Interrupt(r) ==
    LET fold == Cohort(r)
        lead == fold[Len(fold)]
    IN  IF fold = <<>>
        THEN rt' = r /\ UNCHANGED <<carries, settled, promised>>
        ELSE /\ rt' = [r EXCEPT
                   !.queue = Within(@, r.turn) \o <<lead>> \o Without(@, r.turn \cup ToSet(fold)),
                   !.superseded = TRUE, !.interrupted = TRUE]
             /\ carries' = [carries EXCEPT ![lead] = UNION {carries[a] : a \in ToSet(fold)}]
             /\ settled' = settled \cup r.turn
             /\ promised' = {lead}

\* Effects of the turn are forgotten.
SlipIgnoresEffects(r) ==
    IF r.latch = "none" /\ r.gen # "running" THEN TRUE
    ELSE r.latch # "complete" /\ r.ahead

\* getRuntimeTurnReplaySafety: nothing is bound before a turn is handed over;
\* afterwards its attempt, and then its terminal latch, decide.
Replayable(r) ==
    IF r.latch = "none" /\ r.gen # "running" THEN TRUE
    ELSE r.latch # "complete" /\ r.ahead /\ r.effects = {}

\* getPendingRuntimeTurnSuccessors, getReplayablePendingRuntimeMessages and
\* getCrashRecoveryReplayablePendingRuntimeMessages
Successors(r) == IF r.turn = {} THEN <<>> ELSE Without(r.queue, r.turn)

\* A superseded turn is kept for replay.
SlipRetainsAll(r) == r.queue

Retained(r)   == IF r.superseded THEN Without(r.queue, r.turn) ELSE r.queue
Carryable(r) ==
    IF IF r.latch = "complete" THEN r.turn = {} ELSE Replayable(r)
    THEN Retained(r) ELSE Successors(r)

\* stashCurrentTurnRuntimeMessages: a turn that is to be reconciled is saved
\* whatever its effects.
CurrentTurn(r, reconcile) ==
    IF ~reconcile /\ ~Replayable(r) THEN Successors(r)
    ELSE IF r.superseded THEN Retained(r) ELSE Within(r.queue, r.turn)

\* Only the turn is saved, not what is queued behind it.
SlipSavesTurn(r) ==
    IF CurrentTurn(r, FALSE) = <<>> THEN stash ELSE CurrentTurn(r, FALSE)

\* stashPendingRuntimeMessages replaces the stash, unless it has nothing.
Saved(r) == IF Carryable(r) = <<>> THEN stash ELSE Carryable(r)

\* The replacement gets the queue besides the stash.
SlipKeepsQueue(q) == [Gone EXCEPT !.life = "asked", !.queue = q \o rt.queue]

\* restartStashedSession starts from the stash alone.
Asked(q) == [Gone EXCEPT !.life = "asked", !.queue = q]

\* The head of the loop of createRuntimeMessageGenerator: hand the
\* deliverable atoms over as one turn, or wait on pushMessage.
Scan(r) ==
    LET d == ToSet(Deliverable(r)) IN
    IF d = {}
    THEN rt' = [r EXCEPT !.gen = "waiting", !.wake = FALSE] /\ UNCHANGED <<stamped, promised>>
    ELSE /\ rt' = [r EXCEPT !.gen = "preparing", !.turn = d, !.active = TRUE,
                            !.latch = "none", !.effects = {}, !.superseded = FALSE,
                            !.timer = FALSE, !.wake = r.wake /\ r.gen # "waiting"]
         /\ stamped' = stamped \cup d
         /\ promised' = {}

-----------------------------------------------------------------------------
(* The dispatcher.                                                         *)

\* A prompt for the session: it starts a runtime, joins a start in progress
\* through the stash, or is pushed onto the live queue, where it wakes a
\* waiting generator, interrupts the turn, or waits.  An after_task prompt
\* that meets an active task and no runtime is deferred elsewhere.
Prompt(a) ==
    /\ a \notin ToSet(arrived)
    /\ arrived' = Append(arrived, a)
    /\ LET pushed == [rt EXCEPT !.queue = Append(@, a)] IN
       \/ /\ rt.life = "none" /\ ~(lane[a] = "after_task" /\ task)
          /\ rt' = Asked(<<a>>)
          /\ UNCHANGED <<stash, stamped, carries, settled, promised>>
       \/ /\ rt.life = "asked" /\ "join" \in Turmoil
          /\ stash' = Append(stash, a)
          /\ UNCHANGED <<rt, stamped, carries, settled, promised>>
       \/ /\ rt.life = "launching"
          /\ rt' = pushed
          /\ UNCHANGED <<stash, stamped, carries, settled, promised>>
       \/ /\ rt.gen = "waiting"
          /\ IF Deliverable(pushed) = <<>>
             THEN rt' = pushed /\ UNCHANGED <<stamped, promised>>
             ELSE Scan(pushed)
          /\ UNCHANGED <<stash, carries, settled>>
       \/ /\ MayInterrupt(pushed, a)
          /\ Interrupt(pushed)
          /\ UNCHANGED <<stash, stamped>>
       \/ /\ rt.life = "up" /\ rt.gen # "waiting" /\ ~MayInterrupt(pushed, a)
          /\ LET idleGap == ~rt.compacting /\ ~rt.active
             IN  rt' = [pushed EXCEPT !.wake = @ \/ idleGap, !.timer = @ \/ idleGap]
          /\ UNCHANGED <<stash, stamped, carries, settled, promised>>
    /\ UNCHANGED <<lane, replays, task, taskEvent, touched, told>>

\* The start of the session reaches the map, the runtime is built, or the
\* start fails or times out and only the sender it was for hears of it.
Launch ==
    /\ rt.life = "asked"
    /\ rt' = [rt EXCEPT !.life = "launching"]
    /\ UNCHANGED <<lane, replays, stash, stamped, carries, task, taskEvent, history, promised>>
Built ==
    /\ rt.life = "launching"
    /\ \E kind \in Providers :
          rt' = [rt EXCEPT !.life = "up", !.gen = "fresh", !.ahead = (kind = "ahead"),
                           !.reconciles = (kind = "reconciling")]
    /\ UNCHANGED <<lane, replays, stash, stamped, carries, task, taskEvent, history, promised>>
LaunchFails ==
    /\ "launch" \in Turmoil /\ rt.life \in {"asked", "launching"}
    /\ rt' = Gone
    /\ told' = told \cup IF rt.queue = <<>> THEN {} ELSE {Head(rt.queue)}
    /\ UNCHANGED <<lane, replays, stash, stamped, carries, task, taskEvent, arrived, settled, touched,
                   promised>>

\* The runtime of the name is replaced: what is saved is restarted, unless
\* recovery restarts are exhausted.
Replace(saved, found) ==
    /\ stash' = saved
    /\ rt' \in {Gone} \cup (IF found THEN {Asked(<<>>)} ELSE {})
    /\ UNCHANGED <<lane, stamped, carries, task, taskEvent, arrived, touched, told, promised>>

\* abortSession: put off while a tool may not be cut.  What the launch of an
\* aborted session still does is left out.
Abort ==
    /\ rt.life \in {"launching", "up"}
    /\ (IF rt.gen \in {"none", "fresh"} THEN "earlyAbort" ELSE "abort") \in Turmoil
    /\ IF rt.tool \in {"unsafe", "delivering"}
       THEN rt' = [rt EXCEPT !.pendingAbort = TRUE] /\ UNCHANGED stash
       ELSE rt' = Gone /\ stash' = Saved(rt)
    /\ UNCHANGED <<lane, replays, stamped, carries, task, taskEvent, history, promised>>

\* applySessionModelChange of a provider that cannot switch in place; it looks
\* at no tool.
SwitchModel ==
    /\ "switch" \in Turmoil /\ rt.life \in {"launching", "up"}
    /\ Replace(Saved(rt), rt.queue # <<>> /\ Saved(rt) # <<>>)
    /\ UNCHANGED <<replays, settled>>

\* recoverIdleGapSession.  Only a slow provider has not pulled the generator
\* by the time the timer fires.
IdleGap ==
    /\ rt.timer /\ (rt.gen = "fresh" => "slow" \in Turmoil)
    /\ IF ~rt.active /\ rt.gen # "waiting" /\ ~rt.compacting /\ rt.tool = "none"
          /\ Deliverable(rt) # <<>>
       THEN /\ stash' = Saved(rt)
            /\ rt' = IF Saved(rt) = <<>> THEN Gone ELSE Asked(<<>>)
       ELSE rt' = [rt EXCEPT !.timer = FALSE] /\ UNCHANGED stash
    /\ UNCHANGED <<lane, replays, stamped, carries, task, taskEvent, history, promised>>

\* Task rows change, and the end of a task is announced on the bus.
TaskStarts ==
    /\ ~task /\ task' = TRUE
    /\ UNCHANGED <<lane, replays, rt, stash, stamped, carries, taskEvent, history, promised>>
TaskEnds ==
    /\ task /\ task' = FALSE /\ taskEvent' = TRUE
    /\ UNCHANGED <<lane, replays, rt, stash, stamped, carries, history, promised>>

\* The end of a task wakes nobody.
SlipNoWake ==
    /\ taskEvent /\ taskEvent' = FALSE
    /\ UNCHANGED <<lane, replays, rt, stash, stamped, carries, task, history, promised>>

\* wakeRuntimeSessionIfDeliverable
TaskReleased ==
    /\ taskEvent /\ taskEvent' = FALSE
    /\ IF rt.gen = "waiting" /\ Deliverable(rt) # <<>>
       THEN Scan(rt)
       ELSE /\ rt' = [rt EXCEPT !.wake = @ \/ (rt.life \in {"launching", "up"} /\ rt.gen # "waiting")]
            /\ UNCHANGED <<stamped, promised>>
    /\ UNCHANGED <<lane, replays, stash, carries, task, history>>

-----------------------------------------------------------------------------
(* The prompt generator.                                                   *)

\* The provider pulls the generator: it re-injects the stash when it begins,
\* drops the atoms of the turn that ended unless that turn was interrupted
\* for no successor, and hands over the next turn.
Pull ==
    /\ \/ /\ rt.gen = "fresh"
          /\ Scan([rt EXCEPT !.queue = stash \o @])
          /\ stash' = <<>> /\ UNCHANGED settled
       \/ /\ rt.gen = "ended"
          /\ LET kept == IF rt.interrupted THEN Retained(rt) ELSE Without(rt.queue, rt.turn)
             IN  /\ Scan([rt EXCEPT !.queue = kept, !.interrupted = FALSE,
                                    !.turn = {}, !.superseded = FALSE])
                 /\ settled' = settled \cup (rt.turn \ ToSet(kept))
          /\ UNCHANGED stash
    /\ UNCHANGED <<lane, replays, carries, task, taskEvent, arrived, touched, told>>

\* traceTurnStart is answered and the turn is the provider's, or it fails.
\* Without write-ahead effects no turn is replayed once it is handed over.  A
\* turn that was superseded but never handed over is owed again.
Prepared ==
    /\ rt.gen = "preparing"
    /\ rt' = [rt EXCEPT !.gen = "running"]
    /\ settled' = settled \cup IF rt.ahead THEN {} ELSE rt.turn
    /\ UNCHANGED <<lane, replays, stash, stamped, carries, task, taskEvent, arrived, touched, told,
                   promised>>

\* A failed preparation keeps the ids of its turn.
SlipTurnStays ==
    /\ "prepare" \in Turmoil /\ rt.gen = "preparing"
    /\ rt' = [rt EXCEPT !.gen = "broken", !.active = FALSE, !.superseded = FALSE]
    /\ settled' = settled \ rt.turn
    /\ UNCHANGED <<lane, replays, stash, stamped, carries, task, taskEvent, arrived, touched, told,
                   promised>>

PrepareFails ==
    /\ "prepare" \in Turmoil /\ rt.gen = "preparing"
    /\ rt' = [rt EXCEPT !.gen = "broken", !.active = FALSE, !.turn = {}, !.superseded = FALSE]
    /\ settled' = settled \ rt.turn
    /\ UNCHANGED <<lane, replays, stash, stamped, carries, task, taskEvent, arrived, touched, told,
                   promised>>

-----------------------------------------------------------------------------
(* The event loop: tools, output and compaction of the turn in progress.   *)

InTurn == rt.gen = "running" /\ rt.latch = "none"

Effect(e) ==
    /\ InTurn
    /\ settled' = settled \cup rt.turn /\ touched' = touched \cup rt.turn
    /\ UNCHANGED <<lane, replays, stash, stamped, carries, task, taskEvent, arrived, told, promised>>
    /\ \/ e = "output" /\ rt' = [rt EXCEPT !.effects = @ \cup {e}]
       \/ /\ e = "tool" /\ rt.tool = "none"
          /\ \E safety \in {"safe", "unsafe"} :
                rt' = [rt EXCEPT !.effects = @ \cup {e}, !.tool = safety]

\* A dynamic Codex tool ran; its result is on its way to the provider.
ToolAnswers ==
    /\ InTurn /\ rt.tool \in {"safe", "unsafe"}
    /\ rt' = [rt EXCEPT !.tool = "delivering"]
    /\ UNCHANGED <<lane, replays, stash, stamped, carries, task, taskEvent, history, promised>>

\* finishActiveToolBarrier: an abort that was put off ends the runtime, or
\* releaseQueuedPromptsAfterTool looks for a successor.
ToolEnds ==
    /\ InTurn /\ rt.tool # "none"
    /\ LET r == [rt EXCEPT !.tool = "none"] IN
       \/ /\ rt.pendingAbort
          /\ rt' = Gone /\ stash' = Saved(r) /\ UNCHANGED <<carries, settled, promised>>
       \/ /\ ~rt.pendingAbort
          /\ IF rt.active /\ ~rt.compacting /\ ~rt.superseded /\ ~rt.interrupted
             THEN Interrupt(r)
             ELSE rt' = r /\ UNCHANGED <<carries, settled, promised>>
          /\ UNCHANGED stash
    /\ UNCHANGED <<lane, replays, stamped, task, taskEvent, arrived, touched, told>>

CompactBegins ==
    /\ ~rt.compacting
    /\ \/ "compact" \in Turmoil /\ InTurn
       \/ "idleCompact" \in Turmoil /\ rt.gen = "waiting"
    /\ rt' = [rt EXCEPT !.compacting = TRUE]
    /\ UNCHANGED <<lane, replays, stash, stamped, carries, task, taskEvent, history, promised>>
CompactEnds ==
    /\ rt.compacting /\ (InTurn \/ rt.gen = "waiting")
    /\ rt' = [rt EXCEPT !.compacting = FALSE]
    /\ UNCHANGED <<lane, replays, stash, stamped, carries, task, taskEvent, history, promised>>

-----------------------------------------------------------------------------
(* The event loop: the end of a turn.  The terminal latch is set when the  *)
(* event is received; turnActive falls only after awaits.                  *)

Terminal(status) ==
    /\ InTurn /\ status \in {"complete"} \cup Turmoil
    /\ rt' = [rt EXCEPT !.latch = status]
    /\ settled' = settled \cup IF status = "complete" THEN rt.turn ELSE {}
    /\ UNCHANGED <<lane, replays, stash, stamped, carries, task, taskEvent, arrived, touched, told,
                   promised>>

Closing(status) == rt.gen = "running" /\ rt.active /\ rt.latch = status

\* A tool outlives its turn.
SlipToolStays(r) == [r EXCEPT !.compacting = FALSE, !.active = FALSE]

\* The tools of the turn are over, and the generator is released.
Quiet(r) == [r EXCEPT !.tool = "none", !.compacting = FALSE, !.active = FALSE]

CloseComplete ==
    /\ Closing("complete")
    /\ rt' = [Quiet(rt) EXCEPT !.gen = "ended", !.pendingAbort = FALSE]
    /\ UNCHANGED <<lane, replays, stash, stamped, carries, task, taskEvent, history, promised>>

\* A provider that ends a turn after its tools counts as ended; otherwise the
\* turn stays queued for replay if that is safe.  pendingAbort stays.
CloseInterrupted ==
    /\ Closing("interrupted")
    /\ LET afterTools == /\ ~rt.superseded /\ ~rt.pendingAbort /\ "tool" \in rt.effects
                         /\ "output" \in rt.effects \/ rt.tool = "none"
       IN  rt' = [Quiet(rt) EXCEPT !.gen = "ended", !.interrupted = ~afterTools,
                    !.queue = IF afterTools \/ ~Replayable(rt) THEN Carryable(rt) ELSE @]
    /\ UNCHANGED <<lane, replays, stash, stamped, carries, task, taskEvent, history, promised>>

\* turn.failed lowers turnActive, awaits the report, and only then releases
\* the generator.
CloseFailed ==
    /\ Closing("failed")
    /\ rt' = [Quiet(rt) EXCEPT !.pendingAbort = FALSE]
    /\ UNCHANGED <<lane, replays, stash, stamped, carries, task, taskEvent, history, promised>>
Reported ==
    /\ rt.gen = "running" /\ ~rt.active
    /\ rt' = [rt EXCEPT !.gen = "ended"]
    /\ UNCHANGED <<lane, replays, stash, stamped, carries, task, taskEvent, history, promised>>

\* A recoverable failure replaces the runtime and carries the queue over; a
\* failure that another credential may cure carries the turn alone.
RecoverFailed ==
    /\ "recover" \in Turmoil /\ Closing("interrupted")
    /\ Replace(Saved(rt), Carryable(rt) # <<>>) /\ UNCHANGED <<replays, settled>>
RetryCredential ==
    /\ "credential" \in Turmoil /\ Closing("failed") /\ CurrentTurn(rt, FALSE) # <<>>
    /\ Replace(CurrentTurn(rt, FALSE), TRUE) /\ UNCHANGED <<replays, settled>>

\* What is saved when the stream ends, and what of it is to be reconciled.
Rest == CASE rt.gen = "broken" -> Saved(rt)
          [] InTurn /\ rt.tool = "none" -> CurrentTurn(rt, rt.reconciles)
          [] OTHER -> <<>>
Ambiguous ==
    IF InTurn /\ rt.tool = "none" /\ rt.reconciles THEN rt.turn \cap ToSet(Rest) ELSE {}

\* The provider's stream ends: prepareUnterminatedTurnRecovery.  A turn without
\* an end is handed over again, effects or not, if its provider reconciles: it
\* is then marked, and terminalReplayAllowed is never set with the mark, for
\* such a provider does not write ahead.
LoopEnds ==
    /\ rt.life = "up" /\ (rt.gen = "broken" \/ "exit" \in Turmoil)
    /\ Replace(IF Rest = <<>> THEN stash ELSE Rest, Rest # <<>>)
    /\ replays' = replays \cup Ambiguous
    /\ settled' = settled \ Ambiguous

-----------------------------------------------------------------------------

ProviderStep ==
    \/ \E e \in {"tool", "output"} : Effect(e)
    \/ ToolAnswers \/ ToolEnds \/ CompactBegins \/ CompactEnds
    \/ \E status \in {"complete", "interrupted", "failed"} : Terminal(status)
    \/ LoopEnds

HostStep ==
    \/ Launch \/ Built \/ Pull \/ Prepared
    \/ CloseComplete \/ CloseInterrupted \/ CloseFailed \/ Reported

Next ==
    \/ \E a \in Atoms : Prompt(a)
    \/ HostStep \/ ProviderStep
    \/ LaunchFails \/ PrepareFails \/ RecoverFailed \/ RetryCredential
    \/ Abort \/ SwitchModel \/ IdleGap
    \/ TaskStarts \/ TaskEnds \/ TaskReleased

Spec == Init /\ [][Next]_vars

\* The host takes the steps it can take, the timer fires, the bus delivers, a
\* provider ends its tools and its turns.  Nothing is assumed of prompts,
\* tasks, tools that begin, interruptions or failures.
Fairness ==
    /\ WF_vars(HostStep) /\ WF_vars(IdleGap) /\ WF_vars(TaskReleased)
    /\ WF_vars(LoopEnds /\ rt.gen = "broken")
    /\ WF_vars(ToolEnds) /\ WF_vars(CompactEnds) /\ WF_vars(Terminal("complete"))

FairSpec == Spec /\ Fairness

-----------------------------------------------------------------------------

Folded(a) == \E b \in Atoms \ {a} : a \in carries[b]

\* A prompt that was accepted is somewhere: in the queue or the stash, folded
\* into a later one, or done with - its turn completed, had effects, failed
\* or was superseded, or its sender was told that the start failed.
AtomsSurvive ==
    \A a \in ToSet(arrived) :
        a \in settled \cup told \cup ToSet(rt.queue) \cup ToSet(stash) \/ Folded(a)

\* Lanes are served in order.  No prompt is put into a turn before an earlier
\* one of its lane, and those that were never put into one stand in the order
\* in which they were dispatched, in the queue and in the stash that the
\* generator will put before it.
Earlier(a, b) ==
    \E i, j \in 1..Len(arrived) : i < j /\ arrived[i] = a /\ arrived[j] = b

LanesInOrder ==
    LET line == stash \o rt.queue IN
    \A a, b \in Atoms :
        lane[a] = lane[b] /\ Earlier(a, b) =>
            /\ b \in stamped => a \in stamped \cup told \/ Folded(a)
            /\ rt.life = "up" /\ {a, b} \cap stamped = {} =>
                 \A i, j \in 1..Len(line) : line[i] = a /\ line[j] = b => i < j

\* Every prompt is in one place once: a runtime and the stash that outlives
\* it never both own it, and nothing is queued twice.
OneOwner == IsInjective(stash \o rt.queue)

\* A generator that waits on pushMessage has nothing to deliver, unless the
\* event that will wake it is on its way.
NoLostWake == rt.gen = "waiting" /\ ~taskEvent => Deliverable(rt) = <<>>

Hands == rt'.gen = "preparing" /\ rt.gen # "preparing"

\* A turn that completed, had effects or was superseded in the provider's
\* hands is never handed over again, whatever was aborted, replaced or
\* recovered since.  One case is excepted: the stream of a provider that
\* reconciles ended under a turn that had no end ("only when the live provider
\* handle advertises that strategy", delivery-queue/SPEC.md:230).  That turn
\* comes again, with effects or without, as a replay the provider can recognise
\* and of nothing else.
NeverReplayed ==
    [][Hands => /\ rt'.turn \cap settled' = {}
                /\ rt'.turn \cap touched # {} => rt'.turn \subseteq replays]_vars

\* The prompt that interrupts a turn is part of the next one.
SuccessorNext == [][Hands => promised \subseteq rt'.turn]_vars

\* No prompt interrupts an unsafe tool or the delivery of a result, and nothing
\* ends the runtime in the middle of one but the provider itself or a change of
\* the model, which looks at no tool: an abort waits for the end of the tool.
ToolsFinish ==
    [][InTurn /\ rt.tool \in {"unsafe", "delivering"} =>
         /\ rt'.tool = rt.tool => rt'.superseded = rt.superseded
         /\ rt'.life = "up" \/ ToolEnds \/ SwitchModel \/ LoopEnds]_vars

\* Every prompt is handed over and done with in the end, once tasks stop
\* holding after_task prompts back.
PromptsSettle ==
    <>[]~task => \A a \in Atoms : a \in ToSet(arrived) ~> a \in settled \/ Folded(a)
=============================================================================
