---------------------------- MODULE SessionPool ----------------------------
(***************************************************************************)
(* Admission to the pool of live runtime sessions: RuntimeSessionDispatcher *)
(* (src/runtime/session-dispatcher.ts) with startRuntimeSession             *)
(* (src/runtime/session-launcher.ts) and the end of runRuntimeEventLoop     *)
(* (src/runtime/host-event-loop.ts).                                        *)
(*                                                                          *)
(* The dispatcher is single-threaded: what runs between two awaits is one   *)
(* action, and everything read before an await may be stale after it.  A    *)
(* prompt handler awaits once between reading the live session and using it *)
(* (planRuntimeModelBrokerRoute) and once more when it swaps the model; a   *)
(* start call awaits its place in the queue, then its launch.               *)
(***************************************************************************)
EXTENDS Integers, FiniteSets

CONSTANTS
    Sessions,    \* session names
    Observers,   \* names that start with "obs:"
    TaskNames,   \* names of task work sessions
    Max,         \* maxConcurrentSessions
    Reserved,    \* interactiveReservedSessions
    Callers      \* bound: the origins of start calls, of AllCallers

\* resolveRuntimeSessionPoolMax never returns less than 1, and
\* resolveRuntimeInteractiveReservedSlots leaves a slot to the background.
ASSUME PoolAssumption ==
    /\ IsFiniteSet(Sessions)
    /\ Observers \subseteq Sessions /\ TaskNames \subseteq Sessions
    /\ Max \in Nat \ {0} /\ Reserved \in 0..(Max - 1)
    /\ "prompt" \in Callers /\ Callers \subseteq {"prompt", "restart", "gap"}

VARIABLES
    pool,                 \* streamingSessions, pendingStarts, startReservations
    call,                 \* the startStreamingSession calls in progress
    pendingStartSessions, \* names with a start that is not launching yet
    startingSessions,     \* names with a start that is launching
    handler,              \* the prompt handler of each session
    clashes               \* history: see Clashes

vars == <<pool, call, pendingStartSessions, startingSessions, handler, clashes>>
marks == <<pendingStartSessions, startingSessions>>

Lanes == {"interactive", "background"}

\* Who calls startStreamingSession: a prompt handler; a restart of stashed
\* messages that ends in a drain (event loop, external model change); the
\* idle-gap recovery timer.
AllCallers == {"prompt", "restart", "gap"}

\* A session is absent from the map; or starting, and then its stage names the
\* call that builds it; or between turns, in a turn, or `done` while its event
\* loop winds down.
Stages == Callers \cup {"none", "idle", "busy", "done"}
Live   == Callers \cup {"idle", "busy"}

\* "overlap": two starts of one name were in progress at once.
\* "lost": a runtime that still ran was replaced in, or deleted from, the map
\* by somebody who did not shut it down.
Clashes == {"overlap", "lost"}

\* A start call waits in the queue, holds a slot, builds its runtime, or
\* reports a failed launch.  "freed" comes before a restart: the event loop has
\* left the map and awaits something before it restarts or drains.
CallStages == {"none", "queued", "granted", "building", "failed", "freed"}

\* A handler has read the map ("decide"), or has released the session to
\* restart it with another model ("swap").  It read no session, a session
\* that is still in the map, or one that has left it since.
Steps    == {"free", "decide", "swap"}
Readings == {"absent", "present", "departed"}

\* pendingStarts holds at most one entry per name, so the queue is the set of
\* waiting names, the order `ahead` between them, and the `urgent` ones, whose
\* lane is interactive.
Pools ==
    [streaming : [Sessions -> Stages], reserved : SUBSET Sessions,
     waiting : SUBSET Sessions, ahead : SUBSET (Sessions \X Sessions),
     urgent : SUBSET Sessions]

TypeOK ==
    /\ pool \in Pools
    /\ call \in [Sessions -> [Callers -> CallStages]]
    /\ pendingStartSessions \subseteq Sessions
    /\ startingSessions \subseteq Sessions
    /\ handler \in [Sessions -> [at : Steps, lane : Lanes, saw : Readings]]
    /\ clashes \subseteq Clashes
    /\ pool.waiting \cap Observers = {}

Idle == [at |-> "free", lane |-> "background", saw |-> "absent"]

Init ==
    /\ pool = [streaming |-> [s \in Sessions |-> "none"], reserved |-> {},
               waiting |-> {}, ahead |-> {}, urgent |-> {}]
    /\ call = [s \in Sessions |-> [c \in Callers |-> "none"]]
    /\ pendingStartSessions = {} /\ startingSessions = {}
    /\ handler = [s \in Sessions |-> Idle]
    /\ clashes = {}

-----------------------------------------------------------------------------
(* Slots and lanes.                                                        *)

\* classifyRuntimeSessionStartLane: observers and task sessions are always
\* background; elsewhere the prompt's provenance and actor decide.
LanesOf(s) == IF s \in Observers \cup TaskNames THEN {"background"} ELSE Lanes

InMap(p) == {s \in Sessions : p.streaming[s] # "none"}

\* getRuntimeSessionPoolUsedSlots counts a name once, in the map or reserved.
Holders(p) == InMap(p) \cup p.reserved

\* Slips: here and below, operators named Slip... are wrong versions of the
\* definition that follows them.  No action uses them: put in its place, each
\* breaks a property, which shows that the property depends on it.

\* One slot too many.
SlipSlotOffByOne(holders, urgent) ==
    /\ Cardinality(holders) <= Max
    /\ urgent \/ Reserved = 0 \/ Cardinality(holders) < Max - Reserved

\* hasRuntimeSessionPoolSlotForStart, when the names in holders use slots.
HasSlot(holders, urgent) ==
    /\ Cardinality(holders) < Max
    /\ urgent \/ Reserved = 0 \/ Cardinality(holders) < Max - Reserved

-----------------------------------------------------------------------------
(* The queue of pending starts.                                            *)

Without(p, gone) ==
    [p EXCEPT !.waiting = @ \ gone,
              !.ahead = @ \cap ((p.waiting \ gone) \X (p.waiting \ gone)),
              !.urgent = @ \ gone]

Enqueue(p, s, lane) ==
    [p EXCEPT !.waiting = @ \cup {s},
              !.ahead = @ \cup (p.waiting \X {s}),
              !.urgent = IF lane = "interactive" THEN @ \cup {s} ELSE @]

\* A queue that does not look at lanes.
SlipOneLane(p, t, s) == <<t, s>> \in p.ahead

\* drainPendingStarts looks for an interactive start first, then for any.
DrainsBefore(p, t, s) ==
    IF (t \in p.urgent) = (s \in p.urgent) THEN <<t, s>> \in p.ahead
    ELSE t \in p.urgent

\* A drain that forgets the lane of the start it looks at.
SlipDrainAnyLane(p) ==
    {s \in p.waiting :
        HasSlot(Holders(p) \cup {t \in p.waiting : DrainsBefore(p, t, s)}, TRUE)}

\* The starts that the loop of drainPendingStarts takes off the queue: those
\* that still find a slot once every start drained before them holds one.
Grants(p) ==
    {s \in p.waiting :
        HasSlot(Holders(p) \cup {t \in p.waiting : DrainsBefore(p, t, s)},
                s \in p.urgent)}

Drain(p) == [Without(p, Grants(p)) EXCEPT !.reserved = @ \cup Grants(p)]

\* The interactive part of promotePendingStartLane: to the front, then drain.
Promote(p, s) ==
    IF s \notin p.waiting THEN p
    ELSE LET rest == Without(p, {s})
         IN Drain([rest EXCEPT !.waiting = p.waiting,
                               !.ahead = @ \cup ({s} \X rest.waiting),
                               !.urgent = @ \cup {s}])

\* streamingSessions.delete.
Evict(p, gone) ==
    [p EXCEPT !.streaming = [s \in Sessions |-> IF s \in gone THEN "none" ELSE @[s]]]

\* A handler learns nothing of a session that leaves the map after it read it.
Update(p, h) ==
    /\ pool' = p
    /\ handler' = [s \in Sessions |->
                     IF h[s].saw = "present" /\ p.streaming[s] = "none"
                     THEN [h[s] EXCEPT !.saw = "departed"] ELSE h[s]]

-----------------------------------------------------------------------------
(* Start calls: startStreamingSession and reserveRuntimeSessionStart.      *)

Freed(s) == [handler EXCEPT ![s] = Idle]

At(s, c, stage) == call' = [call EXCEPT ![s][c] = stage]

When(happened, kind) == IF happened THEN {kind} ELSE {}

Clash(kinds) == clashes' = clashes \cup kinds

\* A start that already has its slot (retainReleasedSlot): no capacity check.
Retain(p, s) == [p EXCEPT !.reserved = @ \cup {s}]

\* A new start call, waiting or with its slot; one call per name and origin.
Overlap(s, c) == When(\E d \in Callers \ {c} : call[s][d] # "none", "overlap")

Begin(s, c, stage) ==
    /\ c \in Callers /\ call[s][c] \in {"none", "freed"}
    /\ At(s, c, stage)
    /\ pendingStartSessions' = pendingStartSessions \cup {s}
    /\ UNCHANGED startingSessions

\* Observers queue like everybody else.
SlipThrottleNobody(s) == FALSE

\* isObserverRuntimeStart: a start that is dropped when it finds no slot.
Throttled(s) == s \in Observers

IdleObservers(p) == {s \in Observers : p.streaming[s] = "idle"}

\* reclaimIdleObserverSessions frees slots without draining the queue.
Reclaimed(p, s, lane) ==
    IF s \in p.reserved \/ HasSlot(Holders(p), lane = "interactive") THEN p
    ELSE Evict(p, IdleObservers(p))

\* startStreamingSession without retainReleasedSlot, from pool p, for the
\* handler of s: up to its first await.  No observer start is ever queued, so
\* dropQueuedObserverPendingStarts finds nothing to drop.
StartFrom(p, s, lane, lost) ==
    LET q    == Reclaimed(p, s, lane)
        fits == s \in q.reserved \/ HasSlot(Holders(q), lane = "interactive")
    IN \/ fits /\ Update(Retain(q, s), Freed(s)) /\ Begin(s, "prompt", "granted")
          /\ Clash(lost \cup Overlap(s, "prompt"))
       \/ ~fits /\ ~Throttled(s)
          /\ Update(Enqueue(q, s, lane), Freed(s)) /\ Begin(s, "prompt", "queued")
          /\ Clash(lost \cup Overlap(s, "prompt"))
       \/ ~fits /\ Throttled(s) \* observer_throttled: nothing starts
          /\ Update(q, Freed(s))
          /\ pendingStartSessions' = pendingStartSessions \ {s}
          /\ startingSessions' = startingSessions \ {s}
          /\ Clash(lost) /\ UNCHANGED call

\* The `finally` of startStreamingSession: the marks go by name, and giving
\* back a reservation drains unless the session is in the map.  A restart's
\* caller (event loop, external model change) drains anyway.
Finish(s, c, p) ==
    LET q == [p EXCEPT !.reserved = @ \ {s}]
        drains == c = "restart" \/ (s \in p.reserved /\ p.streaming[s] = "none")
    IN /\ At(s, c, "none")
       /\ pendingStartSessions' = pendingStartSessions \ {s}
       /\ startingSessions' = startingSessions \ {s}
       /\ Update(IF drains THEN Drain(q) ELSE q, handler)

\* A drained start that is never resolved.
SlipNeverResolved(s, c) == call[s][c] = "granted"

\* The slot is reserved, directly or because the queue was drained.
Holding(s, c) ==
    \/ call[s][c] = "granted"
    \/ call[s][c] = "queued" /\ s \notin pool.waiting

\* startRuntimeSession puts the session in the map, whatever is there.
Launch(s, c) ==
    /\ Holding(s, c)
    /\ At(s, c, "building")
    /\ Update([Retain(pool, s) EXCEPT !.streaming[s] = c], handler)
    /\ pendingStartSessions' = pendingStartSessions \ {s}
    /\ startingSessions' = startingSessions \cup {s}
    /\ Clash(When(pool.streaming[s] \in Live, "lost"))

\* startRuntimeSession returns early: no agent or no session to start.
LaunchNothing(s, c) ==
    /\ Holding(s, c)
    /\ Finish(s, c, Retain(pool, s))
    /\ UNCHANGED clashes

\* The session that this call put in the map is still the one in the map.
Owns(s, c) == pool.streaming[s] = c

\* The runtime is built and its event loop runs.  A session that left the map
\* meanwhile has been aborted.
BuildOk(s, c) ==
    /\ call[s][c] = "building"
    /\ Finish(s, c, IF Owns(s, c) THEN [pool EXCEPT !.streaming[s] = "busy"] ELSE pool)
    /\ UNCHANGED clashes

\* The launch fails: the map entry is deleted by name, then the queue drained.
BuildFail(s, c) ==
    /\ call[s][c] = "building"
    /\ Update(Drain(Evict(pool, {s})), handler)
    /\ At(s, c, "failed")
    /\ Clash(When(pool.streaming[s] \in Live /\ ~Owns(s, c), "lost"))
    /\ UNCHANGED marks

\* The failure has been published.
Report(s, c) ==
    /\ call[s][c] = "failed"
    /\ Finish(s, c, pool)
    /\ UNCHANGED clashes

\* The start leaves the queue but its mark stays.
SlipMarkStays(s) ==
    /\ s \in pool.waiting
    /\ Update(Without(pool, {s}), handler)
    /\ At(s, "prompt", "none")
    /\ UNCHANGED <<marks, clashes>>

\* failQueuedPendingStart: the start leaves the queue, its prompt is answered
\* with a failure, and startStreamingSession returns.
TimeOutStart(s) ==
    /\ s \in pool.waiting
    /\ Update(Without(pool, {s}), handler)
    /\ At(s, "prompt", "none")
    /\ pendingStartSessions' = pendingStartSessions \ {s}
    /\ startingSessions' = startingSessions \ {s}
    /\ UNCHANGED clashes

-----------------------------------------------------------------------------
(* The prompt handler: handlePromptImmediate.                              *)

\* A prompt that joins the queue of a live session; a starting one stays so.
Delivered(p, s) ==
    [p EXCEPT !.streaming[s] = IF @ = "idle" THEN "busy" ELSE @]

\* A prompt is queued at once on a live session that needs no interrupt and no
\* restart; otherwise the handler keeps what it read and plans the route.
Arrive(s, lane) ==
    /\ handler[s].at = "free" /\ lane \in LanesOf(s)
    /\ \/ /\ pool.streaming[s] \in Live
          /\ Update(Delivered(pool, s), handler)
       \/ Update(pool, [handler EXCEPT ![s] =
             [at |-> "decide", lane |-> lane,
              saw |-> IF pool.streaming[s] = "none" THEN "absent" ELSE "present"]])
    /\ UNCHANGED <<call, marks, clashes>>

\* The route is planned and the handler resumes with the session it read.
Found(s, readings, stages) ==
    /\ handler[s].at = "decide"
    /\ handler[s].saw \in readings /\ pool.streaming[s] \in stages

\* Push to the live session, interrupting its turn or not.
Deliver(s) ==
    /\ Found(s, {"present"}, Live)
    /\ Update(Delivered(pool, s), Freed(s))
    /\ UNCHANGED <<call, marks, clashes>>

\* Another agent, provider or task settings: shut down, release without
\* draining and start again in the same slot, with no await between.
RestartInPlace(s) ==
    /\ Found(s, {"present"}, Live)
    /\ Update(Retain(Evict(pool, {s}), s), Freed(s))
    /\ Begin(s, "prompt", "granted") /\ Clash(Overlap(s, "prompt"))

\* Another model: applySessionModelChange releases the slot without draining,
\* and the handler awaits its result before it starts again.
SwapModel(s) ==
    /\ Found(s, {"present"}, Live)
    /\ Update(Evict(pool, {s}), [handler EXCEPT ![s].at = "swap"])
    /\ UNCHANGED <<call, marks, clashes>>

\* retainReleasedSlot takes the slot back whether or not it is still free.
TakeBack(s) ==
    /\ handler[s].at = "swap"
    /\ Update(Retain(pool, s), Freed(s))
    /\ Begin(s, "prompt", "granted") /\ Clash(Overlap(s, "prompt"))

\* No session was read, but a start of it waits or launches: the prompt joins
\* its stash, and an interactive one moves a waiting start to the front.
JoinStart(s) ==
    /\ Found(s, {"absent"}, Stages) /\ s \in pendingStartSessions \cup startingSessions
    /\ Update(IF s \in pendingStartSessions /\ handler[s].lane = "interactive"
              THEN Promote(pool, s) ELSE pool, Freed(s))
    /\ UNCHANGED <<call, marks, clashes>>

\* No session was read and none is starting: start one, or defer the prompt
\* (a bootstrap, or an after_task prompt while its task runs).
ColdStart(s) ==
    /\ Found(s, {"absent"}, Stages) /\ s \notin pendingStartSessions \cup startingSessions
    /\ StartFrom(pool, s, handler[s].lane, {})

Defer(s) ==
    /\ Found(s, {"absent"}, Stages) /\ s \notin pendingStartSessions \cup startingSessions
    /\ Update(pool, Freed(s))
    /\ UNCHANGED <<call, marks, clashes>>

\* The session that was read is done: its slot is released by name, even if
\* another session has taken the name, and a new one is started.
ReplaceDone(s) ==
    /\ \/ Found(s, {"departed"}, Stages)
       \/ Found(s, {"present"}, {"done"})
    /\ StartFrom(IF pool.streaming[s] = "none" THEN pool ELSE Drain(Evict(pool, {s})),
                 s, handler[s].lane, When(pool.streaming[s] \in Live, "lost"))

-----------------------------------------------------------------------------
(* The life of a session in the map.                                       *)

TurnEnd(s) ==
    /\ pool.streaming[s] = "busy"
    /\ Update([pool EXCEPT !.streaming[s] = "idle"], handler)
    /\ UNCHANGED <<call, marks, clashes>>

\* The event loop leaves its loop: `done` is set, then the provider closed.
EndLoop(s) ==
    /\ pool.streaming[s] \in {"idle", "busy"}
    /\ Update([pool EXCEPT !.streaming[s] = "done"], handler)
    /\ UNCHANGED <<call, marks, clashes>>

\* The event loop ends without draining.
SlipNoDrain(s) ==
    /\ pool.streaming[s] = "done"
    /\ Update(Evict(pool, {s}), handler)
    /\ UNCHANGED <<call, marks, clashes>>

\* The provider is closed and the loop still owns the map entry: delete it,
\* then drain.
Unload(s) ==
    /\ pool.streaming[s] = "done"
    /\ Update(Drain(Evict(pool, {s})), handler)
    /\ UNCHANGED <<call, marks, clashes>>

\* The same with an await between the two: the model broker is told that the
\* attempt is abandoned, or the operator that the restart limit is reached.
LeaveMap(s) ==
    /\ pool.streaming[s] = "done"
    /\ "restart" \in Callers /\ call[s]["restart"] = "none"
    /\ Update(Evict(pool, {s}), handler)
    /\ At(s, "restart", "freed")
    /\ UNCHANGED <<marks, clashes>>

GiveUp(s) ==
    /\ "restart" \in Callers /\ call[s]["restart"] = "freed"
    /\ At(s, "restart", "none")
    /\ Update(Drain(pool), handler)
    /\ UNCHANGED <<marks, clashes>>

\* restartStashedSession for the stashed turn of a loop that ended.
Resume(s) ==
    /\ "restart" \in Callers /\ call[s]["restart"] = "freed"
    /\ Update(Retain(pool, s), handler)
    /\ Begin(s, "restart", "granted") /\ Clash(Overlap(s, "restart"))

\* recoverIdleGapSession: a session with deliverable messages and no turn.
RecoverIdleGap(s) ==
    /\ pool.streaming[s] = "busy"
    /\ Update(Retain(Evict(pool, {s}), s), handler)
    /\ Begin(s, "gap", "granted") /\ Clash(Overlap(s, "gap"))

\* The same when nothing is stashed (the coordinator accepts no deliveries and
\* the session has no turn to keep successors of): the slot has been released
\* without draining, and restartStashedSession returns early.
RecoverNothing(s) ==
    /\ "gap" \in Callers /\ pool.streaming[s] = "busy"
    /\ Update(Evict(pool, {s}), handler)
    /\ UNCHANGED <<call, marks, clashes>>

\* applySessionModelChange from outside a handler, restarting the stash of a
\* session that has pending messages.
SwitchModel(s) ==
    /\ pool.streaming[s] \in Live \ {"idle"}
    /\ "restart" \in Callers /\ call[s]["restart"] = "none"
    /\ Update(Retain(Evict(pool, {s}), s), handler)
    /\ Begin(s, "restart", "granted") /\ Clash(Overlap(s, "restart"))

\* abortSession, an abort deferred past a tool, or a model change from outside
\* that does not restart: shut down, release, drain.
Abort(s) ==
    /\ s \in InMap(pool)
    /\ Update(Drain(Evict(pool, {s})), handler)
    /\ UNCHANGED <<call, marks, clashes>>

\* reclaimNonServingRuntimeSessions: done sessions, sessions idle or stuck for
\* too long, every idle observer and orphan task sessions are released, each
\* release draining the queue.  The starts it then expires are TimeOutStart.
Reclaim(gone) ==
    /\ gone # {} /\ gone \subseteq InMap(pool)
    /\ {s \in Sessions : pool.streaming[s] = "done"} \cup IdleObservers(pool) \subseteq gone
    /\ Update(Drain(Evict(pool, gone)), handler)
    /\ UNCHANGED <<call, marks, clashes>>

-----------------------------------------------------------------------------

HandlerStep(s) ==
    \/ Deliver(s) \/ RestartInPlace(s) \/ SwapModel(s) \/ TakeBack(s)
    \/ JoinStart(s) \/ ColdStart(s) \/ Defer(s) \/ ReplaceDone(s)

CallStep(s, c) ==
    Launch(s, c) \/ LaunchNothing(s, c) \/ BuildOk(s, c) \/ BuildFail(s, c) \/ Report(s, c)

LoopExit(s) == Unload(s) \/ LeaveMap(s) \/ GiveUp(s) \/ Resume(s)

Next ==
    \/ \E s \in Sessions :
          \/ \E lane \in Lanes : Arrive(s, lane)
          \/ HandlerStep(s)
          \/ \E c \in Callers : CallStep(s, c)
          \/ TimeOutStart(s)
          \/ TurnEnd(s) \/ EndLoop(s) \/ LoopExit(s)
          \/ RecoverIdleGap(s) \/ RecoverNothing(s) \/ SwitchModel(s) \/ Abort(s)
    \/ \E gone \in SUBSET Sessions : Reclaim(gone)

Spec == Init /\ [][Next]_vars

\* Promises that only wait for the event loop of the process are settled, and
\* the timer of a pending start fires: a start call goes on, if only because
\* somebody releases it.  Nothing is assumed of handlers, providers or users.
Advance(s, c) ==
    \/ CallStep(s, c)
    \/ c = "prompt" /\ TimeOutStart(s)
    \/ c = "restart" /\ (GiveUp(s) \/ Resume(s))

Fairness == \A s \in Sessions : \A c \in Callers : WF_vars(Advance(s, c))

FairSpec == Spec /\ Fairness

-----------------------------------------------------------------------------
(* Properties.                                                             *)

\* A name that takes a slot in this step; one that leaves the queue for it,
\* other than by being promoted in this step.
TakesSlot(s) == s \notin Holders(pool) /\ s \in Holders(pool')
Drained(s)   == s \in pool.waiting \ pool'.waiting /\ TakesSlot(s) /\ handler'[s] = handler[s]

\* A restart that has let go of its slot and will take it back unchecked.
BetweenSlots(s) ==
    handler[s].at = "swap" \/ ("restart" \in Callers /\ call[s]["restart"] = "freed")

\* "Maximum number of live runtime sessions this daemon can keep active at
\* once" (docs/start/configuration.mdx:42).
WithinMax == Cardinality(Holders(pool)) <= Max

\* Admission never overfills the pool, whatever launches, fails, drains,
\* reclaims or is aborted in between: the only step that grows it past its
\* maximum is a restart that takes back the slot it let go of across an await
\* (retainReleasedSlot skips the capacity check).
OnlyRestartsOverfill ==
    [][\/ Cardinality(Holders(pool')) <= Max
       \/ Holders(pool') \subseteq Holders(pool)
       \/ \E s \in Sessions :
             BetweenSlots(s) /\ Holders(pool') = Holders(pool) \cup {s}
       \/ clashes # {}]_vars

\* A start of the background lane that takes a slot, from the queue or at
\* once, leaves the slots reserved to interactive starts free ("Background/task
\* starts respect reserved interactive capacity", runtime/CHECKS.md:47).  Only
\* a restart keeps its slot whatever its lane, and an interactive handler may
\* take a reserved one after it has released another and drained.
StartedNow(lane) == {s \in Sessions : handler'[s] # handler[s] /\ handler[s].lane = lane}

BackgroundLeavesRoom ==
    [][\A s \in Sessions :
          /\ TakesSlot(s) /\ ~BetweenSlots(s)
          /\ \/ Drained(s) /\ s \notin pool.urgent
             \/ s \in StartedNow("background")
          => Cardinality(Holders(pool') \ StartedNow("interactive")) <= Max - Reserved]_vars

\* The queue never serves a background start while it leaves an interactive
\* start waiting, and serves each lane in the order of arrival, a promoted
\* start first (drainPendingStarts).
ServedInOrder ==
    [][\A s, t \in Sessions :
          Drained(s) /\ t \in pool.waiting /\ t \in pool'.waiting =>
              /\ t \in pool.urgent => s \in pool.urgent
              /\ (s \in pool.urgent) = (t \in pool.urgent) => <<t, s>> \notin pool.ahead]_vars

\* The marks that decide whether a prompt starts a session or joins its stash,
\* and the reservations that count against the pool, are exactly those of the
\* start calls in progress: none leaks, on any path out of a start (launched,
\* failed, nothing to launch, throttled, timed out, aborted meanwhile).  In
\* particular a session counts as starting only with its slot reserved
\* (runtime/SPEC.md:81, runtime/RUNBOOK.md:47).
Calls(stages) == {s \in Sessions : \E c \in Callers : call[s][c] \in stages}

StartsAccountedFor ==
    clashes = {} =>
        /\ pendingStartSessions = Calls({"queued", "granted"})
        /\ startingSessions = Calls({"building", "failed"})
        /\ pool.reserved = Calls({"queued", "granted", "building", "failed"}) \ pool.waiting
        /\ pool.waiting \subseteq {s \in Sessions : call[s]["prompt"] = "queued"}

\* A start that waits beside a slot it could have, other than one that a
\* restart between its slots will take back.
Stranded(s) ==
    /\ s \in pool.waiting
    /\ HasSlot(Holders(pool) \cup {t \in Sessions : BetweenSlots(t)}, s \in pool.urgent)

\* No step strands a start: whatever lets go of a slot drains the queue or takes
\* the slot back.  Two do not: the reclaim of idle observers for another start,
\* and an idle-gap recovery that finds nothing to restart; what they strand is
\* served by the next drain, or times out.
NoStrandedStart ==
    [][Observers = {} =>
          \A s \in Sessions :
              Stranded(s)' => Stranded(s) \/ \E t \in Sessions : RecoverNothing(t)]_vars

\* Every start comes to an end: it launches, fails, finds nothing to launch or
\* times out, whoever it waits for.
StartsSettle ==
    \A s \in Sessions : \A c \in Callers : call[s][c] # "none" ~> call[s][c] = "none"

=============================================================================
