---------------------------- MODULE PromptIntake ----------------------------
(***************************************************************************)
(* How session prompts get from the SESSION_PROMPTS work queue             *)
(* (src/omni/session-stream.ts) to the runtimes of the daemons:            *)
(* RuntimePromptSubscription (src/runtime/prompt-subscription.ts) with the *)
(* prompt handler and the shutdown of the dispatcher                       *)
(* (src/runtime/session-dispatcher.ts).                                    *)
(*                                                                         *)
(* A daemon pulls prompts into a buffer of its NATS client, looks at each  *)
(* once, and chains it behind the last prompt of its session.  A chained   *)
(* prompt is dispatched when the one before it is done with, and           *)
(* acknowledged when the dispatcher returns; if that throws, the prompt is *)
(* handed back, to be delivered again later.  What the dispatcher decides  *)
(* by the state of its pool is a free choice here (SessionPool is about    *)
(* it), and so is when a prompt is too old: an age cannot be told from a   *)
(* delay.  A prompt is dropped after max_age, 60 s, however often it was   *)
(* delivered, and so long before the 300 s of ack_wait after which it      *)
(* would be delivered again without being handed back.                     *)
(***************************************************************************)
EXTENDS Integers, Sequences, FiniteSets

CONSTANTS
    MaxPrompts,  \* bound: prompts that are published
    MaxFaults,   \* bound: failures, drops, deferrals, lapses and ends
    MaxDaemons,  \* bound: processes; one that restarts is another
    Plain,       \* sessions without a debounce
    Debounced,   \* sessions whose agent has a debounce
    Null

ASSUME IntakeAssumption ==
    /\ MaxPrompts \in Nat /\ MaxFaults \in Nat /\ MaxDaemons \in Nat
    /\ Plain \cap Debounced = {}
    /\ Null \notin Nat \cup Plain \cup Debounced

Prompts  == 1..MaxPrompts  \* in the order in which they are published
Daemons  == 1..MaxDaemons  \* in the order in which they start
Sessions == Plain \cup Debounced

VARIABLES
    session,   \* the session of each prompt
    stream,    \* what the stream and its consumer know of each prompt
    by,        \* the daemon each prompt was last delivered to
    life,      \* of each daemon: see Lives
    pulling,   \* the daemons whose pull loop is open
    buffer,    \* delivered to the client, not yet seen by the loop
    stage,     \* of each prompt, in the lanes of each daemon
    after,     \* the prompt before it, until that is done with
    tail,      \* sessionDispatchTails
    held,      \* debounceStates and deferredAfterTaskStarts
    flushing,  \* what the flushes in progress have left of them
    consumed,  \* history: the prompts that were given to a runtime
    fate,      \* history: see Fates
    detoured,  \* history: the prompts that were handed back or deferred
    faults     \* how many there were

queue   == <<session, stream, by>>
intake  == <<life, pulling, buffer>>
lanes   == <<stage, after, tail>>
batches == <<held, flushing>>
history == <<consumed, fate, detoured>>
vars    == <<queue, intake, lanes, batches, history, faults>>

\* "ready" was never delivered, "back" was handed back and is delivered again,
\* with a delay or without, "out" is delivered and open.
Streams == {"new", "ready", "back", "out", "acked", "expired"}

\* "lapsed": the lease of the boot is over and nobody has noticed yet.
\* "leaving": isRunning() is false.
Lives == {"off", "up", "lapsed", "leaving", "dead"}

\* A dispatch waits for the one before it, for its route, for a slot, or for
\* its launch; or the dispatcher has returned.
Stages == {"none", "chained", "deciding", "queued", "starting", "returned"}

\* "told": the prompt failed and an event said so.  "unserved": the dispatcher
\* had nothing to serve it with, and returned as if it had.  "dropped": with a
\* flush that failed.  "stranded": in a buffer when the pull ended.
Fates == {"open", "told", "unserved", "dropped", "stranded"}

Chains == [Prompts -> Prompts \cup {Null}]

TypeOK ==
    /\ session \in [Prompts -> Sessions \cup {Null}]
    /\ stream \in [Prompts -> Streams]
    /\ \A p \in Prompts : session[p] = Null <=> stream[p] = "new"
    /\ by \in [Prompts -> Daemons \cup {Null}]
    /\ life \in [Daemons -> Lives]
    /\ pulling \in [Daemons -> BOOLEAN]
    /\ buffer \in [Daemons -> Seq(Prompts)]
    /\ stage \in [Daemons -> [Prompts -> Stages]]
    /\ after \in [Daemons -> Chains]
    /\ tail \in [Daemons -> [Sessions -> Prompts \cup {Null}]]
    /\ held \in [Daemons -> SUBSET Prompts]
    /\ flushing \in [Daemons -> SUBSET Prompts]
    /\ consumed \in Seq(Prompts)
    /\ fate \in [Prompts -> Fates]
    /\ detoured \subseteq Prompts
    /\ faults \in 0..MaxFaults

Init ==
    /\ session = [p \in Prompts |-> Null]
    /\ stream = [p \in Prompts |-> "new"]
    /\ by = [p \in Prompts |-> Null]
    /\ life = [d \in Daemons |-> "off"]
    /\ pulling = [d \in Daemons |-> FALSE]
    /\ buffer = [d \in Daemons |-> <<>>]
    /\ stage = [d \in Daemons |-> [p \in Prompts |-> "none"]]
    /\ after = [d \in Daemons |-> [p \in Prompts |-> Null]]
    /\ tail = [d \in Daemons |-> [s \in Sessions |-> Null]]
    /\ held = [d \in Daemons |-> {}]
    /\ flushing = [d \in Daemons |-> {}]
    /\ consumed = <<>>
    /\ fate = [p \in Prompts |-> "open"]
    /\ detoured = {}
    /\ faults = 0

Buffered(d) == {buffer[d][i] : i \in DOMAIN buffer[d]}
Running(d)  == life[d] \in {"up", "lapsed"}

Fault == faults < MaxFaults /\ faults' = faults + 1

-----------------------------------------------------------------------------
(* The work queue.                                                         *)

\* The prompt is published without the name of its session.
SlipPublish(p, s) ==
    /\ stream[p] = "new" /\ \A q \in 1..(p - 1) : stream[q] \notin {"new", "ready"}
    /\ stream' = [stream EXCEPT ![p] = "ready"]
    /\ UNCHANGED <<session, by, intake, lanes, batches, history, faults>>

\* A prompt that is published and not delivered is as one that is published
\* later, so one such prompt at a time is enough.
Publish(p, s) ==
    /\ stream[p] = "new" /\ \A q \in 1..(p - 1) : stream[q] \notin {"new", "ready"}
    /\ stream' = [stream EXCEPT ![p] = "ready"]
    /\ session' = [session EXCEPT ![p] = s]
    /\ UNCHANGED <<by, intake, lanes, batches, history, faults>>

\* One durable consumer serves the pulls of all daemons.
Deliver(d, p) ==
    /\ pulling[d] /\ stream[p] \in {"ready", "back"}
    /\ stream' = [stream EXCEPT ![p] = "out"]
    /\ by' = [by EXCEPT ![p] = d]
    /\ buffer' = [buffer EXCEPT ![d] = Append(@, p)]
    /\ UNCHANGED <<session, life, pulling, lanes, batches, history, faults>>

\* One that expires before it is delivered is as one that is never delivered.
Expire(p) ==
    /\ stream[p] = "out"
    /\ stream' = [stream EXCEPT ![p] = "expired"]
    /\ UNCHANGED <<session, by, intake, lanes, batches, history, faults>>

\* An answer to a prompt that is no longer open is ignored.
Answer(p, status) ==
    stream' = [stream EXCEPT ![p] = IF @ = "out" THEN status ELSE @]

HandBack(p) ==
    /\ Answer(p, "back")
    /\ detoured' = detoured \cup {p}

-----------------------------------------------------------------------------
(* The pull loop.                                                          *)

\* The tail is set, but not waited for.
SlipSchedule(d) ==
    /\ life[d] = "up" /\ buffer[d] # <<>>
    /\ LET p == Head(buffer[d])
       IN  /\ stage' = [stage EXCEPT ![d][p] = "chained"]
           /\ tail' = [tail EXCEPT ![d][session[p]] = p]
    /\ buffer' = [buffer EXCEPT ![d] = Tail(@)]
    /\ UNCHANGED <<queue, life, pulling, after, batches, history, faults>>

\* schedulePromptDispatch: the prompt is chained to the tail of its session.
Schedule(d) ==
    /\ life[d] = "up" /\ buffer[d] # <<>>
    /\ LET p == Head(buffer[d])
           s == session[p]
       IN  /\ stage' = [stage EXCEPT ![d][p] = "chained"]
           /\ after' = [after EXCEPT ![d][p] = tail[d][s]]
           /\ tail' = [tail EXCEPT ![d][s] = p]
    /\ buffer' = [buffer EXCEPT ![d] = Tail(@)]
    /\ UNCHANGED <<queue, life, pulling, batches, history, faults>>

\* Prompts that are chained already are handed back as well.
SlipTurnAwayChained(d) ==
    /\ life[d] \in {"lapsed", "leaving"} /\ buffer[d] # <<>>
    /\ LET back == {Head(buffer[d])} \cup {p \in Prompts : stage[d][p] = "chained"}
       IN  /\ stream' = [p \in Prompts |->
                            IF p \in back /\ stream[p] = "out" THEN "back" ELSE stream[p]]
           /\ detoured' = detoured \cup back
    /\ pulling' = [pulling EXCEPT ![d] = FALSE]
    /\ fate' = [p \in Prompts |->
                   IF p \in Buffered(d) \ {Head(buffer[d])} THEN "stranded" ELSE fate[p]]
    /\ buffer' = [buffer EXCEPT ![d] = <<>>]
    /\ UNCHANGED <<session, by, life, lanes, batches, consumed, faults>>

\* The first prompt that comes when the daemon is fenced or stopped is handed
\* back and ends the loop; the rest of the buffer goes with the loop.
TurnAway(d) ==
    /\ life[d] \in {"lapsed", "leaving"} /\ buffer[d] # <<>>
    /\ HandBack(Head(buffer[d]))
    /\ pulling' = [pulling EXCEPT ![d] = FALSE]
    /\ fate' = [p \in Prompts |->
                   IF p \in Buffered(d) \ {Head(buffer[d])} THEN "stranded" ELSE fate[p]]
    /\ buffer' = [buffer EXCEPT ![d] = <<>>]
    /\ UNCHANGED <<session, by, life, lanes, batches, consumed, faults>>

\* The pull ends with an error, and what is in the buffer with it.
PullFails(d) ==
    /\ Running(d) /\ pulling[d]
    /\ pulling' = [pulling EXCEPT ![d] = FALSE]
    /\ fate' = [p \in Prompts |-> IF p \in Buffered(d) THEN "stranded" ELSE fate[p]]
    /\ buffer' = [buffer EXCEPT ![d] = <<>>]
    /\ Fault
    /\ UNCHANGED <<queue, life, lanes, batches, consumed, detoured>>

\* The loop renews its pull, or the health check opens another loop: it does
\* so even after the fence.
Resubscribe(d) ==
    /\ Running(d) /\ ~pulling[d]
    /\ pulling' = [pulling EXCEPT ![d] = TRUE]
    /\ UNCHANGED <<queue, life, buffer, lanes, batches, history, faults>>

-----------------------------------------------------------------------------
(* The lanes: dispatchPrompt and the dispatcher's handlePrompt.            *)

\* A runtime takes the prompt.  One that starts, or lives, in a daemon that is
\* leaving never runs a turn again.
Consume(d, p) ==
    consumed' = IF Running(d) THEN Append(consumed, p) ELSE consumed

\* The tail is cleared whoever it is.
SlipSettle(d, p) ==
    /\ stage' = [stage EXCEPT ![d][p] = "none"]
    /\ after' = [after EXCEPT ![d] = [q \in Prompts |-> IF @[q] = p THEN Null ELSE @[q]]]
    /\ tail' = [tail EXCEPT ![d][session[p]] = Null]

\* The promise of the dispatch is resolved: the next of its lane may begin.
Settle(d, p) ==
    /\ stage' = [stage EXCEPT ![d][p] = "none"]
    /\ after' = [after EXCEPT ![d] = [q \in Prompts |-> IF @[q] = p THEN Null ELSE @[q]]]
    /\ tail' = [tail EXCEPT ![d][session[p]] = IF @ = p THEN Null ELSE @]

To(d, p, from, to) ==
    /\ stage[d][p] = from
    /\ stage' = [stage EXCEPT ![d][p] = to]
    /\ UNCHANGED <<after, tail>>

\* The prompt is acknowledged before it is handled.
SlipAckFirst(d, p) ==
    /\ stage[d][p] = "chained" /\ after[d][p] = Null
    /\ Answer(p, "acked")
    /\ \/ /\ session[p] \in Debounced
          /\ To(d, p, "chained", "returned")
          /\ held' = [held EXCEPT ![d] = @ \cup {p}]
       \/ /\ session[p] \in Plain
          /\ To(d, p, "chained", "deciding")
          /\ UNCHANGED held
    /\ UNCHANGED <<session, by, intake, flushing, history, faults>>

\* A debounced prompt is only kept, and the handler returns at once.
Begin(d, p) ==
    /\ after[d][p] = Null
    /\ \/ /\ session[p] \in Debounced
          /\ To(d, p, "chained", "returned")
          /\ held' = [held EXCEPT ![d] = @ \cup {p}]
       \/ /\ session[p] \in Plain
          /\ To(d, p, "chained", "deciding")
          /\ UNCHANGED held
    /\ UNCHANGED <<queue, intake, flushing, history, faults>>

\* handlePromptImmediate: a session that is live takes the prompt, else it is
\* started, or waits for a slot to be started.  See Defer and Unserved.
Decide(d, p) ==
    /\ \/ To(d, p, "deciding", "returned") /\ Consume(d, p)
       \/ To(d, p, "deciding", "queued") /\ UNCHANGED consumed
       \/ To(d, p, "deciding", "starting") /\ UNCHANGED consumed
    /\ UNCHANGED <<queue, intake, batches, fate, detoured, faults>>

Grant(d, p) ==
    /\ To(d, p, "queued", "starting")
    /\ UNCHANGED <<queue, intake, batches, history, faults>>

\* failQueuedPendingStart.
TimeOut(d, p) ==
    /\ To(d, p, "queued", "returned")
    /\ fate' = [fate EXCEPT ![p] = "told"]
    /\ UNCHANGED <<queue, intake, batches, consumed, detoured, faults>>

Launch(d, p) ==
    /\ To(d, p, "starting", "returned")
    /\ Consume(d, p)
    /\ UNCHANGED <<queue, intake, batches, fate, detoured, faults>>

\* An after_task prompt waits for the end of a task, if no runtime is there.
Defer(d, p) ==
    /\ To(d, p, "deciding", "returned")
    /\ held' = [held EXCEPT ![d] = @ \cup {p}]
    /\ detoured' = detoured \cup {p}
    /\ Fault
    /\ UNCHANGED <<queue, intake, flushing, consumed, fate>>

\* The dispatcher returns without a word: no agent is configured for the
\* session, nothing is left of a restart to resume, or the pool has no room for
\* an observer.
Unserved(d, p) ==
    /\ \/ To(d, p, "chained", "returned") /\ after[d][p] = Null
       \/ To(d, p, "deciding", "returned")
       \/ To(d, p, "starting", "returned")
    /\ fate' = [fate EXCEPT ![p] = "unserved"]
    /\ Fault
    /\ UNCHANGED <<queue, intake, batches, consumed, detoured>>

\* isSqliteCapacityError: there is no second try.
OutOfSpace(d, p) ==
    /\ \/ To(d, p, "deciding", "returned")
       \/ To(d, p, "starting", "returned")
    /\ fate' = [fate EXCEPT ![p] = "told"]
    /\ Fault
    /\ UNCHANGED <<queue, intake, batches, consumed, detoured>>

\* The dispatcher throws.
Fails(d, p) ==
    /\ stage[d][p] \in {"deciding", "starting"}
    /\ HandBack(p)
    /\ Settle(d, p)
    /\ Fault
    /\ UNCHANGED <<session, by, intake, batches, consumed, fate>>

\* A prompt that is gone cannot be acknowledged, and its lane waits for it.
SlipAck(d, p) ==
    /\ stage[d][p] = "returned" /\ stream[p] = "out"
    /\ Answer(p, "acked")
    /\ Settle(d, p)
    /\ UNCHANGED <<session, by, intake, batches, history, faults>>

Ack(d, p) ==
    /\ stage[d][p] = "returned"
    /\ Answer(p, "acked")
    /\ Settle(d, p)
    /\ UNCHANGED <<session, by, intake, batches, history, faults>>

-----------------------------------------------------------------------------
(* Debounced and deferred prompts are acknowledged already, or soon.       *)

\* flushDebounce takes all that is gathered of a session, and the end of a task
\* all that is deferred: each is a part of what is held.
Flush(d, s) == \E batch \in SUBSET {p \in held[d] : session[p] = s} :
    /\ batch # {}
    /\ held' = [held EXCEPT ![d] = @ \ batch]
    /\ flushing' = [flushing EXCEPT ![d] = @ \cup batch]
    /\ UNCHANGED <<queue, intake, lanes, history, faults>>

FlushOne(d, p) ==
    /\ p \in flushing[d]
    /\ flushing' = [flushing EXCEPT ![d] = @ \ {p}]
    /\ Consume(d, p)
    /\ UNCHANGED <<queue, intake, lanes, held, fate, detoured, faults>>

\* It is deferred, times out in the queue of the pool, or is not served.
FlushNone(d, p) ==
    /\ p \in flushing[d]
    /\ flushing' = [flushing EXCEPT ![d] = @ \ {p}]
    /\ \/ /\ held' = [held EXCEPT ![d] = @ \cup {p}] /\ Running(d)
          /\ detoured' = detoured \cup {p}
          /\ UNCHANGED <<fate, faults>>
       \/ /\ \E end \in {"told", "unserved"} : fate' = [fate EXCEPT ![p] = end]
          /\ Fault
          /\ UNCHANGED <<held, detoured>>
    /\ UNCHANGED <<queue, intake, lanes, consumed>>

\* The rest of a flush goes with the prompt that fails.
FlushFails(d, rest) ==
    /\ rest # {} /\ rest \subseteq flushing[d]
    /\ \A p, q \in rest : session[p] = session[q]
    /\ flushing' = [flushing EXCEPT ![d] = @ \ rest]
    /\ fate' = [p \in Prompts |-> IF p \in rest THEN "dropped" ELSE fate[p]]
    /\ Fault
    /\ UNCHANGED <<queue, intake, lanes, held, consumed, detoured>>

-----------------------------------------------------------------------------
(* The life of a daemon.                                                   *)

\* A daemon starts when the one before it has stopped, or is thought to have:
\* two that are both up share nothing but the queue.
Boot(d) ==
    /\ life[d] = "off"
    /\ \A e \in 1..(d - 1) : life[e] \notin {"off", "up"}
    /\ life' = [life EXCEPT ![d] = "up"]
    /\ pulling' = [pulling EXCEPT ![d] = TRUE]
    /\ UNCHANGED <<queue, buffer, lanes, batches, history, faults>>

Lapse(d) ==
    /\ life[d] = "up"
    /\ life' = [life EXCEPT ![d] = "lapsed"]
    /\ Fault
    /\ UNCHANGED <<queue, pulling, buffer, lanes, batches, history>>

\* stop(), or handleCrashRecoveryOwnershipLost.  shutdownAll resolves the starts
\* that wait, as if they had been served, and forgets what is held.
Leave(d) ==
    /\ Running(d)
    /\ life' = [life EXCEPT ![d] = "leaving"]
    /\ stage' = [stage EXCEPT ![d] = [p \in Prompts |->
                    IF @[p] = "queued" THEN "returned" ELSE @[p]]]
    /\ held' = [held EXCEPT ![d] = {}]
    /\ Fault
    /\ UNCHANGED <<queue, pulling, buffer, after, tail, flushing, history>>

\* The process ends, after Leave or without it.
Die(d) ==
    /\ life[d] \notin {"off", "dead"}
    /\ life' = [life EXCEPT ![d] = "dead"]
    /\ pulling' = [pulling EXCEPT ![d] = FALSE]
    /\ buffer' = [buffer EXCEPT ![d] = <<>>]
    /\ stage' = [stage EXCEPT ![d] = [p \in Prompts |-> "none"]]
    /\ after' = [after EXCEPT ![d] = [p \in Prompts |-> Null]]
    /\ tail' = [tail EXCEPT ![d] = [s \in Sessions |-> Null]]
    /\ held' = [held EXCEPT ![d] = {}]
    /\ flushing' = [flushing EXCEPT ![d] = {}]
    /\ IF life[d] = "leaving" THEN UNCHANGED faults ELSE Fault
    /\ UNCHANGED <<queue, history>>

-----------------------------------------------------------------------------

\* What the promises and timers of a dispatch do.
Dispatch(d, p) ==
    \/ Begin(d, p) \/ Decide(d, p) \/ Grant(d, p) \/ TimeOut(d, p)
    \/ Launch(d, p) \/ Defer(d, p) \/ Unserved(d, p) \/ OutOfSpace(d, p)
    \/ Fails(d, p) \/ Ack(d, p)

Next ==
    \/ \E p \in Prompts :
          \/ Expire(p)
          \/ \E s \in Sessions : Publish(p, s)
          \/ \E d \in Daemons : Deliver(d, p) \/ Dispatch(d, p)
                                  \/ FlushOne(d, p) \/ FlushNone(d, p)
    \/ \E d \in Daemons :
          \/ Schedule(d) \/ TurnAway(d) \/ PullFails(d) \/ Resubscribe(d)
          \/ Boot(d) \/ Lapse(d) \/ Leave(d) \/ Die(d)
          \/ \E s \in Sessions : Flush(d, s)
          \/ \E rest \in SUBSET Prompts : FlushFails(d, rest)

Spec == Init /\ [][Next]_vars

Fairness == \A d \in Daemons, p \in Prompts : WF_vars(Dispatch(d, p))
FairSpec == Spec /\ Fairness

-----------------------------------------------------------------------------
(* Properties.                                                             *)

Consumed == {consumed[i] : i \in DOMAIN consumed}

\* "Keep the JetStream work item durable until the dispatcher has accepted it"
\* (prompt-subscription.ts:254): a prompt that is acknowledged was given to a
\* runtime, is still kept by a daemon that runs, or was lost in one of four
\* ways: an event told of its end, its flush failed, the daemon went away with
\* it, or it was not served, the one loss nobody hears of and which the code has
\* beside that comment.  One that is open is in the hands of the daemon it was
\* delivered to, or was stranded.
LossesAreKnown == \A p \in Prompts :
    LET d == by[p]
    IN  /\ stream[p] = "acked" =>
              \/ p \in Consumed \/ fate[p] \in {"told", "dropped", "unserved"}
              \/ p \in held[d] \cup flushing[d] \/ ~Running(d)
        /\ stream[p] = "out" =>
              \/ p \in Buffered(d) \/ stage[d][p] # "none"
              \/ fate[p] = "stranded" \/ life[d] = "dead"

\* "Each message is delivered to exactly one consumer" (session-stream.ts:8): a
\* prompt is in one place, be it the queue, a buffer or a lane, and no prompt is
\* given to runtimes twice, whatever fails and whoever fences it.
InOnePlace ==
    /\ \A p \in Prompts :
          LET hands == {d \in Daemons : p \in Buffered(d) \/ stage[d][p] # "none"}
          IN  /\ \A d, e \in hands : d = e
              /\ stream[p] \in {"new", "ready", "back"} => hands = {}
    /\ \A i, j \in DOMAIN consumed : consumed[i] = consumed[j] => i = j

\* The lanes never fork: a daemon dispatches one prompt of a session at a time,
\* and the next to come will wait behind all that are there, however those that
\* were there came and went (the identity check of schedulePromptDispatch).
LanesAreChains == \A d \in Daemons, s \in Sessions :
    LET lane == {p \in Prompts : session[p] = s /\ stage[d][p] # "none"}
    IN  /\ tail[d][s] \in IF lane = {} THEN {Null} ELSE lane
        /\ \A p, q \in lane : after[d][p] = Null /\ after[d][q] = Null => p = q

\* "Keep ordering within one session" (prompt-subscription.ts:153): a runtime
\* gets the prompts of a session in the order of publication, except those
\* that were handed back, deferred, or went to different daemons, and except in
\* a debounced session.
SessionOrder == \A i, j \in DOMAIN consumed :
    LET p == consumed[i]
        q == consumed[j]
    IN  /\ i < j /\ session[p] = session[q] /\ session[p] \in Plain
        /\ by[p] = by[q] /\ {p, q} \cap detoured = {}
        => p < q

\* No lane gets stuck behind a prompt that failed, waited or was given up: as
\* long as its daemon lives, each prompt leaves its lane.
LanesMove == \A d \in Daemons, p \in Prompts :
    stage[d][p] # "none" ~> stage[d][p] = "none"

=============================================================================
