------------------------- MODULE PromptIntakeProofs -------------------------
(* Proofs about PromptIntake, for any prompts, sessions and daemons.       *)
EXTENDS PromptIntake, TLAPS

-----------------------------------------------------------------------------
(* The inductive invariant.                                                *)

Elements(seq) == {seq[i] : i \in DOMAIN seq}
Distinct(seq) == \A i, j \in DOMAIN seq : seq[i] = seq[j] => i = j

Hand(d, p) == p \in Buffered(d) \/ stage[d][p] # "none"

\* Who has a prompt in hand is the daemon it was delivered to last, and it is
\* either in the buffer, once, or in a lane.
HandsOK ==
    /\ \A p \in Prompts : stream[p] \in {"out", "acked", "expired"} => by[p] \in Daemons
    /\ \A d \in Daemons :
          /\ Distinct(buffer[d])
          /\ pulling[d] => life[d] \notin {"off", "dead"}
          /\ \A p \in Prompts :
                /\ Hand(d, p) => by[p] = d /\ stream[p] \in {"out", "expired"}
                /\ p \in Buffered(d) => stage[d][p] = "none"
                /\ by[p] = d => life[d] # "off"

\* No dispatch of the prompt is still to come.
Spent(p) ==
    /\ stream[p] \in {"out", "acked", "expired"}
    /\ \A d \in Daemons : p \notin Buffered(d) /\ stage[d][p] \in {"none", "returned"}

\* What was given to a runtime, what is held back and what was stranded is not
\* dispatched again.
ConsumedOK == Distinct(consumed) /\ \A p \in Consumed : Spent(p)

DebouncedOK == \A d \in Daemons :
    /\ held[d] \cap flushing[d] = {}
    /\ \A p \in held[d] \cup flushing[d] :
          Spent(p) /\ by[p] = d /\ p \notin Consumed /\ fate[p] # "stranded"

StrandedOK == \A p \in Prompts : fate[p] = "stranded" =>
    stream[p] \in {"out", "expired"} /\ \A d \in Daemons : ~Hand(d, p)

\* A dispatch that has returned did what its acknowledgement promises.
ReturnedOK == \A d \in Daemons, p \in Prompts :
    stage[d][p] = "returned" /\ Running(d) =>
        \/ p \in Consumed \/ fate[p] \in {"told", "dropped", "unserved"}
        \/ p \in held[d] \cup flushing[d]

Core ==
    /\ TypeOK /\ HandsOK /\ ConsumedOK /\ DebouncedOK /\ StrandedOK
    /\ ReturnedOK /\ LossesAreKnown

-----------------------------------------------------------------------------
(* Buffers and what was consumed.                                          *)

\* A sequence without repetitions that gets a new element, or loses its first.
LEMMA AppendDistinct ==
    ASSUME NEW S, NEW seq \in Seq(S), NEW x \in S,
           Distinct(seq), x \notin Elements(seq)
    PROVE  /\ Distinct(Append(seq, x))
           /\ Elements(Append(seq, x)) =
                 Elements(seq) \cup {x}
<1> DEFINE new == Append(seq, x)
<1>1. /\ DOMAIN seq = 1..Len(seq) /\ Len(seq) \in Nat /\ new \in Seq(S)
      /\ DOMAIN new = 1..(Len(seq) + 1)
      /\ \A i \in 1..Len(seq) : new[i] = seq[i]
      /\ new[Len(seq) + 1] = x
  OBVIOUS
<1>2. \A i \in DOMAIN new : i \in DOMAIN seq \/ i = Len(seq) + 1
  BY <1>1
<1> HIDE DEF new
<1>3. Distinct(new)
  <2>1. SUFFICES ASSUME NEW i \in DOMAIN new, NEW j \in DOMAIN new, new[i] = new[j]
                 PROVE  i = j
    BY DEF Distinct
  <2>2. \A k \in DOMAIN seq : new[k] = seq[k] /\ seq[k] # x
    BY <1>1 DEF Elements
  <2> QED
    BY <1>1, <1>2, <2>1, <2>2 DEF Distinct
<1>4. Elements(new) = Elements(seq) \cup {x}
  BY <1>1, <1>2 DEF Elements
<1> QED
  BY <1>3, <1>4 DEF new

LEMMA TailDistinct ==
    ASSUME NEW S, NEW seq \in Seq(S), seq # <<>>, Distinct(seq)
    PROVE  /\ Distinct(Tail(seq)) /\ Tail(seq) \in Seq(S)
           /\ Head(seq) \in Elements(seq)
           /\ Elements(Tail(seq)) =
                 Elements(seq) \ {Head(seq)}
<1> DEFINE new == Tail(seq)
<1>1. /\ DOMAIN seq = 1..Len(seq) /\ Len(seq) \in Nat /\ Len(seq) > 0 /\ new \in Seq(S)
      /\ DOMAIN new = 1..(Len(seq) - 1)
      /\ \A i \in 1..(Len(seq) - 1) : new[i] = seq[i + 1]
      /\ Head(seq) = seq[1]
  OBVIOUS
<1>2. \A i \in DOMAIN seq : i = 1 \/ (i - 1 \in DOMAIN new /\ seq[i] = new[i - 1])
  BY <1>1
<1>3. \A i \in DOMAIN new : i + 1 \in DOMAIN seq /\ new[i] = seq[i + 1] /\ i + 1 # 1
  BY <1>1
<1> HIDE DEF new
<1>4. Distinct(new)
  <2>1. SUFFICES ASSUME NEW i \in DOMAIN new, NEW j \in DOMAIN new, new[i] = new[j]
                 PROVE  i = j
    BY DEF Distinct
  <2>2. i + 1 = j + 1
    BY <1>3, <2>1 DEF Distinct
  <2> QED
    BY <1>1, <2>1, <2>2
<1>5. \A i \in DOMAIN new : new[i] # Head(seq)
  BY <1>1, <1>3 DEF Distinct
<1>6. Elements(new) = Elements(seq) \ {Head(seq)}
  BY <1>1, <1>2, <1>3, <1>5 DEF Elements
<1>7. Head(seq) \in Elements(seq)
  BY <1>1 DEF Elements
<1> QED
  BY <1>1, <1>4, <1>6, <1>7, Zenon DEF new

\* What the buffers hold after a step, by the way it changes them.
LEMMA Buffers ==
    ASSUME TypeOK, HandsOK, NEW d \in Daemons
    PROVE  /\ Buffered(d) \subseteq Prompts
           /\ UNCHANGED buffer =>
                 \A e \in Daemons : Buffered(e)' = Buffered(e) /\ Distinct(buffer[e])'
           /\ buffer' = [buffer EXCEPT ![d] = <<>>] => \A e \in Daemons :
                 /\ Buffered(e)' = IF e = d THEN {} ELSE Buffered(e)
                 /\ Distinct(buffer[e])'
           /\ \A p \in Prompts \ Buffered(d) :
                 buffer' = [buffer EXCEPT ![d] = Append(@, p)] => \A e \in Daemons :
                    /\ Buffered(e)' = IF e = d THEN Buffered(d) \cup {p} ELSE Buffered(e)
                    /\ Distinct(buffer[e])'
           /\ buffer[d] # <<>> => Head(buffer[d]) \in Buffered(d)
           /\ buffer[d] # <<>> /\ buffer' = [buffer EXCEPT ![d] = Tail(@)] =>
                 \A e \in Daemons :
                    /\ Buffered(e)' =
                          IF e = d THEN Buffered(d) \ {Head(buffer[d])} ELSE Buffered(e)
                    /\ Distinct(buffer[e])'
<1>1. \A e \in Daemons : /\ buffer[e] \in Seq(Prompts) /\ Distinct(buffer[e])
                         /\ Buffered(e) = Elements(buffer[e])
                         /\ Buffered(e)' = Elements(buffer'[e])
  BY DEF TypeOK, HandsOK, Buffered, Elements
<1>2. Buffered(d) \subseteq Prompts
  BY <1>1 DEF Elements
<1>3. UNCHANGED buffer =>
         \A e \in Daemons : Buffered(e)' = Buffered(e) /\ Distinct(buffer[e])'
  BY <1>1, Zenon DEF Distinct
<1>4. ASSUME NEW seq, buffer' = [buffer EXCEPT ![d] = seq], Distinct(seq), NEW e \in Daemons
      PROVE  /\ Buffered(e)' = IF e = d THEN Elements(seq) ELSE Buffered(e)
             /\ Distinct(buffer[e])'
  <2>1. buffer'[e] = IF e = d THEN seq ELSE buffer[e]
    BY <1>4 DEF TypeOK
  <2> QED
    BY <1>1, <1>4, <2>1 DEF Distinct
<1>5. Distinct(<<>>) /\ Elements(<<>>) = {}
  <2>1. DOMAIN <<>> = {}
    OBVIOUS
  <2> QED
    BY <2>1, Zenon DEF Distinct, Elements
<1>6. ASSUME NEW p \in Prompts, p \notin Buffered(d)
      PROVE  /\ Distinct(Append(buffer[d], p))
             /\ Elements(Append(buffer[d], p)) =
                   Buffered(d) \cup {p}
  BY <1>1, <1>6, AppendDistinct
<1>7. ASSUME buffer[d] # <<>>
      PROVE  /\ Distinct(Tail(buffer[d])) /\ Head(buffer[d]) \in Buffered(d)
             /\ Elements(Tail(buffer[d])) =
                   Buffered(d) \ {Head(buffer[d])}
  BY <1>1, <1>7, TailDistinct
<1>8. buffer' = [buffer EXCEPT ![d] = <<>>] => \A e \in Daemons :
         /\ Buffered(e)' = IF e = d THEN {} ELSE Buffered(e)
         /\ Distinct(buffer[e])'
  BY <1>4, <1>5
<1>9. \A p \in Prompts \ Buffered(d) :
         buffer' = [buffer EXCEPT ![d] = Append(@, p)] => \A e \in Daemons :
            /\ Buffered(e)' = IF e = d THEN Buffered(d) \cup {p} ELSE Buffered(e)
            /\ Distinct(buffer[e])'
  <2>1. ASSUME NEW p \in Prompts, p \notin Buffered(d),
               buffer' = [buffer EXCEPT ![d] = Append(@, p)], NEW e \in Daemons
        PROVE  /\ Buffered(e)' = IF e = d THEN Buffered(d) \cup {p} ELSE Buffered(e)
               /\ Distinct(buffer[e])'
    <3>1. buffer' = [buffer EXCEPT ![d] = Append(buffer[d], p)]
      BY <2>1
    <3> QED
      BY <1>4, <1>6, <2>1, <3>1
  <2> QED
    BY <2>1
<1>10. buffer[d] # <<>> /\ buffer' = [buffer EXCEPT ![d] = Tail(@)] =>
          \A e \in Daemons :
             /\ Buffered(e)' =
                   IF e = d THEN Buffered(d) \ {Head(buffer[d])} ELSE Buffered(e)
             /\ Distinct(buffer[e])'
  BY <1>4, <1>7
<1> QED
  BY <1>2, <1>3, <1>7, <1>8, <1>9, <1>10

\* What a runtime takes is appended once, by a daemon that still runs.
LEMMA ConsumeStep ==
    ASSUME TypeOK, ConsumedOK, NEW d, NEW p \in Prompts, Consume(d, p), p \notin Consumed
    PROVE  /\ consumed' \in Seq(Prompts) /\ Distinct(consumed)'
           /\ Consumed' = IF Running(d) THEN Consumed \cup {p} ELSE Consumed
<1>1. consumed \in Seq(Prompts) /\ Distinct(consumed)
  BY DEF TypeOK, ConsumedOK
<1>2. /\ Append(consumed, p) \in Seq(Prompts) /\ Distinct(Append(consumed, p))
      /\ Elements(Append(consumed, p)) = Consumed \cup {p}
  BY <1>1, AppendDistinct DEF Consumed, Elements
<1>3. Consumed' = Elements(consumed')
  BY DEF Consumed, Elements
<1>4. CASE Running(d)
  <2>1. consumed' = Append(consumed, p)
    BY <1>4 DEF Consume
  <2> QED
    BY <1>2, <1>3, <1>4, <2>1 DEF Distinct
<1>5. CASE ~Running(d)
  <2>1. consumed' = consumed
    BY <1>5 DEF Consume
  <2> QED
    BY <1>1, <1>3, <1>5, <2>1 DEF Distinct, Consumed, Elements
<1> QED
  BY <1>4, <1>5

-----------------------------------------------------------------------------
(* Types.                                                                  *)

\* Types of the parts that several actions change.
LEMMA ConsumeType ==
    ASSUME TypeOK, NEW d, NEW p \in Prompts, Consume(d, p)
    PROVE  consumed' \in Seq(Prompts)
<1>1. consumed \in Seq(Prompts)
  BY DEF TypeOK
<1> QED
  BY <1>1 DEF Consume

\* Debounces and flushes gain and lose prompts.
LEMMA BatchTypes ==
    ASSUME TypeOK, NEW d \in Daemons, NEW p \in Prompts
    PROVE  /\ held' = held \/ held' = [held EXCEPT ![d] = held[d] \cup {p}]
                 => held' \in [Daemons -> SUBSET Prompts]
           /\ [flushing EXCEPT ![d] = flushing[d] \ {p}] \in [Daemons -> SUBSET Prompts]
           /\ \A end \in Fates : [fate EXCEPT ![p] = end] \in [Prompts -> Fates]
<1>1. /\ held \in [Daemons -> SUBSET Prompts] /\ flushing \in [Daemons -> SUBSET Prompts]
      /\ fate \in [Prompts -> Fates]
  BY DEF TypeOK
<1>2. held[d] \cup {p} \in SUBSET Prompts /\ flushing[d] \ {p} \in SUBSET Prompts
  BY <1>1
<1> QED
  BY <1>1, <1>2

LEMMA FaultType ==
    ASSUME TypeOK, Fault
    PROVE  faults' \in 0..MaxFaults
BY IntakeAssumption DEF TypeOK, Fault

LEMMA AnswerType ==
    ASSUME TypeOK, NEW p \in Prompts, NEW status \in Streams \ {"new"}, Answer(p, status)
    PROVE  /\ stream' \in [Prompts -> Streams]
           /\ \A q \in Prompts : stream'[q] = "new" <=> stream[q] = "new"
BY DEF TypeOK, Answer, Streams

\* A dispatch that goes on, or that is done with.
LanesType ==
    /\ stage \in [Daemons -> [Prompts -> Stages]]
    /\ after \in [Daemons -> Chains]
    /\ tail \in [Daemons -> [Sessions -> Prompts \cup {Null}]]

LEMMA LaneTypes ==
    ASSUME TypeOK, NEW d \in Daemons, NEW p \in Prompts, NEW from
    PROVE  /\ \A to \in Stages : To(d, p, from, to) => LanesType'
           /\ Settle(d, p) => LanesType'
<1>1. LanesType
  BY DEF TypeOK, LanesType
<1>2. ASSUME NEW to \in Stages, To(d, p, from, to) PROVE LanesType'
  BY <1>1, <1>2 DEF To, LanesType
<1>3. ASSUME Settle(d, p) PROVE LanesType'
  <2>1. stage' \in [Daemons -> [Prompts -> Stages]]
    BY <1>1, <1>3 DEF Settle, LanesType, Stages
  <2>2. [q \in Prompts |-> IF after[d][q] = p THEN Null ELSE after[d][q]] \in Chains
    BY <1>1 DEF LanesType, Chains
  <2>3. after' \in [Daemons -> Chains]
    BY <1>1, <1>3, <2>2 DEF Settle, LanesType
  <2>4. tail' \in [Daemons -> [Sessions -> Prompts \cup {Null}]]
    BY <1>1, <1>3 DEF Settle, LanesType
  <2> QED
    BY <2>1, <2>3, <2>4 DEF LanesType
<1> QED
  BY <1>2, <1>3

\* Every step keeps the types; that a prompt to schedule has a session needs Core.
LEMMA TypeStep == Core /\ [Next]_vars => TypeOK'
<1> SUFFICES ASSUME Core, [Next]_vars PROVE TypeOK'
  OBVIOUS
<1> USE DEF Core, TypeOK, LanesType, Streams, Lives, Stages, Fates,
            queue, intake, lanes, batches, history
<1>1. ASSUME NEW p \in Prompts, Expire(p) PROVE TypeOK'
  BY <1>1 DEF Expire
<1>2. ASSUME NEW p \in Prompts, NEW s \in Sessions, Publish(p, s) PROVE TypeOK'
  BY <1>2, IntakeAssumption DEF Publish, Sessions
<1>3. ASSUME NEW d \in Daemons, NEW p \in Prompts, Deliver(d, p) PROVE TypeOK'
  BY <1>3 DEF Deliver
<1>4. ASSUME NEW d \in Daemons, NEW p \in Prompts, Begin(d, p) PROVE TypeOK'
  <2>1. LanesType'
    BY <1>4, LaneTypes DEF Begin
  <2>2. held' \in [Daemons -> SUBSET Prompts]
    <3>1. held' = held \/ held' = [held EXCEPT ![d] = held[d] \cup {p}]
      BY <1>4 DEF Begin
    <3> QED
      BY <3>1, BatchTypes
  <2> QED
    BY <1>4, <2>1, <2>2 DEF Begin
<1>5. ASSUME NEW d \in Daemons, NEW p \in Prompts, Decide(d, p) PROVE TypeOK'
  BY <1>5, LaneTypes, ConsumeType DEF Decide
<1>6. ASSUME NEW d \in Daemons, NEW p \in Prompts, Grant(d, p) PROVE TypeOK'
  BY <1>6, LaneTypes DEF Grant
<1>7. ASSUME NEW d \in Daemons, NEW p \in Prompts, TimeOut(d, p) PROVE TypeOK'
  BY <1>7, LaneTypes DEF TimeOut
<1>8. ASSUME NEW d \in Daemons, NEW p \in Prompts, Launch(d, p) PROVE TypeOK'
  BY <1>8, LaneTypes, ConsumeType DEF Launch
<1>9. ASSUME NEW d \in Daemons, NEW p \in Prompts, OutOfSpace(d, p) PROVE TypeOK'
  BY <1>9, LaneTypes, FaultType DEF OutOfSpace
<1>10. ASSUME NEW d \in Daemons, NEW p \in Prompts, Fails(d, p) PROVE TypeOK'
  BY <1>10, LaneTypes, AnswerType, FaultType DEF Fails, HandBack
<1>11. ASSUME NEW d \in Daemons, NEW p \in Prompts, Ack(d, p) PROVE TypeOK'
  BY <1>11, LaneTypes, AnswerType DEF Ack
<1>12. ASSUME NEW d \in Daemons, NEW p \in Prompts, FlushOne(d, p) PROVE TypeOK'
  BY <1>12, ConsumeType DEF FlushOne
<1>24. ASSUME NEW d \in Daemons, NEW p \in Prompts, Defer(d, p) PROVE TypeOK'
  BY <1>24, LaneTypes, FaultType DEF Defer
<1>25. ASSUME NEW d \in Daemons, NEW p \in Prompts, Unserved(d, p) PROVE TypeOK'
  BY <1>25, LaneTypes, FaultType DEF Unserved
<1>26. ASSUME NEW d \in Daemons, NEW p \in Prompts, FlushNone(d, p) PROVE TypeOK'
  <2>1. /\ flushing' \in [Daemons -> SUBSET Prompts] /\ faults' \in 0..MaxFaults
        /\ UNCHANGED <<session, stream, by, life, pulling, buffer, stage, after, tail, consumed>>
    BY <1>26, BatchTypes, FaultType DEF FlushNone
  <2>2. held' \in [Daemons -> SUBSET Prompts] /\ detoured' \subseteq Prompts
    <3>1. /\ held' = held \/ held' = [held EXCEPT ![d] = held[d] \cup {p}]
          /\ detoured' \subseteq detoured \cup {p}
      BY <1>26 DEF FlushNone
    <3> QED
      BY <3>1, BatchTypes
  <2>3. fate' \in [Prompts -> Fates]
    BY <1>26, BatchTypes DEF FlushNone
  <2> QED
    BY <2>1, <2>2, <2>3
<1>13. ASSUME NEW d \in Daemons, Schedule(d) PROVE TypeOK'
  <2>1. Head(buffer[d]) \in Prompts /\ session[Head(buffer[d])] \in Sessions
    <3>1. Head(buffer[d]) \in Buffered(d) /\ Buffered(d) \subseteq Prompts
      BY <1>13, Buffers DEF Schedule
    <3>2. stream[Head(buffer[d])] # "new"
      BY <3>1, Zenon DEF HandsOK, Hand
    <3> QED
      BY <3>1, <3>2
  <2>2. buffer' \in [Daemons -> Seq(Prompts)]
    <3>1. buffer[d] \in Seq(Prompts) /\ buffer[d] # <<>>
      BY <1>13 DEF Schedule
    <3>2. Tail(buffer[d]) \in Seq(Prompts)
      BY <3>1
    <3> QED
      BY <1>13, <3>2 DEF Schedule
  <2>3. stage' \in [Daemons -> [Prompts -> Stages]]
    BY <1>13, <2>1 DEF Schedule
  <2>4. /\ after' \in [Daemons -> Chains]
        /\ tail' \in [Daemons -> [Sessions -> Prompts \cup {Null}]]
    BY <1>13, <2>1 DEF Schedule, Chains
  <2> QED
    BY <1>13, <2>2, <2>3, <2>4 DEF Schedule
<1>14. ASSUME NEW d \in Daemons, TurnAway(d) PROVE TypeOK'
  BY <1>14 DEF TurnAway, HandBack, Answer
<1>15. ASSUME NEW d \in Daemons, PullFails(d) PROVE TypeOK'
  BY <1>15, FaultType DEF PullFails
<1>16. ASSUME NEW d \in Daemons, Resubscribe(d) PROVE TypeOK'
  BY <1>16 DEF Resubscribe
<1>17. ASSUME NEW d \in Daemons, Boot(d) PROVE TypeOK'
  BY <1>17 DEF Boot
<1>18. ASSUME NEW d \in Daemons, Lapse(d) PROVE TypeOK'
  BY <1>18, FaultType DEF Lapse
<1>19. ASSUME NEW d \in Daemons, Leave(d) PROVE TypeOK'
  BY <1>19, FaultType DEF Leave
<1>20. ASSUME NEW d \in Daemons, Die(d) PROVE TypeOK'
  <2>1. faults' \in 0..MaxFaults
    BY <1>20, FaultType DEF Die
  <2>2. LanesType'
    BY <1>20 DEF Die, Chains
  <2> QED
    BY <1>20, <2>1, <2>2 DEF Die
<1>21. ASSUME NEW d \in Daemons, NEW s \in Sessions, Flush(d, s) PROVE TypeOK'
  BY <1>21 DEF Flush
<1>22. ASSUME NEW d \in Daemons, NEW rest \in SUBSET Prompts, FlushFails(d, rest) PROVE TypeOK'
  BY <1>22, FaultType DEF FlushFails
<1>23. CASE UNCHANGED vars
  BY <1>23 DEF vars
<1> QED
  BY <1>1, <1>2, <1>3, <1>4, <1>5, <1>6, <1>7, <1>8, <1>9, <1>10, <1>11, <1>12,
     <1>13, <1>14, <1>15, <1>16, <1>17, <1>18, <1>19, <1>20, <1>21, <1>22, <1>23,
     <1>24, <1>25, <1>26
  DEF Next, Dispatch

-----------------------------------------------------------------------------
(* The core of the invariant.                                              *)

\* What steps do to parts of the state, prompt by prompt.
SameBuffers == \A e \in Daemons : Buffered(e)' = Buffered(e) /\ Distinct(buffer[e])'

Emptied(d) == \A e \in Daemons :
    Buffered(e)' = (IF e = d THEN {} ELSE Buffered(e)) /\ Distinct(buffer[e])'

SameConsumed == Consumed' = Consumed /\ Distinct(consumed)'

Consumes(d, p) ==
    /\ Consumed' = IF Running(d) THEN Consumed \cup {p} ELSE Consumed
    /\ Distinct(consumed)'

SetStage(d, p, to) == \A e \in Daemons, q \in Prompts :
    stage'[e][q] = IF e = d /\ q = p THEN to ELSE stage[e][q]

Answers(p, status) == \A q \in Prompts :
    stream'[q] = IF q = p /\ stream[q] = "out" THEN status ELSE stream[q]

\* What follows from the assignments of the actions.
LEMMA Same ==
    ASSUME TypeOK, HandsOK, ConsumedOK
    PROVE  /\ UNCHANGED buffer => SameBuffers
           /\ UNCHANGED consumed => SameConsumed
           /\ \A d \in Daemons : buffer' = [buffer EXCEPT ![d] = <<>>] => Emptied(d)
           /\ \A d \in Daemons, p \in Prompts \ Consumed : Consume(d, p) => Consumes(d, p)
<1>1. ASSUME UNCHANGED buffer PROVE SameBuffers
  BY <1>1, Buffers DEF SameBuffers
<1>2. ASSUME UNCHANGED consumed PROVE SameConsumed
  <2>1. Consumed' = Consumed
    BY <1>2 DEF Consumed
  <2>2. Distinct(consumed)'
    BY <1>2 DEF ConsumedOK, Distinct
  <2> QED
    BY <2>1, <2>2 DEF SameConsumed
<1>3. ASSUME NEW d \in Daemons, buffer' = [buffer EXCEPT ![d] = <<>>] PROVE Emptied(d)
  BY <1>3, Buffers DEF Emptied
<1>4. ASSUME NEW d \in Daemons, NEW p \in Prompts \ Consumed, Consume(d, p)
      PROVE  Consumes(d, p)
  BY <1>4, ConsumeStep DEF Consumes
<1> QED
  BY <1>1, <1>2, <1>3, <1>4

\* A dispatch that goes on, or is settled, changes no other.
LEMMA Staged ==
    ASSUME TypeOK, NEW d \in Daemons, NEW p \in Prompts, NEW from, NEW to
    PROVE  /\ To(d, p, from, to) => stage[d][p] = from /\ SetStage(d, p, to)
           /\ Settle(d, p) => SetStage(d, p, "none")
BY DEF TypeOK, To, Settle, SetStage

\* An answer counts only for a prompt that is open.
LEMMA Answered ==
    ASSUME TypeOK, NEW p \in Prompts, NEW status, Answer(p, status)
    PROVE  Answers(p, status)
BY DEF TypeOK, Answer, Answers

\* Every step keeps the core: what it changes, then what is spent, then the parts.
LEMMA CoreStep == Core /\ [Next]_vars => Core'
<1> SUFFICES ASSUME Core, [Next]_vars PROVE Core'
  OBVIOUS
<1> USE DEF SameBuffers, Emptied, SameConsumed, Consumes, SetStage, Answers,
            queue, intake, lanes, batches, history
<1>0. /\ TypeOK /\ HandsOK /\ ConsumedOK /\ DebouncedOK /\ StrandedOK
      /\ ReturnedOK /\ LossesAreKnown
      /\ Consumed \subseteq Prompts
      /\ \A d \in Daemons : /\ held[d] \subseteq Prompts /\ flushing[d] \subseteq Prompts
                            /\ Buffered(d) \subseteq Prompts
  BY Buffers DEF Core, TypeOK, Consumed
<1> USE <1>0
<1>1. ASSUME NEW p \in Prompts, Expire(p) PROVE Core'
  <2>1. UNCHANGED <<by, life, pulling, stage, held, flushing, fate>>
    BY <1>1 DEF Expire
  <2>2. SameBuffers
    BY <1>1, Same DEF Expire
  <2>3. SameConsumed
    BY <1>1, Same DEF Expire
  <2>4. /\ stream[p] = "out"
        /\ \A q \in Prompts : stream'[q] = IF q = p THEN "expired" ELSE stream[q]
    BY <1>1 DEF Expire, TypeOK
  <2>5. \A q \in Prompts : Spent(q) => Spent(q)'
    BY <2>1, <2>2, <2>3, <2>4 DEF Spent, HandsOK, Hand
  <2>6. /\ HandsOK' /\ ConsumedOK' /\ DebouncedOK' /\ StrandedOK'
        /\ ReturnedOK' /\ LossesAreKnown'
    BY <2>1, <2>2, <2>3, <2>4, <2>5 DEF HandsOK, Hand, ConsumedOK, DebouncedOK,
                                        StrandedOK, Spent, ReturnedOK, Running,
                                        LossesAreKnown
  <2> QED
    BY TypeStep, <2>6 DEF Core
<1>2. ASSUME NEW p \in Prompts, NEW s \in Sessions, Publish(p, s) PROVE Core'
  <2>1. UNCHANGED <<by, life, pulling, stage, held, flushing, fate>>
    BY <1>2 DEF Publish
  <2>2. SameBuffers
    BY <1>2, Same DEF Publish
  <2>3. SameConsumed
    BY <1>2, Same DEF Publish
  <2>4. /\ stream[p] = "new"
        /\ \A q \in Prompts : stream'[q] = IF q = p THEN "ready" ELSE stream[q]
    BY <1>2 DEF Publish, TypeOK
  <2>5. \A q \in Prompts : Spent(q) => Spent(q)'
    BY <2>1, <2>2, <2>3, <2>4 DEF Spent, HandsOK, Hand
  <2>6. /\ HandsOK' /\ ConsumedOK' /\ DebouncedOK' /\ StrandedOK'
        /\ ReturnedOK' /\ LossesAreKnown'
    BY <2>1, <2>2, <2>3, <2>4, <2>5 DEF HandsOK, Hand, ConsumedOK, DebouncedOK,
                                        StrandedOK, Spent, ReturnedOK, Running,
                                        LossesAreKnown
  <2> QED
    BY TypeStep, <2>6 DEF Core
<1>3. ASSUME NEW d \in Daemons, NEW p \in Prompts, Deliver(d, p) PROVE Core'
  <2>1. UNCHANGED <<life, pulling, stage, held, flushing, fate>>
    BY <1>3 DEF Deliver
  <2>2. SameConsumed
    BY <1>3, Same DEF Deliver
  <2>3. /\ pulling[d] /\ stream[p] \in {"ready", "back"}
        /\ \A q \in Prompts : /\ stream'[q] = IF q = p THEN "out" ELSE stream[q]
                              /\ by'[q] = IF q = p THEN d ELSE by[q]
    BY <1>3 DEF Deliver, TypeOK
  <2>4. p \notin Buffered(d)
    BY <1>3, <2>3 DEF HandsOK, Hand
  <2>5. \A e \in Daemons :
           /\ Buffered(e)' = IF e = d THEN Buffered(d) \cup {p} ELSE Buffered(e)
           /\ Distinct(buffer[e])'
    BY <1>3, <2>4, Buffers DEF Deliver
  <2>6. \A q \in Prompts : Spent(q) => Spent(q)'
    BY <2>1, <2>2, <2>3, <2>4, <2>5 DEF Spent, HandsOK, Hand
  <2>7. /\ HandsOK' /\ ConsumedOK' /\ DebouncedOK' /\ StrandedOK'
        /\ ReturnedOK' /\ LossesAreKnown'
    BY <2>1, <2>2, <2>3, <2>4, <2>5, <2>6 DEF HandsOK, Hand, ConsumedOK, DebouncedOK,
                                              Spent, StrandedOK, ReturnedOK, Running,
                                              LossesAreKnown
  <2> QED
    BY TypeStep, <2>7 DEF Core
<1>4. ASSUME NEW d \in Daemons, NEW p \in Prompts, Begin(d, p) PROVE Core'
  <2>1. UNCHANGED <<stream, by, life, pulling, flushing, fate>>
    BY <1>4 DEF Begin
  <2>2. SameBuffers
    BY <1>4, Same DEF Begin
  <2>3. SameConsumed
    BY <1>4, Same DEF Begin
  <2>4. /\ stage[d][p] = "chained"
        /\ p \notin Consumed \cup held[d] \cup flushing[d] /\ fate[p] # "stranded"
    BY <1>4 DEF Begin, To, ConsumedOK, DebouncedOK, StrandedOK, Spent, Hand
  <2>5. \/ /\ SetStage(d, p, "returned") /\ held' = [held EXCEPT ![d] = held[d] \cup {p}]
        \/ SetStage(d, p, "deciding") /\ UNCHANGED held
    BY <1>4, Staged DEF Begin
  <2>6. \/ /\ SetStage(d, p, "returned")
           /\ \A e \in Daemons : held'[e] = IF e = d THEN held[d] \cup {p} ELSE held[e]
        \/ SetStage(d, p, "deciding") /\ UNCHANGED held
    BY <1>4, <2>5 DEF TypeOK
  <2>7. stage'[d][p] = "returned" => Spent(p)'
    BY <1>4, <2>1, <2>2, <2>4, <2>6 DEF Spent, HandsOK, Hand
  <2>8. \A q \in Prompts : Spent(q) => Spent(q)'
    BY <2>1, <2>2, <2>3, <2>4, <2>5, <2>6, <2>7 DEF Spent, HandsOK, Hand
  <2>9. /\ HandsOK' /\ ConsumedOK' /\ DebouncedOK' /\ StrandedOK'
        /\ ReturnedOK' /\ LossesAreKnown'
    BY <2>1, <2>2, <2>3, <2>4, <2>5, <2>6, <2>7, <2>8 DEF HandsOK, Hand, ConsumedOK,
                                                          DebouncedOK, StrandedOK, Spent,
                                                          ReturnedOK, Running,
                                                          LossesAreKnown
  <2> QED
    BY TypeStep, <2>9 DEF Core
<1>5. ASSUME NEW d \in Daemons, NEW p \in Prompts, Decide(d, p) PROVE Core'
  <2>1. UNCHANGED <<stream, by, life, pulling, held, flushing, fate>>
    BY <1>5 DEF Decide
  <2>2. SameBuffers
    BY <1>5, Same DEF Decide
  <2>3. /\ stage[d][p] = "deciding"
        /\ p \notin Consumed /\ \A e \in Daemons : p \notin held[e] \cup flushing[e]
    BY <1>5 DEF Decide, To, ConsumedOK, DebouncedOK, Spent
  <2>4. \/ SetStage(d, p, "returned") /\ Consumes(d, p)
        \/ SetStage(d, p, "queued") /\ SameConsumed
        \/ SetStage(d, p, "starting") /\ SameConsumed
    BY <1>5, <2>3, Same, Staged DEF Decide
  <2>5. stage'[d][p] = "returned" => Spent(p)'
    BY <1>5, <2>1, <2>2, <2>3, <2>4 DEF Spent, HandsOK, Hand
  <2>6. \A q \in Prompts : Spent(q) => Spent(q)'
    BY <2>1, <2>2, <2>3, <2>4, <2>5 DEF Spent, HandsOK, Hand
  <2>7. /\ HandsOK' /\ ConsumedOK' /\ DebouncedOK' /\ StrandedOK'
        /\ ReturnedOK' /\ LossesAreKnown'
    BY <2>1, <2>2, <2>3, <2>4, <2>5, <2>6 DEF HandsOK, Hand, ConsumedOK, DebouncedOK,
                                              StrandedOK, Spent, ReturnedOK, Running,
                                              LossesAreKnown
  <2> QED
    BY TypeStep, <2>7 DEF Core
<1>6. ASSUME NEW d \in Daemons, NEW p \in Prompts, Grant(d, p) PROVE Core'
  <2>1. UNCHANGED <<stream, by, life, pulling, held, flushing, fate>>
    BY <1>6 DEF Grant
  <2>2. SameBuffers
    BY <1>6, Same DEF Grant
  <2>3. SameConsumed
    BY <1>6, Same DEF Grant
  <2>4. stage[d][p] = "queued" /\ SetStage(d, p, "starting")
    BY <1>6, Staged DEF Grant
  <2>5. \A q \in Prompts : Spent(q) => Spent(q)'
    BY <2>1, <2>2, <2>3, <2>4 DEF Spent, HandsOK, Hand
  <2>6. /\ HandsOK' /\ ConsumedOK' /\ DebouncedOK' /\ StrandedOK'
        /\ ReturnedOK' /\ LossesAreKnown'
    BY <2>1, <2>2, <2>3, <2>4, <2>5 DEF HandsOK, Hand, ConsumedOK, DebouncedOK,
                                        StrandedOK, Spent, ReturnedOK, Running,
                                        LossesAreKnown
  <2> QED
    BY TypeStep, <2>6 DEF Core
<1>7. ASSUME NEW d \in Daemons, NEW p \in Prompts, TimeOut(d, p) PROVE Core'
  <2>1. UNCHANGED <<stream, by, life, pulling, held, flushing>>
    BY <1>7 DEF TimeOut
  <2>2. SameBuffers
    BY <1>7, Same DEF TimeOut
  <2>3. SameConsumed
    BY <1>7, Same DEF TimeOut
  <2>4. stage[d][p] = "queued" /\ SetStage(d, p, "returned")
    BY <1>7, Staged DEF TimeOut
  <2>5. \A q \in Prompts : fate'[q] = IF q = p THEN "told" ELSE fate[q]
    BY <1>7 DEF TimeOut, TypeOK
  <2>6. \A q \in Prompts : Spent(q) => Spent(q)'
    BY <2>1, <2>2, <2>3, <2>4, <2>5 DEF Spent, HandsOK, Hand
  <2>7. /\ HandsOK' /\ ConsumedOK' /\ DebouncedOK' /\ StrandedOK'
        /\ ReturnedOK' /\ LossesAreKnown'
    BY <2>1, <2>2, <2>3, <2>4, <2>5, <2>6 DEF HandsOK, Hand, ConsumedOK, DebouncedOK,
                                              StrandedOK, Spent, ReturnedOK, Running,
                                              LossesAreKnown
  <2> QED
    BY TypeStep, <2>7 DEF Core
<1>8. ASSUME NEW d \in Daemons, NEW p \in Prompts, Launch(d, p) PROVE Core'
  <2>1. UNCHANGED <<stream, by, life, pulling, held, flushing, fate>>
    BY <1>8 DEF Launch
  <2>2. SameBuffers
    BY <1>8, Same DEF Launch
  <2>3. stage[d][p] = "starting" /\ SetStage(d, p, "returned")
    BY <1>8, Staged DEF Launch
  <2>4. p \notin Consumed /\ \A e \in Daemons : p \notin held[e] \cup flushing[e]
    BY <1>8, <2>3 DEF ConsumedOK, DebouncedOK, Spent
  <2>5. Consumes(d, p)
    BY <1>8, <2>4, Same DEF Launch
  <2>6. Spent(p)'
    BY <1>8, <2>1, <2>2, <2>3 DEF Spent, HandsOK, Hand
  <2>7. \A q \in Prompts : Spent(q) => Spent(q)'
    BY <2>1, <2>2, <2>3, <2>4, <2>5, <2>6 DEF Spent, HandsOK, Hand
  <2>8. /\ HandsOK' /\ ConsumedOK' /\ DebouncedOK' /\ StrandedOK'
        /\ ReturnedOK' /\ LossesAreKnown'
    BY <2>1, <2>2, <2>3, <2>4, <2>5, <2>6, <2>7 DEF HandsOK, Hand, ConsumedOK,
                                                    DebouncedOK, StrandedOK, Spent,
                                                    ReturnedOK, Running, LossesAreKnown
  <2> QED
    BY TypeStep, <2>8 DEF Core
<1>9. ASSUME NEW d \in Daemons, NEW p \in Prompts, OutOfSpace(d, p) PROVE Core'
  <2>1. UNCHANGED <<stream, by, life, pulling, held, flushing>>
    BY <1>9 DEF OutOfSpace
  <2>2. SameBuffers
    BY <1>9, Same DEF OutOfSpace
  <2>3. SameConsumed
    BY <1>9, Same DEF OutOfSpace
  <2>4. stage[d][p] \in {"deciding", "starting"} /\ SetStage(d, p, "returned")
    BY <1>9, Staged DEF OutOfSpace
  <2>5. \A q \in Prompts : fate'[q] = IF q = p THEN "told" ELSE fate[q]
    BY <1>9 DEF OutOfSpace, TypeOK
  <2>6. \A q \in Prompts : Spent(q) => Spent(q)'
    BY <2>1, <2>2, <2>3, <2>4, <2>5 DEF Spent, HandsOK, Hand
  <2>7. /\ HandsOK' /\ ConsumedOK' /\ DebouncedOK' /\ StrandedOK'
        /\ ReturnedOK' /\ LossesAreKnown'
    BY <2>1, <2>2, <2>3, <2>4, <2>5, <2>6 DEF HandsOK, Hand, ConsumedOK, DebouncedOK,
                                              StrandedOK, Spent, ReturnedOK, Running,
                                              LossesAreKnown
  <2> QED
    BY TypeStep, <2>7 DEF Core
<1>10. ASSUME NEW d \in Daemons, NEW p \in Prompts, Fails(d, p) PROVE Core'
  <2>1. UNCHANGED <<by, life, pulling, held, flushing, fate>>
    BY <1>10 DEF Fails
  <2>2. SameBuffers
    BY <1>10, Same DEF Fails
  <2>3. SameConsumed
    BY <1>10, Same DEF Fails
  <2>4. stage[d][p] \in {"deciding", "starting"} /\ SetStage(d, p, "none")
    BY <1>10, Staged DEF Fails
  <2>5. Answers(p, "back")
    BY <1>10, Answered DEF Fails, HandBack
  <2>6. \A q \in Prompts : Spent(q) => Spent(q)'
    BY <2>1, <2>2, <2>3, <2>4, <2>5 DEF Spent, HandsOK, Hand
  <2>7. /\ HandsOK' /\ ConsumedOK' /\ DebouncedOK' /\ StrandedOK'
        /\ ReturnedOK' /\ LossesAreKnown'
    BY <2>1, <2>2, <2>3, <2>4, <2>5, <2>6 DEF HandsOK, Hand, ConsumedOK, DebouncedOK,
                                              StrandedOK, Spent, ReturnedOK, Running,
                                              LossesAreKnown
  <2> QED
    BY TypeStep, <2>7 DEF Core
<1>11. ASSUME NEW d \in Daemons, NEW p \in Prompts, Ack(d, p) PROVE Core'
  <2>1. UNCHANGED <<by, life, pulling, held, flushing, fate>>
    BY <1>11 DEF Ack
  <2>2. SameBuffers
    BY <1>11, Same DEF Ack
  <2>3. SameConsumed
    BY <1>11, Same DEF Ack
  <2>4. stage[d][p] = "returned" /\ SetStage(d, p, "none")
    BY <1>11, Staged DEF Ack
  <2>5. Answers(p, "acked")
    BY <1>11, Answered DEF Ack
  <2>6. \A q \in Prompts : Spent(q) => Spent(q)'
    BY <2>1, <2>2, <2>3, <2>4, <2>5 DEF Spent, HandsOK, Hand
  <2>7. /\ HandsOK' /\ ConsumedOK' /\ DebouncedOK' /\ StrandedOK'
        /\ ReturnedOK' /\ LossesAreKnown'
    BY <2>1, <2>2, <2>3, <2>4, <2>5, <2>6 DEF HandsOK, Hand, ConsumedOK, DebouncedOK,
                                              StrandedOK, Spent, ReturnedOK, Running,
                                              LossesAreKnown
  <2> QED
    BY TypeStep, <2>7 DEF Core
<1>12. ASSUME NEW d \in Daemons, NEW p \in Prompts, FlushOne(d, p) PROVE Core'
  <2>1. UNCHANGED <<stream, by, life, pulling, stage, held, fate>>
    BY <1>12 DEF FlushOne
  <2>2. SameBuffers
    BY <1>12, Same DEF FlushOne
  <2>3. /\ p \in flushing[d]
        /\ \A e \in Daemons : flushing'[e] = IF e = d THEN flushing[d] \ {p} ELSE flushing[e]
    BY <1>12 DEF FlushOne, TypeOK
  <2>4. p \notin Consumed
    BY <1>12, <2>3 DEF DebouncedOK
  <2>5. Consumes(d, p)
    BY <1>12, <2>4, Same DEF FlushOne
  <2>6. \A q \in Prompts : Spent(q) => Spent(q)'
    BY <2>1, <2>2, <2>3, <2>4, <2>5 DEF Spent, HandsOK, Hand
  <2>7. /\ HandsOK' /\ ConsumedOK' /\ DebouncedOK' /\ StrandedOK'
        /\ ReturnedOK' /\ LossesAreKnown'
    BY <2>1, <2>2, <2>3, <2>4, <2>5, <2>6 DEF HandsOK, Hand, ConsumedOK, DebouncedOK,
                                              StrandedOK, Spent, ReturnedOK, Running,
                                              LossesAreKnown
  <2> QED
    BY TypeStep, <2>7 DEF Core
<1>24. ASSUME NEW d \in Daemons, NEW p \in Prompts, Defer(d, p) PROVE Core'
  <2>1. UNCHANGED <<stream, by, life, pulling, flushing, fate>>
    BY <1>24 DEF Defer
  <2>2. SameBuffers
    BY <1>24, Same DEF Defer
  <2>3. SameConsumed
    BY <1>24, Same DEF Defer
  <2>4. stage[d][p] = "deciding" /\ SetStage(d, p, "returned")
    BY <1>24, Staged DEF Defer
  <2>5. p \notin Consumed \cup held[d] \cup flushing[d] /\ fate[p] # "stranded"
    BY <2>4 DEF ConsumedOK, DebouncedOK, StrandedOK, Spent, Hand
  <2>6. \A e \in Daemons : held'[e] = IF e = d THEN held[d] \cup {p} ELSE held[e]
    BY <1>24 DEF Defer, TypeOK
  <2>7. Spent(p)'
    BY <1>24, <2>1, <2>2, <2>4 DEF Spent, HandsOK, Hand
  <2>8. \A q \in Prompts : Spent(q) => Spent(q)'
    BY <2>1, <2>2, <2>4, <2>7 DEF Spent, HandsOK, Hand
  <2>9. /\ HandsOK' /\ ConsumedOK' /\ DebouncedOK' /\ StrandedOK'
        /\ ReturnedOK' /\ LossesAreKnown'
    BY <2>1, <2>2, <2>3, <2>4, <2>5, <2>6, <2>7, <2>8 DEF HandsOK, Hand, ConsumedOK, DebouncedOK,
                                              StrandedOK, Spent, ReturnedOK, Running,
                                              LossesAreKnown
  <2> QED
    BY TypeStep, <2>9 DEF Core
<1>25. ASSUME NEW d \in Daemons, NEW p \in Prompts, Unserved(d, p) PROVE Core'
  <2>1. UNCHANGED <<stream, by, life, pulling, held, flushing>>
    BY <1>25 DEF Unserved
  <2>2. SameBuffers
    BY <1>25, Same DEF Unserved
  <2>3. SameConsumed
    BY <1>25, Same DEF Unserved
  <2>4. stage[d][p] \in {"chained", "deciding", "starting"} /\ SetStage(d, p, "returned")
    BY <1>25, Staged DEF Unserved
  <2>5. \A q \in Prompts : fate'[q] = IF q = p THEN "unserved" ELSE fate[q]
    BY <1>25 DEF Unserved, TypeOK
  <2>6. \A q \in Prompts : Spent(q) => Spent(q)'
    BY <2>1, <2>2, <2>3, <2>4, <2>5 DEF Spent, HandsOK, Hand
  <2>7. /\ HandsOK' /\ ConsumedOK' /\ DebouncedOK' /\ StrandedOK'
        /\ ReturnedOK' /\ LossesAreKnown'
    BY <2>1, <2>2, <2>3, <2>4, <2>5, <2>6 DEF HandsOK, Hand, ConsumedOK, DebouncedOK,
                                              StrandedOK, Spent, ReturnedOK, Running,
                                              LossesAreKnown
  <2> QED
    BY TypeStep, <2>7 DEF Core
<1>26. ASSUME NEW d \in Daemons, NEW p \in Prompts, FlushNone(d, p) PROVE Core'
  <2>1. UNCHANGED <<stream, by, life, pulling, stage>>
    BY <1>26 DEF FlushNone
  <2>2. SameBuffers
    BY <1>26, Same DEF FlushNone
  <2>3. SameConsumed
    BY <1>26, Same DEF FlushNone
  <2>4. /\ p \in flushing[d]
        /\ \A e \in Daemons : flushing'[e] = IF e = d THEN flushing[d] \ {p} ELSE flushing[e]
    BY <1>26 DEF FlushNone, TypeOK
  <2>5. \/ /\ \A e \in Daemons : held'[e] = IF e = d THEN held[d] \cup {p} ELSE held[e]
           /\ UNCHANGED fate
        \/ \E end \in {"told", "unserved"} :
              /\ \A q \in Prompts : fate'[q] = IF q = p THEN end ELSE fate[q]
              /\ UNCHANGED held
    BY <1>26 DEF FlushNone, TypeOK
  <2>6. \A q \in Prompts : Spent(q) => Spent(q)'
    BY <2>1, <2>2, <2>3 DEF Spent, HandsOK, Hand
  <2>7. /\ HandsOK' /\ ConsumedOK' /\ DebouncedOK' /\ StrandedOK'
        /\ ReturnedOK' /\ LossesAreKnown'
    BY <2>1, <2>2, <2>3, <2>4, <2>5, <2>6 DEF HandsOK, Hand, ConsumedOK, DebouncedOK,
                                              StrandedOK, Spent, ReturnedOK, Running,
                                              LossesAreKnown
  <2> QED
    BY TypeStep, <2>7 DEF Core
<1>13. ASSUME NEW d \in Daemons, Schedule(d) PROVE Core'
  <2>1. UNCHANGED <<stream, by, life, pulling, held, flushing, fate>>
    BY <1>13 DEF Schedule
  <2>2. SameConsumed
    BY <1>13, Same DEF Schedule
  <2> DEFINE h == Head(buffer[d])
  <2>3. h \in Buffered(d) \cap Prompts
    BY <1>13, Buffers DEF Schedule
  <2>4. SetStage(d, h, "chained")
    BY <1>13, <2>3 DEF Schedule, TypeOK, SetStage
  <2>5. \A e \in Daemons :
           /\ Buffered(e)' = IF e = d THEN Buffered(d) \ {h} ELSE Buffered(e)
           /\ Distinct(buffer[e])'
    BY <1>13, Buffers DEF Schedule
  <2> HIDE DEF h
  <2>6. \A q \in Prompts : Spent(q) => Spent(q)'
    BY <2>1, <2>2, <2>3, <2>4, <2>5 DEF Spent, HandsOK, Hand
  <2>7. /\ HandsOK' /\ ConsumedOK' /\ DebouncedOK' /\ StrandedOK'
        /\ ReturnedOK' /\ LossesAreKnown'
    BY <2>1, <2>2, <2>3, <2>4, <2>5, <2>6 DEF HandsOK, Hand, ConsumedOK, DebouncedOK,
                                              StrandedOK, Spent, ReturnedOK, Running,
                                              LossesAreKnown
  <2> QED
    BY TypeStep, <2>7 DEF Core
<1>14. ASSUME NEW d \in Daemons, TurnAway(d) PROVE Core'
  <2>1. UNCHANGED <<by, life, stage, held, flushing>>
    BY <1>14 DEF TurnAway
  <2>2. SameConsumed
    BY <1>14, Same DEF TurnAway
  <2> DEFINE h == Head(buffer[d])
  <2>3. h \in Buffered(d) \cap Prompts
    BY <1>14, Buffers DEF TurnAway
  <2>4. Answers(h, "back")
    BY <1>14, <2>3, Answered DEF TurnAway, HandBack
  <2>5. Emptied(d)
    BY <1>14, Same DEF TurnAway
  <2>6. /\ \A e \in Daemons : pulling'[e] => e # d /\ pulling[e]
        /\ \A q \in Prompts :
              fate'[q] = IF q \in Buffered(d) \ {h} THEN "stranded" ELSE fate[q]
    BY <1>14 DEF TurnAway, TypeOK
  <2> HIDE DEF h
  <2>7. \A q \in Prompts : Spent(q) => Spent(q)'
    BY <2>1, <2>2, <2>3, <2>4, <2>5, <2>6 DEF Spent, HandsOK, Hand
  <2>8. /\ HandsOK' /\ ConsumedOK' /\ DebouncedOK' /\ StrandedOK'
        /\ ReturnedOK' /\ LossesAreKnown'
    BY <2>1, <2>2, <2>3, <2>4, <2>5, <2>6, <2>7 DEF HandsOK, Hand, ConsumedOK,
                                                    DebouncedOK, Spent, StrandedOK,
                                                    ReturnedOK, Running, LossesAreKnown
  <2> QED
    BY TypeStep, <2>8 DEF Core
<1>15. ASSUME NEW d \in Daemons, PullFails(d) PROVE Core'
  <2>1. UNCHANGED <<stream, by, life, stage, held, flushing>>
    BY <1>15 DEF PullFails
  <2>2. SameConsumed
    BY <1>15, Same DEF PullFails
  <2>3. Emptied(d)
    BY <1>15, Same DEF PullFails
  <2>4. /\ \A e \in Daemons : pulling'[e] => e # d /\ pulling[e]
        /\ \A q \in Prompts : fate'[q] = IF q \in Buffered(d) THEN "stranded" ELSE fate[q]
    BY <1>15 DEF PullFails, TypeOK
  <2>5. \A q \in Prompts : Spent(q) => Spent(q)'
    BY <2>1, <2>2, <2>3, <2>4 DEF Spent, HandsOK, Hand
  <2>6. /\ HandsOK' /\ ConsumedOK' /\ DebouncedOK' /\ StrandedOK'
        /\ ReturnedOK' /\ LossesAreKnown'
    BY <2>1, <2>2, <2>3, <2>4, <2>5 DEF HandsOK, Hand, ConsumedOK, DebouncedOK, Spent,
                                        StrandedOK, ReturnedOK, Running, LossesAreKnown
  <2> QED
    BY TypeStep, <2>6 DEF Core
<1>16. ASSUME NEW d \in Daemons, Resubscribe(d) PROVE Core'
  <2>1. UNCHANGED <<stream, by, life, stage, held, flushing, fate>>
    BY <1>16 DEF Resubscribe
  <2>2. SameBuffers
    BY <1>16, Same DEF Resubscribe
  <2>3. SameConsumed
    BY <1>16, Same DEF Resubscribe
  <2>4. /\ Running(d)
        /\ \A e \in Daemons : pulling'[e] => e = d \/ pulling[e]
    BY <1>16 DEF Resubscribe, TypeOK
  <2>5. \A q \in Prompts : Spent(q) => Spent(q)'
    BY <2>1, <2>2, <2>3, <2>4 DEF Spent, HandsOK, Hand
  <2>6. /\ HandsOK' /\ ConsumedOK' /\ DebouncedOK' /\ StrandedOK'
        /\ ReturnedOK' /\ LossesAreKnown'
    BY <2>1, <2>2, <2>3, <2>4, <2>5 DEF HandsOK, Hand, Running, ConsumedOK, DebouncedOK,
                                        StrandedOK, Spent, ReturnedOK, LossesAreKnown
  <2> QED
    BY TypeStep, <2>6 DEF Core
<1>17. ASSUME NEW d \in Daemons, Boot(d) PROVE Core'
  <2>1. UNCHANGED <<stream, by, stage, held, flushing, fate>>
    BY <1>17 DEF Boot
  <2>2. SameBuffers
    BY <1>17, Same DEF Boot
  <2>3. SameConsumed
    BY <1>17, Same DEF Boot
  <2>4. /\ life[d] = "off"
        /\ \A e \in Daemons : /\ pulling'[e] => e = d \/ pulling[e]
                              /\ life'[e] = IF e = d THEN "up" ELSE life[e]
    BY <1>17 DEF Boot, TypeOK
  <2>5. \A q \in Prompts : Spent(q) => Spent(q)'
    BY <2>1, <2>2, <2>3, <2>4 DEF Spent, HandsOK, Hand
  <2>6. /\ HandsOK' /\ ConsumedOK' /\ DebouncedOK' /\ StrandedOK'
        /\ ReturnedOK' /\ LossesAreKnown'
    BY <2>1, <2>2, <2>3, <2>4, <2>5 DEF HandsOK, Hand, ConsumedOK, DebouncedOK,
                                        StrandedOK, Spent, ReturnedOK, Running,
                                        LossesAreKnown
  <2> QED
    BY TypeStep, <2>6 DEF Core
<1>18. ASSUME NEW d \in Daemons, Lapse(d) PROVE Core'
  <2>1. UNCHANGED <<stream, by, pulling, stage, held, flushing, fate>>
    BY <1>18 DEF Lapse
  <2>2. SameBuffers
    BY <1>18, Same DEF Lapse
  <2>3. SameConsumed
    BY <1>18, Same DEF Lapse
  <2>4. /\ life[d] = "up"
        /\ \A e \in Daemons : life'[e] = IF e = d THEN "lapsed" ELSE life[e]
    BY <1>18 DEF Lapse, TypeOK
  <2>5. \A q \in Prompts : Spent(q) => Spent(q)'
    BY <2>1, <2>2, <2>3, <2>4 DEF Spent, HandsOK, Hand
  <2>6. /\ HandsOK' /\ ConsumedOK' /\ DebouncedOK' /\ StrandedOK'
        /\ ReturnedOK' /\ LossesAreKnown'
    BY <2>1, <2>2, <2>3, <2>4, <2>5 DEF HandsOK, Hand, ConsumedOK, DebouncedOK,
                                        StrandedOK, Spent, ReturnedOK, Running,
                                        LossesAreKnown
  <2> QED
    BY TypeStep, <2>6 DEF Core
<1>19. ASSUME NEW d \in Daemons, Leave(d) PROVE Core'
  <2>1. UNCHANGED <<stream, by, pulling, flushing, fate>>
    BY <1>19 DEF Leave
  <2>2. SameBuffers
    BY <1>19, Same DEF Leave
  <2>3. SameConsumed
    BY <1>19, Same DEF Leave
  <2>4. /\ Running(d)
        /\ \A e \in Daemons : /\ life'[e] = IF e = d THEN "leaving" ELSE life[e]
                              /\ held'[e] = IF e = d THEN {} ELSE held[e]
    BY <1>19 DEF Leave, TypeOK
  <2>5. \A e \in Daemons, q \in Prompts :
           stage'[e][q] = IF e = d /\ stage[e][q] = "queued" THEN "returned" ELSE stage[e][q]
    BY <1>19 DEF Leave, TypeOK
  <2>6. \A q \in Prompts : Spent(q) => Spent(q)'
    BY <2>1, <2>2, <2>3, <2>4, <2>5 DEF Spent, HandsOK, Hand
  <2>7. /\ HandsOK' /\ ConsumedOK' /\ DebouncedOK' /\ StrandedOK'
        /\ ReturnedOK' /\ LossesAreKnown'
    BY <2>1, <2>2, <2>3, <2>4, <2>5, <2>6 DEF HandsOK, Hand, ConsumedOK, DebouncedOK,
                                              StrandedOK, Spent, ReturnedOK, Running,
                                              LossesAreKnown
  <2> QED
    BY TypeStep, <2>7 DEF Core
<1>20. ASSUME NEW d \in Daemons, Die(d) PROVE Core'
  <2>1. UNCHANGED <<stream, by, fate>>
    BY <1>20 DEF Die
  <2>2. SameConsumed
    BY <1>20, Same DEF Die
  <2>3. Emptied(d)
    BY <1>20, Same DEF Die
  <2>4. \A e \in Daemons : /\ life'[e] = IF e = d THEN "dead" ELSE life[e]
                           /\ pulling'[e] => e # d /\ pulling[e]
                           /\ held'[e] = IF e = d THEN {} ELSE held[e]
                           /\ flushing'[e] = IF e = d THEN {} ELSE flushing[e]
    BY <1>20 DEF Die, TypeOK
  <2>5. \A e \in Daemons, q \in Prompts :
           stage'[e][q] = IF e = d THEN "none" ELSE stage[e][q]
    BY <1>20 DEF Die, TypeOK
  <2>6. \A q \in Prompts : Spent(q) => Spent(q)'
    BY <2>1, <2>2, <2>3, <2>4, <2>5 DEF Spent, HandsOK, Hand
  <2>7. /\ HandsOK' /\ ConsumedOK' /\ DebouncedOK' /\ StrandedOK'
        /\ ReturnedOK' /\ LossesAreKnown'
    BY <2>1, <2>2, <2>3, <2>4, <2>5, <2>6 DEF HandsOK, Hand, ConsumedOK, DebouncedOK,
                                              StrandedOK, Spent, ReturnedOK, Running,
                                              LossesAreKnown
  <2> QED
    BY TypeStep, <2>7 DEF Core
<1>21. ASSUME NEW d \in Daemons, NEW s \in Sessions, Flush(d, s) PROVE Core'
  <2>1. UNCHANGED <<stream, by, life, pulling, stage, fate>>
    BY <1>21 DEF Flush
  <2>2. SameBuffers
    BY <1>21, Same DEF Flush
  <2>3. SameConsumed
    BY <1>21, Same DEF Flush
  <2>4. \E batch \in SUBSET held[d] : \A e \in Daemons :
           /\ held'[e] = IF e = d THEN held[d] \ batch ELSE held[e]
           /\ flushing'[e] = IF e = d THEN flushing[d] \cup batch ELSE flushing[e]
    BY <1>21 DEF Flush, TypeOK
  <2>5. \A q \in Prompts : Spent(q) => Spent(q)'
    BY <2>1, <2>2, <2>3, <2>4 DEF Spent, HandsOK, Hand
  <2>6. /\ HandsOK' /\ ConsumedOK' /\ DebouncedOK' /\ StrandedOK'
        /\ ReturnedOK' /\ LossesAreKnown'
    BY <2>1, <2>2, <2>3, <2>4, <2>5 DEF HandsOK, Hand, ConsumedOK, DebouncedOK,
                                        StrandedOK, Spent, ReturnedOK, Running,
                                        LossesAreKnown
  <2> QED
    BY TypeStep, <2>6 DEF Core
<1>22. ASSUME NEW d \in Daemons, NEW rest \in SUBSET Prompts, FlushFails(d, rest) PROVE Core'
  <2>1. UNCHANGED <<stream, by, life, pulling, stage, held>>
    BY <1>22 DEF FlushFails
  <2>2. SameBuffers
    BY <1>22, Same DEF FlushFails
  <2>3. SameConsumed
    BY <1>22, Same DEF FlushFails
  <2>4. /\ rest \subseteq flushing[d]
        /\ \A e \in Daemons : flushing'[e] = IF e = d THEN flushing[d] \ rest ELSE flushing[e]
        /\ \A q \in Prompts : fate'[q] = IF q \in rest THEN "dropped" ELSE fate[q]
    BY <1>22 DEF FlushFails, TypeOK
  <2>5. \A q \in Prompts : Spent(q) => Spent(q)'
    BY <2>1, <2>2, <2>3, <2>4 DEF Spent, HandsOK, Hand
  <2>6. /\ HandsOK' /\ ConsumedOK' /\ DebouncedOK' /\ StrandedOK'
        /\ ReturnedOK' /\ LossesAreKnown'
    BY <2>1, <2>2, <2>3, <2>4, <2>5 DEF HandsOK, Hand, ConsumedOK, DebouncedOK,
                                        StrandedOK, Spent, ReturnedOK, Running,
                                        LossesAreKnown
  <2> QED
    BY TypeStep, <2>6 DEF Core
<1>23. CASE UNCHANGED vars
  <2>1. UNCHANGED <<stream, by, life, pulling, stage, held, flushing, fate>>
    BY <1>23 DEF vars
  <2>2. SameBuffers
    BY <1>23, Same DEF vars
  <2>3. SameConsumed
    BY <1>23, Same DEF vars
  <2>4. \A q \in Prompts : Spent(q) => Spent(q)'
    BY <2>1, <2>2, <2>3 DEF Spent, HandsOK, Hand
  <2>5. /\ HandsOK' /\ ConsumedOK' /\ DebouncedOK' /\ StrandedOK'
        /\ ReturnedOK' /\ LossesAreKnown'
    BY <2>1, <2>2, <2>3, <2>4 DEF HandsOK, Hand, ConsumedOK, DebouncedOK, StrandedOK,
                                  Spent, ReturnedOK, Running, LossesAreKnown
  <2> QED
    BY TypeStep, <2>5 DEF Core
<1> QED
  BY <1>1, <1>2, <1>3, <1>4, <1>5, <1>6, <1>7, <1>8, <1>9, <1>10, <1>11, <1>12,
     <1>13, <1>14, <1>15, <1>16, <1>17, <1>18, <1>19, <1>20, <1>21, <1>22, <1>23,
     <1>24, <1>25, <1>26
  DEF Next, Dispatch

-----------------------------------------------------------------------------
(* Lanes.                                                                  *)

Lane(d, s) == {p \in Prompts : session[p] = s /\ stage[d][p] # "none"}

\* The order in which the prompts of a lane came makes it a chain: each waits for
\* the one that came before it, and the tail came last.
Ordered(d, s, rank) ==
    /\ tail[d][s] \in IF Lane(d, s) = {} THEN {Null} ELSE Lane(d, s)
    /\ \A p, q \in Lane(d, s) : rank[p] = rank[q] => p = q
    /\ \A p \in Lane(d, s) :
          /\ rank[p] <= rank[tail[d][s]]
          /\ after[d][p] = Null => \A q \in Lane(d, s) : rank[p] <= rank[q]
          /\ after[d][p] # Null =>
                /\ after[d][p] \in Lane(d, s)
                /\ rank[after[d][p]] < rank[p]
                /\ \A q \in Lane(d, s) : rank[q] < rank[p] => rank[q] <= rank[after[d][p]]

\* Prompts that were never handed back came in the order of publication.
InTurn(d, s, rank) == \A p, q \in Lane(d, s) \ detoured : p < q => rank[p] < rank[q]

\* A dispatch has begun only at the head of its lane.
LanesOK == \A d \in Daemons :
    /\ \A p \in Prompts : stage[d][p] \notin {"none", "chained"} => after[d][p] = Null
    /\ \A s \in Sessions :
          \E rank \in [Prompts -> Nat] : Ordered(d, s, rank) /\ InTurn(d, s, rank)

\* The order of publication on the way to the lanes and out of them: prompts are
\* published one after another, stay in that order in a buffer, and leave it
\* for the lanes in that order.
Published ==
    /\ \A p \in Prompts : stream[p] = "back" => p \in detoured
    /\ \A p, q \in Prompts : p < q /\ stream[p] \in {"new", "ready"} => stream[q] = "new"

BuffersInOrder == \A d \in Daemons : \A i, j \in DOMAIN buffer[d] :
    buffer[d][i] < buffer[d][j] /\ {buffer[d][i], buffer[d][j]} \cap detoured = {} => i < j

LanesFirst == \A d \in Daemons, p, q \in Prompts \ detoured :
    p < q /\ stage[d][q] # "none" => p \notin Buffered(d)

\* The prompt is still to be given to a runtime by its dispatch.
Waits(d, p) == stage[d][p] \in {"chained", "deciding", "queued", "starting"}

\* When a runtime has a prompt, no earlier one of the session is still to come.
ConsumedFirst == \A d \in Daemons, p, q \in Prompts \ detoured :
    /\ p < q /\ session[p] = session[q] /\ session[p] \in Plain
    /\ q \in Consumed /\ by[q] = d
    => p \notin Buffered(d) /\ ~Waits(d, p)

\* Only prompts of debounced sessions, and deferred ones, are held back.
Gathered == \A d \in Daemons : \A p \in held[d] \cup flushing[d] :
    session[p] \in Debounced \/ p \in detoured

OrderOK ==
    /\ Published /\ BuffersInOrder /\ LanesFirst /\ ConsumedFirst /\ Gathered
    /\ SessionOrder

\* Who waits for nobody waits for no prompt.
LEMMA NullIsNoPrompt == Null \notin Prompts
BY IntakeAssumption DEF Prompts

\* A lane that a step leaves alone.
LEMMA LaneKept ==
    ASSUME NEW d \in Daemons, NEW s \in Sessions, NEW rank \in [Prompts -> Nat],
           Ordered(d, s, rank), Lane(d, s)' = Lane(d, s), tail'[d][s] = tail[d][s],
           \A p \in Lane(d, s) : after'[d][p] = after[d][p]
    PROVE  Ordered(d, s, rank)'
BY DEF Ordered

\* The head leaves: who waited for it is the head, and it was the tail only if
\* there was no other.
LEMMA HeadLeaves ==
    ASSUME NEW d \in Daemons, NEW s \in Sessions, NEW rank \in [Prompts -> Nat],
           Ordered(d, s, rank), NEW p \in Lane(d, s), after[d][p] = Null,
           Lane(d, s)' = Lane(d, s) \ {p},
           tail'[d][s] = IF tail[d][s] = p THEN Null ELSE tail[d][s],
           \A q \in Lane(d, s) \ {p} :
              after'[d][q] = IF after[d][q] = p THEN Null ELSE after[d][q]
    PROVE  Ordered(d, s, rank)'
<1>1. Lane(d, s) \subseteq Prompts
  BY DEF Lane
<1>2. \A q \in Lane(d, s) : rank[q] \in Nat
  BY <1>1
<1>3. \A q \in Lane(d, s) \ {p} : rank[p] < rank[q]
  BY <1>2 DEF Ordered
<1>4. tail[d][s] = p => Lane(d, s) = {p}
  BY <1>2, <1>3 DEF Ordered
<1>5. tail'[d][s] \in IF Lane(d, s)' = {} THEN {Null} ELSE Lane(d, s)'
  BY <1>4 DEF Ordered
<1>6. ASSUME NEW q \in Lane(d, s) \ {p}
      PROVE  /\ rank[q] <= rank[tail'[d][s]]
             /\ after'[d][q] = Null => \A r \in Lane(d, s) \ {p} : rank[q] <= rank[r]
             /\ after'[d][q] # Null =>
                   /\ after'[d][q] \in Lane(d, s) \ {p}
                   /\ rank[after'[d][q]] < rank[q]
                   /\ \A r \in Lane(d, s) \ {p} :
                         rank[r] < rank[q] => rank[r] <= rank[after'[d][q]]
  <2>1. rank[q] <= rank[tail'[d][s]]
    BY <1>4, <1>6 DEF Ordered
  <2>2. after[d][q] # Null
    BY <1>2, <1>3, <1>6 DEF Ordered
  <2>3. CASE after[d][q] = p
    <3>1. after'[d][q] = Null
      BY <2>3
    <3>2. \A r \in Lane(d, s) \ {p} : ~(rank[r] < rank[q])
      BY <1>2, <1>3, <2>2, <2>3 DEF Ordered
    <3> QED
      BY <1>2, <2>1, <3>1, <3>2
  <2>4. CASE after[d][q] # p
    BY <2>1, <2>2, <2>4 DEF Ordered
  <2> QED
    BY <2>3, <2>4
<1> QED
  BY <1>5, <1>6 DEF Ordered

\* A prompt comes: it waits for the tail and becomes the tail.
LEMMA TailComes ==
    ASSUME TypeOK, NEW d \in Daemons, NEW s \in Sessions, NEW rank \in [Prompts -> Nat],
           Ordered(d, s, rank), NEW p \in Prompts \ Lane(d, s),
           Lane(d, s)' = Lane(d, s) \cup {p}, tail'[d][s] = p,
           \A q \in Lane(d, s) \cup {p} :
              after'[d][q] = IF q = p THEN tail[d][s] ELSE after[d][q]
    PROVE  \E next \in [Prompts -> Nat] :
              /\ Ordered(d, s, next)'
              /\ \A q \in Lane(d, s) : next[q] = rank[q] /\ rank[q] < next[p]
<1> DEFINE last == IF tail[d][s] = Null THEN 0 ELSE rank[tail[d][s]] + 1
<1>1. Lane(d, s) \subseteq Prompts /\ \A q \in Lane(d, s) : rank[q] \in Nat
  BY DEF Lane
<1>2. tail[d][s] = Null <=> Lane(d, s) = {}
  BY <1>1, NullIsNoPrompt DEF Ordered
<1>3. last \in Nat /\ \A q \in Lane(d, s) : rank[q] < last
  BY <1>1, <1>2 DEF Ordered
<1>4. PICK next \in [Prompts -> Nat] : next = [rank EXCEPT ![p] = last]
  BY <1>3
<1>5. next[p] = last /\ \A q \in Lane(d, s) : next[q] = rank[q] /\ q # p
  BY <1>1, <1>4
<1>6. tail[d][s] # Null => tail[d][s] \in Lane(d, s) /\ next[tail[d][s]] + 1 = last
  BY <1>2, <1>5 DEF Ordered
<1> HIDE DEF last
<1>7. Ordered(d, s, next)'
  <2> DEFINE new == Lane(d, s) \cup {p}
  <2>1. tail'[d][s] \in new
    OBVIOUS
  <2>2. \A q, r \in new : next[q] = next[r] => q = r
    BY <1>1, <1>3, <1>5 DEF Ordered
  <2>3. ASSUME NEW q \in Lane(d, s)
        PROVE  /\ next[q] <= next[tail'[d][s]]
               /\ after'[d][q] = Null => \A r \in new : next[q] <= next[r]
               /\ after'[d][q] # Null =>
                     /\ after'[d][q] \in new
                     /\ next[after'[d][q]] < next[q]
                     /\ \A r \in new : next[r] < next[q] => next[r] <= next[after'[d][q]]
    <3>1. after'[d][q] = after[d][q]
      BY <1>5, <2>3
    <3>2. next[q] <= next[tail'[d][s]]
      BY <1>1, <1>3, <1>5
    <3> QED
      BY <1>1, <1>3, <1>5, <3>1, <3>2 DEF Ordered
  <2>4. /\ next[p] <= next[tail'[d][s]]
        /\ after'[d][p] = Null => \A r \in new : next[p] <= next[r]
        /\ after'[d][p] # Null =>
              /\ after'[d][p] \in new
              /\ next[after'[d][p]] < next[p]
              /\ \A r \in new : next[r] < next[p] => next[r] <= next[after'[d][p]]
    <3>1. after'[d][p] = tail[d][s]
      OBVIOUS
    <3>2. CASE tail[d][s] = Null
      BY <1>2, <1>3, <1>5, <3>1, <3>2
    <3>3. CASE tail[d][s] # Null
      <4>1. next[tail[d][s]] \in Nat /\ next[tail[d][s]] < last
        BY <1>1, <1>3, <1>5, <1>6, <3>3
      <4>2. \A r \in new : next[r] < last => next[r] <= next[tail[d][s]]
        BY <1>1, <1>3, <1>5, <1>6, <3>3
      <4> QED
        BY <1>3, <1>5, <1>6, <3>1, <3>3, <4>1, <4>2
    <3> QED
      BY <3>2, <3>3
  <2> QED
    BY <2>1, <2>2, <2>3, <2>4 DEF Ordered
<1> QED
  BY <1>3, <1>5, <1>7

\* A step that no lane notices.
LanesKept ==
    /\ UNCHANGED <<after, tail>> /\ detoured \subseteq detoured'
    /\ \A d \in Daemons, p \in Prompts :
          /\ stage'[d][p] = "none" <=> stage[d][p] = "none"
          /\ stage[d][p] # "none" => session'[p] = session[p]
          /\ stage'[d][p] \notin {"none", "chained"} =>
                stage[d][p] \notin {"none", "chained"} \/ after[d][p] = Null

\* Such a step keeps the lanes.
LEMMA KeptOK == TypeOK /\ LanesOK /\ LanesKept => LanesOK'
<1> SUFFICES ASSUME TypeOK, LanesOK, LanesKept PROVE LanesOK'
  OBVIOUS
<1>1. ASSUME NEW d \in Daemons, NEW s \in Sessions
      PROVE  \E rank \in [Prompts -> Nat] : Ordered(d, s, rank)' /\ InTurn(d, s, rank)'
  <2>1. PICK rank \in [Prompts -> Nat] : Ordered(d, s, rank) /\ InTurn(d, s, rank)
    BY DEF LanesOK
  <2>2. Lane(d, s)' = Lane(d, s)
    BY DEF Lane, LanesKept
  <2>3. tail'[d][s] = tail[d][s] /\ \A p \in Lane(d, s) : after'[d][p] = after[d][p]
    BY DEF LanesKept
  <2>4. InTurn(d, s, rank)'
    BY <2>1, <2>2 DEF InTurn, LanesKept
  <2> QED
    BY <2>1, <2>2, <2>3, <2>4, LaneKept
<1>2. ASSUME NEW d \in Daemons, NEW p \in Prompts, stage'[d][p] \notin {"none", "chained"}
      PROVE  after'[d][p] = Null
  BY <1>2 DEF LanesOK, LanesKept
<1> QED
  BY <1>1, <1>2 DEF LanesOK

\* The steps of a dispatch before its end are such steps.
LEMMA DispatchKeeps ==
    ASSUME TypeOK, NEW d \in Daemons, NEW p \in Prompts,
           \/ Begin(d, p) \/ Decide(d, p) \/ Grant(d, p) \/ TimeOut(d, p)
           \/ Launch(d, p) \/ Defer(d, p) \/ Unserved(d, p) \/ OutOfSpace(d, p)
    PROVE  LanesKept
<1>1. ASSUME NEW from, NEW to \in Stages \ {"none", "chained"}, from # "none",
             from # "chained" \/ after[d][p] = Null,
             To(d, p, from, to), UNCHANGED session, detoured \subseteq detoured'
      PROVE  LanesKept
  <2>1. stage[d][p] = from /\ SetStage(d, p, to) /\ UNCHANGED <<after, tail>>
    BY <1>1, Staged DEF To
  <2> QED
    BY <1>1, <2>1 DEF LanesKept, SetStage
<1> QED
  BY <1>1 DEF Begin, Decide, Grant, TimeOut, Launch, Defer, Unserved, OutOfSpace, Stages,
              queue, history

\* The end of a dispatch takes the head off its lane and leaves the others.
LEMMA SettleOK ==
    ASSUME TypeOK, LanesOK, NEW d \in Daemons, NEW p \in Prompts, Settle(d, p),
           UNCHANGED session, detoured \subseteq detoured',
           stage[d][p] \notin {"none", "chained"}
    PROVE  LanesOK'
<1>1. /\ SetStage(d, p, "none")
      /\ \A e \in Daemons, q \in Prompts :
            after'[e][q] = IF e = d /\ after[e][q] = p THEN Null ELSE after[e][q]
      /\ \A e \in Daemons, s \in Sessions :
            tail'[e][s] = IF e = d /\ s = session[p] /\ tail[e][s] = p
                          THEN Null ELSE tail[e][s]
  <2>1. SetStage(d, p, "none")
    BY Staged
  <2>2. \A e \in Daemons, q \in Prompts :
           after'[e][q] = IF e = d /\ after[e][q] = p THEN Null ELSE after[e][q]
    BY DEF Settle, TypeOK
  <2>3. \A e \in Daemons, s \in Sessions :
           tail'[e][s] = IF e = d /\ s = session[p] /\ tail[e][s] = p
                         THEN Null ELSE tail[e][s]
    BY DEF Settle, TypeOK
  <2> QED
    BY <2>1, <2>2, <2>3
<1>2. ASSUME NEW e \in Daemons, NEW s \in Sessions
      PROVE  \E rank \in [Prompts -> Nat] : Ordered(e, s, rank)' /\ InTurn(e, s, rank)'
  <2>1. PICK rank \in [Prompts -> Nat] : Ordered(e, s, rank) /\ InTurn(e, s, rank)
    BY DEF LanesOK
  <2>0. Lane(e, s)' \subseteq Lane(e, s)
    BY <1>1 DEF Lane, SetStage
  <2>4. InTurn(e, s, rank)'
    BY <2>1, <2>0 DEF InTurn
  <2>2. CASE e = d /\ s = session[p]
    <3>1. p \in Lane(e, s) /\ Lane(e, s)' = Lane(e, s) \ {p} /\ after[e][p] = Null
      BY <1>1, <2>2 DEF Lane, SetStage, LanesOK
    <3>2. /\ tail'[e][s] = IF tail[e][s] = p THEN Null ELSE tail[e][s]
          /\ \A q \in Lane(e, s) \ {p} :
                after'[e][q] = IF after[e][q] = p THEN Null ELSE after[e][q]
      BY <1>1, <2>2 DEF Lane
    <3> QED
      BY <2>1, <2>4, <3>1, <3>2, HeadLeaves
  <2>3. CASE ~(e = d /\ s = session[p])
    <3>1. Lane(e, s)' = Lane(e, s) /\ tail'[e][s] = tail[e][s]
      BY <1>1, <2>3 DEF Lane, SetStage
    <3>2. \A q \in Lane(e, s) : ~(e = d /\ after[e][q] = p)
      BY <2>1, <2>3, NullIsNoPrompt DEF Lane, Ordered
    <3>3. \A q \in Lane(e, s) : after'[e][q] = after[e][q]
      BY <1>1, <3>2 DEF Lane
    <3> QED
      BY <2>1, <2>4, <3>1, <3>3, LaneKept
  <2> QED
    BY <2>2, <2>3
<1>3. ASSUME NEW e \in Daemons, NEW q \in Prompts, stage'[e][q] \notin {"none", "chained"}
      PROVE  after'[e][q] = Null
  BY <1>1, <1>3 DEF LanesOK, SetStage
<1> QED
  BY <1>2, <1>3 DEF LanesOK

\* Every step keeps the lanes: only Schedule, Fails, Ack and Die change one.
LEMMA LanesStep == Core /\ LanesOK /\ OrderOK /\ [Next]_vars => LanesOK'
<1> SUFFICES ASSUME Core, LanesOK, OrderOK, [Next]_vars PROVE LanesOK'
  OBVIOUS
<1>0. TypeOK /\ HandsOK
  BY DEF Core
<1> USE <1>0
<1>1. ASSUME NEW p \in Prompts, Expire(p) PROVE LanesOK'
  <2>1. LanesKept
    BY <1>1 DEF Expire, LanesKept, queue, lanes, history
  <2> QED
    BY <2>1, KeptOK
<1>2. ASSUME NEW p \in Prompts, NEW s \in Sessions, Publish(p, s) PROVE LanesOK'
  <2>1. \A e \in Daemons : stage[e][p] = "none"
    BY <1>2 DEF Publish, HandsOK, Hand
  <2>2. \A q \in Prompts : session'[q] = IF q = p THEN s ELSE session[q]
    BY <1>2 DEF Publish, TypeOK
  <2>3. LanesKept
    BY <1>2, <2>1, <2>2 DEF Publish, LanesKept, lanes, history
  <2> QED
    BY <2>3, KeptOK
<1>3. ASSUME NEW d \in Daemons, NEW p \in Prompts, Deliver(d, p) PROVE LanesOK'
  <2>1. LanesKept
    BY <1>3 DEF Deliver, LanesKept, queue, lanes, history
  <2> QED
    BY <2>1, KeptOK
<1>4. ASSUME NEW d \in Daemons, NEW p \in Prompts, Begin(d, p) PROVE LanesOK'
  BY <1>4, DispatchKeeps, KeptOK
<1>5. ASSUME NEW d \in Daemons, NEW p \in Prompts, Decide(d, p) PROVE LanesOK'
  BY <1>5, DispatchKeeps, KeptOK
<1>6. ASSUME NEW d \in Daemons, NEW p \in Prompts, Grant(d, p) PROVE LanesOK'
  BY <1>6, DispatchKeeps, KeptOK
<1>7. ASSUME NEW d \in Daemons, NEW p \in Prompts, TimeOut(d, p) PROVE LanesOK'
  BY <1>7, DispatchKeeps, KeptOK
<1>8. ASSUME NEW d \in Daemons, NEW p \in Prompts, Launch(d, p) PROVE LanesOK'
  BY <1>8, DispatchKeeps, KeptOK
<1>9. ASSUME NEW d \in Daemons, NEW p \in Prompts, OutOfSpace(d, p) PROVE LanesOK'
  BY <1>9, DispatchKeeps, KeptOK
<1>10. ASSUME NEW d \in Daemons, NEW p \in Prompts, Fails(d, p) PROVE LanesOK'
  <2>1. /\ Settle(d, p) /\ UNCHANGED session /\ detoured \subseteq detoured'
        /\ stage[d][p] \notin {"none", "chained"}
    BY <1>10 DEF Fails, HandBack
  <2> QED
    BY <2>1, SettleOK
<1>11. ASSUME NEW d \in Daemons, NEW p \in Prompts, Ack(d, p) PROVE LanesOK'
  <2>1. /\ Settle(d, p) /\ UNCHANGED session /\ detoured \subseteq detoured'
        /\ stage[d][p] \notin {"none", "chained"}
    BY <1>11 DEF Ack, history
  <2> QED
    BY <2>1, SettleOK
<1>12. ASSUME NEW d \in Daemons, NEW p \in Prompts, FlushOne(d, p) PROVE LanesOK'
  <2>1. LanesKept
    BY <1>12 DEF FlushOne, LanesKept, queue, lanes, history
  <2> QED
    BY <2>1, KeptOK
<1>24. ASSUME NEW d \in Daemons, NEW p \in Prompts, Defer(d, p) PROVE LanesOK'
  BY <1>24, DispatchKeeps, KeptOK
<1>25. ASSUME NEW d \in Daemons, NEW p \in Prompts, Unserved(d, p) PROVE LanesOK'
  BY <1>25, DispatchKeeps, KeptOK
<1>26. ASSUME NEW d \in Daemons, NEW p \in Prompts, FlushNone(d, p) PROVE LanesOK'
  <2>1. LanesKept
    BY <1>26 DEF FlushNone, LanesKept, queue, lanes
  <2> QED
    BY <2>1, KeptOK
<1>13. ASSUME NEW d \in Daemons, Schedule(d) PROVE LanesOK'
  <2> DEFINE h == Head(buffer[d])
  <2>1. h \in Buffered(d) /\ h \in Prompts
    BY <1>13, Buffers DEF Schedule
  <2>2. stage[d][h] = "none" /\ session[h] # Null
    BY <2>1 DEF HandsOK, Hand, TypeOK
  <2>3. session[h] \in Sessions
    BY <2>1, <2>2 DEF TypeOK
  <2>4. /\ UNCHANGED <<session, detoured>>
        /\ SetStage(d, h, "chained")
        /\ \A e \in Daemons, q \in Prompts :
              after'[e][q] = IF e = d /\ q = h THEN tail[d][session[h]] ELSE after[e][q]
        /\ \A e \in Daemons, t \in Sessions :
              tail'[e][t] = IF e = d /\ t = session[h] THEN h ELSE tail[e][t]
    BY <1>13, <2>1, <2>3 DEF Schedule, TypeOK, SetStage, Chains, queue, history
  <2> HIDE DEF h
  <2>5. ASSUME NEW e \in Daemons, NEW t \in Sessions
        PROVE  \E rank \in [Prompts -> Nat] : Ordered(e, t, rank)' /\ InTurn(e, t, rank)'
    <3>1. PICK rank \in [Prompts -> Nat] : Ordered(e, t, rank) /\ InTurn(e, t, rank)
      BY DEF LanesOK
    <3>2. CASE e = d /\ t = session[h]
      <4>1. h \notin Lane(e, t) /\ Lane(e, t)' = Lane(e, t) \cup {h}
        BY <2>1, <2>2, <2>4, <3>2 DEF Lane, SetStage
      <4>2. tail'[e][t] = h /\ \A q \in Lane(e, t) \cup {h} :
               after'[e][q] = IF q = h THEN tail[e][t] ELSE after[e][q]
        BY <2>1, <2>4, <3>2 DEF Lane
      <4>3. PICK next \in [Prompts -> Nat] :
               /\ Ordered(e, t, next)'
               /\ \A q \in Lane(e, t) : next[q] = rank[q] /\ rank[q] < next[h]
        BY <2>1, <3>1, <4>1, <4>2, TailComes
      <4>4. \A q \in Lane(e, t) \ detoured : h \notin detoured => ~(h < q)
        BY <2>1, <3>2 DEF OrderOK, LanesFirst, Lane
      <4>5. InTurn(e, t, next)'
        <5>1. SUFFICES ASSUME NEW q \in Lane(e, t)' \ detoured, NEW r \in Lane(e, t)' \ detoured,
                              q < r
                       PROVE  next[q] < next[r]
          BY <2>4 DEF InTurn
        <5>2. q # r /\ ~(q = h /\ r \in Lane(e, t))
          BY <4>1, <4>4, <5>1 DEF Lane, Prompts
        <5>3. CASE r = h
          BY <4>1, <4>3, <5>1, <5>2, <5>3
        <5>4. CASE r # h
          BY <3>1, <4>1, <4>3, <5>1, <5>2, <5>4 DEF InTurn
        <5> QED
          BY <5>3, <5>4
      <4> QED
        BY <4>3, <4>5
    <3>3. CASE ~(e = d /\ t = session[h])
      <4>1. /\ Lane(e, t)' = Lane(e, t) /\ tail'[e][t] = tail[e][t]
            /\ \A q \in Lane(e, t) : after'[e][q] = after[e][q]
        BY <2>2, <2>4, <3>3 DEF Lane, SetStage
      <4>2. InTurn(e, t, rank)'
        BY <2>4, <3>1, <4>1 DEF InTurn
      <4> QED
        BY <3>1, <4>1, <4>2, LaneKept
    <3> QED
      BY <3>2, <3>3
  <2>6. ASSUME NEW e \in Daemons, NEW q \in Prompts, stage'[e][q] \notin {"none", "chained"}
        PROVE  after'[e][q] = Null
    BY <2>1, <2>4, <2>6 DEF LanesOK, SetStage
  <2> QED
    BY <2>5, <2>6 DEF LanesOK
<1>14. ASSUME NEW d \in Daemons, TurnAway(d) PROVE LanesOK'
  <2>1. LanesKept
    BY <1>14 DEF TurnAway, HandBack, LanesKept, queue, lanes, history
  <2> QED
    BY <2>1, KeptOK
<1>15. ASSUME NEW d \in Daemons, PullFails(d) PROVE LanesOK'
  <2>1. LanesKept
    BY <1>15 DEF PullFails, LanesKept, queue, lanes, history
  <2> QED
    BY <2>1, KeptOK
<1>16. ASSUME NEW d \in Daemons, Resubscribe(d) PROVE LanesOK'
  <2>1. LanesKept
    BY <1>16 DEF Resubscribe, LanesKept, queue, lanes, history
  <2> QED
    BY <2>1, KeptOK
<1>17. ASSUME NEW d \in Daemons, Boot(d) PROVE LanesOK'
  <2>1. LanesKept
    BY <1>17 DEF Boot, LanesKept, queue, lanes, history
  <2> QED
    BY <2>1, KeptOK
<1>18. ASSUME NEW d \in Daemons, Lapse(d) PROVE LanesOK'
  <2>1. LanesKept
    BY <1>18 DEF Lapse, LanesKept, queue, lanes, history
  <2> QED
    BY <2>1, KeptOK
<1>19. ASSUME NEW d \in Daemons, Leave(d) PROVE LanesOK'
  <2>1. \A e \in Daemons, q \in Prompts :
           stage'[e][q] = IF e = d /\ stage[e][q] = "queued" THEN "returned" ELSE stage[e][q]
    BY <1>19 DEF Leave, TypeOK
  <2>2. LanesKept
    BY <1>19, <2>1 DEF Leave, LanesKept, queue, history
  <2> QED
    BY <2>2, KeptOK
<1>20. ASSUME NEW d \in Daemons, Die(d) PROVE LanesOK'
  <2>1. /\ UNCHANGED <<session, detoured>>
        /\ \A e \in Daemons, q \in Prompts :
              /\ stage'[e][q] = IF e = d THEN "none" ELSE stage[e][q]
              /\ after'[e][q] = IF e = d THEN Null ELSE after[e][q]
        /\ \A e \in Daemons, t \in Sessions :
              tail'[e][t] = IF e = d THEN Null ELSE tail[e][t]
    BY <1>20 DEF Die, TypeOK, Chains, queue, history
  <2>2. ASSUME NEW e \in Daemons, NEW t \in Sessions
        PROVE  \E rank \in [Prompts -> Nat] : Ordered(e, t, rank)' /\ InTurn(e, t, rank)'
    <3>1. PICK rank \in [Prompts -> Nat] : Ordered(e, t, rank) /\ InTurn(e, t, rank)
      BY DEF LanesOK
    <3>2. CASE e = d
      <4>1. Lane(e, t)' = {} /\ tail'[e][t] = Null
        BY <2>1, <3>2 DEF Lane
      <4> QED
        BY <3>1, <4>1 DEF Ordered, InTurn
    <3>3. CASE e # d
      <4>1. /\ Lane(e, t)' = Lane(e, t) /\ tail'[e][t] = tail[e][t]
            /\ \A q \in Lane(e, t) : after'[e][q] = after[e][q]
        BY <2>1, <3>3 DEF Lane
      <4>2. InTurn(e, t, rank)'
        BY <2>1, <3>1, <4>1 DEF InTurn
      <4> QED
        BY <3>1, <4>1, <4>2, LaneKept
    <3> QED
      BY <3>2, <3>3
  <2> QED
    BY <2>1, <2>2 DEF LanesOK
<1>21. ASSUME NEW d \in Daemons, NEW s \in Sessions, Flush(d, s) PROVE LanesOK'
  <2>1. LanesKept
    BY <1>21 DEF Flush, LanesKept, queue, lanes, history
  <2> QED
    BY <2>1, KeptOK
<1>22. ASSUME NEW d \in Daemons, NEW rest \in SUBSET Prompts, FlushFails(d, rest) PROVE LanesOK'
  <2>1. LanesKept
    BY <1>22 DEF FlushFails, LanesKept, queue, lanes, history
  <2> QED
    BY <2>1, KeptOK
<1>23. CASE UNCHANGED vars
  <2>1. LanesKept
    BY <1>23 DEF vars, LanesKept, queue, lanes, history
  <2> QED
    BY <2>1, KeptOK
<1> QED
  BY <1>1, <1>2, <1>3, <1>4, <1>5, <1>6, <1>7, <1>8, <1>9, <1>10, <1>11, <1>12,
     <1>13, <1>14, <1>15, <1>16, <1>17, <1>18, <1>19, <1>20, <1>21, <1>22, <1>23,
     <1>24, <1>25, <1>26
  DEF Next, Dispatch

-----------------------------------------------------------------------------
(* Order.                                                                  *)

\* A step that publishes, delivers and schedules nothing: prompts only leave the
\* buffers and the lanes, and what is answered stays known.
Calm ==
    /\ UNCHANGED <<session, by>> /\ detoured \subseteq detoured'
    /\ \A p \in Prompts :
          \/ stream'[p] = stream[p]
          \/ /\ stream[p] \notin {"new", "ready"} /\ stream'[p] \notin {"new", "ready"}
             /\ stream'[p] = "back" => p \in detoured'
    /\ \A d \in Daemons :
          /\ buffer'[d] \in {buffer[d], <<>>}
          /\ \A p \in held'[d] \cup flushing'[d] :
                \/ p \in held[d] \cup flushing[d]
                \/ session[p] \in Debounced \/ p \in detoured'
          /\ \A p \in Prompts : /\ stage[d][p] = "none" => stage'[d][p] = "none"
                                /\ Waits(d, p)' => Waits(d, p)

\* The prompt goes to a runtime: it was held back, or its dispatch is the first
\* of its session.
Taken(p) ==
    /\ p \in Prompts \ Consumed /\ consumed' = Append(consumed, p)
    /\ \/ session[p] \in Debounced \/ p \in detoured
       \/ /\ by[p] \in Daemons /\ Waits(by[p], p)
          /\ \A q \in Prompts \ detoured :
                q < p /\ session[q] = session[p] /\ p \notin detoured =>
                    q \notin Buffered(by[p]) /\ ~Waits(by[p], q)

\* What is given to a runtime comes after what was given to one.
LEMMA TakenFacts ==
    ASSUME TypeOK, NEW p, Taken(p)
    PROVE  /\ Consumed' = Consumed \cup {p}
           /\ Len(consumed) \in Nat /\ DOMAIN consumed' = 1..(Len(consumed) + 1)
           /\ DOMAIN consumed = 1..Len(consumed)
           /\ \A i \in DOMAIN consumed : consumed'[i] = consumed[i]
           /\ consumed'[Len(consumed) + 1] = p
<1>1. consumed \in Seq(Prompts) /\ p \in Prompts /\ consumed' = Append(consumed, p)
  BY DEF TypeOK, Taken
<1>2. /\ Len(consumed) \in Nat /\ DOMAIN consumed' = 1..(Len(consumed) + 1)
      /\ DOMAIN consumed = 1..Len(consumed)
      /\ \A i \in DOMAIN consumed : consumed'[i] = consumed[i]
      /\ consumed'[Len(consumed) + 1] = p
  BY <1>1
<1>3. \A i \in DOMAIN consumed' : i \in DOMAIN consumed \/ i = Len(consumed) + 1
  BY <1>2
<1>4. Consumed' = Consumed \cup {p}
  BY <1>2, <1>3 DEF Consumed
<1> QED
  BY <1>2, <1>4

\* Such steps keep the order.
LEMMA CalmOrder ==
    ASSUME TypeOK, OrderOK, Calm, UNCHANGED consumed \/ \E p : Taken(p)
    PROVE  OrderOK'
<1> USE DEF OrderOK
<1>1. \A d \in Daemons : Buffered(d)' \subseteq Buffered(d)
  BY DEF Calm, Buffered
<1>2. UNCHANGED <<session, by>> /\ detoured \subseteq detoured'
  BY DEF Calm
<1>3. Published'
  BY DEF Calm, Published
<1>4. BuffersInOrder'
  <2>1. SUFFICES ASSUME NEW d \in Daemons, NEW i \in DOMAIN buffer'[d],
                        NEW j \in DOMAIN buffer'[d], buffer'[d][i] < buffer'[d][j],
                        {buffer'[d][i], buffer'[d][j]} \cap detoured' = {}
                 PROVE  i < j
    BY DEF BuffersInOrder
  <2>2. buffer'[d] = buffer[d]
    BY <2>1 DEF Calm
  <2> QED
    BY <1>2, <2>1, <2>2 DEF BuffersInOrder
<1>5. LanesFirst'
  BY <1>1, <1>2 DEF LanesFirst, Calm
<1>6. Gathered'
  BY <1>2 DEF Gathered, Calm
<1>7. ASSUME NEW d \in Daemons, NEW p \in Prompts \ detoured', NEW q \in Prompts \ detoured',
             p < q, session[p] = session[q], session[p] \in Plain, q \in Consumed', by[q] = d
      PROVE  p \notin Buffered(d) /\ ~Waits(d, p)
  <2>1. CASE q \in Consumed
    BY <1>2, <1>7, <2>1 DEF ConsumedFirst
  <2>2. CASE q \notin Consumed
    <3>1. PICK t : Taken(t)
      BY <1>7, <2>2 DEF Consumed
    <3>2. q = t
      BY <1>7, <2>2, <3>1, TakenFacts
    <3> QED
      BY <1>2, <1>7, <3>1, <3>2, IntakeAssumption DEF Taken
  <2> QED
    BY <2>1, <2>2
<1>8. ConsumedFirst'
  BY <1>1, <1>2, <1>7, Zenon DEF ConsumedFirst, Calm
<1>9. SessionOrder'
  <2>1. CASE UNCHANGED consumed
    BY <1>2, <2>1 DEF SessionOrder
  <2>2. ASSUME NEW t, Taken(t) PROVE SessionOrder'
    <3>1. SUFFICES ASSUME NEW i \in DOMAIN consumed', NEW j \in DOMAIN consumed', i < j,
                          session[consumed'[i]] = session[consumed'[j]],
                          session[consumed'[i]] \in Plain,
                          by[consumed'[i]] = by[consumed'[j]],
                          {consumed'[i], consumed'[j]} \cap detoured' = {}
                   PROVE  consumed'[i] < consumed'[j]
      BY <1>2 DEF SessionOrder
    <3>2. i \in DOMAIN consumed /\ consumed'[i] = consumed[i]
      BY <2>2, <3>1, TakenFacts
    <3>3. CASE j \in DOMAIN consumed
      <4>1. consumed'[j] = consumed[j]
        BY <2>2, <3>3, TakenFacts
      <4> QED
        BY <1>2, <3>1, <3>2, <3>3, <4>1 DEF SessionOrder
    <3>4. CASE j \notin DOMAIN consumed
      <4>1. consumed'[j] = t /\ t \in Prompts \ Consumed
        BY <2>2, <3>4, TakenFacts DEF Taken
      <4>2. consumed[i] \in Consumed /\ consumed[i] \in Prompts
        BY <3>2 DEF Consumed, TypeOK
      <4>3. consumed[i] # t /\ session[t] \in Plain
        BY <3>1, <3>2, <4>1, <4>2
      <4>4. by[t] \in Daemons /\ Waits(by[t], t)
        <5>1. t \notin detoured
          BY <1>2, <3>1, <4>1
        <5> QED
          BY <2>2, <4>3, <5>1, IntakeAssumption DEF Taken
      <4>5. ~(t < consumed[i])
        BY <1>2, <3>1, <3>2, <4>1, <4>2, <4>4 DEF ConsumedFirst
      <4> QED
        BY <3>2, <4>1, <4>2, <4>3, <4>5 DEF Prompts
    <3> QED
      BY <3>3, <3>4
  <2> QED
    BY <2>1, <2>2
<1> QED
  BY <1>3, <1>4, <1>5, <1>6, <1>8, <1>9

\* A prompt the stream has yet to deliver is nowhere else.
LEMMA Undelivered ==
    ASSUME Core, NEW p \in Prompts, stream[p] \in {"new", "ready", "back"}
    PROVE  /\ p \notin Consumed /\ Consumed \subseteq Prompts
           /\ \A d \in Daemons : /\ ~Hand(d, p)
                                 /\ p \notin held[d] \cup flushing[d]
                                 /\ held[d] \cup flushing[d] \subseteq Prompts
<1>1. ~Spent(p)
  BY DEF Spent
<1>2. p \notin Consumed
  BY <1>1 DEF Core, ConsumedOK
<1>3. Consumed \subseteq Prompts
  <2>1. consumed \in Seq(Prompts)
    BY DEF Core, TypeOK
  <2> QED
    BY <2>1 DEF Consumed
<1>4. ASSUME NEW d \in Daemons
      PROVE  /\ ~Hand(d, p) /\ p \notin held[d] \cup flushing[d]
             /\ held[d] \cup flushing[d] \subseteq Prompts
  <2>1. ~Hand(d, p)
    BY DEF Core, HandsOK
  <2>2. p \notin held[d] \cup flushing[d]
    BY <1>1 DEF Core, DebouncedOK
  <2>3. held[d] \in SUBSET Prompts /\ flushing[d] \in SUBSET Prompts
    BY DEF Core, TypeOK
  <2> QED
    BY <2>1, <2>2, <2>3
<1> QED
  BY <1>2, <1>3, <1>4

\* A prompt that is published comes after all that were.
LEMMA PublishOrder ==
    ASSUME Core, OrderOK, NEW p \in Prompts, NEW s \in Sessions, Publish(p, s)
    PROVE  OrderOK'
<1> USE DEF OrderOK
<1>1. /\ UNCHANGED <<by, buffer, stage, held, flushing, consumed, detoured>>
      /\ stream[p] = "new" /\ \A q \in 1..(p - 1) : stream[q] \notin {"new", "ready"}
      /\ \A q \in Prompts : /\ stream'[q] = IF q = p THEN "ready" ELSE stream[q]
                            /\ q # p => session'[q] = session[q]
  BY DEF Publish, Core, TypeOK, intake, lanes, batches, history
<1>2. /\ \A d \in Daemons : /\ p \notin held[d] \cup flushing[d]
                            /\ held[d] \cup flushing[d] \subseteq Prompts
                            /\ ~Hand(d, p)
      /\ p \notin Consumed /\ Consumed \subseteq Prompts
  BY <1>1, Undelivered
<1>3. /\ Consumed' = Consumed
      /\ \A d \in Daemons : Buffered(d)' = Buffered(d)
      /\ \A d \in Daemons, q \in Prompts : Waits(d, q)' <=> Waits(d, q)
  BY <1>1 DEF Consumed, Buffered, Waits
<1>4. Published'
  <2>1. \A q \in Prompts : q < p => stream[q] \notin {"new", "ready"}
    BY <1>1 DEF Prompts
  <2> QED
    BY <1>1, <2>1 DEF Published
<1>5. BuffersInOrder' /\ LanesFirst'
  BY <1>1, <1>3 DEF BuffersInOrder, LanesFirst
<1>6. Gathered'
  BY <1>1, <1>2 DEF Gathered
<1>7. ConsumedFirst'
  BY <1>1, <1>2, <1>3 DEF ConsumedFirst, Hand, Waits
<1>8. SessionOrder'
  <2>1. \A i \in DOMAIN consumed : consumed[i] \in Prompts /\ consumed[i] # p
    BY <1>2 DEF Consumed
  <2> QED
    BY <1>1, <2>1 DEF SessionOrder
<1> QED
  BY <1>4, <1>5, <1>6, <1>7, <1>8

\* A prompt that is delivered for the first time comes after all that were.
LEMMA DeliverOrder ==
    ASSUME Core, OrderOK, NEW d \in Daemons, NEW p \in Prompts, Deliver(d, p)
    PROVE  OrderOK'
<1> USE DEF OrderOK
<1> DEFINE new == Append(buffer[d], p)
<1>1. /\ UNCHANGED <<session, stage, held, flushing, consumed, detoured>>
      /\ stream[p] \in {"ready", "back"} /\ buffer[d] \in Seq(Prompts)
      /\ \A q \in Prompts : /\ stream'[q] = IF q = p THEN "out" ELSE stream[q]
                            /\ q # p => by'[q] = by[q]
      /\ \A e \in Daemons : buffer'[e] = IF e = d THEN new ELSE buffer[e]
  BY DEF Deliver, Core, TypeOK, lanes, batches, history
<1>2. /\ DOMAIN new = 1..(Len(buffer[d]) + 1) /\ DOMAIN buffer[d] = 1..Len(buffer[d])
      /\ \A i \in DOMAIN buffer[d] : new[i] = buffer[d][i]
      /\ new[Len(buffer[d]) + 1] = p /\ Len(buffer[d]) \in Nat
  BY <1>1
<1> HIDE DEF new
<1>3. \A e \in Daemons, q \in Prompts : q \in Buffered(e)' => q \in Buffered(e) \/ q = p
  BY <1>1, <1>2 DEF Buffered
<1>4. /\ \A e \in Daemons : ~Hand(e, p)
      /\ p \notin Consumed /\ Consumed' = Consumed /\ Consumed \subseteq Prompts
      /\ \A e \in Daemons, q \in Prompts : Waits(e, q)' <=> Waits(e, q)
  <2>1. stream[p] \in {"new", "ready", "back"}
    BY <1>1
  <2>2. p \notin Consumed /\ Consumed \subseteq Prompts /\ \A e \in Daemons : ~Hand(e, p)
    BY <2>1, Undelivered
  <2>3. Consumed' = Consumed /\ \A e \in Daemons, q \in Prompts : Waits(e, q)' <=> Waits(e, q)
    BY <1>1 DEF Consumed, Waits
  <2> QED
    BY <2>2, <2>3
<1>5. p \notin detoured => \A q \in Prompts : p < q => stream[q] = "new"
  BY <1>1 DEF Published
<1>6. \A q \in Prompts : stream[q] = "new" =>
         q \notin Consumed /\ \A e \in Daemons : ~Hand(e, q)
  BY DEF Core, HandsOK, ConsumedOK, Spent
<1>7. Published' /\ Gathered'
  BY <1>1 DEF Published, Gathered
<1>8. BuffersInOrder'
  <2>1. SUFFICES ASSUME NEW e \in Daemons, NEW i \in DOMAIN buffer'[e],
                        NEW j \in DOMAIN buffer'[e], buffer'[e][i] < buffer'[e][j],
                        {buffer'[e][i], buffer'[e][j]} \cap detoured = {}
                 PROVE  i < j
    BY <1>1 DEF BuffersInOrder
  <2>2. CASE e # d
    BY <1>1, <2>1, <2>2 DEF BuffersInOrder
  <2>3. CASE e = d /\ i \in DOMAIN buffer[d] /\ j \in DOMAIN buffer[d]
    BY <1>1, <1>2, <2>1, <2>3 DEF BuffersInOrder
  <2>4. CASE e = d /\ i \in DOMAIN buffer[d] /\ j \notin DOMAIN buffer[d]
    BY <1>1, <1>2, <2>1, <2>4
  <2>5. CASE e = d /\ i \notin DOMAIN buffer[d]
    <3>1. i = Len(buffer[d]) + 1 /\ buffer'[e][i] = p
      BY <1>1, <1>2, <2>1, <2>5
    <3>2. j \in DOMAIN buffer[d] \/ buffer'[e][j] = p
      BY <1>1, <1>2, <2>1, <2>5
    <3>3. CASE buffer'[e][j] = p
      BY <2>1, <3>1, <3>3 DEF Prompts
    <3>4. CASE j \in DOMAIN buffer[d]
      <4>1. buffer[d][j] \in Buffered(d) /\ buffer[d][j] \in Prompts
        BY <1>1, <3>4 DEF Buffered
      <4>2. p < buffer[d][j] /\ p \notin detoured
        BY <1>1, <1>2, <2>1, <2>5, <3>1, <3>4
      <4> QED
        BY <1>5, <1>6, <4>1, <4>2 DEF Hand
    <3> QED
      BY <3>2, <3>3, <3>4
  <2> QED
    BY <2>2, <2>3, <2>4, <2>5
<1>9. LanesFirst'
  BY <1>1, <1>3, <1>5, <1>6 DEF LanesFirst, Hand
<1>10. ConsumedFirst'
  <2>1. SUFFICES ASSUME NEW e \in Daemons, NEW q \in Prompts \ detoured,
                        NEW r \in Prompts \ detoured, q < r, session[q] = session[r],
                        session[q] \in Plain, r \in Consumed, by'[r] = e
                 PROVE  q \notin Buffered(e)' /\ ~Waits(e, q)
    BY <1>1, <1>4 DEF ConsumedFirst
  <2>2. r # p /\ q # p /\ by[r] = e
    BY <1>1, <1>4, <1>5, <1>6, <2>1
  <2> QED
    BY <1>3, <2>1, <2>2 DEF ConsumedFirst
<1>11. SessionOrder'
  <2>1. \A i \in DOMAIN consumed : consumed[i] \in Prompts /\ consumed[i] # p
    BY <1>4 DEF Consumed
  <2> QED
    BY <1>1, <2>1 DEF SessionOrder
<1> QED
  BY <1>7, <1>8, <1>9, <1>10, <1>11

\* The head of the buffer goes to its lane before all that are behind it.
LEMMA ScheduleOrder ==
    ASSUME Core, OrderOK, NEW d \in Daemons, Schedule(d)
    PROVE  OrderOK'
<1> USE DEF OrderOK
<1> DEFINE h == Head(buffer[d])
           new == Tail(buffer[d])
<1>1. h \in Buffered(d) /\ h \in Prompts
  BY Buffers DEF Schedule, Core
<1>2. /\ UNCHANGED <<session, stream, by, held, flushing, consumed, detoured>>
      /\ buffer[d] \in Seq(Prompts) /\ buffer[d] # <<>>
      /\ \A e \in Daemons, q \in Prompts :
            stage'[e][q] = IF e = d /\ q = h THEN "chained" ELSE stage[e][q]
      /\ \A e \in Daemons : buffer'[e] = IF e = d THEN new ELSE buffer[e]
  BY <1>1 DEF Schedule, Core, TypeOK, queue, batches, history
<1>3. /\ Len(buffer[d]) \in Nat \ {0} /\ DOMAIN buffer[d] = 1..Len(buffer[d])
      /\ DOMAIN new = 1..(Len(buffer[d]) - 1) /\ buffer[d][1] = h
      /\ \A i \in DOMAIN new : i + 1 \in DOMAIN buffer[d] /\ new[i] = buffer[d][i + 1]
  BY <1>2
<1>4. \A e \in Daemons : Buffered(e)' = IF e = d THEN Buffered(d) \ {h} ELSE Buffered(e)
  BY <1>2, Buffers DEF Schedule, Core
<1> HIDE DEF h, new
<1>5. /\ Consumed' = Consumed
      /\ \A e \in Daemons, q \in Prompts :
            Waits(e, q)' => Waits(e, q) \/ (e = d /\ q = h)
  BY <1>2 DEF Consumed, Waits
<1>6. Published' /\ Gathered'
  BY <1>2 DEF Published, Gathered
<1>7. BuffersInOrder'
  <2>1. SUFFICES ASSUME NEW e \in Daemons, NEW i \in DOMAIN buffer'[e],
                        NEW j \in DOMAIN buffer'[e], buffer'[e][i] < buffer'[e][j],
                        {buffer'[e][i], buffer'[e][j]} \cap detoured = {}
                 PROVE  i < j
    BY <1>2 DEF BuffersInOrder
  <2>2. CASE e # d
    BY <1>2, <2>1, <2>2 DEF BuffersInOrder
  <2>3. CASE e = d
    <3>1. /\ i \in DOMAIN new /\ buffer'[e][i] = buffer[d][i + 1] /\ i + 1 \in DOMAIN buffer[d]
          /\ j \in DOMAIN new /\ buffer'[e][j] = buffer[d][j + 1] /\ j + 1 \in DOMAIN buffer[d]
      BY <1>2, <1>3, <2>1, <2>3
    <3>2. i + 1 < j + 1
      BY <2>1, <2>3, <3>1 DEF BuffersInOrder
    <3> QED
      BY <1>3, <3>1, <3>2
  <2> QED
    BY <2>2, <2>3
<1>8. LanesFirst'
  <2>1. SUFFICES ASSUME NEW e \in Daemons, NEW q \in Prompts \ detoured,
                        NEW r \in Prompts \ detoured, q < r, stage'[e][r] # "none"
                 PROVE  q \notin Buffered(e)'
    BY <1>2 DEF LanesFirst
  <2>2. CASE ~(e = d /\ r = h)
    BY <1>2, <1>4, <2>1, <2>2 DEF LanesFirst
  <2>3. CASE e = d /\ r = h
    <3>1. SUFFICES ASSUME q \in Buffered(d) PROVE FALSE
      BY <1>4, <2>3
    <3>2. PICK i \in DOMAIN buffer[d] : buffer[d][i] = q
      BY <3>1 DEF Buffered
    <3>3. i < 1
      BY <1>3, <2>1, <2>3, <3>2 DEF BuffersInOrder
    <3> QED
      BY <1>3, <3>2, <3>3
  <2> QED
    BY <2>2, <2>3
<1>9. ConsumedFirst'
  BY <1>1, <1>2, <1>4, <1>5 DEF ConsumedFirst
<1>10. SessionOrder'
  BY <1>2 DEF SessionOrder
<1> QED
  BY <1>6, <1>7, <1>8, <1>9, <1>10

\* The head of a lane is the first of its session, as far as none was handed back.
LEMMA HeadIsTaken ==
    ASSUME Core, LanesOK, OrderOK, NEW d \in Daemons, NEW p \in Prompts,
           stage[d][p] \in {"deciding", "starting"}, consumed' = Append(consumed, p)
    PROVE  Taken(p)
<1>1. by[p] = d /\ p \notin Consumed /\ Waits(d, p)
  BY DEF Core, HandsOK, Hand, ConsumedOK, Spent, Waits
<1>2. session[p] \in Sessions
  <2>1. stream[p] \in {"out", "expired"}
    BY DEF Core, HandsOK, Hand
  <2>2. session[p] \in Sessions \cup {Null} /\ (session[p] = Null <=> stream[p] = "new")
    BY DEF Core, TypeOK
  <2> QED
    BY <2>1, <2>2
<1>3. PICK rank \in [Prompts -> Nat] : Ordered(d, session[p], rank) /\ InTurn(d, session[p], rank)
  BY <1>2 DEF LanesOK
<1>4. after[d][p] = Null /\ p \in Lane(d, session[p])
  BY DEF LanesOK, Lane
<1>5. ASSUME NEW q \in Prompts \ detoured, q < p, session[q] = session[p], p \notin detoured
      PROVE  q \notin Buffered(d) /\ ~Waits(d, q)
  <2>1. q \notin Buffered(d)
    BY <1>5 DEF OrderOK, LanesFirst
  <2>2. q \notin Lane(d, session[p])
    <3>1. SUFFICES ASSUME q \in Lane(d, session[p]) PROVE FALSE
      OBVIOUS
    <3>2. rank[q] < rank[p] /\ rank[p] <= rank[q] /\ rank[p] \in Nat /\ rank[q] \in Nat
      BY <1>3, <1>4, <1>5, <3>1 DEF Ordered, InTurn
    <3> QED
      BY <3>2
  <2> QED
    BY <1>5, <2>1, <2>2 DEF Lane, Waits
<1> QED
  BY <1>1, <1>5 DEF Taken

\* An answer leaves a prompt known.
LEMMA AnswerCalm ==
    ASSUME TypeOK, NEW p \in Prompts, NEW status \in {"back", "acked"}, Answer(p, status),
           status = "back" => p \in detoured'
    PROVE  \A q \in Prompts :
              \/ stream'[q] = stream[q]
              \/ /\ stream[q] \notin {"new", "ready"} /\ stream'[q] \notin {"new", "ready"}
                 /\ stream'[q] = "back" => q \in detoured'
BY Answered DEF Answers

\* A dispatch that goes on from a stage in which it waits.
LEMMA ToCalm ==
    ASSUME TypeOK, NEW d \in Daemons, NEW p \in Prompts, NEW from, NEW to,
           To(d, p, from, to), from \in {"chained", "deciding", "queued", "starting"},
           UNCHANGED <<queue, intake, flushing>>, detoured \subseteq detoured',
           \/ held' = held
           \/ /\ held' = [held EXCEPT ![d] = @ \cup {p}]
              /\ session[p] \in Debounced \/ p \in detoured'
    PROVE  Calm
<1>1. stage[d][p] = from /\ SetStage(d, p, to)
  BY Staged
<1>2. \A e \in Daemons :
         \/ held'[e] = held[e]
         \/ /\ held'[e] = held[e] \cup {p}
            /\ session[p] \in Debounced \/ p \in detoured'
  BY DEF TypeOK
<1> QED
  BY <1>1, <1>2 DEF Calm, SetStage, Waits, queue, intake

\* Every step keeps the order.
LEMMA OrderStep == Core /\ LanesOK /\ OrderOK /\ [Next]_vars => OrderOK'
<1> SUFFICES ASSUME Core, LanesOK, OrderOK, [Next]_vars PROVE OrderOK'
  OBVIOUS
<1>0. TypeOK
  BY DEF Core
<1> USE <1>0
<1>1. ASSUME NEW p \in Prompts, Expire(p) PROVE OrderOK'
  <2>1. Calm
    BY <1>1 DEF Expire, Calm, TypeOK, Waits, intake, lanes, batches, history
  <2> QED
    BY <1>1, <2>1, CalmOrder DEF Expire, history
<1>2. ASSUME NEW p \in Prompts, NEW s \in Sessions, Publish(p, s) PROVE OrderOK'
  BY <1>2, PublishOrder
<1>3. ASSUME NEW d \in Daemons, NEW p \in Prompts, Deliver(d, p) PROVE OrderOK'
  BY <1>3, DeliverOrder
<1>4. ASSUME NEW d \in Daemons, NEW p \in Prompts, Begin(d, p) PROVE OrderOK'
  <2>1. Calm
    BY <1>4, ToCalm DEF Begin, history
  <2> QED
    BY <1>4, <2>1, CalmOrder DEF Begin, history
<1>5. ASSUME NEW d \in Daemons, NEW p \in Prompts, Decide(d, p) PROVE OrderOK'
  <2>1. Calm
    BY <1>5, ToCalm DEF Decide, batches
  <2>2. UNCHANGED consumed \/ Taken(p)
    BY <1>5, HeadIsTaken DEF Decide, Consume, To
  <2> QED
    BY <2>1, <2>2, CalmOrder
<1>6. ASSUME NEW d \in Daemons, NEW p \in Prompts, Grant(d, p) PROVE OrderOK'
  <2>1. Calm
    BY <1>6, ToCalm DEF Grant, batches, history
  <2> QED
    BY <1>6, <2>1, CalmOrder DEF Grant, history
<1>7. ASSUME NEW d \in Daemons, NEW p \in Prompts, TimeOut(d, p) PROVE OrderOK'
  <2>1. Calm
    BY <1>7, ToCalm DEF TimeOut, batches
  <2> QED
    BY <1>7, <2>1, CalmOrder DEF TimeOut
<1>8. ASSUME NEW d \in Daemons, NEW p \in Prompts, Launch(d, p) PROVE OrderOK'
  <2>1. Calm
    BY <1>8, ToCalm DEF Launch, batches
  <2>2. UNCHANGED consumed \/ Taken(p)
    BY <1>8, HeadIsTaken DEF Launch, Consume, To
  <2> QED
    BY <2>1, <2>2, CalmOrder
<1>9. ASSUME NEW d \in Daemons, NEW p \in Prompts, OutOfSpace(d, p) PROVE OrderOK'
  <2>1. Calm
    BY <1>9, ToCalm DEF OutOfSpace, batches
  <2> QED
    BY <1>9, <2>1, CalmOrder DEF OutOfSpace
<1>10. ASSUME NEW d \in Daemons, NEW p \in Prompts, Fails(d, p) PROVE OrderOK'
  <2>1. SetStage(d, p, "none")
    BY <1>10, Staged DEF Fails
  <2>2. Calm
    BY <1>10, <2>1, AnswerCalm DEF Fails, HandBack, Calm, SetStage, Waits, intake, batches
  <2> QED
    BY <1>10, <2>2, CalmOrder DEF Fails
<1>11. ASSUME NEW d \in Daemons, NEW p \in Prompts, Ack(d, p) PROVE OrderOK'
  <2>1. SetStage(d, p, "none")
    BY <1>11, Staged DEF Ack
  <2>2. Calm
    BY <1>11, <2>1, AnswerCalm DEF Ack, Calm, SetStage, Waits, intake, batches, history
  <2> QED
    BY <1>11, <2>2, CalmOrder DEF Ack, history
<1>12. ASSUME NEW d \in Daemons, NEW p \in Prompts, FlushOne(d, p) PROVE OrderOK'
  <2>1. \A e \in Daemons : flushing'[e] \subseteq flushing[e]
    BY <1>12 DEF FlushOne, TypeOK
  <2>2. Calm
    BY <1>12, <2>1 DEF FlushOne, Calm, Waits, queue, intake, lanes
  <2>3. UNCHANGED consumed \/ Taken(p)
    BY <1>12 DEF FlushOne, Consume, Taken, Core, DebouncedOK, OrderOK, Gathered
  <2> QED
    BY <2>2, <2>3, CalmOrder
<1>24. ASSUME NEW d \in Daemons, NEW p \in Prompts, Defer(d, p) PROVE OrderOK'
  <2>1. Calm
    BY <1>24, ToCalm DEF Defer
  <2> QED
    BY <1>24, <2>1, CalmOrder DEF Defer
<1>25. ASSUME NEW d \in Daemons, NEW p \in Prompts, Unserved(d, p) PROVE OrderOK'
  <2>1. Calm
    BY <1>25, ToCalm DEF Unserved, batches
  <2> QED
    BY <1>25, <2>1, CalmOrder DEF Unserved
<1>26. ASSUME NEW d \in Daemons, NEW p \in Prompts, FlushNone(d, p) PROVE OrderOK'
  <2>1. \A e \in Daemons : held'[e] \cup flushing'[e] \subseteq held[e] \cup flushing[e]
    BY <1>26 DEF FlushNone, TypeOK
  <2>2. Calm
    BY <1>26, <2>1 DEF FlushNone, Calm, Waits, queue, intake, lanes
  <2> QED
    BY <1>26, <2>2, CalmOrder DEF FlushNone
<1>13. ASSUME NEW d \in Daemons, Schedule(d) PROVE OrderOK'
  BY <1>13, ScheduleOrder
<1>14. ASSUME NEW d \in Daemons, TurnAway(d) PROVE OrderOK'
  <2>1. Head(buffer[d]) \in Prompts
    BY <1>14, Buffers DEF TurnAway, Core
  <2>2. \A e \in Daemons : buffer'[e] \in {buffer[e], <<>>}
    BY <1>14 DEF TurnAway, TypeOK
  <2>3. Calm
    BY <1>14, <2>1, <2>2, AnswerCalm DEF TurnAway, HandBack, Calm, Waits, lanes, batches
  <2> QED
    BY <1>14, <2>3, CalmOrder DEF TurnAway
<1>15. ASSUME NEW d \in Daemons, PullFails(d) PROVE OrderOK'
  <2>1. \A e \in Daemons : buffer'[e] \in {buffer[e], <<>>}
    BY <1>15 DEF PullFails, TypeOK
  <2>2. Calm
    BY <1>15, <2>1 DEF PullFails, Calm, Waits, queue, lanes, batches
  <2> QED
    BY <1>15, <2>2, CalmOrder DEF PullFails
<1>16. ASSUME NEW d \in Daemons, Resubscribe(d) PROVE OrderOK'
  <2>1. Calm
    BY <1>16 DEF Resubscribe, Calm, Waits, queue, lanes, batches, history
  <2> QED
    BY <1>16, <2>1, CalmOrder DEF Resubscribe, history
<1>17. ASSUME NEW d \in Daemons, Boot(d) PROVE OrderOK'
  <2>1. Calm
    BY <1>17 DEF Boot, Calm, Waits, queue, lanes, batches, history
  <2> QED
    BY <1>17, <2>1, CalmOrder DEF Boot, history
<1>18. ASSUME NEW d \in Daemons, Lapse(d) PROVE OrderOK'
  <2>1. Calm
    BY <1>18 DEF Lapse, Calm, Waits, queue, lanes, batches, history
  <2> QED
    BY <1>18, <2>1, CalmOrder DEF Lapse, history
<1>19. ASSUME NEW d \in Daemons, Leave(d) PROVE OrderOK'
  <2>1. \A e \in Daemons :
           /\ held'[e] \subseteq held[e]
           /\ \A q \in Prompts : stage'[e][q] = stage[e][q]
                                 \/ (stage[e][q] = "queued" /\ stage'[e][q] = "returned")
    BY <1>19 DEF Leave, TypeOK
  <2>2. Calm
    BY <1>19, <2>1 DEF Leave, Calm, Waits, queue, history
  <2> QED
    BY <1>19, <2>2, CalmOrder DEF Leave, history
<1>20. ASSUME NEW d \in Daemons, Die(d) PROVE OrderOK'
  <2>1. \A e \in Daemons :
           /\ held'[e] \subseteq held[e] /\ flushing'[e] \subseteq flushing[e]
           /\ buffer'[e] \in {buffer[e], <<>>}
           /\ \A q \in Prompts : stage'[e][q] \in {stage[e][q], "none"}
    BY <1>20 DEF Die, TypeOK
  <2>2. Calm
    BY <1>20, <2>1 DEF Die, Calm, Waits, queue, history
  <2> QED
    BY <1>20, <2>2, CalmOrder DEF Die, history
<1>21. ASSUME NEW d \in Daemons, NEW s \in Sessions, Flush(d, s) PROVE OrderOK'
  <2>1. \A e \in Daemons : held'[e] \cup flushing'[e] \subseteq held[e] \cup flushing[e]
    BY <1>21 DEF Flush, TypeOK
  <2>2. Calm
    BY <1>21, <2>1 DEF Flush, Calm, Waits, queue, intake, lanes, history
  <2> QED
    BY <1>21, <2>2, CalmOrder DEF Flush, history
<1>22. ASSUME NEW d \in Daemons, NEW rest \in SUBSET Prompts, FlushFails(d, rest) PROVE OrderOK'
  <2>1. \A e \in Daemons : flushing'[e] \subseteq flushing[e]
    BY <1>22 DEF FlushFails, TypeOK
  <2>2. Calm
    BY <1>22, <2>1 DEF FlushFails, Calm, Waits, queue, intake, lanes
  <2> QED
    BY <1>22, <2>2, CalmOrder DEF FlushFails
<1>23. CASE UNCHANGED vars
  <2>1. Calm
    BY <1>23 DEF vars, Calm, Waits, queue, intake, lanes, batches, history
  <2> QED
    BY <1>23, <2>1, CalmOrder DEF vars, history
<1> QED
  BY <1>1, <1>2, <1>3, <1>4, <1>5, <1>6, <1>7, <1>8, <1>9, <1>10, <1>11, <1>12,
     <1>13, <1>14, <1>15, <1>16, <1>17, <1>18, <1>19, <1>20, <1>21, <1>22, <1>23,
     <1>24, <1>25, <1>26
  DEF Next, Dispatch

-----------------------------------------------------------------------------
(* Theorems.                                                               *)

IInv == Core /\ LanesOK /\ OrderOK

\* Every reachable state of queue, buffers, lanes and debounces satisfies the
\* invariant (the pull loop, dispatchPrompt and the dispatcher's handlePrompt).
THEOREM IntakeInvHolds == Spec => []IInv
<1>1. Init => IInv
  <2> SUFFICES ASSUME Init PROVE IInv
    OBVIOUS
  <2>1. TypeOK
    BY IntakeAssumption DEF Init, TypeOK, Streams, Lives, Stages, Fates, Chains
  <2>2. Consumed = {} /\ \A d \in Daemons : Buffered(d) = {} /\ Distinct(buffer[d])
    BY DEF Init, Consumed, Buffered, Distinct
  <2>3. HandsOK
    <3>1. \A d \in Daemons : d # Null
      BY IntakeAssumption DEF Daemons
    <3> QED
      BY <2>2, <3>1 DEF Init, HandsOK, Hand
  <2>4. DebouncedOK /\ StrandedOK /\ ReturnedOK /\ LossesAreKnown
    BY <2>2 DEF Init, DebouncedOK, StrandedOK, ReturnedOK, LossesAreKnown
  <2>5. ConsumedOK
    BY <2>2 DEF Init, ConsumedOK, Distinct
  <2>6. LanesOK
    <3>1. \A d \in Daemons, s \in Sessions : Lane(d, s) = {} /\ tail[d][s] = Null
      BY DEF Init, Lane
    <3>2. \A d \in Daemons, s \in Sessions :
             \E rank \in [Prompts -> Nat] : Ordered(d, s, rank) /\ InTurn(d, s, rank)
      <4>1. [p \in Prompts |-> 0] \in [Prompts -> Nat]
        OBVIOUS
      <4> QED
        BY <3>1, <4>1 DEF Ordered, InTurn
    <3> QED
      BY <3>2 DEF Init, LanesOK
  <2>7. OrderOK
    BY <2>2 DEF Init, OrderOK, Published, BuffersInOrder, LanesFirst, ConsumedFirst,
                Gathered, SessionOrder
  <2> QED
    BY <2>1, <2>3, <2>4, <2>5, <2>6, <2>7 DEF Core, IInv
<1>2. IInv /\ [Next]_vars => IInv'
  BY CoreStep, LanesStep, OrderStep DEF IInv
<1> QED
  BY <1>1, <1>2, PTL DEF Spec

\* Every reachable state has the declared types, and a prompt has a session once
\* it is published (publishSessionPrompt).
THEOREM IntakeTypeCorrect == Spec => []TypeOK
<1>1. IInv => TypeOK
  BY DEF IInv, Core
<1> QED
  BY <1>1, IntakeInvHolds, PTL

\* What dispatchPrompt acknowledges was given to a runtime, is held back by the
\* dispatcher, or was lost in one of the ways that are known.
THEOREM IntakeLossesAreKnown == Spec => []LossesAreKnown
<1>1. IInv => LossesAreKnown
  BY DEF IInv, Core
<1> QED
  BY <1>1, IntakeInvHolds, PTL

\* A prompt is in one place and is given to runtimes once, whatever fails and
\* whoever fences it (the hand-backs of the pull loop and of dispatchPrompt).
THEOREM PromptsAreInOnePlace == Spec => []InOnePlace
<1>1. IInv => InOnePlace
  BY DEF IInv, Core, HandsOK, Hand, ConsumedOK, Distinct, InOnePlace
<1> QED
  BY <1>1, IntakeInvHolds, PTL

\* The lanes of schedulePromptDispatch never fork, and their tails are right.
THEOREM LanesNeverFork == Spec => []LanesAreChains
<1>1. IInv => LanesAreChains
  <2> SUFFICES ASSUME LanesOK, NEW d \in Daemons, NEW s \in Sessions
               PROVE  /\ tail[d][s] \in IF Lane(d, s) = {} THEN {Null} ELSE Lane(d, s)
                      /\ \A p, q \in Lane(d, s) :
                            after[d][p] = Null /\ after[d][q] = Null => p = q
    BY DEF IInv, LanesAreChains, Lane
  <2>1. PICK rank \in [Prompts -> Nat] : Ordered(d, s, rank)
    BY DEF LanesOK
  <2>2. \A p \in Lane(d, s) : rank[p] \in Nat
    BY DEF Lane
  <2> QED
    BY <2>1, <2>2 DEF Ordered
<1> QED
  BY <1>1, IntakeInvHolds, PTL

\* A daemon gives the prompts of a plain session to runtimes in the order of
\* publication, but for those that were handed back (the lanes of
\* schedulePromptDispatch, filled in the order of the buffer).
THEOREM SessionsKeepTheirOrder == Spec => []SessionOrder
<1>1. IInv => SessionOrder
  BY DEF IInv, OrderOK
<1> QED
  BY <1>1, IntakeInvHolds, PTL

=============================================================================
