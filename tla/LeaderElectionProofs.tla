----------------------- MODULE LeaderElectionProofs -----------------------
(***************************************************************************)
(* For every number of daemons, and every lease and renewal interval: the  *)
(* singleton runners run on at most one daemon until a daemon that watches *)
(* is stopped or a lease is not renewed in time.  Renewals may fail any    *)
(* number of times; LeaseAssumption only says which number in a row, at    *)
(* least, these two lengths outlive.                                       *)
(***************************************************************************)
EXTENDS LeaderElection, TLAPS

\* Renewals that come Tolerated + 1 intervals apart at worst keep the entry
\* younger than the bucket's max_age: the arithmetic behind LEASE_TTL_S and
\* RENEWAL_INTERVAL_MS (index.ts:30-33).
LEMMA LeaseOutlivesMisses ==
    ASSUME NEW m \in 0..Tolerated, NEW a \in Nat, a <= Interval
    PROVE  m * Interval + a < Ttl /\ (m + 1) * Interval = m * Interval + Interval
<1> USE LeaseAssumption
<1>1. m * Interval <= Tolerated * Interval
  <2>1. PICK k \in Nat : Tolerated = m + k
    <3> WITNESS Tolerated - m \in Nat
    <3> QED  OBVIOUS
  <2>2. Tolerated * Interval = m * Interval + k * Interval  BY <2>1
  <2>3. k * Interval >= 0  OBVIOUS
  <2>4. m * Interval \in Int /\ k * Interval \in Int  OBVIOUS
  <2> QED  BY <2>2, <2>3, <2>4
<1>2. (Tolerated + 1) * Interval = Tolerated * Interval + Interval  OBVIOUS
<1>3. (m + 1) * Interval = m * Interval + Interval  OBVIOUS
<1>4. m * Interval \in Int /\ Tolerated * Interval \in Int  OBVIOUS
<1> QED  BY <1>1, <1>2, <1>3, <1>4

\* What the steps below need of the constants, without the product.
LEMMA ConstantTypes ==
    /\ Ttl \in Nat /\ Interval \in Nat /\ Tolerated \in Nat /\ MaxLost \in Nat
    /\ 0 < Interval /\ Interval < Ttl
<1>1. 0 * Interval + Interval < Ttl
  BY LeaseOutlivesMisses, LeaseAssumption
<1> QED  BY <1>1, LeaseAssumption

\* Every variable keeps its type, whatever the daemons and the server do.
THEOREM TypeCorrect == Spec => []TypeOK
<1> USE ConstantTypes, NoOneAssumption
<1>1. Init => TypeOK
  BY DEF Init, TypeOK, Lives, Watches, Faults
<1>2. TypeOK /\ [Next]_vars => TypeOK'
  <2> SUFFICES ASSUME TypeOK, [Next]_vars PROVE TypeOK'
    OBVIOUS
  <2> USE DEF TypeOK, Lives, Watches, Faults, server, timers
  <2>1. CASE Expire            BY <2>1 DEF Expire
  <2>2. CASE Tick              BY <2>2 DEF Tick, Older
  <2>3. CASE UNCHANGED vars    BY <2>3 DEF vars
  <2>4. ASSUME NEW d \in Daemons, BootAsLeader(d)  PROVE TypeOK'
    BY <2>4 DEF BootAsLeader, Create, StartRenewal
  <2>5. ASSUME NEW d \in Daemons, BootAsFollower(d)  PROVE TypeOK'
    BY <2>5 DEF BootAsFollower, NotAcquired, CreateUnanswered, Create
  <2>6. ASSUME NEW d \in Daemons, Poll(d)  PROVE TypeOK'
    BY <2>6 DEF Poll
  <2>7. ASSUME NEW d \in Daemons, TakeOver(d)  PROVE TypeOK'
    BY <2>7 DEF TakeOver, Create, StartRenewal
  <2>8. ASSUME NEW d \in Daemons, LoseRace(d)  PROVE TypeOK'
    BY <2>8 DEF LoseRace, NotAcquired, CreateUnanswered, Create
  <2>9. ASSUME NEW d \in Daemons, StartRunners(d)  PROVE TypeOK'
    BY <2>9 DEF StartRunners
  <2>15. ASSUME NEW d \in Daemons, StartFails(d)  PROVE TypeOK'
    BY <2>15 DEF StartFails
  <2>10. ASSUME NEW d \in Daemons, Renew(d)  PROVE TypeOK'
    BY <2>10 DEF Renew, Put
  <2>11. ASSUME NEW d \in Daemons, MissRenewal(d)  PROVE TypeOK'
    <3>1. missed[d] \in 0..(Tolerated + 1)  BY DEF TypeOK
    <3>2. missed' \in [Daemons -> 0..(Tolerated + 1)]
      <4> HIDE DEF TypeOK
      <4>1. missed \in [Daemons -> 0..(Tolerated + 1)]  BY DEF TypeOK
      <4>2. \E m \in 0..(Tolerated + 1) : missed' = [missed EXCEPT ![d] = m]
        BY <2>11, <3>1 DEF MissRenewal
      <4> QED  BY <4>1, <4>2
    <3>3. faults' \subseteq Faults  BY <2>11 DEF MissRenewal
    <3>4. renewAge' \in [Daemons -> 0..Interval]  BY <2>11 DEF MissRenewal
    <3> QED  BY <2>11, <3>2, <3>3, <3>4 DEF MissRenewal
  <2>12. ASSUME NEW d \in Daemons, BeginShutdown(d)  PROVE TypeOK'
    BY <2>12 DEF BeginShutdown
  <2>13. ASSUME NEW d \in Daemons, Release(d)  PROVE TypeOK'
    BY <2>13 DEF Release, Delete
  <2>14. ASSUME NEW d \in Daemons, Gone(d)  PROVE TypeOK'
    <3>1. life' \in [Daemons -> Lives]  BY <2>14 DEF Gone
    <3>2. watch' \in [Daemons -> Watches]  BY <2>14 DEF Gone
    <3>3. renewAge' \in [Daemons -> 0..Ttl]  BY <2>14 DEF Gone
    <3>4. missed' \in [Daemons -> 0..(Tolerated + 1)]  BY <2>14 DEF Gone
    <3> QED  BY <2>14, <3>1, <3>2, <3>3, <3>4 DEF Gone
  <2> QED
    BY <2>1, <2>2, <2>3, <2>4, <2>5, <2>6, <2>7, <2>8, <2>9, <2>10, <2>11,
       <2>12, <2>13, <2>14, <2>15 DEF Next, Exit, Crash
<1> QED  BY <1>1, <1>2, PTL DEF Spec

\* The strengthened invariant is inductive.  An instance of TypeOK travels with
\* it; the faults only ever grow, so a step that ends without a fault starts
\* without one.
LEMMA LeaseInvHolds ==
    ASSUME TypeOK, LeaseInv, [Next]_vars
    PROVE  LeaseInv'
<1> USE ConstantTypes, NoOneAssumption
<1> SUFFICES ASSUME faults' = {}
             PROVE  /\ (\A d \in renewing : LeaseHeld(d))'
                    /\ StagesAgree'
  BY DEF LeaseInv
<1>1. faults = {}
  BY DEF Next, vars, Expire, Tick, BootAsLeader, BootAsFollower, Poll, TakeOver,
         LoseRace, StartRunners, StartFails, Renew, MissRenewal, BeginShutdown, Release,
         Exit, Crash, Gone
<1>2. /\ \A d \in renewing : LeaseHeld(d)
      /\ StagesAgree
  BY <1>1 DEF LeaseInv
<1>3. \A d \in renewing : keyAge < Ttl
  <2> SUFFICES ASSUME NEW d \in renewing PROVE keyAge < Ttl
    OBVIOUS
  <2>1. missed[d] \in 0..Tolerated /\ renewAge[d] \in Nat /\ renewAge[d] <= Interval
        /\ keyAge <= missed[d] * Interval + renewAge[d] /\ keyAge \in Nat
    BY <1>2 DEF LeaseHeld, TypeOK
  <2>2. missed[d] * Interval + renewAge[d] < Ttl
    BY <2>1, LeaseOutlivesMisses
  <2>3. missed[d] * Interval \in Int  BY <2>1
  <2> QED  BY <2>1, <2>2, <2>3
<1>4. key = NoOne => renewing = {} /\ runners = {}
  BY <1>2 DEF LeaseHeld, StagesAgree, TypeOK
<1> DEFINE Goal == /\ \A e \in renewing : LeaseHeld(e)
                   /\ StagesAgree
<1> USE <1>2 DEF TypeOK, StagesAgree, server, timers
<1>5. CASE UNCHANGED vars
  BY <1>5 DEF vars, LeaseHeld
<1>6. CASE Expire
  <2>1. renewing = {}  BY <1>3, <1>6 DEF Expire
  <2> QED  BY <2>1, <1>6 DEF Expire
<1>7. CASE Tick
  <2>1. Overdue = {}  BY <1>7 DEF Tick
  <2>2. ASSUME NEW e \in renewing PROVE LeaseHeld(e)'
    <3>1. renewAge[e] < Interval  BY <2>1 DEF Overdue
    <3>2. renewAge'[e] = renewAge[e] + 1 /\ missed' = missed
      BY <1>7, <3>1 DEF Tick, Older
    <3>3. LeaseHeld(e)  OBVIOUS
    <3>4. keyAge' <= keyAge + 1 /\ keyAge' \in Nat /\ key' = key
      BY <1>7 DEF Tick, Older
    <3>5. missed[e] * Interval \in Int  OBVIOUS
    <3> QED  BY <3>1, <3>2, <3>3, <3>4, <3>5 DEF LeaseHeld
  <2> QED  BY <2>2, <1>7 DEF Tick
<1>8. ASSUME NEW d \in Daemons, BootAsLeader(d) PROVE Goal'
  <2>1. renewing = {} /\ runners = {}  BY <1>8, <1>4 DEF BootAsLeader, Create
  <2>2. renewing' = {d} /\ key' = d /\ keyAge' = 0 /\ renewAge'[d] = 0 /\ missed'[d] = 0
    BY <1>8, <2>1 DEF BootAsLeader, Create, StartRenewal
  <2>3. LeaseHeld(d)'  BY <2>2 DEF LeaseHeld
  <2> QED  BY <1>8, <2>1, <2>2, <2>3 DEF BootAsLeader
<1>9. ASSUME NEW d \in Daemons, TakeOver(d) PROVE Goal'
  <2>1. renewing = {} /\ runners = {}  BY <1>9, <1>4 DEF TakeOver, Create
  <2>2. renewing' = {d} /\ key' = d /\ keyAge' = 0 /\ renewAge'[d] = 0 /\ missed'[d] = 0
    BY <1>9, <2>1 DEF TakeOver, Create, StartRenewal
  <2>3. LeaseHeld(d)'  BY <2>2 DEF LeaseHeld
  <2> QED  BY <1>9, <2>1, <2>2, <2>3 DEF TakeOver
<1>10. ASSUME NEW d \in Daemons, BootAsFollower(d) PROVE Goal'
  <2>1. \A e \in renewing' : LeaseHeld(e)'
    BY <1>10, <1>4 DEF BootAsFollower, NotAcquired, CreateUnanswered, Create, LeaseHeld
  <2> QED  BY <1>10, <2>1 DEF BootAsFollower
<1>11. ASSUME NEW d \in Daemons, LoseRace(d) PROVE Goal'
  <2>1. \A e \in renewing' : LeaseHeld(e)'
    BY <1>11, <1>4 DEF LoseRace, NotAcquired, CreateUnanswered, Create, LeaseHeld
  <2> QED  BY <1>11, <2>1 DEF LoseRace
<1>12. ASSUME NEW d \in Daemons, Poll(d) PROVE Goal'
  BY <1>12 DEF Poll, LeaseHeld
<1>13. ASSUME NEW d \in Daemons, StartRunners(d) PROVE Goal'
  BY <1>13 DEF StartRunners, LeaseHeld
<1>19. ASSUME NEW d \in Daemons, StartFails(d) PROVE Goal'
  BY <1>19 DEF StartFails, LeaseHeld
<1>14. ASSUME NEW d \in Daemons, BeginShutdown(d) PROVE Goal'
  BY <1>14 DEF BeginShutdown, LeaseHeld
<1>15. ASSUME NEW d \in Daemons, Renew(d) PROVE Goal'
  <2>1. renewing = {d}
    BY <1>15 DEF Renew, LeaseHeld
  <2>2. LeaseHeld(d)'
    BY <1>15 DEF Renew, Put, LeaseHeld
  <2> QED  BY <1>15, <2>1, <2>2 DEF Renew
<1>16. ASSUME NEW d \in Daemons, MissRenewal(d) PROVE Goal'
  <2>1. renewing = {d}
    BY <1>16 DEF MissRenewal, LeaseHeld
  <2>2. LeaseHeld(d)'
    <3>1. missed[d] < Tolerated /\ missed'[d] = missed[d] + 1 /\ renewAge'[d] = 0
      BY <1>16 DEF MissRenewal
    <3>2. (missed[d] + 1) * Interval = missed[d] * Interval + Interval
      BY LeaseOutlivesMisses
    <3>3. missed[d] * Interval \in Int  OBVIOUS
    <3>4. LeaseHeld(d) /\ renewAge[d] = Interval  BY <1>16 DEF MissRenewal
    <3>5. key' = key /\ keyAge' = keyAge  BY <1>16 DEF MissRenewal
    <3> QED  BY <3>1, <3>2, <3>3, <3>4, <3>5 DEF LeaseHeld
  <2> QED  BY <1>16, <2>1, <2>2 DEF MissRenewal
<1>17. ASSUME NEW d \in Daemons, Release(d) PROVE Goal'
  <2>1. renewing = {d}
    BY <1>17 DEF Release, LeaseHeld
  <2> QED  BY <1>17, <2>1 DEF Release
<1>18. ASSUME NEW d \in Daemons, Gone(d) PROVE Goal'
  <2>1. \A e \in renewing' : LeaseHeld(e)'
    BY <1>18 DEF Gone, LeaseHeld
  <2>3. StagesAgree'
    BY <1>18 DEF Gone
  <2> QED  BY <2>1, <2>3
<1> QED
  BY <1>5, <1>6, <1>7, <1>8, <1>9, <1>10, <1>11, <1>12, <1>13, <1>14, <1>15, <1>16, <1>17, <1>18, <1>19
     DEF Next, Exit, Crash

\* The lease invariant holds in every reachable state.
THEOREM LeaseSafe == Spec => []LeaseInv
<1>1. Init => LeaseInv
  BY DEF Init, LeaseInv, StagesAgree
<1>2. TypeOK /\ LeaseInv /\ [Next]_vars => LeaseInv'
  BY LeaseInvHolds
<1> QED  BY <1>1, <1>2, TypeCorrect, PTL DEF Spec

\* "Only one daemon per role runs the associated work" (index.ts:5), until a
\* daemon is stopped that still watches, a renewal timer fires late, or more
\* renewals fail in a row than the lease outlives.
THEOREM OneRunnerSafe == Spec => []OneRunnerUnlessFaulty
<1>1. TypeOK /\ LeaseInv => OneRunnerUnlessFaulty
  BY DEF TypeOK, LeaseInv, StagesAgree, LeaseHeld, OneRunnerUnlessFaulty, OneRunner, Leading
<1> QED  BY <1>1, TypeCorrect, LeaseSafe, PTL

=============================================================================
