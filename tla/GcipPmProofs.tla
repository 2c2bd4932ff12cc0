---------------------------- MODULE GcipPmProofs ----------------------------
(***************************************************************************)
(* The safety of gcip-pm.c for every number of references and of retries.  *)
(*                                                                         *)
(* IInv is inductive: RefsAccounted needs the counters' types,             *)
(* PoweredWhileHeld needs DeferredMeansOn (a get that cancels a deferred   *)
(* power down does not call power_up, and its worker does not look at the  *)
(* count).  The flags are typed in leaves of their own, since the SMT      *)
(* translation has no membership in BOOLEAN.                               *)
(***************************************************************************)
EXTENDS GcipPm, TLAPS

PowerInv ==
  /\ CountersOK
  /\ RefsAccounted
  /\ PoweredWhileHeld
  /\ DeferredMeansOn
  /\ RetryNotLost

IInv == FlagsOK /\ PowerInv

\* The states gcip_pm_create leaves satisfy the invariant.
LEMMA InitIInv == Init => IInv
<1>1. Init => FlagsOK
  BY Zenon DEF Init, FlagsOK
<1>2. Init => PowerInv
  BY BoundsAssumption DEF Init, PowerInv, CountersOK, RefsAccounted, InFlight,
     PoweredWhileHeld, DeferredMeansOn, RetryNotLost, Flushers, Idle
<1> QED
  BY <1>1, <1>2 DEF IInv

\* Every operation leaves the flags Boolean.
LEMMA NextFlags == FlagsOK /\ [Next]_vars => FlagsOK'
<1> SUFFICES ASSUME FlagsOK, [Next]_vars PROVE FlagsOK'
  OBVIOUS
<1> USE DEF FlagsOK, pmVars, asyncVars, workers, ledger
<1>1. ASSUME NEW s \in BOOLEAN, NEW r \in UpResults, Get(s, r) PROVE FlagsOK'
  BY <1>1, Zenon DEF Get, GetLocked
<1>2. CASE GetIfPowered
  BY <1>2, Zenon DEF GetIfPowered, GetLocked
<1>3. ASSUME NEW s \in BOOLEAN, NEW r \in DownResults, Put(s, r) PROVE FlagsOK'
  BY <1>3, Zenon DEF Put, PutLocked, TryPowerDown
<1>4. CASE PutAsync
  BY <1>4, Zenon DEF PutAsync
<1>5. CASE PutWorkStart \/ PutWorkTake
  BY <1>5, Zenon DEF PutWorkStart, PutWorkTake
<1>6. ASSUME NEW r \in DownResults, PutWorkPut(r) PROVE FlagsOK'
  BY <1>6, Zenon DEF PutWorkPut, PutLocked, TryPowerDown
<1>7. CASE PowerDownWorkStart
  BY <1>7, Zenon DEF PowerDownWorkStart
<1>8. ASSUME NEW r \in DownResults, PowerDownWorkRun(r) PROVE FlagsOK'
  BY <1>8, Zenon DEF PowerDownWorkRun, TryPowerDown
<1>9. ASSUME NEW n \in 0..MaxRetry, FlushStart(n) PROVE FlagsOK'
  BY <1>9, Zenon DEF FlushStart
<1>10. CASE FlushWork \/ FlushCheck
  BY <1>10, Zenon DEF FlushWork, FlushCheck
<1>11. ASSUME NEW f \in BOOLEAN, NEW r \in DownResults, Shutdown(f, r)
       PROVE FlagsOK'
  BY <1>11, Zenon DEF Shutdown, TryPowerDown
<1>12. CASE Destroy \/ DestroyEnds
  BY <1>12, Zenon DEF Destroy, DestroyEnds
<1>13. CASE UNCHANGED vars
  BY <1>13, Zenon DEF vars
<1> QED
  BY <1>1, <1>2, <1>3, <1>4, <1>5, <1>6, <1>7, <1>8, <1>9, <1>10, <1>11,
     <1>12, <1>13, Zenon DEF Next

\* What one call of the power_down callback and its bookkeeping leave behind.
LEMMA TryPowerDownFacts ==
  ASSUME NEW ret \in DownResults, TryPowerDown(ret), FlagsOK, FlagsOK',
         block \in {"on", "off"}
  PROVE  /\ block' \in {"on", "off"}
         /\ power_down_pending' => block' = "on" /\ power_down_work'
         /\ power_down_work => power_down_work'
<1>1. power_down_pending' <=> ret = "EAGAIN"
  BY Zenon DEF TryPowerDown
<1>2. power_down_work' <=> power_down_work \/ ret = "EAGAIN"
  BY Zenon DEF TryPowerDown
<1>3. /\ block' \in {"on", "off"}
      /\ ret = "EAGAIN" => block' = "on"
  BY DEF TryPowerDown, CallPowerDown, DownResults
<1> QED
  BY <1>1, <1>2, <1>3

\* Every operation preserves the accounting and the power invariants.
LEMMA NextPowerInv == IInv /\ [Next]_vars => PowerInv'
<1> SUFFICES ASSUME FlagsOK, FlagsOK', PowerInv, [Next]_vars PROVE PowerInv'
  BY NextFlags DEF IInv
<1> USE BoundsAssumption
    DEF FlagsOK, PowerInv, CountersOK, RefsAccounted, InFlight, PoweredWhileHeld,
        DeferredMeansOn, RetryNotLost, pmVars, asyncVars, workers, ledger
<1>1. ASSUME NEW s \in BOOLEAN, NEW r \in UpResults, Get(s, r) PROVE PowerInv'
  <2>1. ClampSuspendable(suspendable_count + 1, count + 1) = suspendable_count + 1
    BY DEF ClampSuspendable
  <2> QED
    BY <1>1, <2>1 DEF Get, GetLocked, CanGet, CallsPowerUp, CallPowerUp
<1>2. CASE GetIfPowered
  BY <1>2 DEF GetIfPowered, GetLocked, CanGet, CallsPowerUp, CallPowerUp
<1>3. ASSUME NEW s \in BOOLEAN, NEW r \in DownResults, Put(s, r)
      PROVE PowerInv'
  BY <1>3, TryPowerDownFacts DEF Put, PutLocked, ClampSuspendable
<1>4. CASE PutAsync
  BY <1>4 DEF PutAsync
<1>5. CASE PutWorkStart
  BY <1>5 DEF PutWorkStart
<1>6. CASE PutWorkTake
  BY <1>6 DEF PutWorkTake
<1>7. ASSUME NEW r \in DownResults, PutWorkPut(r) PROVE PowerInv'
  BY <1>7, TryPowerDownFacts DEF PutWorkPut, PutLocked
<1>8. CASE PowerDownWorkStart
  BY <1>8 DEF PowerDownWorkStart
<1>9. ASSUME NEW r \in DownResults, PowerDownWorkRun(r) PROVE PowerInv'
  <2>1. flusher' \in Flushers
    BY <1>9 DEF PowerDownWorkRun, Flushers
  <2>2. CASE power_down_pending
    <3>1. /\ block' \in {"on", "off"}
          /\ power_down_pending' => block' = "on" /\ power_down_work'
      BY <1>9, <2>2, TryPowerDownFacts DEF PowerDownWorkRun
    <3>2. CountersOK' /\ RefsAccounted'
      BY <1>9, <2>1, <3>1 DEF PowerDownWorkRun
    <3>3. PoweredWhileHeld' /\ DeferredMeansOn' /\ RetryNotLost'
      BY <1>9, <2>2, <3>1 DEF PowerDownWorkRun
    <3> QED
      BY <3>2, <3>3
  <2>3. CASE ~power_down_pending
    BY <1>9, <2>1, <2>3 DEF PowerDownWorkRun
  <2> QED
    BY <2>2, <2>3
<1>10. ASSUME NEW n \in 0..MaxRetry, FlushStart(n) PROVE PowerInv'
  BY <1>10 DEF FlushStart, Flushers
<1>11. CASE FlushWork
  <2>1. flusher' \in Flushers
    BY <1>11 DEF FlushWork, Flushers
  <2> QED
    BY <1>11, <2>1 DEF FlushWork
<1>12. CASE FlushCheck
  <2>1. flusher' \in Flushers
    BY <1>12 DEF FlushCheck, Flushers, Idle
  <2> QED
    BY <1>12, <2>1 DEF FlushCheck
<1>13. ASSUME NEW f \in BOOLEAN, NEW r \in DownResults, Shutdown(f, r)
       PROVE PowerInv'
  BY <1>13, TryPowerDownFacts DEF Shutdown
<1>14. CASE Destroy \/ DestroyEnds
  BY <1>14 DEF Destroy, DestroyEnds
<1>15. CASE UNCHANGED vars
  BY <1>15 DEF vars
<1> QED
  BY <1>1, <1>2, <1>3, <1>4, <1>5, <1>6, <1>7, <1>8, <1>9, <1>10, <1>11,
     <1>12, <1>13, <1>14, <1>15 DEF Next

\* The invariant holds in every state gcip-pm.c can reach.
THEOREM Inductive == Spec => []IInv
<1>1. IInv /\ [Next]_vars => IInv'
  BY NextFlags, NextPowerInv DEF IInv
<1> QED
  BY InitIInv, <1>1, PTL DEF Spec

\* No counter of gcip-pm.c underflows and no flag or worker leaves its range.
THEOREM TypeCorrect == Spec => []TypeOK
<1>1. IInv => TypeOK
  BY DEF IInv, PowerInv, TypeOK
<1> QED
  BY Inductive, <1>1, PTL

\* gcip_pm_get, put and put_async conserve references: pm->count is always
\* the number its callers and the put worker own together.
THEOREM ReferencesConserved == Spec => []RefsAccounted
<1>1. IInv => RefsAccounted
  BY DEF IInv, PowerInv
<1> QED
  BY Inductive, <1>1, PTL

\* No interleaving of puts, retries and flushes turns the block off under a
\* reference, unless a shutdown was forced.
THEOREM HoldersArePowered == Spec => []PoweredWhileHeld
<1>1. IInv => PoweredWhileHeld
  BY DEF IInv, PowerInv
<1> QED
  BY Inductive, <1>1, PTL

\* A power down the firmware denied is always going to be retried.
THEOREM DeniedIsRetried == Spec => []RetryNotLost
<1>1. IInv => RetryNotLost
  BY DEF IInv, PowerInv
<1> QED
  BY Inductive, <1>1, PTL

\* gcip_pm_suspendable_locked agrees to a suspend only when no reference of
\* any kind but a suspendable one is left.
THEOREM SuspendIsConsented == Spec => []SuspendNeedsConsent
<1>1. IInv => SuspendNeedsConsent
  BY DEF IInv, PowerInv, CountersOK, RefsAccounted, InFlight,
     SuspendNeedsConsent, SuspendableLocked
<1> QED
  BY Inductive, <1>1, PTL
=============================================================================
