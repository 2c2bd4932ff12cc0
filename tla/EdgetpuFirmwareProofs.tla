------------------------ MODULE EdgetpuFirmwareProofs ------------------------
(***************************************************************************)
(* Who starts the firmware and who powers the block, for any number of     *)
(* clients and any choice of those a signal may interrupt.                 *)
(*                                                                         *)
(* The argument is about who holds which lock at which place.  A thread in *)
(* a power transition holds the PM lock and the count is zero; a thread    *)
(* that starts the firmware without being in a power transition holds the  *)
(* firmware lock and owns a reference, so that the count is not zero.      *)
(* Hence the two never meet, although edgetpu-pm.c starts the firmware     *)
(* without the firmware lock.                                              *)
(***************************************************************************)
EXTENDS EdgetpuFirmware, FiniteSetTheorems, TLAPS

\* Threads with a reference of gcip_pm_get.
Owns(t) ==
  \/ pc[t] \in {"on", "held", "rate", "load", "put"}
  \/ Runs(t) /\ ctx[t] = "none"
Owners == {t \in Thread : Owns(t)}

\* Threads in a power_up or power_down callback, and those between
\* edgetpu_firmware_lock and its unlock.
InTransition(t) ==
  \/ pc[t] \in {"up", "downing", "fwlock", "reset"}
  \/ Runs(t) /\ ctx[t] # "none"
HoldsFw(t) ==
  IF t = "handler" THEN pc[t] \notin {"idle", "loading", "lock"}
                   ELSE Runs(t) /\ ctx[t] \in {"none", "down"}

Types ==
  /\ pc \in [Thread -> Places]
  /\ ctx \in [Thread -> {"none", "up", "failed", "put", "down"}]
  /\ prev \in [Thread -> {"invalid", "loading", "valid"}]
  /\ pmLock \in Thread \cup {"ping", None}
  /\ fwLock \in Thread \cup {"ping", None}
  /\ status \in {"invalid", "loading", "valid"}
  /\ state \in {"nofw", "loading", "good"}
  /\ fw \in {"off", "running", "hung"}
  /\ ping \in {"idle", "armed", "sent"}

Flags == {pending, retryWork, block, cpu, skipped, handlerWork, lockout} \subseteq BOOLEAN

\* An activated group belongs to a client between its acquire and its release,
\* which does not close it.
ActiveInv ==
  /\ groups \subseteq Clients /\ active \subseteq groups
  /\ \A c \in active : pc[c] \in {"held", "rate"}

\* What a thread returns to fits the place it is at.
ReturnsInv ==
  /\ \A t \in Thread :
       /\ Runs(t) => /\ ctx[t] \in {"none", "up", "down"}
                     /\ ctx[t] = "none" => t \in {"loader", "handler"}
       /\ pc[t] \in {"downing", "fwlock", "reset"} => ctx[t] \in {"put", "failed"}
       /\ Runs(t) \/ pc[t] \in {"downing", "fwlock", "reset"} \/ ctx[t] = "none"
  /\ ctx["handler"] # "down"

LockInv ==
  /\ \A t \in Thread : /\ InTransition(t) => pmLock = t
                       /\ HoldsFw(t) => fwLock = t
  /\ ping = "sent" => pmLock = "ping" /\ fwLock = "ping"

CountInv == count = Cardinality(Owners)

PowerInv ==
  /\ \A t \in Thread :
       /\ InTransition(t) => count = 0
       /\ Runs(t) \/ pc[t] \in {"fwlock", "reset"} => block
       /\ pc[t] = "up" \/ ctx[t] \in {"up", "failed"} => ~pending
  /\ pending => count = 0
  /\ count > 0 \/ pending => block
  /\ ping = "sent" => count > 0

\* Why the firmware is watched: a start arms the ping before it is over; a
\* group, whose commands may bite, keeps the loader out; a power down that was
\* denied has shut the firmware down.  Whoever finds the firmware up and its
\* status changed by a loader sets skipped, so that the status, which a loader
\* may put back at any time, does not matter.
Watching ==
  \/ ping # "idle" \/ handlerWork
  \/ pc["handler"] \in {"loading", "lock", "mark", "get", "run"}
  \/ \E u \in Thread : pc[u] = "rate"

WatchInv ==
  /\ lockout => groups = {}
  /\ Runs("loader") /\ ctx["loader"] = "none" => lockout
  /\ pc["retry"] \notin {"mark", "get", "up"} /\ ctx["retry"] \notin {"up", "failed"}
  /\ \A t \in Thread :
       /\ pc[t] = "rate" => t \in groups
       /\ pc[t] \in {"boot", "booted"} => state = "loading"
       /\ pc[t] = "booted" =>
            \/ ping # "idle" \/ ctx[t] = "down"
            \/ /\ t = "handler" /\ ctx[t] = "none"
               /\ handlerWork \/ \E u \in Thread : pc[u] = "rate"
       /\ pc[t] = "reset" => state # "good" \/ skipped
  /\ state = "good" /\ ~skipped =>
       /\ count > 0 => Watching
       /\ pending => \E t \in Thread : \/ pc[t] \in {"downing", "fwlock"}
                                       \/ Runs(t) /\ ctx[t] = "down"

IInv == Types /\ Flags /\ ActiveInv /\ ReturnsInv /\ LockInv /\ CountInv /\ PowerInv

-----------------------------------------------------------------------------
\* Who the threads are, and that there are finitely many of them.
LEMMA ThreadFacts ==
  /\ IsFiniteSet(Thread)
  /\ "loader" \in Thread /\ "handler" \in Thread /\ "retry" \in Thread
  /\ Clients \subseteq Thread
  /\ "ping" \notin Thread /\ None \notin Thread /\ None # "ping"
<1>1. IsFiniteSet(Clients \cup {"loader"})
  BY FirmwareAssumption, FS_AddElement
<1>2. IsFiniteSet(Clients \cup {"loader"} \cup {"handler"})
  BY <1>1, FS_AddElement
<1>3. IsFiniteSet(Clients \cup {"loader"} \cup {"handler"} \cup {"retry"})
  BY <1>2, FS_AddElement
<1>4. Thread = Clients \cup {"loader"} \cup {"handler"} \cup {"retry"}
  BY DEF Thread
<1> QED
  BY <1>3, <1>4, FirmwareAssumption DEF Thread

\* The count is not zero while a thread owns a reference, and fits its type.
LEMMA CountFacts ==
  ASSUME CountInv
  PROVE  /\ count \in 0 .. Cardinality(Thread)
         /\ \A t \in Thread : Owns(t) => count > 0
         /\ \A t, u \in Thread : Owns(t) /\ Owns(u) /\ t # u => count > 1
<1>1. Owners \subseteq Thread
  BY DEF Owners
<1>2. /\ IsFiniteSet(Owners)
      /\ Cardinality(Owners) \in Nat /\ Cardinality(Thread) \in Nat
      /\ Cardinality(Owners) <= Cardinality(Thread)
  BY <1>1, ThreadFacts, FS_Subset, FS_CardinalityType
<1>3. \A t \in Thread : Owns(t) => Owners # {}
  BY DEF Owners
<1>4. Owners # {} => Cardinality(Owners) # 0
  BY <1>2, FS_EmptySet
<1>5. ASSUME NEW t \in Thread, NEW u \in Thread, Owns(t), Owns(u), t # u
      PROVE  Cardinality(Owners) > 1
  <2>1. t \in Owners /\ u \in Owners
    BY <1>5 DEF Owners
  <2>2. \A x : Owners # {x}
    BY <1>5, <2>1
  <2> QED
    BY <1>2, <1>4, <2>1, <2>2, FS_Singleton
<1> QED
  BY <1>2, <1>3, <1>4, <1>5 DEF CountInv

\* A step that moves no reference keeps the count exact.
LEMMA OwnersKept ==
  ASSUME CountInv, count' = count, \A u \in Thread : Owns(u)' <=> Owns(u)
  PROVE  CountInv'
<1>1. Owners' = Owners
  BY DEF Owners
<1> QED
  BY <1>1 DEF CountInv

\* A thread that becomes an owner adds one to the count.
LEMMA OwnersGain ==
  ASSUME CountInv, NEW t \in Thread, count' = count + 1, ~Owns(t), Owns(t)',
         \A u \in Thread \ {t} : Owns(u)' <=> Owns(u)
  PROVE  CountInv'
<1>1. Owners' = Owners \cup {t} /\ t \notin Owners /\ Owners \subseteq Thread
  BY DEF Owners
<1>2. IsFiniteSet(Owners)
  BY <1>1, ThreadFacts, FS_Subset
<1> QED
  BY <1>1, <1>2, FS_AddElement, FS_CardinalityType DEF CountInv

\* An owner that puts its reference takes one from the count.
LEMMA OwnersLose ==
  ASSUME CountInv, NEW t \in Thread, count' = count - 1, Owns(t), ~Owns(t)',
         \A u \in Thread \ {t} : Owns(u)' <=> Owns(u)
  PROVE  CountInv'
<1>1. Owners' = Owners \ {t} /\ t \in Owners /\ Owners \subseteq Thread
  BY DEF Owners
<1>2. IsFiniteSet(Owners)
  BY <1>1, ThreadFacts, FS_Subset
<1> QED
  BY <1>1, <1>2, FS_RemoveElement, FS_CardinalityType DEF CountInv

\* At the start nobody owns a reference and no lock is held.
LEMMA FirmwareInit == Init => IInv
<1> SUFFICES ASSUME Init PROVE IInv
  OBVIOUS
<1>1. Owners = {}
  BY DEF Init, Owners, Owns, Runs
<1>2. CountInv
  BY <1>1, FS_EmptySet DEF Init, CountInv
<1>3. Flags
  BY Zenon DEF Init, Flags
<1> QED
  BY <1>2, <1>3, ThreadFacts DEF Init, IInv, Types, ActiveInv, ReturnsInv, LockInv,
     PowerInv, InTransition, HoldsFw, Runs, Places

-----------------------------------------------------------------------------
\* Every step keeps the places, the locks and the states in their sets.
LEMMA NextTypes == Types /\ [Next]_vars => Types'
<1> SUFFICES ASSUME Types, [Next]_vars PROVE Types'
  OBVIOUS
<1> USE ThreadFacts DEF Types, Places, At, Goes, Granted, GetFails, threadVars, fwVars,
      wdtVars
<1>1. ASSUME NEW t \in Thread, \/ MarkLoading(t) \/ Get(t) \/ GetInterrupted(t)
                               \/ PowerUp(t) \/ PowerUpFails(t)
      PROVE Types'
  BY <1>1 DEF MarkLoading, Get, GetInterrupted, PowerUp, PowerUpFails
<1>2. ASSUME NEW t \in Thread, RunBegins(t) \/ Boots(t)
      PROVE Types'
  BY <1>2 DEF RunBegins, Boots, Canceled, Started
<1>3. ASSUME NEW t \in Thread, BootFails(t) \/ Booted(t)
      PROVE Types'
  BY <1>3 DEF BootFails, Booted, RunReturns, Canceled
<1>4. ASSUME NEW t \in Thread, Put(t) \/ RestartInPowerdown(t) PROVE Types'
  BY <1>4 DEF Put, RestartInPowerdown, DownBegins, Canceled
<1>5. ASSUME NEW t \in Thread, Shutdown(t) PROVE Types'
  BY <1>5 DEF Shutdown, DownReturns
<1>6. ASSUME NEW t \in Thread, ResetDenied(t) \/ PowerOff(t) \/ PowerOffFails(t)
      PROVE Types'
  <2>1. CASE ResetDenied(t)
    BY <2>1 DEF ResetDenied, DownReturns
  <2>2. CASE PowerOff(t)
    BY <2>2 DEF PowerOff, DownReturns
  <2>3. CASE PowerOffFails(t)
    BY <2>3 DEF PowerOffFails, DownReturns
  <2> QED
    BY <1>6, <2>1, <2>2, <2>3
<1>7. CASE PingStarts \/ PingEnds \/ FwHangs
  BY <1>7 DEF PingStarts, PingEnds, FwHangs, Rearmed
<1>8. CASE RetryStarts \/ Retry \/ HandlerStep \/ LoadStarts \/ LoadLock
  BY <1>8 DEF RetryStarts, Retry, DownBegins, Canceled, HandlerStep, HandlerStarts,
     HandlerChecks, HandlerLocks, LoadStarts, LoadLock
<1>9. ASSUME NEW c \in Clients, \/ OpenGroup(c) \/ CloseGroup(c) \/ Acquire(c) \/ Release(c)
                                \/ ClientStep(c)
      PROVE Types'
  BY <1>9 DEF OpenGroup, CloseGroup, Acquire, Release, ClientStep, Activate, Bite,
     RateStarts, ModifyRate, Canceled, Started, Thread
<1>10. CASE UNCHANGED vars
  BY <1>10 DEF vars
<1> QED
  BY <1>1, <1>2, <1>3, <1>4, <1>5, <1>6, <1>7, <1>8, <1>9, <1>10 DEF Next, Transition

\* Every step leaves the flags Boolean.
LEMMA NextFlags == Flags /\ [Next]_vars => Flags'
<1> SUFFICES ASSUME Flags, [Next]_vars PROVE Flags'
  OBVIOUS
<1> USE DEF Flags, powerVars, blockVars, fwVars, wdtVars, groupVars
<1>1. ASSUME NEW t \in Thread, \/ MarkLoading(t) \/ Get(t) \/ GetInterrupted(t)
                               \/ PowerUp(t) \/ PowerUpFails(t)
      PROVE Flags'
  BY <1>1, Zenon DEF MarkLoading, Get, GetInterrupted, PowerUp, PowerUpFails
<1>2. ASSUME NEW t \in Thread, RunBegins(t) \/ Boots(t) PROVE Flags'
  BY <1>2, Zenon DEF RunBegins, Boots
<1>3. ASSUME NEW t \in Thread, BootFails(t) \/ Booted(t) PROVE Flags'
  BY <1>3, Zenon DEF BootFails, Booted, RunReturns
<1>4. ASSUME NEW t \in Thread, Put(t) \/ RestartInPowerdown(t) PROVE Flags'
  BY <1>4, Zenon DEF Put, RestartInPowerdown
<1>5. ASSUME NEW t \in Thread, Shutdown(t) PROVE Flags'
  BY <1>5, Zenon DEF Shutdown, DownReturns
<1>6. ASSUME NEW t \in Thread, ResetDenied(t) \/ PowerOff(t) \/ PowerOffFails(t)
      PROVE Flags'
  BY <1>6, Zenon DEF ResetDenied, PowerOff, PowerOffFails, DownReturns
<1>7. CASE PingStarts \/ PingEnds \/ FwHangs
  BY <1>7, Zenon DEF PingStarts, PingEnds, FwHangs
<1>8. CASE RetryStarts \/ Retry \/ HandlerStep \/ LoadStarts \/ LoadLock
  BY <1>8, Zenon DEF RetryStarts, Retry, HandlerStep, HandlerStarts,
     HandlerChecks, HandlerLocks, LoadStarts, LoadLock
<1>9. ASSUME NEW c \in Clients, \/ OpenGroup(c) \/ CloseGroup(c) \/ Acquire(c) \/ Release(c)
                                \/ ClientStep(c)
      PROVE Flags'
  BY <1>9, Zenon DEF OpenGroup, CloseGroup, Acquire, Release, ClientStep, Activate,
     Bite,
     RateStarts
<1>10. CASE UNCHANGED vars
  BY <1>10, Zenon DEF vars
<1> QED
  BY <1>1, <1>2, <1>3, <1>4, <1>5, <1>6, <1>7, <1>8, <1>9, <1>10, Zenon DEF Next,
     Transition

-----------------------------------------------------------------------------
\* Nobody closes a group that is activated.
LEMMA NextActive == Types /\ ActiveInv /\ [Next]_vars => ActiveInv'
<1> SUFFICES ASSUME Types, ActiveInv, [Next]_vars PROVE ActiveInv'
  OBVIOUS
<1> USE ThreadFacts, FirmwareAssumption DEF Types, ActiveInv, At, Goes, threadVars,
      powerVars, blockVars, fwVars, wdtVars, groupVars
<1>1. ASSUME NEW t \in Thread, MarkLoading(t) \/ Get(t) \/ GetInterrupted(t)
      PROVE ActiveInv'
  BY <1>1 DEF MarkLoading, Get, GetInterrupted, GetFails, Granted
<1>2. ASSUME NEW t \in Thread, PowerUp(t) \/ PowerUpFails(t) PROVE ActiveInv'
  BY <1>2 DEF PowerUp, PowerUpFails, GetFails, Granted
<1>3. ASSUME NEW t \in Thread, RunBegins(t) \/ Boots(t) PROVE ActiveInv'
  BY <1>3 DEF RunBegins, Boots, Canceled, Started
<1>4. ASSUME NEW t \in Thread, BootFails(t) PROVE ActiveInv'
  BY <1>4 DEF BootFails, RunReturns, Granted, Canceled
<1>5. ASSUME NEW t \in Thread, Booted(t) PROVE ActiveInv'
  BY <1>5 DEF Booted, RunReturns, Granted
<1>6. ASSUME NEW t \in Thread, Put(t) \/ RestartInPowerdown(t) PROVE ActiveInv'
  BY <1>6 DEF Put, RestartInPowerdown, DownBegins, Canceled
<1>7. ASSUME NEW t \in Thread, Shutdown(t) PROVE ActiveInv'
  BY <1>7 DEF Shutdown, DownReturns, GetFails
<1>8. ASSUME NEW t \in Thread, PowerOff(t) PROVE ActiveInv'
  BY <1>8 DEF PowerOff, DownReturns, GetFails
<1>9. ASSUME NEW t \in Thread, ResetDenied(t) PROVE ActiveInv'
  BY <1>9 DEF ResetDenied, DownReturns, GetFails
<1>10. ASSUME NEW t \in Thread, PowerOffFails(t) PROVE ActiveInv'
  BY <1>10 DEF PowerOffFails, DownReturns, GetFails
<1>11. CASE PingStarts \/ PingEnds \/ FwHangs
  BY <1>11 DEF PingStarts, PingEnds, FwHangs, Rearmed
<1>12. CASE RetryStarts \/ Retry
  BY <1>12 DEF RetryStarts, Retry, DownBegins, Canceled
<1>13. CASE HandlerStep
  BY <1>13 DEF HandlerStep, HandlerStarts, HandlerChecks, HandlerLocks
<1>14. CASE LoadStarts \/ LoadLock
  BY <1>14 DEF LoadStarts, LoadLock
<1>15. ASSUME NEW c \in Clients, OpenGroup(c) \/ CloseGroup(c) \/ Acquire(c)
       PROVE ActiveInv'
  BY <1>15 DEF OpenGroup, CloseGroup, Acquire
<1>16. ASSUME NEW c \in Clients, Release(c) \/ ClientStep(c) PROVE ActiveInv'
  BY <1>16 DEF Release, ClientStep, Activate, Bite, RateStarts, ModifyRate, Canceled,
     Started
<1>17. CASE UNCHANGED vars
  BY <1>17 DEF vars
<1> QED
  BY <1>1, <1>2, <1>3, <1>4, <1>5, <1>6, <1>7, <1>8, <1>9, <1>10, <1>11, <1>12,
     <1>13, <1>14, <1>15, <1>16, <1>17 DEF Next, Transition

\* A thread returns to where it came from.
LEMMA NextReturns == Types /\ LockInv /\ ReturnsInv /\ [Next]_vars => ReturnsInv'
<1> SUFFICES ASSUME Types, LockInv, ReturnsInv, [Next]_vars PROVE ReturnsInv'
  OBVIOUS
<1> USE ThreadFacts, FirmwareAssumption DEF Types, ReturnsInv, LockInv, HoldsFw, Runs,
      At, Goes, threadVars, powerVars, blockVars, fwVars, wdtVars, groupVars
<1>1. ASSUME NEW t \in Thread, MarkLoading(t) \/ Get(t) \/ GetInterrupted(t)
      PROVE ReturnsInv'
  BY <1>1 DEF MarkLoading, Get, GetInterrupted, GetFails, Granted
<1>2. ASSUME NEW t \in Thread, PowerUp(t) \/ PowerUpFails(t) PROVE ReturnsInv'
  BY <1>2 DEF PowerUp, PowerUpFails, GetFails, Granted
<1>3. ASSUME NEW t \in Thread, RunBegins(t) \/ Boots(t) PROVE ReturnsInv'
  BY <1>3 DEF RunBegins, Boots, Canceled, Started
<1>4. ASSUME NEW t \in Thread, BootFails(t) PROVE ReturnsInv'
  BY <1>4 DEF BootFails, RunReturns, Granted, Canceled
<1>5. ASSUME NEW t \in Thread, Booted(t) PROVE ReturnsInv'
  BY <1>5 DEF Booted, RunReturns, Granted
<1>6. ASSUME NEW t \in Thread, Put(t) \/ RestartInPowerdown(t) PROVE ReturnsInv'
  BY <1>6 DEF Put, RestartInPowerdown, DownBegins, Canceled
<1>7. ASSUME NEW t \in Thread, Shutdown(t) PROVE ReturnsInv'
  BY <1>7 DEF Shutdown, DownReturns, GetFails
<1>8. ASSUME NEW t \in Thread, PowerOff(t) PROVE ReturnsInv'
  BY <1>8 DEF PowerOff, DownReturns, GetFails
<1>9. ASSUME NEW t \in Thread, ResetDenied(t) PROVE ReturnsInv'
  BY <1>9 DEF ResetDenied, DownReturns, GetFails
<1>10. ASSUME NEW t \in Thread, PowerOffFails(t) PROVE ReturnsInv'
  BY <1>10 DEF PowerOffFails, DownReturns, GetFails
<1>11. CASE PingStarts \/ PingEnds \/ FwHangs
  BY <1>11 DEF PingStarts, PingEnds, FwHangs, Rearmed
<1>12. CASE RetryStarts \/ Retry
  BY <1>12 DEF RetryStarts, Retry, DownBegins, Canceled
<1>13. CASE HandlerStep
  BY <1>13 DEF HandlerStep, HandlerStarts, HandlerChecks, HandlerLocks
<1>14. CASE LoadStarts \/ LoadLock
  BY <1>14 DEF LoadStarts, LoadLock
<1>15. ASSUME NEW c \in Clients, OpenGroup(c) \/ CloseGroup(c) \/ Acquire(c)
       PROVE ReturnsInv'
  BY <1>15 DEF OpenGroup, CloseGroup, Acquire
<1>16. ASSUME NEW c \in Clients, Release(c) \/ ClientStep(c) PROVE ReturnsInv'
  BY <1>16 DEF Release, ClientStep, Activate, Bite, RateStarts, ModifyRate, Canceled,
     Started
<1>17. CASE UNCHANGED vars
  BY <1>17 DEF vars
<1> QED
  BY <1>1, <1>2, <1>3, <1>4, <1>5, <1>6, <1>7, <1>8, <1>9, <1>10, <1>11, <1>12,
     <1>13, <1>14, <1>15, <1>16, <1>17 DEF Next, Transition

\* Both locks have the owner the places of the threads say.
LEMMA NextLocks == Types /\ ReturnsInv /\ LockInv /\ [Next]_vars => LockInv'
<1> SUFFICES ASSUME Types, ReturnsInv, LockInv, [Next]_vars PROVE LockInv'
  OBVIOUS
<1> USE ThreadFacts, FirmwareAssumption DEF Types, ReturnsInv, LockInv, InTransition,
      HoldsFw, Runs, At, Goes, threadVars, powerVars, blockVars, fwVars, wdtVars,
      groupVars
<1>1. ASSUME NEW t \in Thread, MarkLoading(t) \/ Get(t) \/ GetInterrupted(t)
      PROVE LockInv'
  BY <1>1 DEF MarkLoading, Get, GetInterrupted, GetFails, Granted
<1>2. ASSUME NEW t \in Thread, PowerUp(t) \/ PowerUpFails(t) PROVE LockInv'
  BY <1>2 DEF PowerUp, PowerUpFails, GetFails, Granted
<1>3. ASSUME NEW t \in Thread, RunBegins(t) \/ Boots(t) PROVE LockInv'
  BY <1>3 DEF RunBegins, Boots, Canceled, Started
<1>4. ASSUME NEW t \in Thread, BootFails(t) PROVE LockInv'
  BY <1>4 DEF BootFails, RunReturns, Granted, Canceled
<1>5. ASSUME NEW t \in Thread, Booted(t) PROVE LockInv'
  BY <1>5 DEF Booted, RunReturns, Granted
<1>6. ASSUME NEW t \in Thread, Put(t) \/ RestartInPowerdown(t) PROVE LockInv'
  BY <1>6 DEF Put, RestartInPowerdown, DownBegins, Canceled
<1>7. ASSUME NEW t \in Thread, Shutdown(t) PROVE LockInv'
  BY <1>7 DEF Shutdown, DownReturns, GetFails
<1>8. ASSUME NEW t \in Thread, PowerOff(t) PROVE LockInv'
  BY <1>8 DEF PowerOff, DownReturns, GetFails
<1>9. ASSUME NEW t \in Thread, ResetDenied(t) PROVE LockInv'
  BY <1>9 DEF ResetDenied, DownReturns, GetFails
<1>10. ASSUME NEW t \in Thread, PowerOffFails(t) PROVE LockInv'
  BY <1>10 DEF PowerOffFails, DownReturns, GetFails
<1>11. CASE PingStarts \/ PingEnds \/ FwHangs
  BY <1>11 DEF PingStarts, PingEnds, FwHangs, Rearmed
<1>12. CASE RetryStarts \/ Retry
  BY <1>12 DEF RetryStarts, Retry, DownBegins, Canceled
<1>13. CASE HandlerStep
  BY <1>13 DEF HandlerStep, HandlerStarts, HandlerChecks, HandlerLocks
<1>14. CASE LoadStarts \/ LoadLock
  BY <1>14 DEF LoadStarts, LoadLock
<1>15. ASSUME NEW c \in Clients, OpenGroup(c) \/ CloseGroup(c) \/ Acquire(c)
       PROVE LockInv'
  BY <1>15 DEF OpenGroup, CloseGroup, Acquire
<1>16. ASSUME NEW c \in Clients, Release(c) \/ ClientStep(c) PROVE LockInv'
  BY <1>16 DEF Release, ClientStep, Activate, Bite, RateStarts, ModifyRate, Canceled,
     Started
<1>17. CASE UNCHANGED vars
  BY <1>17 DEF vars
<1> QED
  BY <1>1, <1>2, <1>3, <1>4, <1>5, <1>6, <1>7, <1>8, <1>9, <1>10, <1>11, <1>12,
     <1>13, <1>14, <1>15, <1>16, <1>17 DEF Next, Transition

\* The count is the number of owners: a get and a power up add one, a put
\* removes one, and nothing else does either.
LEMMA NextCount ==
  Types /\ ReturnsInv /\ CountInv /\ [Next]_vars => CountInv'
<1> SUFFICES ASSUME Types, ReturnsInv, CountInv, [Next]_vars PROVE CountInv'
  OBVIOUS
<1> USE ThreadFacts, FirmwareAssumption DEF Types, ReturnsInv, Owns, Runs, At, Goes,
      threadVars, powerVars
<1>1. ASSUME NEW t \in Thread, Get(t) PROVE CountInv'
  <2>1. CASE count > 0 \/ pending
    BY <1>1, <2>1, OwnersGain DEF Get, Granted
  <2>2. CASE ~(count > 0 \/ pending)
    BY <1>1, <2>2, OwnersKept DEF Get
  <2> QED
    BY <2>1, <2>2
<1>2. ASSUME NEW t \in Thread, MarkLoading(t) \/ GetInterrupted(t) \/ PowerUpFails(t)
      PROVE CountInv'
  BY <1>2, OwnersKept DEF MarkLoading, GetInterrupted, PowerUpFails, GetFails
<1>3. ASSUME NEW t \in Thread, PowerUp(t) PROVE CountInv'
  <2>1. CASE status = "loading"
    BY <1>3, <2>1, OwnersGain DEF PowerUp, Granted
  <2>2. CASE status # "loading"
    BY <1>3, <2>2, OwnersKept DEF PowerUp
  <2> QED
    BY <2>1, <2>2
<1>4. ASSUME NEW t \in Thread, RunBegins(t) \/ Boots(t) PROVE CountInv'
  BY <1>4, OwnersKept DEF RunBegins, Boots
<1>5. ASSUME NEW t \in Thread, BootFails(t) PROVE CountInv'
  BY <1>5, OwnersKept DEF BootFails, RunReturns
<1>6. ASSUME NEW t \in Thread, Booted(t) PROVE CountInv'
  <2>1. CASE ctx[t] = "up"
    BY <1>6, <2>1, OwnersGain DEF Booted, RunReturns, Granted
  <2>2. CASE ctx[t] # "up"
    BY <1>6, <2>2, OwnersKept DEF Booted, RunReturns
  <2> QED
    BY <2>1, <2>2
<1>7. ASSUME NEW t \in Thread, Put(t) PROVE CountInv'
  BY <1>7, OwnersLose DEF Put, DownBegins
<1>8. ASSUME NEW t \in Thread, RestartInPowerdown(t) PROVE CountInv'
  BY <1>8, OwnersKept DEF RestartInPowerdown
<1>9. ASSUME NEW t \in Thread, Shutdown(t) PROVE CountInv'
  BY <1>9, OwnersKept DEF Shutdown, DownReturns, GetFails
<1>10. ASSUME NEW t \in Thread, ResetDenied(t) PROVE CountInv'
  BY <1>10, OwnersKept DEF ResetDenied, DownReturns, GetFails
<1>11. ASSUME NEW t \in Thread, PowerOff(t) PROVE CountInv'
  BY <1>11, OwnersKept DEF PowerOff, DownReturns, GetFails
<1>12. ASSUME NEW t \in Thread, PowerOffFails(t) PROVE CountInv'
  BY <1>12, OwnersKept DEF PowerOffFails, DownReturns, GetFails
<1>13. CASE PingStarts \/ PingEnds \/ FwHangs
  BY <1>13, OwnersKept DEF PingStarts, PingEnds, FwHangs
<1>14. CASE RetryStarts \/ Retry
  BY <1>14, OwnersKept DEF RetryStarts, Retry, DownBegins
<1>15. CASE HandlerStep
  BY <1>15, OwnersKept DEF HandlerStep, HandlerStarts, HandlerChecks, HandlerLocks
<1>16. CASE LoadStarts \/ LoadLock
  BY <1>16, OwnersKept DEF LoadStarts, LoadLock
<1>17. ASSUME NEW c \in Clients, OpenGroup(c) \/ CloseGroup(c) \/ Acquire(c)
       PROVE CountInv'
  BY <1>17, OwnersKept DEF OpenGroup, CloseGroup, Acquire
<1>18. ASSUME NEW c \in Clients, Release(c) \/ ClientStep(c) PROVE CountInv'
  BY <1>18, OwnersKept DEF Release, ClientStep, Activate, Bite, RateStarts, ModifyRate
<1>19. CASE UNCHANGED vars
  BY <1>19, OwnersKept DEF vars
<1> QED
  BY <1>1, <1>2, <1>3, <1>4, <1>5, <1>6, <1>7, <1>8, <1>9, <1>10, <1>11, <1>12,
     <1>13, <1>14, <1>15, <1>16, <1>17, <1>18, <1>19 DEF Next, Transition

\* No step takes the power from an owner, from a start or from the ping.
LEMMA NextPower ==
  Types /\ ReturnsInv /\ LockInv /\ CountInv /\ PowerInv /\ [Next]_vars => PowerInv'
<1> SUFFICES ASSUME Types, ReturnsInv, LockInv, CountInv, PowerInv, [Next]_vars
             PROVE PowerInv'
  OBVIOUS
<1>0. count \in Nat /\ \A t \in Thread : Owns(t) => count > 0
  BY CountFacts, ThreadFacts, FS_CardinalityType
<1> USE <1>0, ThreadFacts, FirmwareAssumption DEF Types, ReturnsInv, LockInv, PowerInv,
      Owns, InTransition, Runs, At, Goes, threadVars, powerVars, blockVars, wdtVars
<1>1. ASSUME NEW t \in Thread, Get(t) PROVE PowerInv'
  BY <1>1 DEF Get, Granted
<1>2. ASSUME NEW t \in Thread, MarkLoading(t) \/ GetInterrupted(t) \/ PowerUpFails(t)
      PROVE PowerInv'
  BY <1>2 DEF MarkLoading, GetInterrupted, PowerUpFails, GetFails
<1>3. ASSUME NEW t \in Thread, PowerUp(t) PROVE PowerInv'
  BY <1>3 DEF PowerUp, Granted
<1>4. ASSUME NEW t \in Thread, RunBegins(t) \/ Boots(t) PROVE PowerInv'
  BY <1>4 DEF RunBegins, Boots, Canceled, Started
<1>5. ASSUME NEW t \in Thread, BootFails(t) PROVE PowerInv'
  BY <1>5 DEF BootFails, RunReturns, Canceled
<1>6. ASSUME NEW t \in Thread, Booted(t) PROVE PowerInv'
  BY <1>6 DEF Booted, RunReturns, Granted
<1>7. ASSUME NEW t \in Thread, Put(t) PROVE PowerInv'
  BY <1>7 DEF Put, DownBegins, Canceled
<1>8. ASSUME NEW t \in Thread, RestartInPowerdown(t) PROVE PowerInv'
  BY <1>8 DEF RestartInPowerdown
<1>9. ASSUME NEW t \in Thread, Shutdown(t) PROVE PowerInv'
  BY <1>9 DEF Shutdown, DownReturns, GetFails
<1>10. ASSUME NEW t \in Thread, ResetDenied(t) PROVE PowerInv'
  BY <1>10 DEF ResetDenied, DownReturns, GetFails
<1>11. ASSUME NEW t \in Thread, PowerOff(t) PROVE PowerInv'
  BY <1>11 DEF PowerOff, DownReturns, GetFails
<1>12. ASSUME NEW t \in Thread, PowerOffFails(t) PROVE PowerInv'
  BY <1>12 DEF PowerOffFails, DownReturns, GetFails
<1>13. CASE PingStarts \/ PingEnds \/ FwHangs
  BY <1>13 DEF PingStarts, PingEnds, FwHangs, Rearmed
<1>14. CASE RetryStarts \/ Retry
  BY <1>14 DEF RetryStarts, Retry, DownBegins, Canceled
<1>15. CASE HandlerStep
  BY <1>15 DEF HandlerStep, HandlerStarts, HandlerChecks, HandlerLocks
<1>16. CASE LoadStarts \/ LoadLock
  BY <1>16 DEF LoadStarts, LoadLock
<1>17. ASSUME NEW c \in Clients, OpenGroup(c) \/ CloseGroup(c) \/ Acquire(c)
       PROVE PowerInv'
  BY <1>17 DEF OpenGroup, CloseGroup, Acquire
<1>18. ASSUME NEW c \in Clients, Release(c) \/ ClientStep(c) PROVE PowerInv'
  BY <1>18 DEF Release, ClientStep, Activate, Bite, RateStarts, ModifyRate, Canceled,
     Started
<1>19. CASE UNCHANGED vars
  BY <1>19 DEF vars
<1> QED
  BY <1>1, <1>2, <1>3, <1>4, <1>5, <1>6, <1>7, <1>8, <1>9, <1>10, <1>11, <1>12,
     <1>13, <1>14, <1>15, <1>16, <1>17, <1>18, <1>19 DEF Next, Transition

-----------------------------------------------------------------------------
\* The inductive invariant holds in every reachable state.
THEOREM FirmwareInductive == Spec => []IInv
<1>1. IInv /\ [Next]_vars => IInv'
  BY NextTypes, NextFlags, NextActive, NextReturns, NextLocks, NextCount, NextPower
     DEF IInv
<1> QED
  BY <1>1, FirmwareInit, PTL DEF Spec

\* No count, flag, lock or state leaves its range; in particular no thread puts
\* a reference it does not own, and no group is closed while it is activated.
THEOREM FirmwareTypeCorrect == Spec => []TypeOK
<1>1. IInv => TypeOK
  BY CountFacts DEF IInv, Types, Flags, ActiveInv, TypeOK
<1> QED
  BY <1>1, FirmwareInductive, PTL

\* At most one thread starts the firmware, with no ping under way.
THEOREM OneThreadStarts == Spec => []OneRunner
<1>1. IInv => OneRunner
  <2> SUFFICES ASSUME IInv, NEW t \in Thread, Runs(t), NEW u \in Thread \ {t}, Runs(u)
               PROVE FALSE
    BY ThreadFacts DEF OneRunner, IInv, LockInv, ReturnsInv, InTransition, HoldsFw, Runs
  <2> QED
    BY CountFacts, ThreadFacts DEF IInv, Types, LockInv, ReturnsInv, PowerInv,
       InTransition, HoldsFw, Owns, Runs
<1> QED
  BY <1>1, FirmwareInductive, PTL

\* Nobody loses the power between gcip_pm_get and gcip_pm_put, in a start of the
\* firmware or during a ping.
THEOREM HoldersKeepPower == Spec => []HolderPowered
<1>1. IInv => HolderPowered
  BY CountFacts, ThreadFacts DEF IInv, PowerInv, HolderPowered, HasPower, Owns, Runs
<1> QED
  BY <1>1, FirmwareInductive, PTL

-----------------------------------------------------------------------------
\* No step leaves a firmware that runs for somebody without a ping, unless its
\* part was left to a loader.
LEMMA NextWatch == IInv /\ WatchInv /\ [Next]_vars => WatchInv'
<1> SUFFICES ASSUME IInv, WatchInv, [Next]_vars PROVE WatchInv'
  OBVIOUS
<1>0. /\ count \in Nat /\ \A t \in Thread : Owns(t) => count > 0
      /\ \A t, u \in Thread : Owns(t) /\ Owns(u) /\ t # u => count > 1
      /\ Types /\ ActiveInv /\ ReturnsInv /\ LockInv /\ PowerInv
  BY CountFacts, ThreadFacts, FS_CardinalityType DEF IInv
<1> USE <1>0, ThreadFacts, FirmwareAssumption DEF Types, ActiveInv, ReturnsInv, LockInv,
      PowerInv, WatchInv, Watching, Owns, InTransition, HoldsFw, Runs, At, Goes,
      threadVars, powerVars, blockVars, fwVars, wdtVars, groupVars
<1>1. ASSUME NEW t \in Thread, Get(t) PROVE WatchInv'
  BY <1>1 DEF Get, Granted
<1>2. ASSUME NEW t \in Thread, MarkLoading(t) \/ GetInterrupted(t) PROVE WatchInv'
  BY <1>2 DEF MarkLoading, GetInterrupted, GetFails
<1>3. ASSUME NEW t \in Thread, PowerUpFails(t) PROVE WatchInv'
  BY <1>3 DEF PowerUpFails, GetFails
<1>4. ASSUME NEW t \in Thread, PowerUp(t) PROVE WatchInv'
  <2>1. CASE status = "loading"
    <3>1. skipped' <=> skipped \/ LeftToLoader
      BY <1>4, <2>1, Zenon DEF PowerUp
    <3> QED
      BY <1>4, <2>1, <3>1 DEF PowerUp, Granted, LeftToLoader
  <2>2. CASE status # "loading"
    BY <1>4, <2>2 DEF PowerUp
  <2> QED
    BY <2>1, <2>2
<1>5. ASSUME NEW t \in Thread, RunBegins(t) PROVE WatchInv'
  BY <1>5 DEF RunBegins, Canceled
<1>6. ASSUME NEW t \in Thread, Boots(t) PROVE WatchInv'
  BY <1>6 DEF Boots, Started, Canceling
<1>7. ASSUME NEW t \in Thread, BootFails(t) PROVE WatchInv'
  <2>1. lockout' <=> lockout /\ ~(t = "loader" /\ ctx[t] = "none")
    BY <1>7, Zenon DEF BootFails, RunReturns
  <2> QED
    BY <1>7, <2>1 DEF BootFails, RunReturns, Canceled
<1>8. ASSUME NEW t \in Thread, Booted(t) PROVE WatchInv'
  <2>1. lockout' <=> lockout /\ ~(t = "loader" /\ ctx[t] = "none")
    BY <1>8, Zenon DEF Booted, RunReturns
  <2> QED
    BY <1>8, <2>1 DEF Booted, RunReturns, Granted
<1>9. ASSUME NEW t \in Thread, Put(t) PROVE WatchInv'
  BY <1>9 DEF Put, DownBegins, Canceled
<1>10. ASSUME NEW t \in Thread, RestartInPowerdown(t) PROVE WatchInv'
  BY <1>10 DEF RestartInPowerdown
<1>11. ASSUME NEW t \in Thread, Shutdown(t) PROVE WatchInv'
  <2>1. skipped' <=> skipped \/ LeftToLoader
    BY <1>11, Zenon DEF Shutdown
  <2> QED
    BY <1>11, <2>1 DEF Shutdown, LeftToLoader, DownReturns, GetFails
<1>12. ASSUME NEW t \in Thread, ResetDenied(t) PROVE WatchInv'
  BY <1>12 DEF ResetDenied, DownReturns, GetFails
<1>13. ASSUME NEW t \in Thread, PowerOff(t) PROVE WatchInv'
  BY <1>13 DEF PowerOff, DownReturns, GetFails
<1>14. ASSUME NEW t \in Thread, PowerOffFails(t) PROVE WatchInv'
  BY <1>14 DEF PowerOffFails, DownReturns, GetFails
<1>15. CASE PingStarts
  BY <1>15 DEF PingStarts
<1>16. CASE PingEnds
  <2>1. handlerWork' <=> handlerWork \/ fw # "running"
    BY <1>16, Zenon DEF PingEnds
  <2> QED
    BY <1>16, <2>1 DEF PingEnds, Rearmed, Canceling
<1>17. CASE FwHangs
  BY <1>17 DEF FwHangs
<1>18. CASE RetryStarts
  BY <1>18 DEF RetryStarts
<1>19. CASE Retry
  BY <1>19 DEF Retry, DownBegins, Canceled
<1>20. CASE HandlerStarts
  BY <1>20 DEF HandlerStarts
<1>21. CASE HandlerChecks
  <2>1. skipped' <=> skipped \/ (LeftToLoader /\ status = "loading")
    BY <1>21, Zenon DEF HandlerChecks
  <2> QED
    BY <1>21, <2>1 DEF HandlerChecks, LeftToLoader
<1>22. CASE HandlerLocks
  BY <1>22 DEF HandlerLocks
<1>23. CASE LoadStarts
  BY <1>23 DEF LoadStarts
<1>24. CASE LoadLock
  BY <1>24 DEF LoadLock
<1>25. ASSUME NEW c \in Clients, OpenGroup(c) \/ CloseGroup(c) \/ Acquire(c)
       PROVE WatchInv'
  BY <1>25 DEF OpenGroup, CloseGroup, Acquire
<1>26. ASSUME NEW c \in Clients, Release(c) PROVE WatchInv'
  BY <1>26 DEF Release, ModifyRate, Canceled
<1>27. ASSUME NEW c \in Clients, Activate(c) PROVE WatchInv'
  BY <1>27 DEF Activate, ModifyRate, Canceled
<1>28. ASSUME NEW c \in Clients, Bite(c) PROVE WatchInv'
  BY <1>28 DEF Bite, Canceled
<1>29. ASSUME NEW c \in Clients, RateStarts(c) PROVE WatchInv'
  BY <1>29 DEF RateStarts, Started, Canceling
<1>30. CASE UNCHANGED vars
  BY <1>30 DEF vars
<1> QED
  BY <1>1, <1>2, <1>3, <1>4, <1>5, <1>6, <1>7, <1>8, <1>9, <1>10, <1>11, <1>12,
     <1>13, <1>14, <1>15, <1>16, <1>17, <1>18, <1>19, <1>20, <1>21, <1>22, <1>23,
     <1>24, <1>25, <1>26, <1>27, <1>28, <1>29, <1>30
     DEF Next, Transition, HandlerStep, ClientStep

\* A firmware that runs for somebody is watched, unless work was left to a loader
\* whose get was interrupted and which restores a status it has read earlier.
THEOREM RunningIsWatched == Spec => []Watched
<1>1. Init => WatchInv
  BY ThreadFacts DEF Init, WatchInv, Runs
<1>2. IInv /\ WatchInv /\ [Next]_vars => WatchInv'
  BY NextWatch
<1>3. WatchInv => Watched
  BY ThreadFacts DEF WatchInv, Watching, Watched, Needed, BeingWatched, Runs
<1> QED
  BY <1>1, <1>2, <1>3, FirmwareInductive, PTL DEF Spec
=============================================================================
