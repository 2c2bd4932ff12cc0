------------------------------- MODULE GcipPm -------------------------------
(***************************************************************************)
(* gcip-pm.c: the reference-counted power interface that every GCIP driver *)
(* (EdgeTPU, DSP) puts in front of its power_up and power_down callbacks.  *)
(*                                                                         *)
(* Every operation runs its body, callbacks included, under pm->lock, so   *)
(* one operation is one action.  Three threads do something before they    *)
(* take the lock and so have a program counter of their own: the worker of *)
(* the asynchronous put, which takes a request off its counter first; the  *)
(* worker of the deferred power down, which is off the queue while it      *)
(* waits; and the thread that flushes it and drops the lock to retry.      *)
(***************************************************************************)
EXTENDS Integers

CONSTANTS
  MaxCount,   \* bound of the model: references outstanding at one time
  MaxRetry    \* bound of the model: the retry argument of the flush

ASSUME BoundsAssumption == MaxCount \in Nat /\ MaxRetry \in Nat

VARIABLES
  count,               \* pm->count
  suspendable_count,   \* pm->suspendable_count
  power_down_pending,  \* pm->power_down_pending
  power_down_work,     \* is pm->power_down_work scheduled
  retrier,             \* the worker running gcip_pm_async_power_down_work
  put_async_count,     \* pm->put_async_count
  put_async_work,      \* is pm->put_async_work queued
  putter,              \* the worker running gcip_pm_async_put_work
  flusher,             \* the thread in gcip_pm_flush_delayed_power_down_work
  block,               \* external: what the callbacks did to the block
  held,                \* ledger: plain references the callers own
  heldSuspendable,     \* ledger: suspendable references the callers own
  forced,              \* ledger: a forced shutdown overrode the count
  destroyed            \* how far gcip_pm_destroy is: no, closing or freed

pmVars == <<count, suspendable_count, power_down_pending, power_down_work>>
workers == <<retrier, flusher>>
asyncVars == <<put_async_count, put_async_work, putter>>
ledger == <<held, heldSuspendable>>
vars == <<pmVars, asyncVars, workers, block, ledger, forced, destroyed>>

Idle == [pc |-> "idle", retry |-> 0, await |-> 0]

Init ==
  /\ count = 0
  /\ suspendable_count = 0
  /\ power_down_pending = FALSE
  /\ power_down_work = FALSE
  /\ retrier = "idle"
  /\ put_async_count = 0
  /\ put_async_work = FALSE
  /\ putter = "idle"
  /\ flusher = Idle
  /\ block \in {"on", "off"}
  /\ held = 0
  /\ heldSuspendable = 0
  /\ forced = FALSE
  /\ destroyed = "no"

-----------------------------------------------------------------------------
(***************************************************************************)
(* The callbacks.  A successful one leaves the block in the state its name *)
(* says; only a block that is on answers EAGAIN to a power down, and stays *)
(* on; a callback that fails for another reason says nothing about it.     *)
(***************************************************************************)
UpResults == {"ok", "error"}
DownResults == {"ok", "EAGAIN", "error"}

CallPowerUp(ret) ==
  block' \in (IF ret = "ok" THEN {"on"} ELSE {"on", "off"})

CallPowerDown(ret) ==
  block' \in (CASE ret = "ok" -> {"off"}
                [] ret = "EAGAIN" -> {block} \cap {"on"}
                [] OTHER -> {"on", "off"})

\* Mutation: the denied power down is only marked, its work not scheduled.
TryPowerDownNoWork(ret) ==
  /\ CallPowerDown(ret)
  /\ power_down_pending' = (ret = "EAGAIN")
  /\ UNCHANGED power_down_work

\* gcip_pm_try_power_down: the deferred retry is scheduled on EAGAIN only, and
\* schedule_delayed_work leaves a work that is scheduled already alone.
TryPowerDown(ret) ==
  /\ CallPowerDown(ret)
  /\ power_down_pending' = (ret = "EAGAIN")
  /\ power_down_work' = (power_down_work \/ ret = "EAGAIN")

-----------------------------------------------------------------------------
(***************************************************************************)
(* Taking a reference.                                                     *)
(***************************************************************************)
\* WARN_ON(pm->suspendable_count > pm->count), which repairs the counter.
ClampSuspendable(s, c) == IF s > c THEN c ELSE s

CallsPowerUp == count = 0 /\ ~power_down_pending

CanGet == destroyed = "no" /\ count < MaxCount

\* gcip_pm_get_locked: only the first reference powers the block, and only
\* when no deferred power down can be cancelled instead.
GetLocked(suspendable, ret) ==
  /\ IF CallsPowerUp THEN CallPowerUp(ret)
                     ELSE ret = "ok" /\ UNCHANGED block
  /\ power_down_pending' = (power_down_pending /\ count # 0)
  /\ IF ret = "ok"
       THEN /\ count' = count + 1
            /\ suspendable_count' =
                 IF suspendable
                   THEN ClampSuspendable(suspendable_count + 1, count + 1)
                   ELSE suspendable_count
            /\ held' = IF suspendable THEN held ELSE held + 1
            /\ heldSuspendable' =
                 IF suspendable THEN heldSuspendable + 1 ELSE heldSuspendable
       ELSE UNCHANGED <<count, suspendable_count, ledger>>
  /\ UNCHANGED <<power_down_work, asyncVars, workers, forced, destroyed>>

\* Mutation: pm->count goes up even though the power_up callback failed.
GetIgnoringPowerUp(suspendable, ret) ==
  /\ CanGet
  /\ IF CallsPowerUp THEN CallPowerUp(ret) ELSE UNCHANGED block
  /\ count' = count + 1
  /\ held' = held + 1
  /\ UNCHANGED <<suspendable_count, heldSuspendable, power_down_pending,
                 power_down_work, asyncVars, workers, forced, destroyed>>

\* gcip_pm_get (suspendable = FALSE) and gcip_pm_get_flags.
Get(suspendable, ret) == CanGet /\ GetLocked(suspendable, ret)

\* gcip_pm_get_if_powered; its failures leave the state alone.
GetIfPowered == CanGet /\ count # 0 /\ GetLocked(FALSE, "ok")

-----------------------------------------------------------------------------
(***************************************************************************)
(* Dropping a reference.                                                   *)
(***************************************************************************)
\* __gcip_pm_put_flags, without the ledger of its caller.
PutLocked(suspendable, ret) ==
  IF count = 0
    THEN UNCHANGED <<pmVars, block>>
    ELSE /\ count' = count - 1
         /\ IF count = 1 THEN TryPowerDown(ret)
                         ELSE /\ ret = "ok"
                              /\ UNCHANGED <<power_down_pending,
                                             power_down_work, block>>
         /\ suspendable_count' =
              IF suspendable
                THEN ClampSuspendable(suspendable_count - 1, count - 1)
                ELSE suspendable_count

\* Mutation: the put forgets its suspendable flag.
PutWithoutFlag(suspendable, ret) ==
  /\ destroyed # "freed"
  /\ IF suspendable THEN heldSuspendable > 0 ELSE held > 0
  /\ PutLocked(FALSE, ret)
  /\ held' = IF suspendable THEN held ELSE held - 1
  /\ heldSuspendable' =
       IF suspendable THEN heldSuspendable - 1 ELSE heldSuspendable
  /\ UNCHANGED <<asyncVars, workers, forced, destroyed>>

\* gcip_pm_put (suspendable = FALSE) and gcip_pm_put_flags.  The before_destroy
\* callback still puts references (edgetpu-pm.c:521, edgetpu-core.c:456).
Put(suspendable, ret) ==
  /\ destroyed # "freed"
  /\ IF suspendable THEN heldSuspendable > 0 ELSE held > 0
  /\ PutLocked(suspendable, ret)
  /\ held' = IF suspendable THEN held ELSE held - 1
  /\ heldSuspendable' =
       IF suspendable THEN heldSuspendable - 1 ELSE heldSuspendable
  /\ UNCHANGED <<asyncVars, workers, forced, destroyed>>

\* gcip_pm_put_async: the caller gives its reference to the worker.
PutAsync ==
  /\ destroyed = "no"
  /\ held > 0
  /\ held' = held - 1
  /\ put_async_count' = put_async_count + 1
  /\ put_async_work' = TRUE
  /\ UNCHANGED <<pmVars, putter, workers, block, heldSuspendable, forced,
                 destroyed>>

\* The workqueue starts gcip_pm_async_put_work; a work item never runs twice
\* at once, and schedule_work during its run queues it again.
PutWorkStart ==
  /\ put_async_work
  /\ putter = "idle"
  /\ put_async_work' = FALSE
  /\ putter' = "loop"
  /\ UNCHANGED <<pmVars, put_async_count, workers, block, ledger, forced,
                 destroyed>>

\* Mutation: a plain atomic_dec that is tested afterwards.
PutWorkTakeUnchecked ==
  /\ putter = "loop"
  /\ put_async_count' = put_async_count - 1
  /\ putter' = IF put_async_count > 0 THEN "put" ELSE "idle"
  /\ UNCHANGED <<pmVars, put_async_work, workers, block, ledger, forced,
                 destroyed>>

\* atomic_dec_if_positive(&pm->put_async_count) of the worker's loop.
PutWorkTake ==
  /\ putter = "loop"
  /\ IF put_async_count > 0
       THEN /\ put_async_count' = put_async_count - 1
            /\ putter' = "put"
       ELSE /\ putter' = "idle"
            /\ UNCHANGED put_async_count
  /\ UNCHANGED <<pmVars, put_async_work, workers, block, ledger, forced,
                 destroyed>>

\* Mutation: one put for each run of the work, not a loop.
PutWorkPutOnce(ret) ==
  /\ putter = "put"
  /\ PutLocked(FALSE, ret)
  /\ putter' = "idle"
  /\ UNCHANGED <<put_async_count, put_async_work, workers, ledger, forced,
                 destroyed>>

\* gcip_pm_put of the worker's loop.
PutWorkPut(ret) ==
  /\ putter = "put"
  /\ PutLocked(FALSE, ret)
  /\ putter' = "loop"
  /\ UNCHANGED <<put_async_count, put_async_work, workers, ledger, forced,
                 destroyed>>

-----------------------------------------------------------------------------
(***************************************************************************)
(* The deferred power down, its flush, shutdown and destruction.           *)
(***************************************************************************)
\* The timer expires: the work leaves the queue and goes for the lock.
PowerDownWorkStart ==
  /\ destroyed # "freed"
  /\ power_down_work
  /\ retrier = "idle"
  /\ power_down_work' = FALSE
  /\ retrier' = "run"
  /\ UNCHANGED <<count, suspendable_count, power_down_pending, asyncVars,
                 flusher, block, ledger, forced, destroyed>>

\* Mutation: the deferred work does not look at power_down_pending.
PowerDownWorkRunAlways(ret) ==
  /\ destroyed # "freed"
  /\ retrier = "run"
  /\ TryPowerDown(ret)
  /\ retrier' = "idle"
  /\ flusher' = [flusher EXCEPT !.await = IF @ > 0 THEN @ - 1 ELSE 0]
  /\ UNCHANGED <<count, suspendable_count, asyncVars, ledger, forced,
                 destroyed>>

\* gcip_pm_async_power_down_work: a get in the meantime cancels the power
\* down.  The end of the run is one instance less for a flusher to wait for.
PowerDownWorkRun(ret) ==
  /\ destroyed # "freed"
  /\ retrier = "run"
  /\ IF power_down_pending
       THEN TryPowerDown(ret)
       ELSE /\ ret = "ok"
            /\ UNCHANGED <<power_down_pending, power_down_work, block>>
  /\ retrier' = "idle"
  /\ flusher' = [flusher EXCEPT !.await = IF @ > 0 THEN @ - 1 ELSE 0]
  /\ UNCHANGED <<count, suspendable_count, asyncVars, ledger, forced,
                 destroyed>>

\* gcip_pm_flush_delayed_power_down_work(pm, retry) is called.
FlushStart(retry) ==
  /\ destroyed = "no"
  /\ flusher.pc = "idle"
  /\ flusher' = [pc |-> "flush", retry |-> retry, await |-> 0]
  /\ UNCHANGED <<pmVars, asyncVars, retrier, block, ledger, forced, destroyed>>

\* flush_delayed_work: wait for the running and for the scheduled instance.
FlushWork ==
  /\ flusher.pc = "flush"
  /\ flusher' = [pc |-> "check", retry |-> flusher.retry,
                  await |-> (IF retrier = "run" THEN 1 ELSE 0)
                            + (IF power_down_work THEN 1 ELSE 0)]
  /\ UNCHANGED <<pmVars, asyncVars, retrier, block, ledger, forced, destroyed>>

\* The loop condition, and giving up once the retries are used.
FlushCheck ==
  /\ flusher.pc = "check"
  /\ flusher.await = 0
  /\ IF power_down_pending /\ flusher.retry > 0
       THEN /\ flusher' = [pc |-> "flush", retry |-> flusher.retry - 1,
                           await |-> 0]
            /\ UNCHANGED power_down_pending
       ELSE /\ flusher' = Idle
            /\ power_down_pending' = FALSE
  /\ UNCHANGED <<count, suspendable_count, power_down_work, asyncVars, retrier,
                 block, ledger, forced, destroyed>>

\* gcip_pm_shutdown.
Shutdown(force, ret) ==
  /\ destroyed = "no"
  /\ count = 0 \/ force
  /\ TryPowerDown(ret)
  /\ forced' = (forced \/ count # 0)
  /\ UNCHANGED <<count, suspendable_count, asyncVars, workers, ledger,
                 destroyed>>

\* gcip_pm_destroy up to its callback: the put worker is flushed, the deferred
\* work cancelled.  pm->power_down_pending is cleared without pm->lock, so the
\* retry that the cancellation waited for may have set it again.  The drivers
\* are being removed: only the debugfs wakelocks, plain ones, may be left.
Destroy ==
  /\ destroyed = "no"
  /\ putter = "idle" /\ ~put_async_work
  /\ retrier = "idle" /\ flusher.pc = "idle"
  /\ heldSuspendable = 0
  /\ \/ power_down_pending' = FALSE
     \/ UNCHANGED power_down_pending
  /\ power_down_work' = FALSE
  /\ destroyed' = "closing"
  /\ UNCHANGED <<count, suspendable_count, asyncVars, workers, block, ledger,
                 forced>>

\* pm->before_destroy has put what was left, and the structure is freed.
DestroyEnds ==
  /\ destroyed = "closing"
  /\ held = 0
  /\ destroyed' = "freed"
  /\ UNCHANGED <<pmVars, asyncVars, workers, block, ledger, forced>>

Next ==
  \/ \E s \in BOOLEAN, r \in UpResults : Get(s, r)
  \/ GetIfPowered
  \/ \E s \in BOOLEAN, r \in DownResults : Put(s, r)
  \/ PutAsync
  \/ PutWorkStart
  \/ PutWorkTake
  \/ \E r \in DownResults : PutWorkPut(r)
  \/ PowerDownWorkStart
  \/ \E r \in DownResults : PowerDownWorkRun(r)
  \/ \E n \in 0..MaxRetry : FlushStart(n)
  \/ FlushWork
  \/ FlushCheck
  \/ \E f \in BOOLEAN, r \in DownResults : Shutdown(f, r)
  \/ Destroy
  \/ DestroyEnds

Spec == Init /\ [][Next]_vars

(***************************************************************************)
(* The kernel's workqueue runs a queued work item and a running one goes   *)
(* on; nothing is assumed of the callers or of the callbacks' answers.     *)
(***************************************************************************)
Fairness ==
  /\ WF_vars(PutWorkStart)
  /\ WF_vars(PutWorkTake)
  /\ WF_vars(\E r \in DownResults : PutWorkPut(r))

FairSpec == Spec /\ Fairness

-----------------------------------------------------------------------------
(***************************************************************************)
(* Properties.                                                             *)
(***************************************************************************)
FlagsOK ==
  /\ power_down_pending \in BOOLEAN
  /\ power_down_work \in BOOLEAN
  /\ put_async_work \in BOOLEAN
  /\ forced \in BOOLEAN

Flushers ==
  [pc : {"idle", "flush", "check"}, retry : 0..MaxRetry, await : 0..2]

CountersOK ==
  /\ count \in Nat
  /\ suspendable_count \in Nat
  /\ put_async_count \in Nat
  /\ held \in Nat
  /\ heldSuspendable \in Nat
  /\ block \in {"on", "off"}
  /\ retrier \in {"idle", "run"}
  /\ putter \in {"idle", "loop", "put"}
  /\ flusher \in Flushers
  /\ destroyed \in {"no", "closing", "freed"}

\* The type of every field of struct gcip_pm and of the threads' places in
\* gcip-pm.c; in particular none of the counters goes below zero.
TypeOK == FlagsOK /\ CountersOK

InFlight == IF putter = "put" THEN 1 ELSE 0

\* Reference conservation: pm->count is exactly the references its callers
\* own plus the ones on their way through gcip_pm_put_async, so a reference
\* is neither lost nor dropped twice between the counter and the worker, and
\* WARN_ON(!pm->count) and both WARN_ON(suspendable_count > count) are dead.
RefsAccounted ==
  /\ count = held + heldSuspendable + put_async_count + InFlight
  /\ suspendable_count = heldSuspendable

\* Whoever owns a reference has a powered block: no retry, flush or
\* asynchronous put turns the block off under it.  Only a forced shutdown may.
PoweredWhileHeld == count > 0 /\ ~forced => block = "on"

\* A power down is deferred only while the block is still on, which is why
\* gcip_pm_get_locked may cancel it in place of calling power_up, and only
\* while nobody owns a reference, which is why the worker may carry it out.
DeferredMeansOn ==
  power_down_pending => block = "on" /\ (count = 0 \/ forced)

\* A deferred power down (power_down_pending) always has its delayed work
\* scheduled or running, so a denied power down is retried, never forgotten,
\* until gcip_pm_destroy cancels the work.
RetryNotLost ==
  power_down_pending /\ destroyed = "no" => power_down_work \/ retrier = "run"

\* gcip_pm_suspendable_locked, the decision edgetpu_pm_suspend acts on.
SuspendableLocked == count <= suspendable_count /\ ~power_down_pending

\* System suspend is allowed only when every reference in existence, also the
\* ones still waiting for the put worker, is a suspendable one.
SuspendNeedsConsent ==
  SuspendableLocked => held = 0 /\ put_async_count = 0 /\ putter # "put"

\* A reference handed to gcip_pm_put_async is eventually put, also when
\* schedule_work finds the work item already queued or running.
AsyncPutServed == put_async_count > 0 ~> putter = "put"
=============================================================================
