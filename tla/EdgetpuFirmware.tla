--------------------------- MODULE EdgetpuFirmware ---------------------------
(***************************************************************************)
(* edgetpu-firmware.c, edgetpu-pm.c and edgetpu-sw-watchdog.c on top of    *)
(* gcip-pm.c: who starts the firmware, who powers the block, and how a     *)
(* firmware that hangs is found and restarted.                             *)
(*                                                                         *)
(* A thread is a client that acquires the wakelock, the writer of the      *)
(* load_firmware attribute, the handler work of the watchdog or the work   *)
(* that retries a power down.  All of them call gcip_pm_get or gcip_pm_put,*)
(* whose power_up and power_down callbacks run with the PM lock held and   *)
(* are several steps here.  The delayed work of the watchdog is "ping".    *)
(***************************************************************************)
EXTENDS Integers, FiniteSets

CONSTANTS
  Clients,        \* clients of the device
  Signaled,       \* threads of users that a signal may interrupt
  None            \* nobody

Thread == Clients \cup {"loader", "handler", "retry"}

ASSUME FirmwareAssumption ==
  /\ IsFiniteSet(Clients)
  /\ Signaled \subseteq Clients \cup {"loader"}
  /\ Clients \cap {"loader", "handler", "retry", "ping", None} = {}
  /\ None \notin {"loader", "handler", "retry", "ping"}

VARIABLES
  pc,       \* what each thread does
  ctx,      \* what a thread returns to from a power transition or a start
  prev,     \* prev of edgetpu_firmware_pm_get
  pmLock, fwLock,   \* owners of the PM lock and of fw_state_lock
  count, pending,   \* count and power_down_pending of struct gcip_pm
  retryWork,        \* is power_down_work scheduled
  block, cpu,       \* is the block on, firmware_cpu_on
  status,           \* et_fw->status
  state,            \* etdev->state
  fw,               \* the firmware itself
  skipped,          \* was work left to a loader since the last start
  ping,             \* dwork of the watchdog
  handlerWork,      \* is et_action_work scheduled
  groups, lockout, active   \* groups, group_create_lockout, activated groups

threadVars == <<pc, ctx, prev>>
powerVars == <<count, pending, retryWork>>
blockVars == <<block, cpu>>
fwVars == <<status, state, fw, skipped>>
wdtVars == <<ping, handlerWork>>
groupVars == <<groups, lockout, active>>
vars == <<threadVars, pmLock, fwLock, powerVars, blockVars, fwVars, wdtVars, groupVars>>

Init ==
  /\ pc = [t \in Thread |-> "idle"]
  /\ ctx = [t \in Thread |-> "none"]
  /\ prev = [t \in Thread |-> "invalid"]
  /\ pmLock = None /\ fwLock = None
  /\ count = 0 /\ pending = FALSE /\ retryWork = FALSE
  /\ block = FALSE /\ cpu = FALSE
  /\ status = "invalid" /\ state = "nofw" /\ fw = "off" /\ skipped = FALSE
  /\ ping = "idle" /\ handlerWork = FALSE
  /\ groups = {} /\ lockout = FALSE /\ active = {}

At(t, place) == pc[t] = place
Goes(t, place) == pc' = [pc EXCEPT ![t] = place]

\* The firmware that has started last is up and its status denies it, because a
\* loader has set it: what is to be done about it is left to the loader.
LeftToLoader == state = "good" /\ status # "valid"

-----------------------------------------------------------------------------
(***************************************************************************)
(* The watchdog.  A thread that waits in cancel_delayed_work_sync keeps    *)
(* the work from being scheduled.                                          *)
(***************************************************************************)
Canceled == IF ping = "armed" THEN "idle" ELSE ping

Canceling(t) == \E u \in Thread \ {t} : pc[u] \in {"boot", "downing", "rate"}

\* schedule_delayed_work by t, and by the work itself.
Started(t) == IF Canceling(t) THEN ping ELSE "armed"
Rearmed == IF Canceling("ping") THEN "idle" ELSE "armed"

\* Mutation: the ping relies on its power reference check and not on the PM lock.
PingUnlocked ==
  /\ ping = "armed"
  /\ count > 0
  /\ fwLock = None /\ status = "valid"
  /\ ping' = "sent"
  /\ fwLock' = "ping"
  /\ UNCHANGED <<threadVars, pmLock, powerVars, blockVars, fwVars, handlerWork, groupVars>>

\* sw_wdt_work in edgetpu_kci_update_usage: both locks are only tried, and
\* without them the work is scheduled for the next beat.
PingStarts ==
  /\ ping = "armed"
  /\ count > 0
  /\ fwLock = None /\ status = "valid"
  /\ pmLock = None
  /\ ping' = "sent"
  /\ fwLock' = "ping" /\ pmLock' = "ping"
  /\ UNCHANGED <<threadVars, powerVars, blockVars, fwVars, handlerWork, groupVars>>

\* Mutation: the PM lock is not released after a timeout.
PingKeepsLock ==
  /\ ping = "sent"
  /\ ping' = IF fw = "running" THEN Rearmed ELSE "idle"
  /\ handlerWork' = (handlerWork \/ fw # "running")
  /\ fwLock' = None /\ pmLock' = IF fw = "running" THEN None ELSE pmLock
  /\ UNCHANGED <<threadVars, powerVars, blockVars, fwVars, groupVars>>

\* Mutation: a timeout is only logged.
PingOnlyLogs ==
  /\ ping = "sent"
  /\ ping' = IF fw = "running" THEN Rearmed ELSE "idle"
  /\ fwLock' = None /\ pmLock' = None
  /\ UNCHANGED <<threadVars, powerVars, blockVars, fwVars, handlerWork, groupVars>>

\* The firmware answers, or the command times out and the handler is called.
PingEnds ==
  /\ ping = "sent"
  /\ ping' = IF fw = "running" THEN Rearmed ELSE "idle"
  /\ handlerWork' = (handlerWork \/ fw # "running")
  /\ fwLock' = None /\ pmLock' = None
  /\ UNCHANGED <<threadVars, powerVars, blockVars, fwVars, groupVars>>

\* The firmware stops answering (external).
FwHangs ==
  /\ fw = "running"
  /\ fw' = "hung"
  /\ UNCHANGED <<threadVars, pmLock, fwLock, powerVars, blockVars, status, state, skipped,
                 wdtVars, groupVars>>

-----------------------------------------------------------------------------
(***************************************************************************)
(* gcip_pm_get: after the lock is taken the power_up callback runs unless  *)
(* the block is on.                                                        *)
(***************************************************************************)
\* Where a thread goes on with the reference.
Granted(t) ==
  CASE t = "loader" -> "load" [] t = "handler" -> "run" [] OTHER -> "on"

\* What a thread does without it: the loaders put the status back.
GetFails(t) ==
  /\ Goes(t, "idle")
  /\ prev' = [prev EXCEPT ![t] = "invalid"]
  /\ status' = IF t \in Clients THEN status ELSE prev[t]
  /\ fwLock' = IF fwLock = t THEN None ELSE fwLock

Get(t) ==
  /\ At(t, "get")
  /\ pmLock = None
  /\ IF count > 0 \/ pending
       THEN /\ count' = count + 1 /\ pending' = FALSE
            /\ Goes(t, Granted(t))
            /\ UNCHANGED pmLock
       ELSE /\ pmLock' = t
            /\ Goes(t, "up")
            /\ UNCHANGED <<count, pending>>
  /\ UNCHANGED <<ctx, prev, fwLock, retryWork, blockVars, fwVars, wdtVars, groupVars>>

\* mutex_lock_interruptible in a user's thread.
GetInterrupted(t) ==
  /\ At(t, "get")
  /\ t \in Signaled
  /\ GetFails(t)
  /\ UNCHANGED <<ctx, pmLock, powerVars, blockVars, state, fw, skipped, wdtVars, groupVars>>

\* do_power_up: a block that a failed power down left on is not powered up
\* again, and a firmware that is being loaded is left to its loader.
PowerUp(t) ==
  /\ At(t, "up")
  /\ ~block
  /\ block' = TRUE
  /\ IF status = "loading"
       THEN /\ count' = count + 1
            /\ pmLock' = None
            /\ Goes(t, Granted(t))
            /\ skipped' = (skipped \/ LeftToLoader)
            /\ UNCHANGED ctx
       ELSE /\ ctx' = [ctx EXCEPT ![t] = "up"]
            /\ Goes(t, "run")
            /\ UNCHANGED <<count, pmLock, skipped>>
  /\ UNCHANGED <<prev, fwLock, pending, retryWork, cpu, status, state, fw, wdtVars, groupVars>>

\* The thermal limit, a block that does not go off and pm_runtime.
PowerUpFails(t) ==
  /\ At(t, "up")
  /\ pmLock' = None
  /\ GetFails(t)
  /\ UNCHANGED <<ctx, powerVars, blockVars, state, fw, skipped, wdtVars, groupVars>>

-----------------------------------------------------------------------------
(***************************************************************************)
(* edgetpu_firmware_run_locked and edgetpu_firmware_restart_locked.        *)
(***************************************************************************)
\* edgetpu_firmware_set_loading and edgetpu_sw_wdt_stop.
RunBegins(t) ==
  /\ At(t, "run")
  /\ status' = "loading" /\ state' = "loading" /\ skipped' = FALSE
  /\ ping' = Canceled
  /\ prev' = [prev EXCEPT ![t] = IF ctx[t] = "none" THEN "invalid" ELSE @]
  /\ Goes(t, "boot")
  /\ UNCHANGED <<ctx, pmLock, fwLock, powerVars, blockVars, fw, handlerWork, groupVars>>

\* Mutation: the watchdog is started only by a power up.
BootsUnwatched(t) ==
  /\ At(t, "boot")
  /\ ping # "sent"
  /\ fw' = "running" /\ cpu' = TRUE
  /\ ping' = IF ctx[t] = "up" THEN Started(t) ELSE ping
  /\ Goes(t, "booted")
  /\ UNCHANGED <<ctx, prev, pmLock, fwLock, powerVars, block, status, state, skipped,
                 handlerWork, groupVars>>

\* The CPU is released from reset, the handshake succeeds and the watchdog is
\* started.
Boots(t) ==
  /\ At(t, "boot")
  /\ ping # "sent"
  /\ fw' = "running" /\ cpu' = TRUE
  /\ ping' = Started(t)
  /\ Goes(t, "booted")
  /\ UNCHANGED <<ctx, prev, pmLock, fwLock, powerVars, block, status, state, skipped,
                 handlerWork, groupVars>>

\* How the caller of a start goes on: a power up has succeeded or powers down
\* again, a power down sends its shutdown again, the loaders put their
\* reference.  Only the handler keeps the firmware lock for that.
RunReturns(t, ok) ==
  LET c == ctx[t]
      loaded == t = "loader" /\ c = "none"
  IN /\ pc' = [pc EXCEPT ![t] = CASE c = "up" /\ ok -> Granted(t)
                                  [] c = "up" /\ ~ok -> "downing"
                                  [] c = "down" -> "reset"
                                  [] OTHER -> "put"]
     /\ ctx' = [ctx EXCEPT ![t] = CASE c = "up" /\ ~ok -> "failed"
                                    [] c = "down" -> "put"
                                    [] OTHER -> "none"]
     /\ count' = IF c = "up" /\ ok THEN count + 1 ELSE count
     /\ pmLock' = IF c = "up" /\ ok THEN None ELSE pmLock
     /\ fwLock' = IF c = "down" \/ loaded THEN None ELSE fwLock
     /\ lockout' = (lockout /\ ~loaded)

\* edgetpu_firmware_set_state, and the second shutdown of a power down.
Booted(t) ==
  /\ At(t, "booted")
  /\ status' = "valid"
  /\ IF ctx[t] = "down" THEN fw' = "off" /\ state' = "nofw"
                        ELSE state' = "good" /\ UNCHANGED fw
  /\ RunReturns(t, TRUE)
  /\ UNCHANGED <<prev, pending, retryWork, blockVars, skipped, wdtVars, groups, active>>

\* The image is refused with the CPU as it was, a CPU that was put into reset is
\* not released from it, or the handshake fails with a firmware that does not
\* answer.
BootFails(t) ==
  /\ At(t, "boot")
  /\ ping # "sent"
  /\ \/ UNCHANGED <<fw, cpu>>
     \/ fw' = "off" /\ cpu' = FALSE
     \/ fw' = "hung" /\ cpu' = TRUE
  /\ status' = "invalid" /\ state' = "nofw"
  /\ ping' = IF ctx[t] = "up" THEN Canceled ELSE ping
  /\ RunReturns(t, FALSE)
  /\ UNCHANGED <<prev, pending, retryWork, block, skipped, handlerWork, groups, active>>

-----------------------------------------------------------------------------
(***************************************************************************)
(* gcip_pm_put and do_power_down.                                          *)
(***************************************************************************)
\* do_power_down up to edgetpu_sw_wdt_stop.
DownBegins(t) ==
  /\ ctx' = [ctx EXCEPT ![t] = "put"]
  /\ ping' = Canceled
  /\ Goes(t, "downing")

Put(t) ==
  /\ At(t, "put")
  /\ pmLock = None
  /\ count' = count - 1
  /\ IF count > 1
       THEN /\ Goes(t, "idle")
            /\ fwLock' = IF fwLock = t THEN None ELSE fwLock
            /\ UNCHANGED <<ctx, pmLock, pending, ping>>
       ELSE /\ pmLock' = t /\ pending' = TRUE
            /\ DownBegins(t)
            /\ UNCHANGED fwLock
  /\ UNCHANGED <<prev, retryWork, blockVars, fwVars, handlerWork, groupVars>>

\* gcip_pm_async_power_down_work.
RetryStarts ==
  /\ retryWork
  /\ At("retry", "idle")
  /\ retryWork' = FALSE
  /\ Goes("retry", "retry")
  /\ UNCHANGED <<ctx, prev, pmLock, fwLock, count, pending, blockVars, fwVars, wdtVars,
                 groupVars>>

\* Mutation: a power down that a get has cancelled is retried.
RetryAlways ==
  /\ At("retry", "retry")
  /\ pmLock = None
  /\ pmLock' = "retry"
  /\ DownBegins("retry")
  /\ UNCHANGED <<prev, fwLock, powerVars, blockVars, fwVars, handlerWork, groupVars>>

Retry ==
  /\ At("retry", "retry")
  /\ pmLock = None
  /\ IF pending
       THEN /\ pmLock' = "retry"
            /\ DownBegins("retry")
       ELSE /\ Goes("retry", "idle")
            /\ UNCHANGED <<pmLock, ctx, ping>>
  /\ UNCHANGED <<prev, fwLock, powerVars, blockVars, fwVars, handlerWork, groupVars>>

\* The end of a power down: EAGAIN schedules a retry.  After a power up that
\* failed the result is ignored.
DownReturns(t, again) ==
  /\ pmLock' = None
  /\ ctx' = [ctx EXCEPT ![t] = "none"]
  /\ IF ctx[t] = "failed"
       THEN GetFails(t) /\ UNCHANGED <<pending, retryWork>>
       ELSE /\ Goes(t, "idle")
            /\ fwLock' = IF fwLock = t THEN None ELSE fwLock
            /\ pending' = again /\ retryWork' = (retryWork \/ again)
            /\ UNCHANGED <<status, prev>>

\* A firmware that runs is shut down; one that does not answer is restarted
\* first, under the firmware lock.
Shutdown(t) ==
  /\ At(t, "downing")
  /\ ping # "sent"
  /\ IF ~block THEN DownReturns(t, FALSE) /\ UNCHANGED <<state, fw>>
     ELSE /\ IF status = "valid" /\ state = "good"
               THEN IF fw = "running"
                      THEN Goes(t, "reset") /\ fw' = "off" /\ state' = "nofw"
                      ELSE Goes(t, "fwlock") /\ UNCHANGED <<fw, state>>
               ELSE Goes(t, "reset") /\ UNCHANGED <<fw, state>>
          /\ UNCHANGED <<ctx, prev, pmLock, fwLock, pending, retryWork, status>>
  /\ skipped' = (skipped \/ LeftToLoader)
  /\ UNCHANGED <<count, blockVars, wdtVars, groupVars>>

\* edgetpu_firmware_watchdog_restart with in_powerdown.
RestartInPowerdown(t) ==
  /\ At(t, "fwlock")
  /\ fwLock = None
  /\ fwLock' = t
  /\ ctx' = [ctx EXCEPT ![t] = "down"]
  /\ Goes(t, "run")
  /\ UNCHANGED <<prev, pmLock, powerVars, blockVars, fwVars, wdtVars, groupVars>>

\* edgetpu_firmware_reset_cpu denies the power down.
ResetDenied(t) ==
  /\ At(t, "reset")
  /\ cpu
  /\ DownReturns(t, TRUE)
  /\ UNCHANGED <<count, blockVars, state, fw, skipped, wdtVars, groupVars>>

\* The CPU is in reset, or stays out of it after another error, and
\* pm_runtime_put_sync takes the power.
PowerOff(t) ==
  /\ At(t, "reset")
  /\ block' = FALSE
  /\ cpu' \in {FALSE, cpu}
  /\ fw' = "off"
  /\ DownReturns(t, FALSE)
  /\ UNCHANGED <<count, state, skipped, wdtVars, groupVars>>

\* pm_runtime_put_sync fails.
PowerOffFails(t) ==
  /\ At(t, "reset")
  /\ cpu' \in {FALSE, cpu}
  /\ fw' = IF cpu' THEN fw ELSE "off"
  /\ \E again \in BOOLEAN : DownReturns(t, again)
  /\ UNCHANGED <<count, block, state, skipped, wdtVars, groupVars>>

-----------------------------------------------------------------------------
(***************************************************************************)
(* sw_wdt_handler_work: edgetpu_firmware_watchdog_restart.                 *)
(***************************************************************************)
HandlerStarts ==
  /\ handlerWork
  /\ At("handler", "idle")
  /\ handlerWork' = FALSE
  /\ Goes("handler", IF count > 0 THEN "loading" ELSE "idle")
  /\ UNCHANGED <<ctx, prev, pmLock, fwLock, powerVars, blockVars, fwVars, ping, groupVars>>

\* "Another procedure is loading the firmware, let it do the work."
HandlerChecks ==
  /\ At("handler", "loading")
  /\ Goes("handler", IF status = "loading" THEN "idle" ELSE "lock")
  /\ skipped' = (skipped \/ (LeftToLoader /\ status = "loading"))
  /\ UNCHANGED <<ctx, prev, pmLock, fwLock, powerVars, blockVars, status, state, fw, wdtVars,
                 groupVars>>

\* Mutation: the handler restarts the firmware without a power reference of its
\* own, and puts one nevertheless.
HandlerWithoutGet ==
  /\ At("handler", "lock")
  /\ fwLock = None
  /\ fwLock' = "handler"
  /\ Goes("handler", "run")
  /\ UNCHANGED <<ctx, prev, pmLock, powerVars, blockVars, fwVars, wdtVars, groupVars>>

\* edgetpu_firmware_lock, and the read of the status in edgetpu_firmware_pm_get.
HandlerLocks ==
  /\ At("handler", "lock")
  /\ fwLock = None
  /\ fwLock' = "handler"
  /\ prev' = [prev EXCEPT !["handler"] = status]
  /\ Goes("handler", "mark")
  /\ UNCHANGED <<ctx, pmLock, powerVars, blockVars, fwVars, wdtVars, groupVars>>

\* The rest of edgetpu_firmware_pm_get up to edgetpu_pm_get.
MarkLoading(t) ==
  /\ At(t, "mark")
  /\ status' = "loading"
  /\ Goes(t, "get")
  /\ UNCHANGED <<ctx, prev, pmLock, fwLock, powerVars, blockVars, state, fw, skipped, wdtVars,
                 groupVars>>

(***************************************************************************)
(* load_firmware_store: edgetpu_firmware_run, which reads the status       *)
(* without a lock.                                                         *)
(***************************************************************************)
LoadStarts ==
  /\ At("loader", "idle")
  /\ prev' = [prev EXCEPT !["loader"] = status]
  /\ Goes("loader", "mark")
  /\ UNCHANGED <<ctx, pmLock, fwLock, powerVars, blockVars, fwVars, wdtVars, groupVars>>

\* edgetpu_firmware_load_lock fails while there is a group.
LoadLock ==
  /\ At("loader", "load")
  /\ fwLock = None
  /\ IF groups = {} THEN fwLock' = "loader" /\ lockout' = TRUE /\ Goes("loader", "run")
                    ELSE Goes("loader", "put") /\ UNCHANGED <<fwLock, lockout>>
  /\ prev' = [prev EXCEPT !["loader"] = "invalid"]
  /\ UNCHANGED <<ctx, pmLock, powerVars, blockVars, fwVars, wdtVars, groups, active>>

-----------------------------------------------------------------------------
(***************************************************************************)
(* Clients: groups, and the ioctls that acquire and release the wakelock.  *)
(***************************************************************************)
OpenGroup(c) ==
  /\ At(c, "idle")
  /\ ~lockout
  /\ c \notin groups
  /\ groups' = groups \cup {c}
  /\ UNCHANGED <<threadVars, pmLock, fwLock, powerVars, blockVars, fwVars, wdtVars, lockout,
                 active>>

CloseGroup(c) ==
  /\ At(c, "idle")
  /\ c \in groups
  /\ groups' = groups \ {c}
  /\ UNCHANGED <<threadVars, pmLock, fwLock, powerVars, blockVars, fwVars, wdtVars, lockout,
                 active>>

Acquire(c) ==
  /\ At(c, "idle")
  /\ Goes(c, "get")
  /\ UNCHANGED <<ctx, prev, pmLock, fwLock, powerVars, blockVars, fwVars, wdtVars, groupVars>>

\* sw_wdt_modify_rate when the first group is activated or the last one is
\* deactivated: the work is stopped and started, unless a timeout was found.
ModifyRate(c, changes, place) ==
  IF changes /\ ~handlerWork THEN ping' = Canceled /\ Goes(c, "rate")
                             ELSE Goes(c, place) /\ UNCHANGED ping

RateStarts(c) ==
  /\ At(c, "rate")
  /\ ping # "sent"
  /\ ping' = Started(c)
  /\ Goes(c, IF c \in active THEN "held" ELSE "put")
  /\ UNCHANGED <<ctx, prev, pmLock, fwLock, powerVars, blockVars, fwVars, handlerWork, groupVars>>

\* edgetpu_group_attach_and_open_mailbox of the client's group.
Activate(c) ==
  /\ At(c, "on")
  /\ c \in groups => fw = "running"
  /\ IF c \in groups
       THEN ModifyRate(c, active = {}, "held") /\ active' = active \cup {c}
       ELSE Goes(c, "held") /\ UNCHANGED <<ping, active>>
  /\ UNCHANGED <<ctx, prev, pmLock, fwLock, powerVars, blockVars, fwVars, handlerWork, groups,
                 lockout>>

\* The command to the firmware times out: edgetpu_watchdog_bite.
Bite(c) ==
  /\ At(c, "on")
  /\ c \in groups /\ fw # "running"
  /\ ping' = Canceled
  /\ handlerWork' = TRUE
  /\ Goes(c, "put")
  /\ UNCHANGED <<ctx, prev, pmLock, fwLock, powerVars, blockVars, fwVars, groupVars>>

Release(c) ==
  /\ At(c, "held")
  /\ active' = active \ {c}
  /\ ModifyRate(c, active = {c}, "put")
  /\ UNCHANGED <<ctx, prev, pmLock, fwLock, powerVars, blockVars, fwVars, handlerWork, groups,
                 lockout>>

-----------------------------------------------------------------------------
Transition(t) ==
  \/ MarkLoading(t) \/ Get(t) \/ PowerUp(t) \/ PowerUpFails(t)
  \/ RunBegins(t) \/ Boots(t) \/ BootFails(t) \/ Booted(t)
  \/ Put(t) \/ Shutdown(t) \/ RestartInPowerdown(t)
  \/ ResetDenied(t) \/ PowerOff(t) \/ PowerOffFails(t)

HandlerStep == HandlerStarts \/ HandlerChecks \/ HandlerLocks

ClientStep(c) == Activate(c) \/ Bite(c) \/ RateStarts(c)

Next ==
  \/ PingStarts \/ PingEnds \/ FwHangs
  \/ \E t \in Thread : Transition(t) \/ GetInterrupted(t)
  \/ RetryStarts \/ Retry \/ HandlerStep \/ LoadStarts \/ LoadLock
  \/ \E c \in Clients : \/ OpenGroup(c) \/ CloseGroup(c) \/ Acquire(c) \/ Release(c)
                        \/ ClientStep(c)

Spec == Init /\ [][Next]_vars

(***************************************************************************)
(* Threads that have begun go on and works that are scheduled run.         *)
(***************************************************************************)
Fairness ==
  /\ WF_vars(PingStarts \/ PingEnds)
  /\ \A t \in Clients : WF_vars(Transition(t) \/ ClientStep(t))
  /\ WF_vars(Transition("loader") \/ LoadLock)
  /\ WF_vars(Transition("handler") \/ HandlerStep)
  /\ WF_vars(Transition("retry") \/ RetryStarts \/ Retry)

FairSpec == Spec /\ Fairness

-----------------------------------------------------------------------------
Places == {"idle", "mark", "get", "up", "run", "boot", "booted", "on", "held", "rate",
           "put", "downing", "fwlock", "reset", "retry", "loading", "lock", "load"}

\* Every variable has its type.
TypeOK ==
  /\ pc \in [Thread -> Places]
  /\ ctx \in [Thread -> {"none", "up", "failed", "put", "down"}]
  /\ prev \in [Thread -> {"invalid", "loading", "valid"}]
  /\ {pmLock, fwLock} \subseteq Thread \cup {"ping", None}
  /\ count \in 0 .. Cardinality(Thread)
  /\ {pending, retryWork, block, cpu, skipped, handlerWork, lockout} \subseteq BOOLEAN
  /\ status \in {"invalid", "loading", "valid"}
  /\ state \in {"nofw", "loading", "good"}
  /\ fw \in {"off", "running", "hung"}
  /\ ping \in {"idle", "armed", "sent"}
  /\ groups \subseteq Clients /\ active \subseteq groups

Runs(t) == pc[t] \in {"run", "boot", "booted"}
HasPower(t) == pc[t] \in {"on", "held", "rate", "load"}

\* edgetpu-pm.c calls the _locked functions of the firmware without its lock:
\* nevertheless at most one thread starts the firmware, and the watchdog, which
\* only tries its locks, never pings a firmware that is being started.
OneRunner ==
  \A t \in Thread : Runs(t) => /\ \A u \in Thread \ {t} : ~Runs(u)
                               /\ ping # "sent"

\* Who uses the block has it powered: a thread from its gcip_pm_get to its put,
\* one that starts the firmware, and the ping, although power ups fail half-way
\* and power downs are denied and retried.
HolderPowered ==
  /\ \A t \in Thread : HasPower(t) \/ Runs(t) => block
  /\ ping = "sent" => block /\ count > 0

Needed == status = "valid" /\ state = "good" /\ count > 0
BeingWatched ==
  \/ ping # "idle" \/ handlerWork \/ pc["handler"] # "idle"
  \/ \E t \in Thread : Runs(t) \/ pc[t] \in {"rate", "downing", "fwlock"}

\* A firmware that runs for somebody is watched: the ping is scheduled or under
\* way, its timeout is being handled, or a thread is about to start it.  The
\* exception is work that was left to a loader whose get was interrupted, and
\* which then has put the status back without a start.
Watched == Needed => BeingWatched \/ skipped

\* The handler of the watchdog: "Another procedure is loading the firmware, let
\* it do the work", so that a firmware which hangs while a client holds the
\* wakelock never is left without anybody to find it.
LeftIsLoaded ==
  Needed /\ fw = "hung" /\ (\E c \in Clients : At(c, "held")) => BeingWatched

\* edgetpu-firmware.h on edgetpu_firmware_lock: "For code that needs both
\* locks, hold pm_lock first": no thread with the PM lock waits for the
\* firmware lock of a thread that waits for the PM lock.
LockCycle ==
  \E t, u \in Thread :
    /\ pmLock = t /\ pc[t] = "fwlock"
    /\ fwLock = u
    /\ u = t \/ pc[u] \in {"get", "put"}
NoLockCycle == ~LockCycle

\* The status says that the firmware is being loaded and nobody is about to,
\* or a loader has put back the status of a time before the last start.
StuckStatus ==
  \/ /\ status = "loading"
     /\ \A t \in Thread : ~Runs(t)
     /\ \A t \in {"loader", "handler"} : pc[t] \notin {"mark", "get", "up", "load"}
  \/ status = "invalid" /\ state = "good"

\* The driver has given the firmware up after a restart that failed.
GivenUp == status = "invalid" /\ state = "nofw"

\* A firmware that hangs while somebody needs it is restarted, given up or
\* powered off, unless the locks or the status are stuck or its restart was left
\* to a loader.  The ping is put off to the next beat while the status is that of
\* a load: a user who starts and interrupts loads forever may starve it.
HungIsRestarted ==
  <>[][~GetInterrupted("loader")]_vars =>
    (Needed /\ fw = "hung"
       ~> (fw # "hung" \/ GivenUp \/ count = 0 \/ LockCycle \/ StuckStatus \/ skipped))

\* Every power transition ends: waiting for the watchdog's work under the PM
\* lock, which that work wants too, does not block.
TransitionsEnd == pmLock # None ~> (pmLock = None \/ LockCycle)
=============================================================================
