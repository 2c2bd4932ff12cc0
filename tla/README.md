# A TLA+ model of the EdgeTPU driver's core

This directory models the part of the repository that carries the most
concurrent logic of its own: the EdgeTPU driver for rio
(`src/google-modules/edgetpu/rio/drivers/edgetpu/`, below `R/`) and the GCIP
library it is built on (`R/gcip-kernel-driver/`, below `G/` for `drivers/gcip/`).
A user-space client opens a device group, sends VII commands to the firmware of
the TPU through a mailbox in shared memory and reads responses back. Between
them are ioctl threads, kernel threads that wait for fences, an interrupt
handler, workqueues and a crash handler, which share lists, reference counts
and three kinds of locks. That is what the modules are about.

## 1. Inventory

| Component | State | Operations | Talks to |
|---|---|---|---|
| power (`G/gcip-pm.c`) | reference counts, pending power down, two works | get, put, asynchronous put, flush, suspend query, shutdown | callbacks of the driver; workqueue |
| circular queue (`gcip-mailbox.h`, `R/edgetpu-mailbox.c`) | ring, head, tail with wrap bits | enqueue, batch fetch, fetch one, reset | firmware |
| mailbox (`G/gcip-mailbox.c`) | wait list, awaiters with kref and timeout work, sequence numbers | send, put, consume, time out, cancel, release | queue; callbacks of the driver |
| in-kernel VII (`R/edgetpu-ikv.c`, `R/edgetpu-ikv-mailbox-ops.c`) | pending and ready lists, processed flags, fence threads | send, process a response, cancel, flush | mailbox, device group, fences |
| device group (`R/edgetpu-device-group.c`) | status, credits, tracked threads, mappings, PASID | create, send, get response, fatal error, disband | in-kernel VII, KCI, IOMMU |
| KCI (`G/gcip-kci.c`, `R/edgetpu-kci.c`) | reverse ring, works | control commands to and from the firmware | mailbox, firmware, device group |
| inter-IP fences (`G/iif/`, `G/gcip-fence-array.c`, `R/edgetpu-iif.c`) | signalers, waiters and block wakelocks of a fence, a table shared with the firmware of every IP, two works | submit, signal, leave, poll, retire, destroy | in-kernel VII, firmware of the IPs |
| firmware (`R/edgetpu-firmware.c`) | status, its lock, lockout of groups | load, start, restart | power, watchdog, KCI |
| power callbacks (`R/edgetpu-pm.c`) | block, CPU, device state | power up, power down | `gcip-pm`, firmware, watchdog |
| watchdog (`R/edgetpu-sw-watchdog.c`) | a delayed work and a handler work | start, stop, ping, bite | KCI, firmware |
| wakelock (`R/edgetpu-wakelock.c`) | request and event counts of a client | acquire, release | power, device group |
| mappings, IOMMU, telemetry, statistics, platform | tables and registers | thin | kernel APIs |

The rest of the repository (drivers for displays, cameras, batteries, radios,
sensors, GPUs and the device trees) is listed in `PROJECT.json` as not
modelled. Much of it is vendor code. The camera engine (lwis) and the battery
charging votes (bms) are systems of their own. The DSP driver (gxp) carries
its own copies of the GCIP library: its zuma copy has the same `gcip-pm.c` and
`gcip-mailbox.c`, its gs201 copy another revision that these modules do not
speak for.

What is hard here, and hardly reached by a test:

* a response, a timeout, a cancellation and a teardown meet on one command;
* objects live as long as the last of several holders on different threads;
  one of them is a stack frame;
* the consumers of the response queue use a trylock, and handle what they
  copied after the lock is dropped;
* commands with an unsignaled in-fence are sent by threads that do not hold
  the lock of their group, while that group crashes or is closed;
* credits must be returned once on each of four paths;
* the power of the block is dropped asynchronously, may be denied and retried;
* a fence is counted down by several firmwares and by the driver on behalf of
  one that has crashed, in memory that no lock protects;
* the status of the firmware is changed under three locks, none of which every
  reader holds, while a watchdog that only tries them watches over it.

`PROJECT.json` lists these under "hazards", each with its line and the
properties aimed at it.

## 2. Modules

| Module | Models | Depends on |
|---|---|---|
| `GcipPm` | `G/gcip-pm.c` | |
| `GcipPmProofs` | its theorems | `GcipPm` |
| `GcipFifo` | abstract: a bounded FIFO read in batches | |
| `GcipCircQueue` | index arithmetic and copy loop | implements `GcipFifo` |
| `GcipCircQueueProofs` | its theorems, with the refinement | `GcipCircQueue` |
| `GcipAwaiter` | abstract: the life of an asynchronous command | |
| `GcipMailbox` | `G/gcip-mailbox.c` | implements `GcipAwaiter` |
| `GcipMailboxProofs` | its theorems, with the refinement | `GcipMailbox` |
| `EdgetpuIkv` | in-kernel VII commands of a group | built on `GcipAwaiter` |
| `EdgetpuIkvProofs` | its theorems | `EdgetpuIkv` |
| `IifFence` | inter-IP fences and the commands that use them | |
| `IifFenceProofs` | its theorems | `IifFence` |
| `EdgetpuFirmware` | firmware, power callbacks and watchdog | |
| `EdgetpuFirmwareProofs` | its theorems | `EdgetpuFirmware` |
| `MC...` | instances for TLC | |

### GcipPm

All of the code runs under `pm->lock`, callbacks included, so an operation is an
action with the callback's answer as a parameter. Three threads act outside of
the lock and have a place of their own: `putter` takes a request off
`put_async_count` before it calls `gcip_pm_put`; `retrier` is the delayed work
between leaving the queue and getting the lock; `flusher` is the caller of the
flush, which waits for the instances of the work that were there when it came
(`await`). `block` is what the callbacks did to the hardware: only a block that
is on denies a power down with EAGAIN, and any other error leaves it in either
state. `held` and `heldSuspendable` are ledgers of what the callers own; a caller
only puts what it owns. `Destroy` is `gcip_pm_destroy` up to its callback, when only
plain references (the debugfs wakelocks) may be left; `before_destroy` puts them while
`destroyed` is "closing", and `DestroyEnds` frees the structure.

### GcipCircQueue and GcipFifo

One ring, with the writer as the host is on a command queue and the reader as
the host is on a response queue; the firmware mirrors it on the other end. `local`,
`total` and `batch` are the variables of `gcip_mailbox_fetch_responses`; the
writer goes on while it loops. An index is less than twice the wrap bit, so
masking and xor are the case distinctions `RealIndex` and `FlipWrapBit`. `Reset`
is `edgetpu_mailbox_reset`, as one step with nobody reading: it takes no queue lock, and
its callers reset a mailbox whose firmware is not running. The end of the copy loop has no
guard on the queue being empty: a failed `krealloc` or an invalid tail ends it at
any time, and a write after the last look has the same effect.

### GcipMailbox and GcipAwaiter

A command in `Async` has an awaiter on the heap, one in `Sync` has its async_resp
in the frame of its sender. `pc` is the sender's place in
`gcip_mailbox_enqueue_cmd`; sections under `list_lock` are single actions; what
happens after an unlock is a later action. `timer` is the timeout work, from
scheduled to running to its final put. `Consumers` are the interrupt handler
(with trylock) and the flush (without). `wait_list` is a set with the order of
its elements in `place`; matching is by sequence number, in list order, so a
wrong match is possible in the model. The firmware takes commands, may answer
them in any order and may never answer. A timer may expire at any time after it was
armed, which is before the sender takes the queue lock (`G/gcip-mailbox.c:805`); `early`
are the commands whose timeout work looked for them before they were listed.
`Numbering` says who numbers the commands: the "mailbox" under the queue lock; the "kci",
which counts atomically before it sends (`G/gcip-kci.c:274`); or the "client" (`UserSeq`),
as in the in-kernel VII. All mailboxes of rio are in the external mode, the last two.
`NoTimeout`, `HookPublishes` (is an awaiter cancellable before it is listed),
`ReallocFails` and `BlockOff` (may the interrupt find the block off and drop
it) are constants, so each run says which of these it includes. The release may begin
while consumers are at work, as `gcip_mailbox_cancel_awaiter_all` expects; on rio the
interrupt is disabled first (`R/edgetpu-mailbox.c:979`).

`GcipAwaiter` has, for each command, a phase, a set of reference holders and the
place of its canceller, and nothing else. `ImplementsAwaiter` says that every
step of the mailbox is one of its steps or none, which TLC checks and
`GcipMailboxProofs` proves; `EdgetpuIkv` uses its actions in place of the mailbox.

Not in the model: a mailbox that receives commands,
`gcip_mailbox_consume_one_response`, which only the KCI uses, and
`gcip_mailbox_send_cmd` without a response (answers to reverse KCI commands, unblock
notifications), which lists nothing and only takes a place in the queue.

### EdgetpuIkv

One group and its commands. `ipc` is the thread that sends a command: the
ioctl, which holds `group->lock` for reading and `vii_lock` to the end, or, for a
command in `Fenced`, a fence thread that holds nothing. `writer` is the thread
with `group->lock` for writing: the fatal error handler or the disband. `taken`
is the private list that both move the pending responses to. `hpc` is the
callback of the mailbox, after `process_response` has unlocked and while
`signal_response_waiters` still uses the response. `gone` are the responses
freed. In-fences are abstracted to how their wait ends, out-fences to how often
they were signaled. The mailbox is that of `GcipAwaiter`; a send is three steps, the
publication on the pending list, the listing of the awaiter (`PushWaitResp`) and the
queue write with the return, and the timer may expire before any of them.
`edgetpu_ikv_handle_awaiter_flushed` is not an action: the mailbox is released when the
driver is removed, when no group is left, and a disbanded group has no awaiter
(`DisbandedIsEmpty`). Litebuf VII is compiled out on rio, so
all commands have timeouts and none has an IIF DMA fence. The power reference
that the ioctl takes for the time of a send is not in the model.

### IifFence

Direct single-shot fences. A command in `Cmd` is sent to the IP `IpOf`, waits for
the fences in `In` and signals those in `Out`. `pc` is first the thread in
`iif_fence_submit_signaler_and_waiter` ("lock" while it takes fence locks one by
one), then the thread that completes the command in `signal_response_waiters`:
"signal" and "table" are the two halves of `iif_direct_fence_signal_single_shot`, between
which the firmware of another IP may look at the table, "count" is
`iif_fence_do_waited_work_if_no_outstanding_signalers`, which takes the lock again,
"inline" the waited work of the synchronous variant, and "waited" the loop over
the in-fences. A fence is a record with the fields of `struct iif_fence` and of its
direct fence (`derror`, `timeline`); `wakelock` is `outstanding_block_wakelock`, and
`wakelocks` counts what the IP drivers have handed out. `table` is the shared
memory. The firmware is external: a command runs once its in-fences are
unblocked in the table, sleeps otherwise, counts its out-fences down and wakes
the sleepers; told by the driver, it looks again. A command in `Aborts` may be
completed with an error at any time (timeout, flush after a crash), and its firmware may
or may not have run it. IPs in `Async` use only the `_async` calls, as edgetpu does;
others use either variant; the runs leave `Async` empty, so that both variants of each call
are taken. A submission whose acquisition of wakelocks fails releases what it has
acquired (`AcquireFails`); as the wakelocks are only counted, that is one step. A driver may
drop a notification (no memory, the send fails, the block is off): the sleeper it was for
is then "missed". The destruction of a fence waits for its works, as
`iif_fence_do_destroy` flushes them.

Left out: reusable fences and sync points, fences the AP signals, callbacks on
the submission of all signalers, the bridge to DMA fences with the flag
RETIRE_ON_RELEASE that only it sets (`G/iif/iif-dma-fence.c:376`), the allocation of
ids (a fence that retires is not created again) and the list of pending
notifications in `edgetpu-iif.c`.

### EdgetpuFirmware

A thread is a client in the wakelock ioctls, the writer of `load_firmware`
("loader"), the handler work of the watchdog ("handler") or the delayed work that
retries a power down ("retry"). All of them meet in `gcip_pm_get` and
`gcip_pm_put`, whose callbacks run under the PM lock and are several steps: "up"
is `do_power_up`; "run", "boot" and "booted" are
`edgetpu_firmware_run_locked` and `edgetpu_firmware_restart_locked` in whatever
context calls them (`ctx`: none, a power up, a power down); "downing", "fwlock"
and "reset" are `do_power_down`. `ping` is the delayed work of the watchdog:
`cancel_delayed_work_sync` is a step that waits until the work is not running and that keeps
it from being scheduled. `GcipPm` has the reference counts in more detail; here
one put and one get with the deferred power down are enough. `prev` is the local
variable of `edgetpu_firmware_pm_get`, which is read one step before LOADING is written
("mark"). `skipped` is a ledger: a power up, a power down or the watchdog handler has left a
firmware that is up to a loader, and no start has begun since. A start that fails leaves the
firmware as it was, off, or hung. The firmware may hang at any time. Clients and the loader
in `Signaled` may be interrupted in `gcip_pm_get`. `edgetpu_fatal_error_notify`, the other thing
the handler does, changes groups only and is `FatalErrorNotify` of `EdgetpuIkv`.

Left out: the unload of the driver (the SHUTDOWN state), the forced reboot of the
power domain, `always_on`, other callers of the usage update, and the state BAD,
which differs from no firmware in debug output only. A wakelock is acquired once
and not suspendable, and its release puts directly; `GcipPm` has the asynchronous put that
the ioctl uses.

## 3. Runs

| Run | Shows | Result |
|---|---|---|
| `pm` | references conserved, power while held, deferred power down on a powered block and not lost, suspend by consent, asynchronous puts served, destruction with references left | holds |
| `circ_queue` | indices in the ring, exact count, full and empty; implements a FIFO | holds |
| `mailbox` | krefs exact, freed at zero, no use after free, also of a sender's frame, one callback, own response, what is listed has a timer, cancel is final; implements `GcipAwaiter` | holds |
| `mailbox_live` | everything sent is settled and freed, every call returns, with the two exceptions below | holds |
| `ikv` | credits, lifetime of responses, fence threads, cancellation, disband; commands are answered although the firmware crashes, with the exceptions below; disband returns | holds |
| `ikv_hang` | commands with fence are answered although the firmware crashes | violated |
| `ikv_uaf` | an error response is not freed under its fence thread | violated |
| `iif` | wakelocks balanced, held while there are waiters and returned in the end; retired fences unused; no signal refused; fences signaled by all are unblocked; pollers and sleepers woken, unless the notification is dropped | holds |
| `iif_error` | a fence unblocked without an error was signaled by all | violated |
| `firmware` | one starter of the firmware at a time, on a powered block; holders powered; the ping never meets a start; a running firmware is watched, a hung one restarted, with the exceptions below; power transitions end | holds |
| `firmware_lock` | no lock cycle of PM and firmware lock | violated |
| `firmware_left` | a hung firmware that the watchdog handler leaves to a loader is loaded | violated |

Bounds. `pm`: three references (two kinds and one on its way), one retry of the
flush. `circ_queue`: three slots of two values, more than three laps, the
largest size the wrap bit allows; the proofs cover all sizes. `mailbox`: an
awaiter and a sender's frame on one wait list are enough for every race over a wrong
match, a queue of two lets a consumer hold a batch (678,367 states). Two
synchronous commands numbered by the mailbox satisfy the same invariants (21,508 states).
`mailbox_live` has one command of each kind in a queue of one, which makes
them wait for each other. `ikv`: a fence thread and an ioctl at once; the safety invariants hold
as well with two fence threads and an ioctl on two credits, so that a send is refused
(6.2 million states). `iif`: two signalers of one IP, one of which may be aborted, and a
waiter of another IP on a polled fence: enough for a waiter to come before, between and
after the signals and to leave before them. The safety invariants hold as well on an
instance with a second fence that the waiter signals (574,368 states) and on one whose
waiter waits for two fences, so that an acquisition fails half-way (1,043,563 states); with
liveness these take too long to be runs. `firmware`: one client next to the three kernel
threads and the ping.
No run uses symmetry.
Deadlock is not checked where the commands of the instance are used up in the
end, or the device destroyed; `circ_queue` never stops and is checked for it.

Fairness is weak fairness of kernel threads that have begun, of works that are
queued, of interrupts that are pending and of timers (a `delayed_work` expires,
`wait_event_timeout` and `dma_fence_wait_timeout` end). Nothing is assumed of the
firmware, of user space, or of the callers that could start something new. In
`mailbox_live` a driver is assumed to put its reference once a command is settled.
In `iif` a firmware may stop, a command may never be submitted and a file never
be closed; in `firmware` a client may hold its wakelock forever. No strong
fairness is needed: locks are modelled to be granted to somebody who asks, and the properties only
ask for the end of what has begun.

### What the violated runs show

* `ikv_hang` (`R/edgetpu-ikv.c:658`): a fence thread has put its response on the
  pending list (`R/edgetpu-ikv-mailbox-ops.c:269`) and its awaiter is not on the
  wait list yet. The fatal error handler cancels its timeout work, finds nothing
  on the wait list and waits, under the write lock of the group, for a
  handler that never runs.
* `ikv_uaf` (`R/edgetpu-ikv-mailbox-ops.c:447`): the error response of a fence
  thread has one reference. Once it is on the ready list the client may read it,
  which frees it, while the thread is about to signal its fences.
* `iif_error` (`G/iif/iif-fence.c:1582`): two commands signal a fence. The driver gives
  up on b and sets `propagate` of the fence, without a lock and before it
  signals. The response of a, for which the firmware has counted down already,
  is signaled in between, and the driver, who now propagates, counts the table down a
  second time, without an error. The waiter finds the fence unblocked and no error,
  although b never ran.
* `firmware_lock` (`R/edgetpu-firmware.c:1399`): the handler of the watchdog takes the firmware lock
  and then asks for the PM lock; a power down holds the PM lock, finds that the
  firmware does not answer its shutdown and asks for the firmware lock
  (`R/edgetpu-pm.c:375`). The trace begins with an OPEN_DEVICE that times out: the
  client drops the last reference right after it has called the handler. The put of the
  handler itself (line 1409) may also power down under the firmware lock.

* `firmware_left` (`R/edgetpu-firmware.c:1391`): the ping of a hung firmware has timed out. A
  loader sets the status LOADING and asks for the PM lock; the handler sees LOADING and
  returns, to "let it do the work". The loader is interrupted by a signal
  (`G/gcip-pm.c:178`), puts VALID back and returns. A client holds the wakelock, and nothing
  that could find the firmware hung is scheduled any more.

The passing runs state their properties with these exceptions, and check everything else:

* `Missed` (`mailbox_live`) and `CancelMissed` (`ikv`): a cancellation that came before
  the awaiter was listed, as in `ikv_hang`.
* `early` (`mailbox`, `mailbox_live`) and `Untimed` (`ikv`): the timeout work is
  scheduled at `G/gcip-mailbox.c:805`, before the command waits for the queue lock and for
  space (line 272). When it expires there it finds nothing listed; the awaiter
  is then listed without a timer and, if the firmware is silent, never settled nor freed.
  `ListedIsTimed` says that there is no other way to lose a timer. A queue with room for
  all credits (`R/edgetpu-config.h:75`) and a timeout of minutes make this improbable on rio.
* `skipped` (`firmware`): as in `firmware_left`. `RunningIsWatched` proves that there
  is no other way to lose the watchdog.
* `LockCycle` and `StuckStatus` (`firmware`): `firmware_lock`, and a status nobody will
  correct, below. `HungIsRestarted` also assumes that loads are not started and interrupted for
  ever, since the ping is put off to its next beat while one waits.

### Met while modelling, without a run

Promises of the mailbox that the code does not keep, with effects the other runs
bound:

* `G/gcip-mailbox.c:432`: a failed trylock "means that the response queue is being
  consumed by other threads". The other consumer may have read the tail for the
  last time and not unlocked yet; a response that arrives then stays in the queue
  until another interrupt or flush, or its command times out (`SentIsSettled`).
* `G/gcip-mailbox.c:719`: responses are handled after the lock is dropped, so
  `gcip_mailbox_consume_responses` may find an empty queue and return before a response
  that the interrupt handler has copied is handled; `gcip-mailbox.h:468` promises
  "that all responses in the mailbox at the moment have been processed".
  `edgetpu_ikv_deactivate_client` relies on it before a PASID is recycled.

* Numbers that clients reuse: `R/edgetpu-ikv.h:76` says that the number of a VII command "is
  overridden with a Kernel-generated sequence number while in the mailbox queue. This
  prevents clients from using conflicting numbers", but `R/edgetpu-ikv.c:104` asks for the
  external mode in which nothing overrides it. With `Numbering = "client"` and
  two commands of one number TLC finds a timeout work that takes the awaiter of the other
  command, so that `KrefExact` and `OwnResponse` fail. The match includes the client's id, so a
  client can only confuse its own commands.

Power:

* `G/gcip-pm.c:106`: the references that `before_destroy` puts are put after the deferred work
  was cancelled. If the last power down is denied, the work is scheduled again and
  the structure is freed with its timer armed.

Inter-IP fences:

* `G/iif/iif-fence.c:1410`: in-fences are locked before out-fences, each array sorted by
  id "to prevent a potential deadlock" (line 127). A submission that waits for 2 and
  signals 1 locks 2 first, one that waits for both locks 1 first.
* `R/edgetpu-ikv-mailbox-ops.c:37` says that an error "was not returned from the
  firmware"; an error code in a response gets there as well, and the driver then counts
  down for a firmware that has done so itself (`FwErrors`).
* `G/iif/iif-fence.c:997` broadcasts the id of a fence that has just been given back.

Firmware and power:

* `R/edgetpu-firmware.c:1159`: loading while a group exists fails after the status
  was set to LOADING, and nothing sets it back: power ups and the watchdog leave the
  firmware to a loader that is gone. `StuckStatus` names this state, and
  `HungIsRestarted` excepts it. The status that `edgetpu_firmware_pm_get` puts back after a failed get
  was read without the PM lock: it may be LOADING as well, or INVALID from before a start
  that succeeded meanwhile, which is the other half of `StuckStatus`.
* A power down that is denied after the firmware was shut down, and then
  cancelled by a get, leaves a holder on a powered block without firmware; the
  first command that times out repairs it (`Bite`).
* A power up that fails, and whose own power down is denied, leaves the block on with
  nobody to retry; later power ups fail until the block is found off.
* `R/edgetpu-pm.c:316` argues that the PM lock protects the start of the firmware;
  `OneRunner` shows that it does, although the status is changed outside of it.
* `R/edgetpu-fs.c:652`: a suspendable acquire takes a second reference and puts the
  first; when the second get is interrupted the request is counted with no power
  reference. `R/edgetpu-wakelock.c:144` makes the flag stick, so a plain acquire
  followed by a suspendable one is released with two suspendable puts.

Comments:
`gcip-pm.h:125` says that a failed power down is retried, `gcip-pm.c:28` does so for
EAGAIN only; `gcip-mailbox.h:541` says that a cancellation cancels the timeout work
synchronously, `gcip-mailbox.c:836` does not wait for it (`OneCallback` and
`NoUseAfterFree` hold nevertheless). `R/edgetpu-device-group.c:345` puts an IIF DMA fence that
the release of the response puts again; on rio there is never one.

## 4. Proofs

TLAPS checks all of the following for every value of the constants. TLC
evaluates the assumptions on the constants in each run.

`GcipPmProofs` (assumes that the bounds are natural numbers). The invariant
`IInv` is typing, `RefsAccounted`, `PoweredWhileHeld`, `DeferredMeansOn` and
`RetryNotLost` together. None of them is inductive alone: that a get may
cancel a deferred power down needs that the block is on while one is pending,
which needs that a pending one implies no reference, which needs the accounting of
the puts in flight. Theorems: `TypeCorrect`, `ReferencesConserved`,
`HoldersArePowered`, `DeniedIsRetried`, `SuspendIsConsented`.

`GcipCircQueueProofs` (assumes `gcip_valid_circ_queue_size`). The invariant
`RingInv` says that the distance of two indices, with a ring's length added when their
wrap bits differ, is what the ledger says; it has a second part for the
reader's own index in its loop. The lemmas say what `Inc` does to that
distance and that `Cnt` computes it. Theorems: `IndicesStayInRing`,
`OccupancyIsExact`. For the refinement, `CopyInv` adds that what the reader has copied
is the beginning of the queue: the slot of the tail is none of those between
head and tail (`TailSlot`), so a write in the middle of the loop appends and changes
nothing that was copied (`WriteAppends`), and an index in the middle parts the
queue in two (`CopyParts`). Theorem: `RingImplementsFifo`.

`GcipMailboxProofs`. The invariant says where an awaiter can be (`ClaimInv`: listed,
on the list of the release, in the hand of one consumer, taken by its timeout,
removed by its driver or called back, and in one of these only), who has a
reference at which place (`OwnerInv`, `KrefInv`) and that sequence numbers tell
commands apart from the moment they can be listed (`SeqInv`). Theorems:
`KrefIsExact`, `NothingUsesFreed`, `WaiterGetsOwn`, `CalledBackOnce`,
`MailboxTypeCorrect`, and `MailboxImplementsAwaiter`, with one lemma for each action
that names the abstract step it is; and `ListedAreTimed`, which needs no more than
where a timer can be (`TimedInv`). The others have a hypothesis, `SeqUnambiguous`: the
KCI's numbering, or the mailbox's own with synchronous commands only, or distinct numbers other
than zero from the clients. For the first two, distinctness is proved, from the
counter and the places where it is read (`SeqInv`), and `WaiterGetsOwn` is stated for these two
alone: there a late response never meets another command's awaiter. The last is needed
for the other theorems: TLC finds counterexamples with reused client numbers (section 3),
and with asynchronous commands that the mailbox numbers, where a timer that expires before
the numbering looks for the number 0 and takes the awaiter of the first command; this driver
has none of the latter. What a VII client that reuses numbers gets is outside of the theorems.

`EdgetpuIkvProofs` (assumes that the fenced commands are commands and there is
a credit). The invariant follows a command: how far its awaiter is when its sender is
at a place (`PhaseInv`), in which one of the lists its response is (`ListInv`), who
keeps the awaiter alive (`HolderInv`), what the cancelling writer has taken
(`CancelInv`), and that every sender on its way has the lock of the ioctl or is a
tracked task, so that the disband has waited for all of them before it clears the
lists (`StopInv`). The credits follow: they are the ones not spent on a command whose
fences are unsignaled (`CreditInv`), and `SignalInv` says that nobody is left who would
signal them again. `NoUseAfterFree` covers the lists, the callback, the cancelling writer and the
sender up to the moment its error response is ready; its use after that is what `ikv_uaf` refutes.
Theorems: `CreditsAddUp`, `NothingUsesFreed`,
`DisbandLeavesNothing`, `StoppedTasksAlive`, `IkvTypeCorrect` and the action property
`CanceledIsFinal`.

`EdgetpuFirmwareProofs` (assumes finitely many clients). The invariant says at
which places a thread holds the PM lock and the firmware lock (`LockInv`), that
`count` is the number of threads that own a reference (`CountInv`), and what that means
for the block and for a pending power down (`PowerInv`). A start of the
firmware is under the PM lock or the firmware lock on every path, but not always under the
same one; that two of them exclude each other needs the count as well: a start in a
power transition has count zero, one outside of it owns a reference. Theorems:
`OneThreadStarts`, `HoldersKeepPower`, `FirmwareTypeCorrect`, and, with the second
invariant `WatchInv`, `RunningIsWatched`, for interrupted loaders as well: it says that only
work left to a loader (`skipped`) can end with an unwatched firmware.

`IifFenceProofs` (assumes that fences and commands are finite sets and that every fence has a
signaler). The counters of a fence are numbers of commands: submitted,
counted and waiting ones (`CountInv`), where a command is by its place and by what it has
still to do. The table has no such equation, since firmware and driver overwrite
each other's count; the invariant bounds it, `rem + |Written| <= Total`, and by
what the firmware ran as long as the driver does not propagate (`TableInv`). That
needs `LockInv`: the count that a signal writes is the one it has read, unless a
firmware counted in between, because no other signal of the fence has the lock. With all
signals counted the bound leaves zero. The wakelocks are compared as sets: `Tokens`
has one element for each wakelock of a fence, `WaiterLocks` and `SignalerLocks`
the pairs of a submission under way and a fence, and each action is shown to
move, add or remove the same number on both sides; a failed acquisition is shown to release
exactly what it had acquired, for any arrays of fences (`FailsReleases`). Theorems: `WaitersKeepPower`,
`WakelocksAddUp`, `UsersAreCounted`, `SignalsAreSeen`, `FencesTypeCorrect`.

Each inductive invariant was checked by TLC on the instances of section 3 before it was
proved. Only model-checked: the liveness properties (`AsyncPutServed`,
`SentIsSettled`, `CallsReturn`, `AwaiterFreed`, `AnsweredUnlessMissed`,
`DisbandReturns`, `SleeperWoken`, `WakelocksReturned`, `HungIsRestarted`,
`TransitionsEnd`), which are out of the prover's reach. Every safety invariant, action
property and refinement that a passing run checks is the statement of a
theorem.

## 5. Plan

1. Done: `GcipPm`, `GcipCircQueue`, `GcipMailbox`, `GcipAwaiter`, `EdgetpuIkv`,
   `IifFence` and `EdgetpuFirmware`, model-checked, with all their safety properties
   and both refinements proved.
2. Proofs that are left: facts that liveness rests on and that are invariants (a
   queued work or a running thread behind everything that waits), and what the
   violated runs except (`CancelMissed`, `LockCycle`) as invariants of the rest.
3. `GcipKci`: the interrupt handler's `consume_one_response` next to the work and
   the flush, the reverse KCI ring, and what a sender sees on a timeout.
4. Device groups: creation, VCIDs, PASIDs and `edgetpu_ikv_deactivate_client`, with two
   groups, so that an early return of the flush can be followed to the next
   client of a PASID.
5. `edgetpu-wakelock` with the suspendable flag, and system suspend on top of
   `GcipPm`; reusable fences and sync points.

## 6. Not modelled

KCI commands other than the ping, mappings, the IOMMU, telemetry, statistics and
platform code of this driver: register access, tables and layouts that are thin over
kernel interfaces, or planned above. The other drivers of the repository: see the
inventory; each is a system of its own, and most are vendor code.
