------------------------------ MODULE IifFence ------------------------------
(***************************************************************************)
(* iif/iif-fence.c and iif/iif-direct.c with the parts of iif-manager.c,   *)
(* iif-sync-file.c and edgetpu-iif.c they call: direct single-shot         *)
(* inter-IP fences, the commands that wait for them and signal them, and   *)
(* the block wakelocks that keep the waiting IPs powered.                  *)
(*                                                                         *)
(* The table is memory that the firmware of every IP reads and writes.  A  *)
(* fence_lock is held over several steps by a submission, which takes the  *)
(* locks of all its fences one by one, and by a signal, between whose two  *)
(* table writes a firmware may look; every other section under a           *)
(* fence_lock is one action.                                               *)
(***************************************************************************)
EXTENDS Integers, FiniteSets, FiniteSetsExt

CONSTANTS
  Fence,          \* fences, by their id
  Total,          \* params.remaining_signalers of each fence
  Cmd,            \* commands
  In, Out,        \* the fences each command waits for and signals
  Ips,            \* IPs
  IpOf,           \* the IP each command is sent to
  Async,          \* IPs whose driver uses only the _async calls, as edgetpu does
  Watched,        \* fences whose file is polled
  FwErrors,       \* may a firmware answer with an error code
  Aborts,         \* commands that may time out or be flushed after a crash
  WakelockFails   \* may acquire_block_wakelock fail

ASSUME IifAssumption ==
  /\ Fence \subseteq Nat /\ IsFiniteSet(Fence) /\ IsFiniteSet(Cmd)
  /\ Total \in [Fence -> Nat \ {0}]
  /\ In \in [Cmd -> SUBSET Fence] /\ Out \in [Cmd -> SUBSET Fence]
  /\ IpOf \in [Cmd -> Ips]
  /\ Async \subseteq Ips /\ Watched \subseteq Fence
  /\ Aborts \subseteq Cmd
  /\ {FwErrors, WakelockFails} \subseteq BOOLEAN

VARIABLES
  fence,      \* struct iif_fence with its iif_direct_fence
  table,      \* the fence table: remaining signals and the error flag
  wakelocks,  \* block wakelocks each IP driver has handed out
  pc,         \* the thread that submits and the one that completes a command
  locked,     \* the fence locks that thread holds
  held,       \* wakelock_held of a submission
  todo,       \* fences the completion has not handled yet
  sig,        \* table_remaining_signals of a signal under way
  failed,     \* was the command completed with an error
  fw          \* the command in the firmware

submitVars == <<held>>
completeVars == <<todo, sig, failed>>
vars == <<fence, table, wakelocks, pc, locked, submitVars, completeVars, fw>>

FenceInit == [submitted |-> 0, signalers |-> 0, waiting |-> [ip \in Ips |-> 0],
              wakelock |-> [ip \in Ips |-> 0], waiters |-> {},
              timeline |-> 0, derror |-> FALSE, signaled |-> FALSE,
              error |-> FALSE, propagate |-> FALSE, file |-> TRUE,
              retired |-> FALSE, destroyed |-> FALSE, poll |-> "none",
              pollOff |-> FALSE, pended |-> FALSE,
              signaledWork |-> FALSE, waitedWork |-> FALSE]

Init ==
  /\ fence = [f \in Fence |-> FenceInit]
  /\ table = [f \in Fence |-> [rem |-> Total[f], err |-> FALSE]]
  /\ wakelocks = [ip \in Ips |-> 0]
  /\ pc = [c \in Cmd |-> "idle"]
  /\ locked = [c \in Cmd |-> {}]
  /\ held = [c \in Cmd |-> [f \in Fence |-> {}]]
  /\ todo = [c \in Cmd |-> {}]
  /\ sig = [c \in Cmd |-> 0]
  /\ failed = [c \in Cmd |-> FALSE]
  /\ fw = [c \in Cmd |-> "queued"]

-----------------------------------------------------------------------------
(***************************************************************************)
(* One fence object r.                                                     *)
(***************************************************************************)
Uses(c) == In[c] \cup Out[c]

LockFree(f) == \A c \in Cmd : f \notin locked[c]

\* iif_fence_outstanding_signalers_locked.
Outstanding(r) == r.submitted - r.signalers

AllSignaled(f) == fence[f].signalers = Total[f]

\* A signal is refused with -EBUSY or -EPERM otherwise; UsersCounted says that
\* this never happens.
Signalable(f) == ~AllSignaled(f) /\ Outstanding(fence[f]) # 0

\* A fence is referenced by its file and by the commands that use it.
Referenced(f) ==
  \/ fence[f].file
  \/ \E c \in Cmd : f \in Uses(c) /\ pc[c] \notin {"idle", "refused", "done"}

\* Mutation: a fence retires although signalers are outstanding.
RetiresWithSignalers(r) ==
  [r EXCEPT !.retired = @ \/ /\ \A ip \in Ips : r.waiting[ip] = 0
                             /\ ~r.file]

\* iif_fence_retire_if_possible_locked.  IIF_FLAGS_RETIRE_ON_RELEASE is set only
\* for the fences that bridge to a DMA fence (iif-dma-fence.c:376).
RetireIfPossible(r) ==
  [r EXCEPT !.retired = @ \/ /\ \A ip \in Ips : r.waiting[ip] = 0
                             /\ Outstanding(r) = 0
                             /\ ~r.file]

\* Mutation: a callback that could not be called is forgotten.
NotifyForgets(r) ==
  IF r.pollOff THEN r
  ELSE [r EXCEPT !.poll = IF r.signaled /\ @ = "armed" THEN "woken" ELSE @,
                 !.pended = FALSE]

\* iif_fence_notify_poll_cb_locked.
NotifyPollCb(r) ==
  IF r.pollOff THEN [r EXCEPT !.pended = TRUE]
  ELSE [r EXCEPT !.poll = IF r.signaled /\ @ = "armed" THEN "woken" ELSE @,
                 !.pended = FALSE]

\* Mutation: signaled_work is not scheduled.
PollCbWithoutWork(r) ==
  IF r.signaled THEN r
  ELSE NotifyPollCb([r EXCEPT !.signaled = TRUE, !.error = @ \/ r.derror])

\* iif_fence_poll_cb_func_locked: the direct fence calls it once.
PollCbFunc(r) ==
  IF r.signaled THEN r
  ELSE NotifyPollCb([r EXCEPT !.signaled = TRUE, !.error = @ \/ r.derror,
                              !.signaledWork = TRUE])

\* iif_fence_submit_signaler_locked.
WithSignaler(f, ips) ==
  LET r == fence[f] IN
    [r EXCEPT !.submitted = @ + 1,
              !.wakelock = [ip \in Ips |-> @[ip] + IF ip \in ips THEN 1 ELSE 0]]

\* iif_fence_submit_waiter_locked.
WithWaiter(r, ip) ==
  [r EXCEPT !.waiting[ip] = @ + 1, !.waiters = @ \cup {ip}, !.wakelock[ip] = @ + 1]

\* Wakelocks that are only kept for outstanding signalers.
Excess(r, ip) ==
  IF r.wakelock[ip] > r.waiting[ip] THEN r.wakelock[ip] - r.waiting[ip] ELSE 0

\* Mutation: the work does not look for a signaler that came in meanwhile, nor
\* for the waiters that are left.
WaitedReleasesAll(f) ==
  /\ fence' = [fence EXCEPT ![f].waitedWork = FALSE,
                            ![f].wakelock = [ip \in Ips |-> 0]]
  /\ wakelocks' = [ip \in Ips |-> wakelocks[ip] - fence[f].wakelock[ip]]

\* iif_fence_waited_work_func.
WaitedWorkFunc(f) ==
  LET n == [ip \in Ips |-> IF Outstanding(fence[f]) = 0 THEN Excess(fence[f], ip) ELSE 0]
  IN /\ fence' = [fence EXCEPT ![f].waitedWork = FALSE,
                               ![f].wakelock = [ip \in Ips |-> @[ip] - n[ip]]]
     /\ wakelocks' = [ip \in Ips |-> wakelocks[ip] - n[ip]]

-----------------------------------------------------------------------------
(***************************************************************************)
(* iif_fence_submit_signaler_and_waiter.                                   *)
(***************************************************************************)
InLocks(c, ip) == IF ip = IpOf[c] THEN Cardinality(In[c]) ELSE 0
OutLocks(h, ip) == Cardinality({f \in Fence : ip \in h[f]})

\* The arrays are sorted and compared, then the block of the waiter is powered
\* for every in-fence, and the blocks of the waiters of every out-fence, which
\* are read without the lock.
SubmitBegins(c) ==
  LET h == [f \in Fence |-> IF f \in Out[c] THEN fence[f].waiters ELSE {}]
  IN /\ pc[c] = "idle"
     /\ \A f \in Uses(c) : fence[f].file
     /\ In[c] \cap Out[c] = {}
     /\ pc' = [pc EXCEPT ![c] = "lock"]
     /\ held' = [held EXCEPT ![c] = h]
     /\ wakelocks' = [ip \in Ips |-> wakelocks[ip] + InLocks(c, ip) + OutLocks(h, ip)]
     /\ UNCHANGED <<fence, table, locked, completeVars, fw>>

\* Mutation: the fence whose wakelock could not be acquired is released too.
ReleaseOneMore(w, ip, i) == [w EXCEPT ![ip] = @ - i - 1]

\* iif_fences_release_block_wakelock for the first i fences.
ReleaseFirst(w, ip, i) == [w EXCEPT ![ip] = @ - i]

\* wakelock_held when the acquisition stops at out-fence f, powered for the IPs
\* of s only, and the part of it that is rolled back.
HeldUpTo(c, f, s) ==
  [g \in Fence |-> IF g = f THEN s
                   ELSE IF g \in Out[c] /\ g < f THEN fence[g].waiters ELSE {}]
RolledBack(h, f) == [g \in Fence |-> IF g <= f THEN h[g] ELSE {}]

\* acquire_block_wakelock fails for an in-fence after i of them, or for a waiter
\* of an out-fence; all that was acquired is released again.
AcquireFails(c) ==
  \/ \E i \in 0 .. Cardinality(In[c]) - 1 :
       wakelocks' = ReleaseFirst([wakelocks EXCEPT ![IpOf[c]] = @ + i], IpOf[c], i)
  \/ \E f \in Out[c] : \E s \in (SUBSET fence[f].waiters) \ {fence[f].waiters} :
       LET h == HeldUpTo(c, f, s)
       IN wakelocks' = ReleaseFirst([ip \in Ips |-> wakelocks[ip] + InLocks(c, ip)
                                       + OutLocks(h, ip) - OutLocks(RolledBack(h, f), ip)],
                                    IpOf[c], Cardinality(In[c]))

\* The wakelocks are only counted: an acquisition that fails and its roll-back
\* are one step.
SubmitFails(c) ==
  /\ pc[c] = "idle"
  /\ \A f \in Uses(c) : fence[f].file
  /\ IF In[c] \cap Out[c] # {} THEN UNCHANGED wakelocks
                              ELSE WakelockFails /\ AcquireFails(c)
  /\ pc' = [pc EXCEPT ![c] = "refused"]
  /\ UNCHANGED <<fence, table, locked, submitVars, completeVars, fw>>

\* iif_fences_write_lock of the in-fences, then of the out-fences, each sorted
\* by id.
NextLock(c) == IF In[c] \subseteq locked[c] THEN Min(Out[c] \ locked[c])
                                            ELSE Min(In[c] \ locked[c])

WriteLock(c) ==
  /\ pc[c] = "lock"
  /\ locked[c] # Uses(c)
  /\ LockFree(NextLock(c))
  /\ locked' = [locked EXCEPT ![c] = @ \cup {NextLock(c)}]
  /\ UNCHANGED <<fence, table, wakelocks, pc, submitVars, completeVars, fw>>

Submittable(c) ==
  /\ \A f \in Uses(c) : ~fence[f].retired
  /\ \A f \in Out[c] : fence[f].submitted < Total[f]

\* Mutation: the error path forgets the wakelocks of the waiters.
RefuseLeaks(c) ==
  /\ pc[c] = "lock"
  /\ locked[c] = Uses(c)
  /\ ~Submittable(c)
  /\ pc' = [pc EXCEPT ![c] = "refused"]
  /\ locked' = [locked EXCEPT ![c] = {}]
  /\ held' = [held EXCEPT ![c] = [f \in Fence |-> {}]]
  /\ wakelocks' = [ip \in Ips |-> wakelocks[ip] - InLocks(c, ip)]
  /\ UNCHANGED <<fence, table, completeVars, fw>>

\* A check fails: everything is given back.
SubmitRefused(c) ==
  /\ pc[c] = "lock"
  /\ locked[c] = Uses(c)
  /\ ~Submittable(c)
  /\ pc' = [pc EXCEPT ![c] = "refused"]
  /\ locked' = [locked EXCEPT ![c] = {}]
  /\ held' = [held EXCEPT ![c] = [f \in Fence |-> {}]]
  /\ wakelocks' = [ip \in Ips |->
                     wakelocks[ip] - InLocks(c, ip) - OutLocks(held[c], ip)]
  /\ UNCHANGED <<fence, table, completeVars, fw>>

\* The waiters and signalers are counted and the command is sent.
Submit(c) ==
  /\ pc[c] = "lock"
  /\ locked[c] = Uses(c)
  /\ Submittable(c)
  /\ fence' = [f \in Fence |-> IF f \in In[c] THEN WithWaiter(fence[f], IpOf[c])
                               ELSE IF f \in Out[c] THEN WithSignaler(f, held[c][f])
                               ELSE fence[f]]
  /\ pc' = [pc EXCEPT ![c] = "sent"]
  /\ locked' = [locked EXCEPT ![c] = {}]
  /\ held' = [held EXCEPT ![c] = [f \in Fence |-> {}]]
  /\ UNCHANGED <<table, wakelocks, completeVars, fw>>

-----------------------------------------------------------------------------
(***************************************************************************)
(* The firmware of the IPs (external): a command runs once its in-fences   *)
(* are unblocked in the table, and sleeps until then.  It signals its      *)
(* out-fences in the table and wakes the commands that wait for them.  A   *)
(* firmware that has crashed takes no step any more.                       *)
(***************************************************************************)
InFirmware(c) == pc[c] \notin {"idle", "lock", "refused"}

Blocked(c, t) == \E f \in In[c] : t[f].rem > 0

\* "missed": asleep, and the notification that was to wake it got lost.
Sleeps(c) == fw[c] \in {"asleep", "missed"}

\* What a command does when it is told of f.
WokenBy(f, t) ==
  [c \in Cmd |-> IF Sleeps(c) /\ f \in In[c] /\ ~Blocked(c, t) THEN "queued"
                                                              ELSE fw[c]]

FwSleeps(c) ==
  /\ InFirmware(c)
  /\ fw[c] = "queued"
  /\ Blocked(c, table)
  /\ fw' = [fw EXCEPT ![c] = "asleep"]
  /\ UNCHANGED <<fence, table, wakelocks, pc, locked, submitVars, completeVars>>

FwRuns(c) ==
  /\ InFirmware(c)
  /\ fw[c] = "queued"
  /\ ~Blocked(c, table)
  /\ \E fails \in BOOLEAN :
       /\ fails => FwErrors
       /\ table' = [f \in Fence |->
                      IF f \in Out[c]
                        THEN [rem |-> IF table[f].rem > 0 THEN table[f].rem - 1 ELSE 0,
                              err |-> table[f].err \/ fails]
                        ELSE table[f]]
       /\ fw' = [d \in Cmd |-> IF d = c THEN IF fails THEN "failed" ELSE "done"
                               ELSE IF /\ Sleeps(d)
                                       /\ In[d] \cap Out[c] # {}
                                       /\ ~Blocked(d, table') THEN "queued"
                               ELSE fw[d]]
  /\ UNCHANGED <<fence, wakelocks, pc, locked, submitVars, completeVars>>

-----------------------------------------------------------------------------
(***************************************************************************)
(* signal_response_waiters of edgetpu-ikv-mailbox-ops.c for a command that *)
(* is answered, timed out or flushed.                                      *)
(***************************************************************************)
\* The out-fences are signaled one by one, then the in-fences are left one by
\* one, then gcip_fence_array_put_async drops the references.
AfterSignals(c, rest) ==
  IF rest # {} THEN [pc |-> "signal", todo |-> rest]
  ELSE IF In[c] # {} THEN [pc |-> "waited", todo |-> In[c]]
  ELSE [pc |-> "done", todo |-> {}]

AfterWaits(rest) ==
  [pc |-> IF rest # {} THEN "waited" ELSE "done", todo |-> rest]

Goes(c, to) ==
  /\ pc' = [pc EXCEPT ![c] = to.pc]
  /\ todo' = [todo EXCEPT ![c] = to.todo]

\* edgetpu_ikv_handle_awaiter_arrived, _timedout and _flushed: any error makes
\* the driver propagate the unblock.
Completes(c, error) ==
  /\ pc[c] = "sent"
  /\ Goes(c, AfterSignals(c, Out[c]))
  /\ failed' = [failed EXCEPT ![c] = error]
  /\ fence' = [f \in Fence |-> IF error /\ f \in Out[c]
                                 THEN [fence[f] EXCEPT !.propagate = TRUE] ELSE fence[f]]
  /\ UNCHANGED <<table, wakelocks, locked, submitVars, sig, fw>>

Arrived(c) == fw[c] \in {"done", "failed"} /\ Completes(c, fw[c] = "failed")
Aborted(c) == c \in Aborts /\ Completes(c, TRUE)

\* Mutation: the driver counts down below zero.
SignalBelowZero(c) ==
  LET f == Min(todo[c])
      rem == table[f].rem
  IN /\ pc[c] = "signal"
     /\ LockFree(f)
     /\ Signalable(f)
     /\ sig' = [sig EXCEPT ![c] = IF fence[f].propagate THEN rem - 1 ELSE rem]
     /\ table' = [table EXCEPT ![f].err = @ \/ fence[f].propagate]
     /\ fence' = [fence EXCEPT ![f].derror = @ \/ fence[f].propagate]
     /\ pc' = [pc EXCEPT ![c] = "table"]
     /\ locked' = [locked EXCEPT ![c] = {f}]
     /\ UNCHANGED <<wakelocks, submitVars, todo, failed, fw>>

\* iif_fence_signal_with_status_locked and the first half of
\* iif_direct_fence_signal_single_shot: the table is read, an error that a
\* fence unblocked by the firmware does not have is dropped, and the error is
\* written.
SignalBegins(c) ==
  LET f == Min(todo[c])
      rem == table[f].rem
      error == IF rem = 0 THEN table[f].err ELSE failed[c]
      writes == error /\ fence[f].propagate
  IN /\ pc[c] = "signal"
     /\ LockFree(f)
     /\ Signalable(f)
     /\ sig' = [sig EXCEPT ![c] = IF fence[f].propagate /\ rem > 0 THEN rem - 1 ELSE rem]
     /\ table' = [table EXCEPT ![f].err = @ \/ writes]
     /\ fence' = [fence EXCEPT ![f].derror = @ \/ writes]
     /\ pc' = [pc EXCEPT ![c] = "table"]
     /\ locked' = [locked EXCEPT ![c] = {f}]
     /\ UNCHANGED <<wakelocks, submitVars, todo, failed, fw>>

\* Mutation: the driver never counts down on behalf of the firmware.
SignalOnlySyncs(c) ==
  LET f == Min(todo[c])
      r == [fence[f] EXCEPT !.timeline = Total[f] - table[f].rem,
                            !.derror = @ \/ table[f].err]
  IN /\ pc[c] = "table"
     /\ fence' = [fence EXCEPT ![f] = IF r.timeline >= Total[f] THEN PollCbFunc(r) ELSE r]
     /\ pc' = [pc EXCEPT ![c] = "count"]
     /\ locked' = [locked EXCEPT ![c] = {}]
     /\ UNCHANGED <<table, wakelocks, submitVars, completeVars, fw>>

\* The second half: the remaining signals are written when the driver is to
\* propagate, and iif_direct_fence_sync_status takes the table over.
SignalWrites(c) ==
  LET f == Min(todo[c])
      rem == IF fence[f].propagate THEN sig[c] ELSE table[f].rem
      r == [fence[f] EXCEPT !.timeline = IF Total[f] - rem > @ THEN Total[f] - rem ELSE @,
                            !.derror = @ \/ table[f].err]
  IN /\ pc[c] = "table"
     /\ table' = [table EXCEPT ![f].rem = rem]
     /\ fence' = [fence EXCEPT ![f] = IF r.timeline >= Total[f] THEN PollCbFunc(r) ELSE r]
     /\ pc' = [pc EXCEPT ![c] = "count"]
     /\ locked' = [locked EXCEPT ![c] = {}]
     /\ UNCHANGED <<wakelocks, submitVars, completeVars, fw>>

\* Mutation: the last signaler does not see to the wakelocks of waiters that
\* left before it.
SignalLeavesPended(c) ==
  LET f == Min(todo[c])
  IN /\ pc[c] = "count"
     /\ LockFree(f)
     /\ fence' = [fence EXCEPT ![f] = RetireIfPossible([@ EXCEPT !.signalers = @ + 1])]
     /\ Goes(c, AfterSignals(c, todo[c] \ {f}))
     /\ UNCHANGED <<table, wakelocks, locked, submitVars, sig, failed, fw>>

\* Mutation: an error ends the other signalers too.
SignalErrorEndsAll(c) ==
  LET f == Min(todo[c])
      r == [fence[f] EXCEPT !.signalers = IF failed[c] THEN Total[f] ELSE @ + 1]
  IN /\ pc[c] = "count"
     /\ LockFree(f)
     /\ fence' = [fence EXCEPT ![f] = [r EXCEPT !.waitedWork = @ \/ Outstanding(r) = 0]]
     /\ Goes(c, AfterSignals(c, todo[c] \ {f}))
     /\ UNCHANGED <<table, wakelocks, locked, submitVars, sig, failed, fw>>

\* iif_fence_do_waited_work_if_no_outstanding_signalers: the last signaler
\* schedules the waited work or, in the synchronous variant, runs it.
SignalCounts(c) ==
  LET f == Min(todo[c])
      r == RetireIfPossible([fence[f] EXCEPT !.signalers = @ + 1])
      last == Outstanding(r) = 0
  IN /\ pc[c] = "count"
     /\ LockFree(f)
     /\ \E async \in BOOLEAN :
          /\ IpOf[c] \in Async => async
          /\ fence' = [fence EXCEPT ![f] = [r EXCEPT !.waitedWork = @ \/ (last /\ async)]]
          /\ Goes(c, IF last /\ ~async THEN [pc |-> "inline", todo |-> todo[c]]
                                        ELSE AfterSignals(c, todo[c] \ {f}))
     /\ UNCHANGED <<table, wakelocks, locked, submitVars, sig, failed, fw>>

\* The synchronous variant runs iif_fence_waited_work_func itself.
SignalWaited(c) ==
  LET f == Min(todo[c])
  IN /\ pc[c] = "inline"
     /\ LockFree(f)
     /\ WaitedWorkFunc(f)
     /\ Goes(c, AfterSignals(c, todo[c] \ {f}))
     /\ UNCHANGED <<table, locked, submitVars, sig, failed, fw>>

\* iif_fence_waiter_completed_async.
WaiterCompletedAsync(c) ==
  LET f == Min(todo[c])
      r == RetireIfPossible([fence[f] EXCEPT !.waiting[IpOf[c]] = @ - 1])
  IN /\ pc[c] = "waited"
     /\ LockFree(f)
     /\ fence' = [fence EXCEPT ![f] = [r EXCEPT !.waitedWork = TRUE]]
     /\ Goes(c, AfterWaits(todo[c] \ {f}))
     /\ UNCHANGED <<table, wakelocks, locked, submitVars, sig, failed, fw>>

\* iif_fence_waiter_completed: the wakelock stays while signalers are
\* outstanding.
WaiterCompleted(c) ==
  LET f == Min(todo[c])
      ip == IpOf[c]
      r == RetireIfPossible([fence[f] EXCEPT !.waiting[ip] = @ - 1])
      n == IF Outstanding(r) = 0 /\ r.wakelock[ip] > 0 THEN 1 ELSE 0
  IN /\ pc[c] = "waited"
     /\ ip \notin Async
     /\ LockFree(f)
     /\ fence' = [fence EXCEPT ![f] = [r EXCEPT !.wakelock[ip] = @ - n]]
     /\ wakelocks' = [wakelocks EXCEPT ![ip] = @ - n]
     /\ Goes(c, AfterWaits(todo[c] \ {f}))
     /\ UNCHANGED <<table, locked, submitVars, sig, failed, fw>>

-----------------------------------------------------------------------------
(***************************************************************************)
(* The works of a fence, its file and its end.                             *)
(***************************************************************************)
WaitedWork(f) ==
  /\ fence[f].waitedWork
  /\ LockFree(f)
  /\ WaitedWorkFunc(f)
  /\ UNCHANGED <<table, pc, locked, submitVars, completeVars, fw>>

\* iif_manager_broadcast_fence_unblocked, edgetpu_iif_unblocked and the work
\* behind it: the firmware is told only when the driver propagates, and a driver
\* that has no memory for the notification or cannot send it drops it.
Broadcast(f, propagate) ==
  \E deaf \in SUBSET fence[f].waiters :
    fw' = [c \in Cmd |->
             IF ~propagate \/ IpOf[c] \notin fence[f].waiters THEN fw[c]
             ELSE IF IpOf[c] \in deaf /\ WokenBy(f, table)[c] # fw[c] THEN "missed"
             ELSE WokenBy(f, table)[c]]

SignaledWork(f) ==
  /\ fence[f].signaledWork
  /\ fence' = [fence EXCEPT ![f].signaledWork = FALSE]
  /\ Broadcast(f, fence[f].propagate)
  /\ UNCHANGED <<table, wakelocks, pc, locked, submitVars, completeVars>>

\* iif_sync_file_release.
CloseFile(f) ==
  /\ fence[f].file
  /\ LockFree(f)
  /\ fence' = [fence EXCEPT ![f] = RetireIfPossible([@ EXCEPT !.file = FALSE,
                                                              !.poll = "none"])]
  /\ UNCHANGED <<table, wakelocks, pc, locked, submitVars, completeVars, fw>>

\* iif_sync_file_poll with iif_fence_add_poll_callback.
Poll(f) ==
  /\ f \in Watched
  /\ fence[f].file
  /\ ~fence[f].pollOff
  /\ fence[f].poll = "none"
  /\ LockFree(f)
  /\ fence' = [fence EXCEPT ![f].poll =
                 IF fence[f].signaled \/ AllSignaled(f) THEN "woken" ELSE "armed"]
  /\ UNCHANGED <<table, wakelocks, pc, locked, submitVars, completeVars, fw>>

\* iif_fence_set_flags with IIF_FLAGS_DISABLE_POLL.
SetDisablePoll(f, off) ==
  /\ f \in Watched
  /\ fence[f].file
  /\ fence[f].pollOff # off
  /\ LockFree(f)
  /\ fence' = [fence EXCEPT ![f] =
                 LET r == [@ EXCEPT !.pollOff = off]
                 IN IF ~off /\ r.pended THEN NotifyPollCb(r) ELSE r]
  /\ UNCHANGED <<table, wakelocks, pc, locked, submitVars, completeVars, fw>>

\* iif_fence_do_destroy, once both works are flushed: what was not signaled
\* fails, the fence retires and its wakelocks are released.
Destroy(f) ==
  LET r == fence[f]
      early == ~AllSignaled(f)
  IN /\ ~Referenced(f)
     /\ ~r.destroyed
     /\ ~r.signaledWork /\ ~r.waitedWork
     /\ fence' = [fence EXCEPT ![f] =
          NotifyPollCb([r EXCEPT !.signalers = Total[f],
                                 !.signaled = @ \/ early,
                                 !.error = @ \/ early,
                                 !.propagate = @ \/ early,
                                 !.retired = TRUE,
                                 !.wakelock = [ip \in Ips |-> 0],
                                 !.destroyed = TRUE])]
     /\ wakelocks' = [ip \in Ips |-> wakelocks[ip] - r.wakelock[ip]]
     /\ Broadcast(f, early /\ ~r.signaled)
     /\ UNCHANGED <<table, pc, locked, submitVars, completeVars>>

-----------------------------------------------------------------------------
SubmitStep(c) == WriteLock(c) \/ SubmitRefused(c) \/ Submit(c)

CompleteStep(c) ==
  \/ SignalBegins(c) \/ SignalWrites(c) \/ SignalCounts(c)
  \/ SignalWaited(c) \/ WaiterCompletedAsync(c) \/ WaiterCompleted(c)

FenceStep(f) == WaitedWork(f) \/ SignaledWork(f) \/ Destroy(f)

Next ==
  \/ \E c \in Cmd :
       \/ SubmitBegins(c) \/ SubmitFails(c) \/ SubmitStep(c)
       \/ FwSleeps(c) \/ FwRuns(c)
       \/ Arrived(c) \/ Aborted(c) \/ CompleteStep(c)
  \/ \E f \in Fence :
       \/ FenceStep(f) \/ CloseFile(f) \/ Poll(f)
       \/ \E off \in BOOLEAN : SetDisablePoll(f, off)

Spec == Init /\ [][Next]_vars

(***************************************************************************)
(* The threads and works of the kernel run.  Nothing is assumed of the     *)
(* firmware, of timeouts and of those who submit commands and close files. *)
(***************************************************************************)
Fairness ==
  /\ \A c \in Cmd : WF_vars(SubmitStep(c) \/ CompleteStep(c))
  /\ \A f \in Fence : WF_vars(FenceStep(f))

FairSpec == Spec /\ Fairness

-----------------------------------------------------------------------------
(***************************************************************************)
(* Properties.                                                             *)
(***************************************************************************)
Pcs == {"idle", "lock", "refused", "sent", "signal", "table", "count",
        "inline", "waited", "done"}

FwStates == {"queued", "asleep", "missed", "done", "failed"}

FenceType(f) ==
  [submitted : 0 .. Total[f], signalers : 0 .. Total[f], waiting : [Ips -> Nat],
   wakelock : [Ips -> Nat], waiters : SUBSET Ips, timeline : 0 .. Total[f],
   derror : BOOLEAN, signaled : BOOLEAN, error : BOOLEAN, propagate : BOOLEAN,
   file : BOOLEAN, retired : BOOLEAN, destroyed : BOOLEAN,
   poll : {"none", "armed", "woken"}, pollOff : BOOLEAN, pended : BOOLEAN,
   signaledWork : BOOLEAN, waitedWork : BOOLEAN]

\* Every variable has its type; the counts of signalers and waiters stay within
\* their bounds.
TypeOK ==
  /\ \A f \in Fence : /\ fence[f] \in FenceType(f)
                       /\ table[f] \in [rem : 0 .. Total[f], err : BOOLEAN]
                       /\ \A c \in Cmd : held[c][f] \subseteq Ips
  /\ wakelocks \in [Ips -> Nat]
  /\ pc \in [Cmd -> Pcs]
  /\ locked \in [Cmd -> SUBSET Fence] /\ todo \in [Cmd -> SUBSET Fence]
  /\ sig \in [Cmd -> Nat] /\ failed \in [Cmd -> BOOLEAN]
  /\ fw \in [Cmd -> FwStates]

\* The wakelocks of an IP one by one: those that its fences account for, and
\* those of the submissions under way, for in-fences and for out-fences.
Tokens(w) == UNION {{f} \X (1 .. w[f]) : f \in Fence}
FenceLocks(ip) == Tokens([f \in Fence |-> fence[f].wakelock[ip]])
WaiterLocks(ip) ==
  {x \in Cmd \X Fence : pc[x[1]] = "lock" /\ IpOf[x[1]] = ip /\ x[2] \in In[x[1]]}
SignalerLocks(ip) ==
  {x \in Cmd \X Fence : pc[x[1]] = "lock" /\ ip \in held[x[1]][x[2]]}

\* The block wakelocks an IP has handed out are the ones its fences and the
\* submissions under way account for: none is released twice and none leaks on
\* an error path, in the waited work or when a fence is destroyed early.
WakelocksBalanced ==
  \A ip \in Ips : wakelocks[ip] = Cardinality(FenceLocks(ip))
                    + Cardinality(WaiterLocks(ip)) + Cardinality(SignalerLocks(ip))

\* While a command waits for a fence the block of its IP is powered: the
\* waited work never releases the wakelock of a waiter that came in meanwhile.
WaiterPowered ==
  \A f \in Fence, ip \in Ips : fence[f].waiting[ip] <= fence[f].wakelock[ip]

\* The fences a command still has to signal or to leave.
Unfinished(c) ==
  CASE pc[c] = "sent" -> Uses(c)
    [] pc[c] \in {"signal", "table", "count"} -> todo[c] \cup In[c]
    [] pc[c] = "waited" -> todo[c]
    [] OTHER -> {}

\* Every command is counted by its fences for as long as it needs them: its
\* signal is never refused, which its caller would not notice, and the id of
\* a fence does not go back to the pool before the command is finished with it.
UsersCounted ==
  \A c \in Cmd : /\ pc[c] = "signal" => Signalable(Min(todo[c]))
                 /\ \A f \in Unfinished(c) : ~fence[f].retired

\* iif-direct.c: a waiter that finds the fence unblocked without an error in
\* the table never misunderstands: all its signalers ran without an error,
\* whatever crash, timeout or error raced with the signals.
UnblockedMeansDone ==
  \A f \in Fence : table[f].rem = 0 /\ ~table[f].err =>
    Cardinality({c \in Cmd : f \in Out[c] /\ fw[c] = "done"}) >= Total[f]

\* A fence all of whose signalers the driver has counted is unblocked, for the
\* kernel and in the table, although firmware and driver both count down, and
\* its poller is woken, also when polls were disabled at the time of the signal
\* and are enabled later.
SignaledIsSeen ==
  \A f \in Fence :
    /\ AllSignaled(f) /\ ~fence[f].destroyed => fence[f].signaled /\ table[f].rem = 0
    /\ fence[f].signaled /\ ~fence[f].pollOff => fence[f].poll # "armed"

\* A command that sleeps in a firmware for fences that are unblocked is woken,
\* by the signaling firmware or, after a crash, by the driver, unless the driver
\* drops the notification, which leaves it to the timeout of the command.
SleeperWoken ==
  \A c \in {d \in Cmd : In[d] # {}} :
    fw[c] = "asleep" /\ ~Blocked(c, table) ~> fw[c] # "asleep" \/ pc[c] # "sent"

\* Once no command is under way all block wakelocks come back, although a fence
\* lives on in its file: also the ones of waiters that left before the
\* signalers, which are pended until the last signaler.
Quiet == \A c \in Cmd : pc[c] \in {"idle", "refused", "done"}
WakelocksReturned == Quiet ~> ~Quiet \/ \A ip \in Ips : wakelocks[ip] = 0
=============================================================================
