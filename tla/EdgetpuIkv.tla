----------------------------- MODULE EdgetpuIkv -----------------------------
(***************************************************************************)
(* edgetpu-ikv.c, edgetpu-ikv-mailbox-ops.c and the VII half of            *)
(* edgetpu-device-group.c: the in-kernel VII commands of one device group, *)
(* on top of the mailbox that GcipAwaiter promises.                        *)
(*                                                                         *)
(* A command spends one of the group's credits and is sent by the ioctl    *)
(* that issued it, or, when it has an in-fence that is not signaled, by a  *)
(* kernel thread of its own.  Its edgetpu_ikv_response moves from the      *)
(* pending to the ready list when a response, a timeout, a cancellation    *)
(* or an error of the thread answers it.  A fatal error cancels what is    *)
(* pending, and the disband of the group releases everything.  Every       *)
(* section under ikv_resp_lock is one action.                              *)
(***************************************************************************)
EXTENDS GcipAwaiter, Sequences, FiniteSets

CONSTANTS
  Fenced,   \* commands with an in-fence that is not signaled yet
  Credits,  \* EDGETPU_NUM_VII_CREDITS_PER_CLIENT
  Crashes,  \* may the firmware stop responding
  None      \* no command

ASSUME IkvAssumption ==
  /\ Fenced \subseteq Async
  /\ Credits \in Nat \ {0}
  /\ Crashes \in BOOLEAN
  /\ None \notin Async

VARIABLES
  ipc,        \* the ioctl or the fence thread that sends each command
  vii_lock,   \* the command whose ioctl holds group->vii_lock
  status,     \* group->status
  writer,     \* who holds group->lock for writing
  credits,    \* group->available_vii_credits
  pending,    \* group->pending_ikv_resps
  taken,      \* the private list of edgetpu_ikv_cancel and of clear_responses
  ready,      \* group->ready_ikv_resps
  processed,  \* commands whose ikv_resp->processed is set
  code,       \* the code in ikv_resp->resp
  hpc,        \* the arrived or timedout callback of each command
  signaled,   \* ledger: how often the out-fences of each command were signaled
  gone,       \* commands whose ikv_resp is freed
  cur,        \* the command the writer has in hand
  tasks,      \* group->pending_cmd_tasks
  clearing,   \* group->is_clearing_pending_commands
  stopped     \* fence threads that kthread_stop was called for

senderVars == <<ipc, vii_lock>>
groupVars == <<status, writer, cur>>
listVars == <<pending, taken, ready, processed, code>>
signalVars == <<credits, signaled>>
taskVars == <<tasks, clearing, stopped>>
vars == <<awaiterVars, senderVars, groupVars, listVars, signalVars, hpc, gone,
          taskVars>>

Init ==
  /\ AwaiterInit
  /\ ipc = [c \in Async |-> "new"]
  /\ vii_lock = None
  /\ status = "ready"
  /\ writer = "none"
  /\ cur = None
  /\ pending = {}
  /\ taken = {}
  /\ ready = <<>>
  /\ processed = {}
  /\ code = [c \in Async |-> "none"]
  /\ credits = Credits
  /\ signaled = [c \in Async |-> 0]
  /\ hpc = [c \in Async |-> "idle"]
  /\ gone = {}
  /\ tasks = {}
  /\ clearing = FALSE
  /\ stopped = {}

-----------------------------------------------------------------------------
Sender(c, from, to) == ipc[c] = from /\ ipc' = [ipc EXCEPT ![c] = to]

\* edgetpu_ikv_release_awaiter_data: the last put also frees the response.
ReleaseAwaiterData ==
  gone' = gone \cup {c \in Async : refs[c] # {} /\ refs'[c] = {}}

\* list_del of a response from a list that may hold it.
ListDel(s, c) ==
  IF \E i \in DOMAIN s : s[i] = c
    THEN LET i == CHOOSE j \in DOMAIN s : s[j] = c
         IN  SubSeq(s, 1, i - 1) \o SubSeq(s, i + 1, Len(s))
    ELSE s

\* edgetpu_ikv_process_response under queue_lock, when it does not return early:
\* list_del from whatever list the response is in, then list_add_tail.
MoveToReady(c, resp_code) ==
  /\ processed' = processed \cup {c}
  /\ code' = [code EXCEPT ![c] = resp_code]
  /\ pending' = pending \ {c}
  /\ taken' = taken \ {c}
  /\ ready' = Append(ListDel(ready, c), c)

\* signal_response_waiters.
SignalResponseWaiters(c) ==
  /\ credits' = credits + 1
  /\ signaled' = [signaled EXCEPT ![c] = @ + 1]

\* down_read(&group->lock) and mutex_lock(&group->vii_lock) succeed.
GroupLocked == writer = "none" /\ vii_lock = None

-----------------------------------------------------------------------------
(***************************************************************************)
(* edgetpu_device_group_send_vii_command and edgetpu_ikv_send_cmd.         *)
(***************************************************************************)
\* A command without a fence keeps the locks until it is sent; one with a
\* fence is left to a tracked thread; one whose fence has failed already is
\* answered by the ioctl.
SendViiCommand(c) ==
  /\ GroupLocked
  /\ status = "ready"
  /\ credits > 0
  /\ credits' = credits - 1
  /\ \/ c \notin Fenced /\ Sender(c, "new", "send") /\ vii_lock' = c /\ UNCHANGED tasks
     \/ c \in Fenced /\ Sender(c, "new", "error") /\ vii_lock' = c /\ UNCHANGED tasks
     \/ /\ c \in Fenced
        /\ Sender(c, "new", "fence")
        /\ tasks' = tasks \cup {c}
        /\ UNCHANGED vii_lock
  /\ UNCHANGED <<awaiterVars, groupVars, listVars, signaled, hpc, gone, clearing,
                 stopped>>

\* Mutation: dma_fence_wait in place of dma_fence_wait_timeout.
FenceWaitsForever(c) ==
  /\ c \in stopped
  /\ Sender(c, "fence", "exited") /\ gone' = gone \cup {c}
  /\ UNCHANGED <<awaiterVars, vii_lock, groupVars, listVars, signalVars, hpc,
                 taskVars>>

\* send_cmd_thread_fn: the wait on the in-fence ends with the fence signaled,
\* with an error or a timeout, or because the group is released.
FenceWaitEnds(c) ==
  /\ IF c \in stopped
       THEN Sender(c, "fence", "exited") /\ gone' = gone \cup {c}
       ELSE /\ Sender(c, "fence", "send") \/ Sender(c, "fence", "error")
            /\ UNCHANGED gone
  /\ UNCHANGED <<awaiterVars, vii_lock, groupVars, listVars, signalVars, hpc,
                 taskVars>>

\* do_send_cmd, up to the lock of the command queue.
DoSendCmd(c) ==
  /\ Sender(c, "send", "put")
  /\ Send(c)
  /\ UNCHANGED <<vii_lock, groupVars, listVars, signalVars, hpc, gone, taskVars>>

\* It fails: the ioctl frees the response and refunds the credit, the thread
\* goes on to an error response.
DoSendCmdFails(c) ==
  /\ SendFails(c)
  /\ IF vii_lock = c
       THEN /\ Sender(c, "put", "rejected")
            /\ vii_lock' = None
            /\ credits' = credits + 1
            /\ gone' = gone \cup {c}
       ELSE Sender(c, "put", "error") /\ UNCHANGED <<vii_lock, credits, gone>>
  /\ UNCHANGED <<groupVars, listVars, signaled, hpc, taskVars>>

\* edgetpu_ikv_before_enqueue_wait_list.
BeforeEnqueueWaitList(c) ==
  /\ Sender(c, "put", "published")
  /\ pending' = pending \cup {c}
  /\ UNCHANGED <<awaiterVars, vii_lock, groupVars, taken, ready, processed, code,
                 signalVars, hpc, gone, taskVars>>

\* The awaiter gets on the wait list: from now on a timeout or a cancellation
\* finds it, although the command is not in the queue yet.
PushWaitResp(c) ==
  /\ Listed(c)
  /\ Sender(c, "published", "listed")
  /\ UNCHANGED <<vii_lock, groupVars, listVars, signalVars, hpc, gone, taskVars>>

\* The command gets into the queue and the send returns, with nothing of the
\* response used any more.
SendReturns(c) ==
  /\ IF vii_lock = c
       THEN Sender(c, "listed", "accepted") /\ vii_lock' = None
       ELSE Sender(c, "listed", "untrack") /\ UNCHANGED vii_lock
  /\ UNCHANGED <<awaiterVars, groupVars, listVars, signalVars, hpc, gone, taskVars>>

\* build_awaiter_for_error_resp and edgetpu_ikv_process_response.
ErrorResponse(c) ==
  /\ Sender(c, "error", "signal")
  /\ phase' = [phase EXCEPT ![c] = "floating"]
  /\ refs' = [refs EXCEPT ![c] = {"driver"}]
  /\ MoveToReady(c, "error")
  /\ UNCHANGED <<canc, vii_lock, groupVars, signalVars, hpc, gone, taskVars>>

\* Its signal_response_waiters, after queue_lock is released.
ErrorSignals(c) ==
  /\ SignalResponseWaiters(c)
  /\ IF vii_lock = c
       THEN Sender(c, "signal", "accepted") /\ vii_lock' = None
       ELSE Sender(c, "signal", "untrack") /\ UNCHANGED vii_lock
  /\ UNCHANGED <<awaiterVars, groupVars, listVars, hpc, gone, taskVars>>

\* Mutation: the thread exits without waiting for kthread_stop.
UntrackAndExit(c) ==
  /\ Sender(c, "untrack", "exited")
  /\ IF clearing THEN UNCHANGED tasks ELSE tasks' = tasks \ {c}
  /\ UNCHANGED <<awaiterVars, vii_lock, groupVars, listVars, signalVars, hpc, gone,
                 clearing, stopped>>

\* Mutation: the loop does not look at kthread_should_stop.
UntrackLoops(c) ==
  /\ ~clearing
  /\ Sender(c, "untrack", "exited")
  /\ tasks' = tasks \ {c}
  /\ UNCHANGED <<awaiterVars, vii_lock, groupVars, listVars, signalVars, hpc, gone,
                 clearing, stopped>>

\* edgetpu_device_group_untrack_fence_task, and the thread exits.
UntrackFenceTask(c) ==
  /\ Sender(c, "untrack", "exited")
  /\ IF clearing THEN c \in stopped /\ UNCHANGED tasks
                 ELSE tasks' = tasks \ {c}
  /\ UNCHANGED <<awaiterVars, vii_lock, groupVars, listVars, signalVars, hpc, gone,
                 clearing, stopped>>

-----------------------------------------------------------------------------
(***************************************************************************)
(* The callbacks of the mailbox, and the client that reads responses.      *)
(***************************************************************************)
ResponseArrives(c) ==
  /\ Arrives(c)
  /\ UNCHANGED <<senderVars, groupVars, listVars, signalVars, hpc, gone, taskVars>>

ResponseTimesOut(c) ==
  /\ TimesOut(c)
  /\ UNCHANGED <<senderVars, groupVars, listVars, signalVars, hpc, gone, taskVars>>

\* Mutation: processed is not looked at.
ProcessAlways(c) ==
  /\ phase[c] \in {"arrived", "timedout"}
  /\ hpc[c] = "idle"
  /\ MoveToReady(c, phase[c])
  /\ hpc' = [hpc EXCEPT ![c] = "signal"]
  /\ UNCHANGED <<awaiterVars, senderVars, groupVars, signalVars, gone, taskVars>>

\* edgetpu_ikv_handle_awaiter_arrived and _timedout; when the response is
\* processed already they return, and the mailbox completes the awaiter.
ProcessResponse(c) ==
  /\ phase[c] \in {"arrived", "timedout"}
  /\ hpc[c] = "idle"
  /\ IF c \in processed
       THEN Handled(c) /\ UNCHANGED <<listVars, hpc>>
       ELSE /\ MoveToReady(c, phase[c])
            /\ hpc' = [hpc EXCEPT ![c] = "signal"]
            /\ UNCHANGED awaiterVars
  /\ UNCHANGED <<senderVars, groupVars, signalVars, gone, taskVars>>

\* After queue_lock is released; then the callback returns.
HandlerSignals(c) ==
  /\ hpc[c] = "signal"
  /\ hpc' = [hpc EXCEPT ![c] = "idle"]
  /\ SignalResponseWaiters(c)
  /\ Handled(c)
  /\ UNCHANGED <<senderVars, groupVars, listVars, gone, taskVars>>

\* The references of the wait list and of the timeout work, which may expire
\* while its command is still being sent and then finds nothing to answer.
MailboxPuts(c) ==
  /\ \/ HandlerPuts(c)
     \/ TimerPuts(c) /\ phase[c] # "listed"
  /\ ReleaseAwaiterData
  /\ UNCHANGED <<senderVars, groupVars, listVars, signalVars, hpc, taskVars>>

\* edgetpu_device_group_get_vii_response.
GetViiResponse ==
  /\ GroupLocked
  /\ status = "ready"
  /\ ready # <<>>
  /\ ready' = Tail(ready)
  /\ Drops(Head(ready), {"driver"})
  /\ ReleaseAwaiterData
  /\ UNCHANGED <<phase, canc, senderVars, groupVars, pending, taken, processed,
                 code, signalVars, hpc, taskVars>>

-----------------------------------------------------------------------------
(***************************************************************************)
(* edgetpu_group_fatal_error_notify and edgetpu_ikv_cancel.                *)
(***************************************************************************)
\* Mutation: the responses are taken without being marked.
TakePendingUnmarked ==
  /\ taken' = pending
  /\ pending' = {}
  /\ UNCHANGED <<ready, processed, code>>

\* All that is pending is marked as processed and taken off the group's list.
TakePending ==
  /\ processed' = processed \cup pending
  /\ taken' = pending
  /\ pending' = {}
  /\ UNCHANGED <<ready, code>>

\* The firmware that reported the error still answers: nothing is cancelled.
GroupErrored ==
  /\ GroupLocked
  /\ status = "ready"
  /\ status' = "errored"
  /\ UNCHANGED <<awaiterVars, senderVars, writer, cur, listVars, signalVars, hpc,
                 gone, taskVars>>

\* It no longer responds.
FatalErrorNotify ==
  /\ Crashes
  /\ GroupLocked
  /\ status \in {"ready", "errored"}
  /\ status' = "errored"
  /\ writer' = "cancel"
  /\ TakePending
  /\ UNCHANGED <<awaiterVars, senderVars, cur, signalVars, hpc, gone, taskVars>>

\* gcip_mailbox_cancel_awaiter for one of them, by the writer.
CancelAwaiter(c) ==
  /\ writer \in {"cancel", "clear"}
  /\ \/ cur = None /\ c \in taken /\ cur' = c /\ Cancels(c)
     \/ cur = c /\ UNCHANGED cur /\ (CancelRemoves(c) \/ CancelMisses(c) \/ CancelWaits(c))
  /\ ReleaseAwaiterData
  /\ UNCHANGED <<senderVars, status, writer, listVars, signalVars, hpc, taskVars>>

\* Mutation: without force, processed makes it return.
PushCanceledUnforced(c) ==
  /\ writer = "cancel"
  /\ cur = c
  /\ canc[c] = "done"
  /\ cur' = None
  /\ taken' = taken \ {c}
  /\ UNCHANGED <<awaiterVars, senderVars, status, writer, pending, ready, processed,
                 code, signalVars, hpc, gone, taskVars>>

\* edgetpu_ikv_process_response with force.
PushCanceled(c) ==
  /\ writer = "cancel"
  /\ cur = c
  /\ canc[c] = "done"
  /\ MoveToReady(c, "canceled")
  /\ writer' = "signal"
  /\ UNCHANGED <<awaiterVars, senderVars, status, cur, signalVars, hpc, gone,
                 taskVars>>

CancelSignals(c) ==
  /\ writer = "signal"
  /\ cur = c
  /\ writer' = "cancel"
  /\ cur' = None
  /\ SignalResponseWaiters(c)
  /\ UNCHANGED <<awaiterVars, senderVars, status, listVars, hpc, gone, taskVars>>

CancelEnds ==
  /\ writer = "cancel"
  /\ cur = None
  /\ taken = {}
  /\ writer' = "none"
  /\ UNCHANGED <<awaiterVars, senderVars, status, cur, listVars, signalVars, hpc,
                 gone, taskVars>>

-----------------------------------------------------------------------------
(***************************************************************************)
(* edgetpu_device_group_disband and edgetpu_device_group_release.          *)
(***************************************************************************)
Disband ==
  /\ GroupLocked
  /\ status \in {"ready", "errored"}
  /\ writer' = "stop"
  /\ clearing' = TRUE
  /\ UNCHANGED <<awaiterVars, senderVars, status, cur, listVars, signalVars, hpc,
                 gone, tasks, stopped>>

\* edgetpu_group_clear_pending_commands: kthread_stop wakes a thread up and
\* returns when it has exited.
StopTask(c) ==
  /\ writer = "stop"
  /\ \/ /\ cur = None /\ c \in tasks
        /\ cur' = c
        /\ stopped' = stopped \cup {c}
        /\ UNCHANGED tasks
     \/ /\ cur = c /\ ipc[c] = "exited"
        /\ cur' = None
        /\ tasks' = tasks \ {c}
        /\ UNCHANGED stopped
  /\ UNCHANGED <<awaiterVars, senderVars, status, writer, listVars, signalVars,
                 hpc, gone, clearing>>

\* Mutation: responses are cleared without stopping the fence threads.
ClearResponsesEarly ==
  /\ writer = "stop"
  /\ writer' = "clear"
  /\ TakePending
  /\ UNCHANGED <<awaiterVars, senderVars, status, cur, signalVars, hpc, gone,
                 taskVars>>

\* edgetpu_group_clear_responses, up to its first spin_unlock.
ClearResponses ==
  /\ writer = "stop"
  /\ cur = None
  /\ tasks = {}
  /\ writer' = "clear"
  /\ TakePending
  /\ UNCHANGED <<awaiterVars, senderVars, status, cur, signalVars, hpc, gone,
                 taskVars>>

\* Its put of an awaiter that is cancelled.
ClearPuts(c) ==
  /\ writer = "clear"
  /\ cur = c
  /\ canc[c] = "done"
  /\ cur' = None
  /\ taken' = taken \ {c}
  /\ Drops(c, {"driver"})
  /\ ReleaseAwaiterData
  /\ UNCHANGED <<phase, canc, senderVars, status, writer, pending, ready,
                 processed, code, signalVars, hpc, taskVars>>

\* The ready list is released and the group is disbanded.
Disbanded ==
  /\ writer = "clear"
  /\ cur = None
  /\ taken = {}
  /\ refs' = [c \in Async |-> IF \E i \in DOMAIN ready : ready[i] = c
                                THEN refs[c] \ {"driver"} ELSE refs[c]]
  /\ ready' = <<>>
  /\ ReleaseAwaiterData
  /\ status' = "disbanded"
  /\ writer' = "none"
  /\ UNCHANGED <<phase, canc, senderVars, cur, pending, taken, processed, code,
                 signalVars, hpc, taskVars>>

-----------------------------------------------------------------------------
SenderStep(c) ==
  \/ DoSendCmd(c) \/ DoSendCmdFails(c) \/ BeforeEnqueueWaitList(c)
  \/ PushWaitResp(c) \/ SendReturns(c) \/ ErrorResponse(c) \/ ErrorSignals(c) \/ UntrackFenceTask(c)

HandlerStep(c) ==
  ProcessResponse(c) \/ HandlerSignals(c) \/ MailboxPuts(c)

WriterStep ==
  \/ \E c \in Async : \/ CancelAwaiter(c) \/ PushCanceled(c) \/ CancelSignals(c)
                      \/ StopTask(c) \/ ClearPuts(c)
  \/ CancelEnds \/ ClearResponses \/ Disbanded

Next ==
  \/ \E c \in Async :
       \/ SendViiCommand(c) \/ FenceWaitEnds(c) \/ SenderStep(c)
       \/ ResponseArrives(c) \/ ResponseTimesOut(c) \/ HandlerStep(c)
  \/ GetViiResponse
  \/ GroupErrored \/ FatalErrorNotify
  \/ Disband
  \/ WriterStep

Spec == Init /\ [][Next]_vars

(***************************************************************************)
(* The threads of the kernel run, a timeout work that is scheduled expires *)
(* and a wait on a fence ends by its timeout.  Nothing is assumed of the   *)
(* firmware, of the client or of those who close the group.                *)
(***************************************************************************)
Fairness ==
  /\ \A c \in Async : /\ WF_vars(SenderStep(c)) /\ WF_vars(FenceWaitEnds(c))
                      /\ WF_vars(HandlerStep(c)) /\ WF_vars(ResponseTimesOut(c))
  /\ WF_vars(WriterStep)

FairSpec == Spec /\ Fairness

-----------------------------------------------------------------------------
(***************************************************************************)
(* Properties.                                                             *)
(***************************************************************************)
SenderPcs == {"new", "fence", "send", "put", "published", "listed", "error", "signal",
              "untrack", "accepted", "rejected", "exited"}
Codes == {"none", "arrived", "timedout", "canceled", "error"}

\* Every variable has its type; in particular a command is only taken for a
\* credit that is there, and no credit is refunded that was not spent.
TypeOK ==
  /\ phase \in [Async -> Phases \cup {"floating"}]
  /\ refs \in [Async -> SUBSET Holders]
  /\ canc \in [Async -> {"no", "del", "wait", "done"}]
  /\ ipc \in [Async -> SenderPcs]
  /\ vii_lock \in Async \cup {None}
  /\ cur \in Async \cup {None}
  /\ status \in {"ready", "errored", "disbanded"}
  /\ writer \in {"none", "cancel", "signal", "stop", "clear"}
  /\ credits \in 0 .. Credits
  /\ pending \subseteq Async /\ taken \subseteq Async /\ processed \subseteq Async
  /\ ready \in Seq(Async)
  /\ code \in [Async -> Codes]
  /\ hpc \in [Async -> {"idle", "signal"}]
  /\ signaled \in [Async -> Nat]
  /\ gone \subseteq Async /\ tasks \subseteq Async /\ stopped \subseteq Async
  /\ clearing \in BOOLEAN

\* A credit is spent by every command that was taken and not yet answered, and
\* is refunded once although a response, a timeout, a cancellation and the
\* error path of the fence thread may race to answer it.
CreditsConserved ==
  credits + Cardinality({c \in Async : /\ ipc[c] \notin {"new", "rejected"}
                                       /\ signaled[c] = 0}) = Credits

\* No callback, no writer and no sender reaches an edgetpu_ikv_response that is
\* freed, and none is in a list: the client may read, and so free, a response
\* while the callback that made it ready is still signaling its fences and while
\* its sender has not returned.  The one exception is the sender that signals the
\* fences of an error response, which FenceThreadSafe is about.
NoUseAfterFree ==
  \A c \in gone : /\ hpc[c] = "idle"
                  /\ phase[c] \notin {"listed", "arrived", "timedout"}
                  /\ c \notin pending \cup taken
                  /\ \A i \in DOMAIN ready : ready[i] # c
                  /\ cur = c => writer = "stop"
                  /\ ipc[c] \notin {"fence", "send", "put", "published", "error"}

\* edgetpu-ikv.c: once edgetpu_ikv_cancel has claimed a command, neither its
\* response nor its timeout is pushed to the client, only CANCELED.
CanceledStays ==
  [][\A c \in taken : code'[c] \in {code[c], "canceled"}]_vars

\* kthread_stop is only called for a thread that cannot have exited: the list
\* the release walks without its lock has no stale task.
TrackedTaskAlive == \A c \in tasks : ipc[c] = "exited" => c \in stopped

\* After the group is disbanded nothing of it is left in a list, no sender is
\* on its way and the driver holds no awaiter.
DisbandedIsEmpty ==
  status = "disbanded" =>
    /\ pending = {} /\ taken = {} /\ ready = <<>>
    /\ \A c \in Async : /\ "driver" \notin refs[c]
                        /\ ipc[c] \in {"new", "accepted", "rejected", "exited"}

\* edgetpu_device_group_disband returns: it does not wait forever for a fence
\* thread that waits for it, nor for the handler of an awaiter.
DisbandReturns == writer = "stop" ~> status = "disbanded"

\* A command that was listed after its timeout work had run: only the firmware
\* or a cancellation answers it.
Untimed(c) == phase[c] = "listed" /\ "timer" \notin refs[c] /\ canc[c] = "no"

\* edgetpu-ikv.c on edgetpu_ikv_send_cmd: "If this function returns success,
\* then a response must always eventually be placed in @ready_queue", unless
\* the group is released or the timeout has expired before the command was sent.
AcceptedIsAnswered ==
  \A c \in Async : ipc[c] \in {"accepted", "fence"}
                     ~> signaled[c] > 0 \/ clearing \/ Untimed(c)

\* A cancellation that found no awaiter on the wait list, because its fence
\* thread had published the response and not listed the awaiter yet, and that
\* now waits for a handler nobody will run.
CancelMissed == \E c \in Async : canc[c] = "wait" /\ phase[c] \in {"sending", "listed"}

\* The same in every other case: with and without a fence, and although the
\* firmware may stop responding, an accepted command is answered.
AnsweredUnlessMissed ==
  \A c \in Async : ipc[c] \in {"accepted", "fence"}
                     ~> signaled[c] > 0 \/ clearing \/ CancelMissed \/ Untimed(c)

\* edgetpu-ikv.h on ikv_resp->awaiter: it "must be released [...] after this
\* response has been processed", hence not while the fence thread is still in
\* signal_response_waiters of its error response.
FenceThreadSafe == \A c \in Async : ipc[c] = "signal" => c \notin gone
=============================================================================
