---------------------------- MODULE GcipMailbox ----------------------------
(***************************************************************************)
(* gcip-mailbox.c: the command and response mailbox between the kernel and *)
(* the firmware of a GCIP block.                                           *)
(*                                                                         *)
(* A command is sent asynchronously, with a heap allocated and reference   *)
(* counted awaiter, or synchronously, with an async_resp in the stack      *)
(* frame of its sender.  The threads that meet on the wait list are the    *)
(* senders, the interrupt handler and the flushing thread that consume     *)
(* responses, the timeout work of each awaiter, the driver that cancels an *)
(* awaiter, and gcip_mailbox_release.  Every section under list_lock is    *)
(* one action.  The awaiter, its kref and its command are named alike.     *)
(***************************************************************************)
EXTENDS Integers, Sequences

CONSTANTS
  Async,         \* commands sent with gcip_mailbox_put_cmd
  Sync,          \* commands sent with gcip_mailbox_send_cmd
  NoTimeout,     \* those sent with GCIP_MAILBOX_CMD_FLAGS_NO_TIMEOUT
  Numbering,     \* who numbers the commands: the "mailbox" or, when
                 \* GCIP_MAILBOX_MODE_SEQ_EXTERNAL is set, the "kci" from a
                 \* counter of its own or each "client" as it likes
  UserSeq,       \* the numbers the clients like: numbers, or the command itself
                 \* for one that no other command has
  HookPublishes, \* does before_enqueue_wait_list publish the awaiter
  ReallocFails,  \* may krealloc fail in the copy loop
  BlockOff,      \* may is_block_off turn a consumer away
  QueueSize,     \* elements of each queue
  None           \* no command, no thread

Cmds == Async \cup Sync
Consumers == {"irq", "flush"}

ASSUME MailboxAssumption ==
  /\ Async \cap Sync = {}
  /\ NoTimeout \subseteq Async
  /\ Numbering \in {"mailbox", "kci", "client"}
  /\ HookPublishes \in BOOLEAN /\ ReallocFails \in BOOLEAN
  /\ BlockOff \in BOOLEAN
  /\ UserSeq \in [Cmds -> Nat \cup Cmds]
  /\ QueueSize \in Nat \ {0}
  /\ None \notin Cmds /\ None \notin Consumers

VARIABLES
  pc,         \* where the sender of each command is
  txlock,     \* owner of the command queue lock
  cur_seq,    \* cur_seq of the mailbox, or of the KCI
  cmd_seq,    \* sequence number in cmd, which its response repeats
  seq,        \* sequence number in resp, 0 from kzalloc until it is set
  wait_list,  \* commands with an element in mailbox->wait_list
  pushed,     \* elements list_add_tail has appended so far
  place,      \* which of them is the element of each command
  waiting,    \* commands whose async_resp.waiting is set
  kref,       \* awaiter->kref
  freed,      \* awaiters freed, and frames their sender has left
  owner,      \* the reference put_cmd hands to its caller
  timer,      \* awaiter->timeout_work
  canceller,  \* the driver's thread in gcip_mailbox_cancel_awaiter
  completed,  \* awaiters whose handled completion is done
  calls,      \* ledger: arrived, timedout and flushed callbacks made
  early,      \* ledger: whose timeout work ended before they were listed
  got,        \* ledger: whose response was copied into resp
  tx_queue, rx_queue,
  fw,         \* external: commands the firmware is working on
  irq,        \* external: is the response doorbell set
  rxlock,     \* owner of the response queue lock
  cpc,        \* where each consumer is
  batch,      \* the responses a consumer fetched and has yet to handle
  hand,       \* the awaiter whose list reference a consumer took over
  rel,        \* where gcip_mailbox_release is
  rel_list,   \* its cancel_list
  rel_cur     \* the element it has in hand

sendVars == <<pc, txlock, cur_seq, cmd_seq, seq, pushed, place>>
listVars == <<wait_list, waiting>>
refVars == <<kref, freed, owner>>
cbVars == <<completed, calls, early>>
hwVars == <<tx_queue, rx_queue, fw, irq>>
conVars == <<rxlock, cpc, batch, hand>>
relVars == <<rel, rel_list, rel_cur>>
vars == <<sendVars, listVars, refVars, timer, canceller, cbVars, got, hwVars,
          conVars, relVars>>

Init ==
  /\ pc = [c \in Cmds |-> "new"]
  /\ txlock = None
  /\ cur_seq = 0
  /\ cmd_seq = [c \in Cmds |-> 0]
  /\ seq = [c \in Cmds |-> 0]
  /\ wait_list = {}
  /\ pushed = 0
  /\ place = [c \in Cmds |-> 0]
  /\ waiting = {}
  /\ kref = [c \in Cmds |-> 0]
  /\ freed = {}
  /\ owner = [c \in Cmds |-> "none"]
  /\ timer = [c \in Cmds |-> "none"]
  /\ canceller = [c \in Cmds |-> "no"]
  /\ completed = {}
  /\ calls = [c \in Cmds |-> 0]
  /\ early = {}
  /\ got = [c \in Cmds |-> None]
  /\ tx_queue = <<>>
  /\ rx_queue = <<>>
  /\ fw = {}
  /\ irq = FALSE
  /\ rxlock = None
  /\ cpc = [t \in Consumers |-> "idle"]
  /\ batch = [t \in Consumers |-> <<>>]
  /\ hand = [t \in Consumers |-> None]
  /\ rel = "no"
  /\ rel_list = {}
  /\ rel_cur = None

-----------------------------------------------------------------------------
(***************************************************************************)
(* References and the wait list.                                           *)
(***************************************************************************)
\* Mutation: the awaiter is destroyed while one reference is left.
PutRefEarly(c) ==
  /\ kref' = [kref EXCEPT ![c] = @ - 1]
  /\ freed' = IF kref[c] = 2 THEN freed \cup {c} ELSE freed

\* gcip_mailbox_awaiter_get and gcip_mailbox_awaiter_put.
GetRef(c) == kref' = [kref EXCEPT ![c] = @ + 1] /\ UNCHANGED freed

PutRef(c) ==
  /\ kref' = [kref EXCEPT ![c] = @ - 1]
  /\ freed' = IF kref[c] = 1 THEN freed \cup {c} ELSE freed

NoRef == UNCHANGED <<kref, freed>>

\* Mutation: the result of cancel_delayed_work is ignored.
CancelTimeoutWorkUnchecked(c) ==
  timer' = [timer EXCEPT ![c] = IF @ = "scheduled" THEN "none" ELSE @]
  /\ PutRef(c)

\* cancel_delayed_work on a timeout work: TRUE when it was still scheduled,
\* and then the caller drops the reference of the work.
CancelTimeoutWork(c) ==
  IF timer[c] = "scheduled"
    THEN timer' = [timer EXCEPT ![c] = "none"] /\ PutRef(c)
    ELSE UNCHANGED timer /\ NoRef

\* Mutation: a response goes to the first waiter, whatever its number.
MatchingAny(s) == wait_list

\* does_response_match_waiter over the list, in its order.
Matching(s) == {m \in wait_list : seq[m] = s}
FirstMatch(s) ==
  CHOOSE m \in Matching(s) : \A n \in Matching(s) : place[m] <= place[n]

\* gcip_mailbox_del_wait_resp(async_resp of c), when it finds an element.
DelWaitResp(c) ==
  /\ Matching(seq[c]) # {}
  /\ wait_list' = wait_list \ {FirstMatch(seq[c])}
  /\ UNCHANGED waiting
  /\ IF FirstMatch(seq[c]) \in Async THEN PutRef(FirstMatch(seq[c]))
                                     ELSE NoRef

-----------------------------------------------------------------------------
(***************************************************************************)
(* Sending: gcip_mailbox_put_cmd_flags, gcip_mailbox_send_cmd and          *)
(* gcip_mailbox_enqueue_cmd.                                               *)
(***************************************************************************)
Goto(c, from, to) == pc[c] = from /\ pc' = [pc EXCEPT ![c] = to]

\* Mutation: the counter is read and not advanced.
CallerNumbersStale(c) ==
  /\ cmd_seq' = [cmd_seq EXCEPT ![c] = IF Numbering = "client" THEN UserSeq[c]
                                                               ELSE cur_seq + 1]
  /\ UNCHANGED cur_seq

\* A caller that numbers its command does so before it asks for the queue:
\* gcip_kci_send_cmd_return_resp with one atomic addition.
CallerNumbers(c) ==
  /\ cur_seq' = IF Numbering = "kci" THEN cur_seq + 1 ELSE cur_seq
  /\ cmd_seq' = [cmd_seq EXCEPT ![c] = CASE Numbering = "client" -> UserSeq[c]
                                         [] Numbering = "kci" -> cur_seq + 1
                                         [] Numbering = "mailbox" -> 0]

\* Mutation: the timeout work is never scheduled.
CreateUntimed(c) ==
  /\ rel = "no"
  /\ Goto(c, "new", "lock")
  /\ CallerNumbers(c)
  /\ IF c \in Async
       THEN /\ owner' = [owner EXCEPT ![c] = "owns"]
            /\ kref' = [kref EXCEPT ![c] = 1]
       ELSE UNCHANGED <<owner, kref>>
  /\ UNCHANGED <<txlock, seq, pushed, place, listVars, freed, timer,
                 canceller, cbVars, got, hwVars, conVars, relVars>>

\* The awaiter is created and its timeout work scheduled before the command
\* goes to the queue; the frame of a synchronous command has no reference.
Create(c) ==
  /\ rel = "no"
  /\ Goto(c, "new", "lock")
  /\ CallerNumbers(c)
  /\ IF c \in Async
       THEN /\ owner' = [owner EXCEPT ![c] = "owns"]
            /\ IF c \in NoTimeout
                 THEN /\ kref' = [kref EXCEPT ![c] = 1]
                      /\ UNCHANGED timer
                 ELSE /\ kref' = [kref EXCEPT ![c] = 2]
                      /\ timer' = [timer EXCEPT ![c] = "scheduled"]
       ELSE UNCHANGED <<owner, kref, timer>>
  /\ UNCHANGED <<txlock, seq, pushed, place, listVars, freed, canceller,
                 cbVars, got, hwVars, conVars, relVars>>

\* A mailbox that numbers its commands does so under the lock of the queue.
AcquireTxLock(c) ==
  /\ txlock = None
  /\ txlock' = c
  /\ Goto(c, "lock", "space")
  /\ cmd_seq' = IF Numbering = "mailbox" THEN [cmd_seq EXCEPT ![c] = cur_seq]
                                         ELSE cmd_seq
  /\ UNCHANGED <<cur_seq, seq, pushed, place, listVars, refVars, timer, canceller,
                 cbVars, got, hwVars, conVars, relVars>>

\* wait_for_tx_queue_not_full finds room; resp gets its sequence number.
TxNotFull(c) ==
  /\ Len(tx_queue) < QueueSize
  /\ Goto(c, "space", "hook")
  /\ seq' = [seq EXCEPT ![c] = cmd_seq[c]]
  /\ waiting' = waiting \cup {c}
  /\ UNCHANGED <<txlock, cur_seq, cmd_seq, pushed, place, wait_list, refVars, timer, canceller,
                 cbVars, got, hwVars, conVars, relVars>>

\* It gives up, or the hook or the allocation of the list element fails.
EnqueueFails(c) ==
  /\ \/ Len(tx_queue) = QueueSize /\ Goto(c, "space", "fail")
     \/ Goto(c, "hook", "fail")
  /\ txlock' = None
  /\ UNCHANGED <<cur_seq, cmd_seq, seq, pushed, place, listVars, refVars, timer, canceller,
                 cbVars, got, hwVars, conVars, relVars>>

\* before_enqueue_wait_list of the driver succeeds.
BeforeEnqueueWaitList(c) ==
  /\ Goto(c, "hook", "push")
  /\ UNCHANGED <<txlock, cur_seq, cmd_seq, seq, pushed, place, listVars, refVars, timer,
                 canceller, cbVars, got, hwVars, conVars, relVars>>

\* Mutation: the list element is given no reference of its own.
PushWithoutRef(c) ==
  /\ Goto(c, "push", "write")
  /\ wait_list' = wait_list \cup {c}
  /\ pushed' = pushed + 1
  /\ place' = [place EXCEPT ![c] = pushed + 1]
  /\ UNCHANGED <<txlock, cur_seq, cmd_seq, seq, waiting, refVars, timer, canceller,
                 cbVars, got, hwVars, conVars, relVars>>

\* gcip_mailbox_push_wait_resp: the list has a reference of its own.
PushWaitResp(c) ==
  /\ Goto(c, "push", "write")
  /\ wait_list' = wait_list \cup {c}
  /\ pushed' = pushed + 1
  /\ place' = [place EXCEPT ![c] = pushed + 1]
  /\ IF c \in Async THEN GetRef(c) ELSE NoRef
  /\ UNCHANGED <<txlock, cur_seq, cmd_seq, seq, waiting, owner, timer, canceller, cbVars,
                 got, hwVars, conVars, relVars>>

\* The command is copied, the tail incremented, the doorbell rung.
WriteCmd(c) ==
  /\ Goto(c, "write", "sent")
  /\ tx_queue' = Append(tx_queue, c)
  /\ cur_seq' = IF Numbering = "mailbox" THEN cur_seq + 1 ELSE cur_seq
  /\ txlock' = None
  /\ UNCHANGED <<cmd_seq, seq, pushed, place, listVars, refVars, timer,
                 canceller, cbVars, got, rx_queue, fw, irq, conVars, relVars>>

\* err_free_resp: cancel_timeout_work_sync waits for a work that runs, then
\* the awaiter is freed whatever its kref.
EnqueueCleanup(c) ==
  /\ Goto(c, "fail", "failed")
  /\ timer[c] \in {"none", "scheduled"}
  /\ timer' = [timer EXCEPT ![c] = "none"]
  /\ kref' = [kref EXCEPT ![c] = 0]
  /\ freed' = freed \cup {c}
  /\ owner' = IF c \in Async THEN [owner EXCEPT ![c] = "gone"] ELSE owner
  /\ UNCHANGED <<txlock, cur_seq, cmd_seq, seq, pushed, place, listVars, canceller,
                 cbVars, got, hwVars, conVars, relVars>>

\* wait_event_timeout of gcip_mailbox_send_cmd: woken up, or out of time.
SyncReturns(c) ==
  /\ c \in Sync
  /\ c \notin waiting
  /\ Goto(c, "sent", "returned")
  /\ freed' = freed \cup {c}
  /\ UNCHANGED <<txlock, cur_seq, cmd_seq, seq, pushed, place, listVars, kref, owner,
                 timer, canceller, cbVars, got, hwVars, conVars, relVars>>

\* Mutation: wait_event in place of wait_event_timeout.
SyncWaitsForever(c) == FALSE /\ UNCHANGED vars

SyncTimesOut(c) ==
  /\ c \in Sync
  /\ c \in waiting
  /\ Goto(c, "sent", "late")
  /\ UNCHANGED <<txlock, cur_seq, cmd_seq, seq, pushed, place, listVars, refVars, timer,
                 canceller, cbVars, got, hwVars, conVars, relVars>>

\* Mutation: the sender returns without taking its element off the list.
SyncReturnsListed(c) ==
  /\ Goto(c, "late", "returned")
  /\ freed' = freed \cup {c}
  /\ UNCHANGED <<txlock, cur_seq, cmd_seq, seq, pushed, place, listVars, kref, owner,
                 timer, canceller, cbVars, got, hwVars, conVars, relVars>>

\* Its gcip_mailbox_del_wait_resp; after that the frame is gone.
SyncDelWaitResp(c) ==
  /\ Goto(c, "late", "returned")
  /\ LET found == {m \in Matching(seq[c]) : m = FirstMatch(seq[c])}
         put == found \cap Async
     IN /\ wait_list' = wait_list \ found
        /\ kref' = [m \in Cmds |-> IF m \in put THEN kref[m] - 1 ELSE kref[m]]
        /\ freed' = freed \cup {c} \cup {m \in put : kref[m] = 1}
  /\ UNCHANGED <<txlock, cur_seq, cmd_seq, seq, pushed, place, waiting, owner, timer,
                 canceller, cbVars, got, hwVars, conVars, relVars>>

-----------------------------------------------------------------------------
(***************************************************************************)
(* External: the firmware takes commands in order and answers those it     *)
(* answers in any order, ringing the response doorbell.  The head of the   *)
(* response queue moves only when the consumer leaves its copy loop.       *)
(***************************************************************************)
FirmwareTakes ==
  /\ tx_queue # <<>>
  /\ fw' = fw \cup {Head(tx_queue)}
  /\ tx_queue' = Tail(tx_queue)
  /\ UNCHANGED <<sendVars, listVars, refVars, timer, canceller, cbVars, got,
                 rx_queue, irq, conVars, relVars>>

Unconsumed == IF rxlock = None THEN 0 ELSE Len(batch[rxlock])

FirmwareResponds(c) ==
  /\ c \in fw
  /\ Len(rx_queue) + Unconsumed < QueueSize
  /\ fw' = fw \ {c}
  /\ rx_queue' = Append(rx_queue, c)
  /\ irq' = TRUE
  /\ UNCHANGED <<sendVars, listVars, refVars, timer, canceller, cbVars, got,
                 tx_queue, conVars, relVars>>

-----------------------------------------------------------------------------
(***************************************************************************)
(* Consuming: gcip_mailbox_fetch_responses copies the queue under its lock *)
(* and gcip_mailbox_handle_response hands each response to its waiter.     *)
(***************************************************************************)
Consume(t, from, to) == cpc[t] = from /\ cpc' = [cpc EXCEPT ![t] = to]

\* gcip_mailbox_consume_responses_work: the doorbell is cleared first.  A
\* trylock that fails leaves the queue to the other consumer, a block that is
\* off leaves it as it is.
IrqHandler ==
  /\ rel = "no"
  /\ irq
  /\ irq' = FALSE
  /\ \/ rxlock = None /\ Consume("irq", "idle", "fetch") /\ rxlock' = "irq"
     \/ /\ rxlock # None \/ BlockOff
        /\ cpc["irq"] = "idle"
        /\ UNCHANGED <<cpc, rxlock>>
  /\ UNCHANGED <<sendVars, listVars, refVars, timer, canceller, cbVars, got,
                 tx_queue, rx_queue, fw, batch, hand, relVars>>

\* gcip_mailbox_consume_responses is called; then it waits for the lock.
ConsumeResponses ==
  /\ rel = "no"
  /\ Consume("flush", "idle", "call")
  /\ UNCHANGED <<sendVars, listVars, refVars, timer, canceller, cbVars, got,
                 hwVars, rxlock, batch, hand, relVars>>

AcquireRxLock ==
  /\ rxlock = None
  /\ rxlock' = "flush"
  /\ Consume("flush", "call", "fetch")
  /\ UNCHANGED <<sendVars, listVars, refVars, timer, canceller, cbVars, got,
                 hwVars, batch, hand, relVars>>

\* One turn of the loop: everything between head and tail is copied.
FetchResponses(t) ==
  /\ cpc[t] = "fetch"
  /\ rx_queue # <<>>
  /\ batch' = [batch EXCEPT ![t] = @ \o rx_queue]
  /\ rx_queue' = <<>>
  /\ UNCHANGED <<sendVars, listVars, refVars, timer, canceller, cbVars, got,
                 tx_queue, fw, irq, rxlock, cpc, hand, relVars>>

\* The loop ends on an empty queue, or when krealloc fails.
FetchEnds(t) ==
  /\ rx_queue = <<>> \/ ReallocFails
  /\ Consume(t, "fetch", "unlock")
  /\ UNCHANGED <<sendVars, listVars, refVars, timer, canceller, cbVars, got,
                 hwVars, rxlock, batch, hand, relVars>>

ReleaseRxLock(t) ==
  /\ Consume(t, "unlock", "match")
  /\ rxlock' = None
  /\ UNCHANGED <<sendVars, listVars, refVars, timer, canceller, cbVars, got,
                 hwVars, batch, hand, relVars>>

\* gcip_mailbox_handle_response up to its spin_unlock: the reference of the
\* list passes to the handler.
HandleResponse(t) ==
  /\ cpc[t] = "match"
  /\ batch[t] # <<>>
  /\ batch' = [batch EXCEPT ![t] = Tail(@)]
  /\ LET r == Head(batch[t])
         m == FirstMatch(cmd_seq[r])
     IN IF Matching(cmd_seq[r]) = {}
          THEN UNCHANGED <<listVars, got, cpc, hand>>
          ELSE /\ wait_list' = wait_list \ {m}
               /\ waiting' = waiting \ {m}
               /\ got' = [got EXCEPT ![m] = r]
               /\ IF m \in Async
                    THEN /\ cpc' = [cpc EXCEPT ![t] = "cancel"]
                         /\ hand' = [hand EXCEPT ![t] = m]
                    ELSE UNCHANGED <<cpc, hand>>
  /\ UNCHANGED <<sendVars, refVars, timer, canceller, cbVars, hwVars, rxlock,
                 relVars>>

\* Its gcip_mailbox_cancel_timeout_work.
HandlerCancelsTimer(t) ==
  /\ Consume(t, "cancel", "arrived")
  /\ CancelTimeoutWork(hand[t])
  /\ UNCHANGED <<sendVars, listVars, owner, canceller, cbVars, got, hwVars,
                 rxlock, batch, hand, relVars>>

Callback(c) ==
  /\ calls' = [calls EXCEPT ![c] = @ + 1]
  /\ completed' = completed \cup {c}
  /\ UNCHANGED early

\* handle_awaiter_arrived and complete_all.
HandleArrived(t) ==
  /\ Consume(t, "arrived", "put")
  /\ Callback(hand[t])
  /\ UNCHANGED <<sendVars, listVars, refVars, timer, canceller, got, hwVars,
                 rxlock, batch, hand, relVars>>

\* Mutation: the arrived handler keeps the reference of the list.
HandlerLeaks(t) ==
  /\ Consume(t, "put", "match")
  /\ hand' = [hand EXCEPT ![t] = None]
  /\ UNCHANGED <<sendVars, listVars, refVars, timer, canceller, cbVars, got,
                 hwVars, rxlock, batch, relVars>>

\* Its last gcip_mailbox_awaiter_put.
HandlerPuts(t) ==
  /\ Consume(t, "put", "match")
  /\ PutRef(hand[t])
  /\ hand' = [hand EXCEPT ![t] = None]
  /\ UNCHANGED <<sendVars, listVars, owner, timer, canceller, cbVars, got,
                 hwVars, rxlock, batch, relVars>>

\* gcip_mailbox_do_consume_responses returns.
ConsumeReturns(t) ==
  /\ batch[t] = <<>>
  /\ Consume(t, "match", "idle")
  /\ UNCHANGED <<sendVars, listVars, refVars, timer, canceller, cbVars, got,
                 hwVars, rxlock, batch, hand, relVars>>

-----------------------------------------------------------------------------
(***************************************************************************)
(* gcip_mailbox_async_cmd_timeout_work.                                    *)
(***************************************************************************)
Work(c, from, to) == timer[c] = from /\ timer' = [timer EXCEPT ![c] = to]

\* The timer runs since Create, so it may expire while the sender waits for
\* the lock of the queue or for space.
TimerExpires(c) ==
  /\ Work(c, "scheduled", "running")
  /\ UNCHANGED <<sendVars, listVars, refVars, canceller, cbVars, got, hwVars,
                 conVars, relVars>>

\* Mutation: the timeout is handled whether or not the element was removed.
TimeoutIgnoresRemoved(c) ==
  /\ Work(c, "running", "taken")
  /\ \/ DelWaitResp(c)
     \/ Matching(seq[c]) = {} /\ UNCHANGED listVars /\ NoRef
  /\ UNCHANGED <<sendVars, owner, canceller, cbVars, got, hwVars, conVars,
                 relVars>>

\* It claims the awaiter, or finds it claimed, or finds it not listed yet.
Unlisted(c) == pc[c] \in {"lock", "space", "hook", "push"}

TimeoutDelWaitResp(c) ==
  /\ \/ DelWaitResp(c) /\ Work(c, "running", "taken") /\ UNCHANGED early
     \/ /\ Matching(seq[c]) = {}
        /\ Work(c, "running", "put")
        /\ UNCHANGED listVars /\ NoRef
        /\ early' = IF Unlisted(c) THEN early \cup {c} ELSE early
  /\ UNCHANGED <<sendVars, owner, canceller, completed, calls, got, hwVars,
                 conVars, relVars>>

\* Mutation: complete_all is missing.
TimedoutNotCompleted(c) ==
  /\ Work(c, "taken", "put")
  /\ calls' = [calls EXCEPT ![c] = @ + 1]
  /\ UNCHANGED <<sendVars, listVars, refVars, canceller, completed, early, got,
                 hwVars, conVars, relVars>>

\* handle_awaiter_timedout and complete_all.
HandleTimedout(c) ==
  /\ Work(c, "taken", "put")
  /\ Callback(c)
  /\ UNCHANGED <<sendVars, listVars, refVars, canceller, got, hwVars, conVars,
                 relVars>>

TimeoutPuts(c) ==
  /\ Work(c, "put", "none")
  /\ PutRef(c)
  /\ UNCHANGED <<sendVars, listVars, owner, canceller, cbVars, got, hwVars,
                 conVars, relVars>>

-----------------------------------------------------------------------------
(***************************************************************************)
(* The driver: gcip_mailbox_cancel_awaiter and the put of its reference.   *)
(***************************************************************************)
Published(c) ==
  \/ pc[c] = "sent"
  \/ HookPublishes /\ pc[c] \in {"push", "write"}

MayCancel(c) == rel = "no" /\ Published(c) /\ owner[c] = "owns"
Settled(c) == calls[c] > 0 \/ canceller[c] = "done"

\* The driver learns of a response or a timeout in the callback, and may put
\* its reference before the callback returns.
InCallback(c) ==
  \/ timer[c] = "taken"
  \/ \E t \in Consumers : hand[t] = c /\ cpc[t] = "arrived"

Cancel(c, from, to) ==
  canceller[c] = from /\ canceller' = [canceller EXCEPT ![c] = to]

CancelAwaiter(c) ==
  /\ MayCancel(c)
  /\ Cancel(c, "no", "del")
  /\ CancelTimeoutWork(c)
  /\ UNCHANGED <<sendVars, listVars, owner, cbVars, got, hwVars, conVars,
                 relVars>>

\* Mutation: the canceller does not wait for a handler that came first.
CancelDoesNotWait(c) ==
  /\ Cancel(c, "del", "done")
  /\ \/ DelWaitResp(c)
     \/ Matching(seq[c]) = {} /\ UNCHANGED listVars /\ NoRef
  /\ UNCHANGED <<sendVars, owner, timer, cbVars, got, hwVars, conVars, relVars>>

CancelDelWaitResp(c) ==
  /\ \/ DelWaitResp(c) /\ Cancel(c, "del", "done")
     \/ /\ Matching(seq[c]) = {}
        /\ Cancel(c, "del", "wait")
        /\ UNCHANGED listVars /\ NoRef
  /\ UNCHANGED <<sendVars, owner, timer, cbVars, got, hwVars, conVars, relVars>>

\* wait_for_completion(&awaiter->handled).
CancelWaits(c) ==
  /\ c \in completed
  /\ Cancel(c, "wait", "done")
  /\ UNCHANGED <<sendVars, listVars, refVars, timer, cbVars, got, hwVars,
                 conVars, relVars>>

OwnerPuts(c) ==
  /\ owner[c] = "owns"
  /\ Settled(c) \/ InCallback(c)
  /\ canceller[c] \in {"no", "done"}
  /\ owner' = [owner EXCEPT ![c] = "gone"]
  /\ PutRef(c)
  /\ UNCHANGED <<sendVars, listVars, timer, canceller, cbVars, got, hwVars,
                 conVars, relVars>>

-----------------------------------------------------------------------------
(***************************************************************************)
(* gcip_mailbox_release, called when nobody sends or cancels.  Consumers   *)
(* and timeout works that have begun go on.                                *)
(***************************************************************************)
ReleaseStart ==
  /\ rel = "no"
  /\ \A c \in Cmds : /\ pc[c] \in {"new", "sent", "returned", "failed"}
                     /\ c \in Sync => pc[c] # "sent"
                     /\ canceller[c] \in {"no", "done"}
  /\ rel' = "list"
  /\ rel_list' = wait_list
  /\ wait_list' = {}
  /\ UNCHANGED rel_cur
  /\ UNCHANGED <<sendVars, waiting, refVars, timer, canceller, cbVars, got,
                 hwVars, conVars>>

\* gcip_mailbox_cancel_awaiter_all: the reference of the list is dropped.
ReleasePuts(c) ==
  /\ rel = "list"
  /\ c \in rel_list
  /\ rel' = "sync"
  /\ rel_cur' = c
  /\ rel_list' = rel_list \ {c}
  /\ PutRef(c)
  /\ UNCHANGED <<sendVars, listVars, owner, timer, canceller, cbVars, got,
                 hwVars, conVars>>

\* gcip_mailbox_cancel_timeout_work_sync and handle_awaiter_flushed, which
\* drops the reference of the driver.
ReleaseFlushes(c) ==
  /\ rel = "sync"
  /\ rel_cur = c
  /\ timer[c] \in {"none", "scheduled"}
  /\ timer' = [timer EXCEPT ![c] = "none"]
  /\ kref' = [kref EXCEPT ![c] = @ - (IF timer[c] = "scheduled" THEN 2 ELSE 1)]
  /\ freed' = IF kref'[c] = 0 THEN freed \cup {c} ELSE freed
  /\ owner' = [owner EXCEPT ![c] = "gone"]
  /\ Callback(c)
  /\ rel' = "list"
  /\ rel_cur' = None
  /\ UNCHANGED <<sendVars, listVars, canceller, got, hwVars, conVars, rel_list>>

ReleaseEnds ==
  /\ rel = "list"
  /\ rel_list = {}
  /\ rel' = "done"
  /\ UNCHANGED <<sendVars, listVars, refVars, timer, canceller, cbVars, got,
                 hwVars, conVars, rel_list, rel_cur>>

-----------------------------------------------------------------------------
SenderStep(c) ==
  \/ AcquireTxLock(c) \/ TxNotFull(c) \/ EnqueueFails(c)
  \/ BeforeEnqueueWaitList(c) \/ PushWaitResp(c) \/ WriteCmd(c)
  \/ EnqueueCleanup(c)
  \/ SyncReturns(c) \/ SyncTimesOut(c) \/ SyncDelWaitResp(c)

ConsumerStep(t) ==
  \/ FetchResponses(t) \/ FetchEnds(t) \/ ReleaseRxLock(t)
  \/ HandleResponse(t) \/ HandlerCancelsTimer(t) \/ HandleArrived(t)
  \/ HandlerPuts(t) \/ ConsumeReturns(t)

TimeoutStep(c) ==
  \/ TimerExpires(c) \/ TimeoutDelWaitResp(c) \/ HandleTimedout(c)
  \/ TimeoutPuts(c)

DriverStep(c) == CancelDelWaitResp(c) \/ CancelWaits(c) \/ OwnerPuts(c)

Next ==
  \/ \E c \in Cmds : Create(c) \/ SenderStep(c)
  \/ FirmwareTakes
  \/ \E c \in Cmds : FirmwareResponds(c)
  \/ IrqHandler
  \/ ConsumeResponses \/ AcquireRxLock
  \/ \E t \in Consumers : ConsumerStep(t)
  \/ \E c \in Async : TimeoutStep(c) \/ CancelAwaiter(c) \/ DriverStep(c)
  \/ ReleaseStart
  \/ \E c \in Async : ReleasePuts(c) \/ ReleaseFlushes(c)
  \/ ReleaseEnds

Spec == Init /\ [][Next]_vars

(***************************************************************************)
(* A sender, a consumer, a timeout work and a canceller that has begun is  *)
(* a running thread, a timer expires, an interrupt is taken, and a driver  *)
(* puts an awaiter that is settled.  Nothing is assumed of the firmware.   *)
(***************************************************************************)
Fairness ==
  /\ \A c \in Cmds : WF_vars(SenderStep(c))
  /\ \A c \in Async : WF_vars(TimeoutStep(c)) /\ WF_vars(DriverStep(c))
  /\ WF_vars(IrqHandler \/ ConsumerStep("irq"))
  /\ WF_vars(AcquireRxLock \/ ConsumerStep("flush"))
  /\ WF_vars(ReleaseEnds \/ \E c \in Async : ReleasePuts(c) \/ ReleaseFlushes(c))

FairSpec == Spec /\ Fairness

-----------------------------------------------------------------------------
(***************************************************************************)
(* The implementation of GcipAwaiter.                                      *)
(***************************************************************************)
\* The first of these that holds is the phase: they overlap (an awaiter whose
\* callback was called may still be in the hand of the consumer that called it).
PhaseOf(c) ==
  IF pc[c] = "new" THEN "none"
  ELSE IF pc[c] = "failed" THEN "failed"
  ELSE IF c \in wait_list THEN "listed"
  ELSE IF c \in rel_list \/ rel_cur = c THEN "flushed"
  ELSE IF calls[c] > 0 THEN "handled"
  ELSE IF \E t \in Consumers : hand[t] = c THEN "arrived"
  ELSE IF timer[c] = "taken" THEN "timedout"
  ELSE IF canceller[c] = "done" THEN "removed"
  ELSE "sending"

RefsOf(c) ==
  {h \in {"driver", "list", "timer"} :
     \/ h = "driver" /\ owner[c] = "owns"
     \/ h = "timer" /\ timer[c] # "none"
     \/ h = "list" /\ (\/ c \in wait_list \cup rel_list
                      \/ \E t \in Consumers : hand[t] = c)}

Awaiter == INSTANCE GcipAwaiter WITH
             phase <- [c \in Async |-> PhaseOf(c)],
             refs <- [c \in Async |-> RefsOf(c)],
             canc <- [c \in Async |-> canceller[c]]

-----------------------------------------------------------------------------
(***************************************************************************)
(* Properties.                                                             *)
(***************************************************************************)
TypeOK ==
  /\ pc \in [Cmds -> {"new", "lock", "space", "hook", "push", "write", "sent",
                      "fail", "failed", "late", "returned"}]
  /\ txlock \in Cmds \cup {None}
  /\ cur_seq \in Nat /\ pushed \in Nat
  /\ cmd_seq \in [Cmds -> Nat \cup Cmds]
  /\ seq \in [Cmds -> Nat \cup Cmds]
  /\ place \in [Cmds -> Nat]
  /\ wait_list \subseteq Cmds /\ waiting \subseteq Cmds
  /\ kref \in [Cmds -> Nat]
  /\ freed \subseteq Cmds
  /\ owner \in [Cmds -> {"none", "owns", "gone"}]
  /\ timer \in [Cmds -> {"none", "scheduled", "running", "taken", "put"}]
  /\ canceller \in [Cmds -> {"no", "del", "wait", "done"}]
  /\ completed \subseteq Async
  /\ calls \in [Cmds -> Nat]
  /\ early \subseteq Async
  /\ got \in [Cmds -> Cmds \cup {None}]
  /\ tx_queue \in Seq(Cmds) /\ rx_queue \in Seq(Cmds)
  /\ fw \subseteq Cmds
  /\ irq \in BOOLEAN
  /\ rxlock \in Consumers \cup {None}
  /\ cpc \in [Consumers -> {"idle", "call", "fetch", "unlock", "match",
                            "cancel", "arrived", "put"}]
  /\ batch \in [Consumers -> Seq(Cmds)]
  /\ hand \in [Consumers -> Async \cup {None}]
  /\ rel \in {"no", "list", "sync", "done"}
  /\ rel_list \subseteq Cmds
  /\ rel_cur \in Async \cup {None}

Owned(c) == IF owner[c] = "owns" THEN 1 ELSE 0
Timed(c) == IF timer[c] # "none" THEN 1 ELSE 0
Listed(c) == IF c \in wait_list \cup rel_list THEN 1 ELSE 0
Handled(c) == IF \E t \in Consumers : hand[t] = c THEN 1 ELSE 0

\* kref of an awaiter is exactly the number of its holders: the driver, the
\* timeout work, the wait list and the arrived handler that took it over.
\* No path through put_cmd, a response, a timeout, a cancellation or a release
\* drops a reference it does not hold or forgets one that it does, and the
\* awaiter is freed by the last of them, neither earlier nor never.
KrefExact ==
  \A c \in Async : /\ kref[c] = Owned(c) + Timed(c) + Listed(c) + Handled(c)
                   /\ c \in freed <=> pc[c] # "new" /\ kref[c] = 0

\* Nobody can reach freed memory: not the wait list (whose elements point into
\* awaiters and into the stack frames of synchronous senders), not a timeout
\* work, a handler, a canceller, or the release loop.
NoUseAfterFree ==
  \A c \in freed : /\ c \notin wait_list \cup rel_list
                   /\ timer[c] = "none"
                   /\ \A t \in Consumers : hand[t] # c
                   /\ canceller[c] \in {"no", "done"}
                   /\ rel_cur # c

\* A waiter only ever gets the response to its own command: not that of a
\* command sent at the same time, nor the late one of a command whose sender
\* has given up.  The counters see to it, mailbox->cur_seq under the lock of the
\* queue and kci->cur_seq before it; of clients nothing is known.
OwnResponse == \A c \in Cmds : got[c] \in {c, None}

\* A command that waits has something to end its wait although the firmware
\* never answers: a timeout work that is still to look for it, or a
\* cancellation.  The one way to lose it is a work that looked for the awaiter
\* before it was listed.
ListedIsTimed ==
  \A c \in wait_list \cap (Async \ NoTimeout) :
    timer[c] \in {"scheduled", "running"} \/ canceller[c] # "no" \/ c \in early

\* An awaiter is handled as arrived, as timed out or as flushed, never twice,
\* whatever response, timeout, cancellation and release race for it; and, as
\* gcip-mailbox.h says, not after gcip_mailbox_cancel_awaiter has returned.
OneCallback ==
  [][\A c \in Async : calls'[c] # calls[c] => calls[c] = 0 /\ canceller[c] # "done"]_vars

\* The mailbox keeps the promise of GcipAwaiter: one claim per command, a
\* cancellation that waits for the handler that was first, references dropped
\* by those who hold them.
ImplementsAwaiter == Awaiter!AwaiterSpec

\* The cancellation came between the publication of the awaiter and its
\* listing: it waits for a handler that may never run.
Missed(c) ==
  canceller[c] = "wait" /\ (c \in wait_list \/ pc[c] \in {"push", "write"})

\* A command that made it to the firmware is settled although the firmware
\* never answers: its timeout work, a response or a cancellation gets it.
\* Except for two ways to lose the timeout: the work expired before the awaiter
\* was listed, or a cancellation that missed the awaiter has cancelled it.
SentIsSettled ==
  \A c \in Async \ NoTimeout :
    pc[c] = "sent" ~> Settled(c) \/ c \in early \/ Missed(c)

\* gcip_mailbox_cancel_awaiter and gcip_mailbox_send_cmd return to their
\* callers, whatever the firmware does; except for a cancellation that missed.
CallsReturn ==
  /\ \A c \in Async : canceller[c] = "wait" ~> canceller[c] = "done" \/ Missed(c)
  /\ \A c \in Sync : pc[c] = "sent" ~> pc[c] = "returned"

\* No awaiter leaks: what was created is freed, with the same two exceptions.
AwaiterFreed ==
  \A c \in Async \ NoTimeout :
    pc[c] = "lock" ~> c \in freed \/ c \in early \/ Missed(c)
=============================================================================
