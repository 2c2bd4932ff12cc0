-------------------------- MODULE EdgetpuIkvProofs --------------------------
(***************************************************************************)
(* Proofs about the in-kernel VII of a device group, for any set of        *)
(* commands, any choice of those with a fence and any number of credits:   *)
(* credits are conserved, nothing reaches a response that is freed, a      *)
(* group that is disbanded is empty, the fence threads that the release    *)
(* stops are alive, and a command that a cancellation has claimed is not   *)
(* answered by anybody else.                                               *)
(***************************************************************************)
EXTENDS EdgetpuIkv, FiniteSetTheorems, TLAPS

\* The commands whose response is in a list.
Elems(s) == {s[i] : i \in DOMAIN s}

\* No response is in a list twice.
Distinct(s) == \A i, j \in DOMAIN s : s[i] = s[j] => i = j

\* The commands that hold a credit.
Spent == {c \in Async : ipc[c] \notin {"new", "rejected"} /\ signaled[c] = 0}

\* The sets of the variables, without those that need an argument of their own.
Types ==
  /\ phase \in [Async -> Phases \cup {"floating"}]
  /\ refs \in [Async -> SUBSET Holders]
  /\ canc \in [Async -> {"no", "del", "wait", "done"}]
  /\ ipc \in [Async -> SenderPcs]
  /\ vii_lock \in Async \cup {None}
  /\ cur \in Async \cup {None}
  /\ status \in {"ready", "errored", "disbanded"}
  /\ writer \in {"none", "cancel", "signal", "stop", "clear"}
  /\ pending \subseteq Async /\ taken \subseteq Async /\ processed \subseteq Async
  /\ code \in [Async -> Codes]
  /\ hpc \in [Async -> {"idle", "signal"}]
  /\ signaled \in [Async -> Nat]
  /\ gone \subseteq Async /\ tasks \subseteq Async /\ stopped \subseteq Async

ClearingFlag == clearing \in BOOLEAN

\* The awaiter of a command is as far as the thread that sends it: it is being
\* sent from the put of the command until the thread has returned from it.
PhaseInv ==
  \A c \in Async :
    /\ ipc[c] \in {"new", "fence", "send"} => phase[c] = "none"
    /\ ipc[c] \in {"put", "published"} <=> phase[c] = "sending"
    /\ ipc[c] = "error" => phase[c] \in {"none", "failed"}
    /\ ipc[c] = "signal" => phase[c] = "floating"
    /\ phase[c] = "none" => ipc[c] \in {"new", "fence", "send", "error", "exited"}
    /\ ipc[c] = "rejected" => phase[c] = "failed"
    /\ phase[c] = "failed" => ipc[c] \in {"error", "rejected"}

\* The ready list is a list of commands, each in it once.
ReadyInv == ready \in Seq(Async) /\ Distinct(ready)

\* Where the response of a command is.  It is in one list at a time; one that is
\* marked was taken, is ready or was read; one whose awaiter may still be
\* answered and is not marked is pending.
ListInv ==
  \A c \in Async :
    /\ c \in pending => c \notin processed
    /\ c \in taken => c \in processed
    /\ c \in Elems(ready) => c \in processed /\ c \notin taken
    /\ c \in pending \cup taken =>
         /\ ipc[c] \in {"published", "listed", "untrack", "accepted", "exited"}
         /\ phase[c] \notin {"none", "failed", "floating"}
    /\ c \in processed =>
         ipc[c] \in {"published", "listed", "signal", "untrack", "accepted", "exited"}
    /\ ipc[c] = "published" => c \in pending \cup taken
    /\ phase[c] \in {"listed", "arrived", "timedout"} => c \in pending \cup processed
    /\ ipc[c] = "signal" => c \in processed

\* The writer cancels the awaiters of the responses it has taken, one at a time,
\* and is done with one when it is removed or its callback has returned.  A
\* callback that signals fences is not that of a response that was taken.
CancelInv ==
  /\ taken # {} => writer \in {"cancel", "signal", "clear"}
  /\ writer = "none" => cur = None
  /\ cur # None => \/ writer \in {"cancel", "clear"} /\ cur \in taken
                   \/ writer = "signal" /\ cur \in Elems(ready) /\ canc[cur] = "done"
                   \/ writer = "stop"
  /\ writer = "signal" => cur # None
  /\ \A c \in Async :
       /\ canc[c] \in {"del", "wait"} => cur = c /\ writer \in {"cancel", "clear"}
       /\ canc[c] = "done" => phase[c] \in {"handled", "removed"}
       /\ hpc[c] = "signal" => /\ phase[c] \in {"arrived", "timedout"}
                               /\ c \in processed \ taken
                               /\ canc[c] = "no"

\* Who keeps an awaiter alive: the driver has its reference exactly while the
\* response is in a list or on its way into one, and whoever answers it runs
\* under the reference of the list, of the timer or of the cancelling driver.
HolderInv ==
  \A c \in Async :
    /\ phase[c] \in {"none", "failed"} => refs[c] = {}
    /\ phase[c] \in {"listed", "arrived"} => "list" \in refs[c]
    /\ "list" \in refs[c] => phase[c] \in {"listed", "arrived", "handled"}
    /\ phase[c] = "floating" => refs[c] \subseteq {"driver"}
    /\ phase[c] = "timedout" => "timer" \in refs[c] \/ canc[c] \in {"del", "wait"}
    /\ "driver" \in refs[c] <=>
         ipc[c] = "put" \/ c \in pending \cup taken \cup Elems(ready)
    /\ c \in gone => /\ refs[c] = {}
                     /\ ipc[c] \in {"rejected", "exited", "accepted", "untrack",
                                    "listed", "signal"}

\* A command whose fences are signaled has nobody left who would signal them.
SignalInv ==
  \A c \in Async : signaled[c] # 0 =>
    /\ ipc[c] \in {"listed", "accepted", "untrack", "exited"}
    /\ hpc[c] = "idle"
    /\ c \in processed \ taken
    /\ ~(writer = "signal" /\ cur = c)

\* Every sender on its way has the lock of the ioctl or is a tracked task; the
\* writer has waited for the first, and clears the lists after the second.
StopInv ==
  /\ \A c \in Async :
       /\ ipc[c] \in {"fence", "send", "put", "published", "listed", "error", "signal",
                       "untrack"}
            => vii_lock = c \/ c \in tasks
       /\ vii_lock = c => ipc[c] \in {"send", "put", "published", "listed", "error",
                                       "signal"}
  /\ writer # "none" => vii_lock = None /\ status # "disbanded"
  /\ writer = "clear" \/ status = "disbanded"
       => tasks = {} /\ pending = {} /\ vii_lock = None
  /\ status = "disbanded" => taken = {} /\ ready = <<>>

\* A credit for every command that was taken and not answered.
CreditInv ==
  /\ IsFiniteSet(Spent)
  /\ credits \in Nat
  /\ credits + Cardinality(Spent) = Credits

IInv == /\ Types /\ ReadyInv /\ PhaseInv /\ ListInv /\ CancelInv /\ HolderInv
        /\ SignalInv /\ StopInv /\ CreditInv /\ TrackedTaskAlive

-----------------------------------------------------------------------------
\* A response that is in no list joins the ready list at its end.
LEMMA MoveFacts ==
  ASSUME ReadyInv, NEW c \in Async, c \notin Elems(ready),
         NEW resp_code, MoveToReady(c, resp_code)
  PROVE  ReadyInv' /\ Elems(ready') = Elems(ready) \cup {c}
<1>1. ready' = Append(ready, c)
  BY DEF MoveToReady, ListDel, Elems
<1>2. /\ ready' \in Seq(Async)
      /\ DOMAIN ready = 1..Len(ready) /\ DOMAIN ready' = 1..(Len(ready) + 1)
      /\ Len(ready) \in Nat
      /\ \A i \in DOMAIN ready : ready'[i] = ready[i]
      /\ ready'[Len(ready) + 1] = c
  BY <1>1 DEF ReadyInv
<1>3. Elems(ready') = Elems(ready) \cup {c}
  BY <1>2 DEF Elems
<1>4. Distinct(ready')
  BY <1>2 DEF Distinct, ReadyInv, Elems
<1> QED
  BY <1>2, <1>3, <1>4 DEF ReadyInv, Distinct

\* The response that a client reads leaves the ready list, and no other one.
LEMMA GetFacts ==
  ASSUME ReadyInv, GetViiResponse
  PROVE  /\ ReadyInv'
         /\ Head(ready) \in Elems(ready)
         /\ Elems(ready') = Elems(ready) \ {Head(ready)}
<1>1. /\ ready \in Seq(Async) /\ ready # <<>> /\ ready' = Tail(ready)
  BY DEF GetViiResponse, ReadyInv
<1>2. /\ ready' \in Seq(Async)
      /\ Len(ready) \in Nat \ {0}
      /\ DOMAIN ready = 1..Len(ready) /\ DOMAIN ready' = 1..(Len(ready) - 1)
      /\ Head(ready) = ready[1]
      /\ \A i \in DOMAIN ready' : ready'[i] = ready[i + 1]
  BY <1>1
<1>3. Head(ready) \in Elems(ready)
  BY <1>2 DEF Elems
<1>4. ASSUME NEW c \in Elems(ready') PROVE c \in Elems(ready) \ {Head(ready)}
  BY <1>2 DEF Elems, ReadyInv, Distinct
<1>5. ASSUME NEW c \in Elems(ready), c # Head(ready) PROVE c \in Elems(ready')
  <2>1. PICK i \in DOMAIN ready : ready[i] = c
    BY DEF Elems
  <2>2. i - 1 \in DOMAIN ready' /\ ready'[i - 1] = c
    BY <2>1, <1>2, <1>5
  <2> QED
    BY <2>2 DEF Elems
<1>6. Distinct(ready')
  BY <1>2 DEF Distinct, ReadyInv
<1> QED
  BY <1>2, <1>3, <1>4, <1>5, <1>6 DEF ReadyInv, Distinct

\* The release empties the ready list.
LEMMA DisbandedFacts ==
  ASSUME Disbanded
  PROVE  /\ ReadyInv' /\ Elems(ready') = {}
         /\ refs' = [c \in Async |-> IF c \in Elems(ready)
                                      THEN refs[c] \ {"driver"} ELSE refs[c]]
  BY DEF Disbanded, ReadyInv, Distinct, Elems

\* At the start no command is taken and every list is empty.
LEMMA IkvInit == Init => IInv
<1> SUFFICES ASSUME Init PROVE IInv
  OBVIOUS
<1> USE DEF Init, AwaiterInit
<1>1. Elems(ready) = {} /\ ready \in Seq(Async)
  BY DEF Elems
<1>2. Types /\ PhaseInv /\ StopInv /\ TrackedTaskAlive
  BY IkvAssumption DEF Types, SenderPcs, Codes, Phases, Holders, PhaseInv, StopInv,
     TrackedTaskAlive
<1>3. ReadyInv
  BY <1>1 DEF ReadyInv, Distinct
<1>4. ListInv /\ CancelInv /\ HolderInv /\ SignalInv
  BY <1>1, IkvAssumption DEF ListInv, CancelInv, HolderInv, SignalInv
<1>5. Spent = {}
  BY DEF Spent
<1>6. CreditInv
  BY <1>5, FS_EmptySet, IkvAssumption DEF CreditInv
<1> QED
  BY <1>2, <1>3, <1>4, <1>6 DEF IInv

\* Every step keeps the variables in their sets.
LEMMA NextTypes == Types /\ [Next]_vars => Types'
<1> SUFFICES ASSUME Types, [Next]_vars PROVE Types'
  OBVIOUS
<1> USE IkvAssumption DEF Types, SenderPcs, Codes, Phases, Holders, Sender,
      GroupLocked, awaiterVars, senderVars, groupVars, listVars, signalVars, taskVars
<1>1. ASSUME NEW c \in Async, SendViiCommand(c) PROVE Types'
  BY <1>1 DEF SendViiCommand
<1>2. ASSUME NEW c \in Async, \/ FenceWaitEnds(c) \/ DoSendCmd(c)
                              \/ BeforeEnqueueWaitList(c) \/ PushWaitResp(c)
                              \/ SendReturns(c) \/ UntrackFenceTask(c)
      PROVE Types'
  BY <1>2 DEF FenceWaitEnds, DoSendCmd, Send, Becomes, BeforeEnqueueWaitList,
     PushWaitResp, SendReturns, Listed, UntrackFenceTask
<1>3. ASSUME NEW c \in Async, DoSendCmdFails(c) PROVE Types'
  BY <1>3 DEF DoSendCmdFails, SendFails, Becomes, Drops
<1>4. ASSUME NEW c \in Async, ErrorResponse(c) PROVE Types'
  BY <1>4 DEF ErrorResponse, MoveToReady
<1>5. ASSUME NEW c \in Async, ErrorSignals(c) PROVE Types'
  BY <1>5 DEF ErrorSignals, SignalResponseWaiters
<1>6. ASSUME NEW c \in Async, \/ ResponseArrives(c) \/ ResponseTimesOut(c)
                              \/ MailboxPuts(c) \/ CancelAwaiter(c) \/ StopTask(c)
                              \/ ClearPuts(c)
      PROVE Types'
  BY <1>6 DEF ResponseArrives, Arrives, Becomes, ResponseTimesOut, TimesOut, Drops,
     MailboxPuts, HandlerPuts, TimerPuts, ReleaseAwaiterData, CancelAwaiter, Cancels,
     CancelRemoves, CancelMisses, CancelWaits, StopTask, ClearPuts
<1>7. ASSUME NEW c \in Async, ProcessResponse(c) PROVE Types'
  <2>1. CASE c \in processed
    BY <1>7, <2>1 DEF ProcessResponse, Handled, Becomes
  <2>2. CASE c \notin processed
    <3>1. /\ processed' = processed \cup {c} /\ code' = [code EXCEPT ![c] = phase[c]]
          /\ pending' = pending \ {c} /\ taken' = taken \ {c}
      BY <1>7, <2>2 DEF ProcessResponse, MoveToReady
    <3> QED
      BY <1>7, <2>2, <3>1 DEF ProcessResponse
  <2> QED
    BY <2>1, <2>2
<1>8. ASSUME NEW c \in Async, HandlerSignals(c) PROVE Types'
  BY <1>8 DEF HandlerSignals, SignalResponseWaiters, Handled, Becomes
<1>9. CASE GetViiResponse
  BY <1>9 DEF GetViiResponse, Drops, ReleaseAwaiterData
<1>10. CASE GroupErrored \/ Disband \/ CancelEnds \/ FatalErrorNotify \/ ClearResponses
  BY <1>10 DEF GroupErrored, Disband, CancelEnds, FatalErrorNotify, TakePending,
     ClearResponses
<1>11. ASSUME NEW c \in Async, PushCanceled(c) PROVE Types'
  BY <1>11 DEF PushCanceled, MoveToReady
<1>12. ASSUME NEW c \in Async, CancelSignals(c) PROVE Types'
  BY <1>12 DEF CancelSignals, SignalResponseWaiters
<1>13. CASE Disbanded
  BY <1>13 DEF Disbanded, ReleaseAwaiterData
<1>14. CASE UNCHANGED vars
  BY <1>14 DEF vars
<1> QED
  BY <1>1, <1>2, <1>3, <1>4, <1>5, <1>6, <1>7, <1>8, <1>9, <1>10, <1>11, <1>12, <1>13,
     <1>14 DEF Next, SenderStep, HandlerStep, WriterStep

\* Every step moves the phase of an awaiter and the place of its sender together.
LEMMA NextPhase == Types /\ PhaseInv /\ ListInv /\ CancelInv /\ [Next]_vars => PhaseInv'
<1> SUFFICES ASSUME Types, PhaseInv, ListInv, CancelInv, [Next]_vars PROVE PhaseInv'
  OBVIOUS
<1> USE IkvAssumption DEF Types, SenderPcs, Codes, Phases, Holders, PhaseInv, ListInv,
      CancelInv, Sender, GroupLocked, awaiterVars, senderVars, groupVars, listVars,
      signalVars, taskVars
<1>1. ASSUME NEW c \in Async, SendViiCommand(c) PROVE PhaseInv'
  BY <1>1 DEF SendViiCommand
<1>2. ASSUME NEW c \in Async, \/ FenceWaitEnds(c) \/ DoSendCmd(c)
                              \/ BeforeEnqueueWaitList(c) \/ PushWaitResp(c)
                              \/ UntrackFenceTask(c)
      PROVE PhaseInv'
  BY <1>2 DEF FenceWaitEnds, DoSendCmd, Send, Becomes, BeforeEnqueueWaitList,
     PushWaitResp, Listed, UntrackFenceTask
<1>3. ASSUME NEW c \in Async, DoSendCmdFails(c) PROVE PhaseInv'
  BY <1>3 DEF DoSendCmdFails, SendFails, Becomes, Drops
<1>4. ASSUME NEW c \in Async, SendReturns(c) PROVE PhaseInv'
  BY <1>4 DEF SendReturns
<1>5. ASSUME NEW c \in Async, ErrorResponse(c) PROVE PhaseInv'
  BY <1>5 DEF ErrorResponse, MoveToReady
<1>6. ASSUME NEW c \in Async, ErrorSignals(c) PROVE PhaseInv'
  BY <1>6 DEF ErrorSignals, SignalResponseWaiters
<1>7. ASSUME NEW c \in Async, ResponseArrives(c) \/ ResponseTimesOut(c) PROVE PhaseInv'
  BY <1>7 DEF ResponseArrives, Arrives, Becomes, ResponseTimesOut, TimesOut, Drops
<1>8. ASSUME NEW c \in Async, ProcessResponse(c) PROVE PhaseInv'
  <2>1. CASE c \in processed
    BY <1>8, <2>1 DEF ProcessResponse, Handled, Becomes
  <2>2. CASE c \notin processed
    BY <1>8, <2>2 DEF ProcessResponse, MoveToReady
  <2> QED
    BY <2>1, <2>2
<1>9. ASSUME NEW c \in Async, HandlerSignals(c) PROVE PhaseInv'
  BY <1>9 DEF HandlerSignals, SignalResponseWaiters, Handled, Becomes
<1>10. ASSUME NEW c \in Async, MailboxPuts(c) PROVE PhaseInv'
  BY <1>10 DEF MailboxPuts, HandlerPuts, TimerPuts, Drops, ReleaseAwaiterData
<1>11. CASE GetViiResponse
  BY <1>11 DEF GetViiResponse, Drops, ReleaseAwaiterData
<1>12. CASE GroupErrored \/ Disband \/ CancelEnds
  BY <1>12 DEF GroupErrored, Disband, CancelEnds
<1>13. CASE FatalErrorNotify \/ ClearResponses
  BY <1>13 DEF FatalErrorNotify, TakePending, ClearResponses
<1>14. ASSUME NEW c \in Async, CancelAwaiter(c) PROVE PhaseInv'
  BY <1>14 DEF CancelAwaiter, Cancels, CancelRemoves, CancelMisses, CancelWaits,
     Becomes, Drops, ReleaseAwaiterData
<1>15. ASSUME NEW c \in Async, PushCanceled(c) PROVE PhaseInv'
  BY <1>15 DEF PushCanceled, MoveToReady
<1>16. ASSUME NEW c \in Async, CancelSignals(c) \/ StopTask(c) PROVE PhaseInv'
  BY <1>16 DEF CancelSignals, SignalResponseWaiters, StopTask
<1>17. ASSUME NEW c \in Async, ClearPuts(c) PROVE PhaseInv'
  BY <1>17 DEF ClearPuts, Drops, ReleaseAwaiterData
<1>18. CASE Disbanded
  BY <1>18 DEF Disbanded, ReleaseAwaiterData
<1>19. CASE UNCHANGED vars
  BY <1>19 DEF vars
<1> QED
  BY <1>1, <1>2, <1>3, <1>4, <1>5, <1>6, <1>7, <1>8, <1>9, <1>10, <1>11, <1>12, <1>13,
     <1>14, <1>15, <1>16, <1>17, <1>18, <1>19
     DEF Next, SenderStep, HandlerStep, WriterStep

\* No step puts a response into the ready list twice.
LEMMA NextReady == Types /\ ReadyInv /\ ListInv /\ CancelInv /\ [Next]_vars => ReadyInv'
<1> SUFFICES ASSUME Types, ReadyInv, ListInv, CancelInv, [Next]_vars PROVE ReadyInv'
  OBVIOUS
<1> USE IkvAssumption DEF ReadyInv, Sender, GroupLocked, awaiterVars, senderVars,
      groupVars, listVars, signalVars, taskVars
<1>1. ASSUME NEW c \in Async, \/ FenceWaitEnds(c) \/ DoSendCmd(c)
                              \/ BeforeEnqueueWaitList(c) \/ PushWaitResp(c)
                              \/ SendReturns(c) \/ UntrackFenceTask(c) \/ SendViiCommand(c)
                              \/ DoSendCmdFails(c) \/ ErrorSignals(c)
      PROVE ReadyInv'
  BY <1>1 DEF FenceWaitEnds, DoSendCmd, BeforeEnqueueWaitList, PushWaitResp, SendReturns,
     Listed,
     UntrackFenceTask, SendViiCommand, DoSendCmdFails, SendFails, ErrorSignals,
     SignalResponseWaiters
<1>2. ASSUME NEW c \in Async, ErrorResponse(c) PROVE ReadyInv'
  <2>1. c \notin Elems(ready)
    BY <1>2 DEF ErrorResponse, ListInv, CancelInv
  <2> QED
    BY <1>2, <2>1, MoveFacts DEF ErrorResponse
<1>3. ASSUME NEW c \in Async, \/ ResponseArrives(c) \/ ResponseTimesOut(c)
                              \/ MailboxPuts(c) \/ CancelAwaiter(c) \/ StopTask(c)
                              \/ ClearPuts(c) \/ HandlerSignals(c)
                              \/ CancelSignals(c)
      PROVE ReadyInv'
  BY <1>3 DEF ResponseArrives, Arrives, ResponseTimesOut, TimesOut, MailboxPuts,
     HandlerPuts, TimerPuts, ReleaseAwaiterData, CancelAwaiter, Cancels, CancelRemoves,
     CancelMisses, CancelWaits, StopTask, ClearPuts, HandlerSignals,
     SignalResponseWaiters, Handled, CancelSignals
<1>4. ASSUME NEW c \in Async, ProcessResponse(c) PROVE ReadyInv'
  <2>1. CASE c \in processed
    BY <1>4, <2>1 DEF ProcessResponse
  <2>2. CASE c \notin processed
    <3>1. c \notin Elems(ready)
      BY <2>2 DEF ListInv
    <3> QED
      BY <1>4, <2>2, <3>1, MoveFacts DEF ProcessResponse
  <2> QED
    BY <2>1, <2>2
<1>5. CASE GetViiResponse
  BY <1>5, GetFacts DEF GetViiResponse, ReleaseAwaiterData
<1>6. CASE GroupErrored \/ Disband \/ CancelEnds \/ FatalErrorNotify \/ ClearResponses
  BY <1>6 DEF GroupErrored, Disband, CancelEnds, FatalErrorNotify, TakePending,
     ClearResponses
<1>7. ASSUME NEW c \in Async, PushCanceled(c) PROVE ReadyInv'
  <2>1. c \notin Elems(ready)
    BY <1>7 DEF PushCanceled, ListInv, CancelInv
  <2> QED
    BY <1>7, <2>1, MoveFacts DEF PushCanceled
<1>8. CASE Disbanded
  BY <1>8, DisbandedFacts DEF Disbanded, ReleaseAwaiterData
<1>9. CASE UNCHANGED vars
  BY <1>9 DEF vars
<1> QED
  BY <1>1, <1>2, <1>3, <1>4, <1>5, <1>6, <1>7, <1>8, <1>9 DEF Next, SenderStep,
     HandlerStep, WriterStep

\* A response is in one list at a time, and is answered by whoever marks it first.
LEMMA NextList ==
  Types /\ ReadyInv /\ PhaseInv /\ ListInv /\ CancelInv /\ StopInv /\ [Next]_vars
    => ListInv'
<1> SUFFICES ASSUME Types, ReadyInv, PhaseInv, ListInv, CancelInv, StopInv, [Next]_vars
    PROVE ListInv'
  OBVIOUS
<1> USE IkvAssumption DEF Types, SenderPcs, Codes, Phases, Holders, PhaseInv, ListInv,
      CancelInv, StopInv, Sender, GroupLocked, awaiterVars, senderVars, groupVars,
      listVars, signalVars, taskVars
<1>1. ASSUME NEW c \in Async, SendViiCommand(c) PROVE ListInv'
  BY <1>1 DEF SendViiCommand
<1>2. ASSUME NEW c \in Async, \/ FenceWaitEnds(c) \/ DoSendCmd(c)
                              \/ BeforeEnqueueWaitList(c) \/ PushWaitResp(c)
                              \/ UntrackFenceTask(c)
      PROVE ListInv'
  BY <1>2, SMTT(30) DEF FenceWaitEnds, DoSendCmd, Send, Becomes, BeforeEnqueueWaitList,
     PushWaitResp, Listed, UntrackFenceTask
<1>3. ASSUME NEW c \in Async, DoSendCmdFails(c) PROVE ListInv'
  <2>1. CASE vii_lock = c
    BY <1>3, <2>1 DEF DoSendCmdFails, SendFails, Becomes, Drops
  <2>2. CASE vii_lock # c
    BY <1>3, <2>2 DEF DoSendCmdFails, SendFails, Becomes, Drops
  <2> QED
    BY <2>1, <2>2
<1>4. ASSUME NEW c \in Async, SendReturns(c) PROVE ListInv'
  <2>1. CASE vii_lock = c
    BY <1>4, <2>1 DEF SendReturns
  <2>2. CASE vii_lock # c
    BY <1>4, <2>2 DEF SendReturns
  <2> QED
    BY <2>1, <2>2
<1>5. ASSUME NEW c \in Async, ErrorResponse(c) PROVE ListInv'
  <2>1. c \notin Elems(ready) /\ MoveToReady(c, "error")
    BY <1>5 DEF ErrorResponse, ListInv, CancelInv
  <2>2. Elems(ready') = Elems(ready) \cup {c}
    BY <2>1, MoveFacts
  <2>3. /\ processed' = processed \cup {c} /\ code' = [code EXCEPT ![c] = "error"]
        /\ pending' = pending \ {c} /\ taken' = taken \ {c}
    BY <2>1 DEF MoveToReady
  <2> QED
    BY <1>5, <2>1, <2>2, <2>3 DEF ErrorResponse
<1>6. ASSUME NEW c \in Async, ErrorSignals(c) PROVE ListInv'
  <2>1. CASE vii_lock = c
    BY <1>6, <2>1 DEF ErrorSignals, SignalResponseWaiters
  <2>2. CASE vii_lock # c
    BY <1>6, <2>2 DEF ErrorSignals, SignalResponseWaiters
  <2> QED
    BY <2>1, <2>2
<1>7. ASSUME NEW c \in Async, ResponseArrives(c) \/ ResponseTimesOut(c) PROVE ListInv'
  BY <1>7 DEF ResponseArrives, Arrives, Becomes, ResponseTimesOut, TimesOut, Drops
<1>8. ASSUME NEW c \in Async, ProcessResponse(c) PROVE ListInv'
  <2>1. CASE c \in processed
    BY <1>8, <2>1 DEF ProcessResponse, Handled, Becomes
  <2>2. CASE c \notin processed
    <3>1. c \notin Elems(ready) /\ MoveToReady(c, phase[c])
      BY <1>8, <2>2 DEF ProcessResponse, ListInv, CancelInv
    <3>2. Elems(ready') = Elems(ready) \cup {c}
      BY <3>1, MoveFacts
    <3>3. /\ processed' = processed \cup {c} /\ code' = [code EXCEPT ![c] = phase[c]]
          /\ pending' = pending \ {c} /\ taken' = taken \ {c}
      BY <3>1 DEF MoveToReady
    <3> QED
      BY <1>8, <2>2, <3>1, <3>2, <3>3 DEF ProcessResponse
  <2> QED
    BY <2>1, <2>2
<1>9. ASSUME NEW c \in Async, HandlerSignals(c) PROVE ListInv'
  BY <1>9 DEF HandlerSignals, SignalResponseWaiters, Handled, Becomes
<1>10. ASSUME NEW c \in Async, MailboxPuts(c) PROVE ListInv'
  BY <1>10 DEF MailboxPuts, HandlerPuts, TimerPuts, Drops, ReleaseAwaiterData
<1>11. CASE GetViiResponse
  BY <1>11, GetFacts DEF GetViiResponse, Drops, ReleaseAwaiterData
<1>12. CASE GroupErrored \/ Disband \/ CancelEnds
  BY <1>12 DEF GroupErrored, Disband, CancelEnds
<1>13. CASE FatalErrorNotify \/ ClearResponses
  BY <1>13 DEF FatalErrorNotify, TakePending, ClearResponses
<1>14. ASSUME NEW c \in Async, CancelAwaiter(c) PROVE ListInv'
  BY <1>14 DEF CancelAwaiter, Cancels, CancelRemoves, CancelMisses, CancelWaits,
     Becomes, Drops, ReleaseAwaiterData
<1>15. ASSUME NEW c \in Async, PushCanceled(c) PROVE ListInv'
  <2>1. c \notin Elems(ready) /\ MoveToReady(c, "canceled")
    BY <1>15 DEF PushCanceled, ListInv, CancelInv
  <2>2. Elems(ready') = Elems(ready) \cup {c}
    BY <2>1, MoveFacts
  <2>3. /\ processed' = processed \cup {c} /\ code' = [code EXCEPT ![c] = "canceled"]
        /\ pending' = pending \ {c} /\ taken' = taken \ {c}
    BY <2>1 DEF MoveToReady
  <2>4. ipc[c] # "published"
    BY <1>15 DEF PushCanceled
  <2> QED
    BY <1>15, <2>4, <2>1, <2>2, <2>3 DEF PushCanceled
<1>16. ASSUME NEW c \in Async, CancelSignals(c) \/ StopTask(c) PROVE ListInv'
  BY <1>16 DEF CancelSignals, SignalResponseWaiters, StopTask
<1>17. ASSUME NEW c \in Async, ClearPuts(c) PROVE ListInv'
  BY <1>17 DEF ClearPuts, Drops, ReleaseAwaiterData
<1>18. CASE Disbanded
  BY <1>18, DisbandedFacts DEF Disbanded, ReleaseAwaiterData
<1>19. CASE UNCHANGED vars
  BY <1>19 DEF vars
<1> QED
  BY <1>1, <1>2, <1>3, <1>4, <1>5, <1>6, <1>7, <1>8, <1>9, <1>10, <1>11, <1>12, <1>13,
     <1>14, <1>15, <1>16, <1>17, <1>18, <1>19
     DEF Next, SenderStep, HandlerStep, WriterStep

\* Only the writer of the group cancels, one command at a time, and no callback
\* answers what it has claimed.
LEMMA NextCancel ==
  Types /\ ReadyInv /\ PhaseInv /\ ListInv /\ CancelInv /\ StopInv /\ [Next]_vars
    => CancelInv'
<1> SUFFICES ASSUME Types, ReadyInv, PhaseInv, ListInv, CancelInv, StopInv, [Next]_vars
    PROVE CancelInv'
  OBVIOUS
<1> USE IkvAssumption DEF Types, SenderPcs, Codes, Phases, Holders, PhaseInv, ListInv,
      CancelInv, StopInv, Sender, GroupLocked, awaiterVars, senderVars, groupVars,
      listVars, signalVars, taskVars
<1>1. ASSUME NEW c \in Async, SendViiCommand(c) PROVE CancelInv'
  BY <1>1 DEF SendViiCommand
<1>2. ASSUME NEW c \in Async, \/ FenceWaitEnds(c) \/ DoSendCmd(c)
                              \/ BeforeEnqueueWaitList(c) \/ PushWaitResp(c)
                              \/ UntrackFenceTask(c)
      PROVE CancelInv'
  BY <1>2 DEF FenceWaitEnds, DoSendCmd, Send, Becomes, BeforeEnqueueWaitList,
     PushWaitResp, Listed, UntrackFenceTask
<1>3. ASSUME NEW c \in Async, DoSendCmdFails(c) PROVE CancelInv'
  <2>1. CASE vii_lock = c
    BY <1>3, <2>1 DEF DoSendCmdFails, SendFails, Becomes, Drops
  <2>2. CASE vii_lock # c
    BY <1>3, <2>2 DEF DoSendCmdFails, SendFails, Becomes, Drops
  <2> QED
    BY <2>1, <2>2
<1>4. ASSUME NEW c \in Async, SendReturns(c) PROVE CancelInv'
  <2>1. CASE vii_lock = c
    BY <1>4, <2>1 DEF SendReturns
  <2>2. CASE vii_lock # c
    BY <1>4, <2>2 DEF SendReturns
  <2> QED
    BY <2>1, <2>2
<1>5. ASSUME NEW c \in Async, ErrorResponse(c) PROVE CancelInv'
  <2>1. c \notin Elems(ready) /\ MoveToReady(c, "error")
    BY <1>5 DEF ErrorResponse, ListInv, CancelInv
  <2>2. Elems(ready') = Elems(ready) \cup {c}
    BY <2>1, MoveFacts
  <2>3. /\ processed' = processed \cup {c} /\ code' = [code EXCEPT ![c] = "error"]
        /\ pending' = pending \ {c} /\ taken' = taken \ {c}
    BY <2>1 DEF MoveToReady
  <2> QED
    BY <1>5, <2>1, <2>2, <2>3, SMTT(30) DEF ErrorResponse
<1>6. ASSUME NEW c \in Async, ErrorSignals(c) PROVE CancelInv'
  <2>1. CASE vii_lock = c
    BY <1>6, <2>1 DEF ErrorSignals, SignalResponseWaiters
  <2>2. CASE vii_lock # c
    BY <1>6, <2>2 DEF ErrorSignals, SignalResponseWaiters
  <2> QED
    BY <2>1, <2>2
<1>7. ASSUME NEW c \in Async, ResponseArrives(c) \/ ResponseTimesOut(c) PROVE CancelInv'
  <2>1. /\ phase[c] = "listed"
        /\ phase' = [phase EXCEPT ![c] = IF ResponseArrives(c) THEN "arrived" ELSE "timedout"]
    BY <1>7 DEF ResponseArrives, Arrives, Becomes, ResponseTimesOut, TimesOut
  <2>2. UNCHANGED <<canc, groupVars, listVars, hpc>>
    BY <1>7 DEF ResponseArrives, Arrives, ResponseTimesOut, TimesOut
  <2>3. \A d \in Async : phase'[d] = phase[d] \/ (d = c /\ phase'[d] # "listed")
    BY <2>1
  <2>4. canc[c] # "done" /\ hpc[c] = "idle"
    BY <2>1
  <2> QED
    BY <2>1, <2>2, <2>3, <2>4
<1>8. ASSUME NEW c \in Async, ProcessResponse(c) PROVE CancelInv'
  <2>1. CASE c \in processed
    <3>1. /\ phase' = [phase EXCEPT ![c] = "handled"] /\ UNCHANGED canc
      BY <1>8, <2>1 DEF ProcessResponse, Handled, Becomes
    <3> QED
      BY <1>8, <2>1, <3>1 DEF ProcessResponse
  <2>2. CASE c \notin processed
    <3>1. c \notin Elems(ready) /\ MoveToReady(c, phase[c])
      BY <1>8, <2>2 DEF ProcessResponse, ListInv, CancelInv
    <3>2. Elems(ready') = Elems(ready) \cup {c}
      BY <3>1, MoveFacts
    <3>3. /\ processed' = processed \cup {c} /\ code' = [code EXCEPT ![c] = phase[c]]
          /\ pending' = pending \ {c} /\ taken' = taken \ {c}
      BY <3>1 DEF MoveToReady
    <3> QED
      BY <1>8, <2>2, <3>1, <3>2, <3>3 DEF ProcessResponse
  <2> QED
    BY <2>1, <2>2
<1>9. ASSUME NEW c \in Async, HandlerSignals(c) PROVE CancelInv'
  BY <1>9 DEF HandlerSignals, SignalResponseWaiters, Handled, Becomes
<1>10. ASSUME NEW c \in Async, MailboxPuts(c) PROVE CancelInv'
  BY <1>10 DEF MailboxPuts, HandlerPuts, TimerPuts, Drops, ReleaseAwaiterData
<1>11. CASE GetViiResponse
  BY <1>11, GetFacts DEF GetViiResponse, Drops, ReleaseAwaiterData
<1>12. CASE GroupErrored \/ Disband \/ CancelEnds
  BY <1>12 DEF GroupErrored, Disband, CancelEnds
<1>13. CASE FatalErrorNotify \/ ClearResponses
  BY <1>13 DEF FatalErrorNotify, TakePending, ClearResponses
<1>14. ASSUME NEW c \in Async, CancelAwaiter(c) PROVE CancelInv'
  BY <1>14 DEF CancelAwaiter, Cancels, CancelRemoves, CancelMisses, CancelWaits,
     Becomes, Drops, ReleaseAwaiterData
<1>15. ASSUME NEW c \in Async, PushCanceled(c) PROVE CancelInv'
  <2>1. c \notin Elems(ready) /\ MoveToReady(c, "canceled")
    BY <1>15 DEF PushCanceled, ListInv, CancelInv
  <2>2. Elems(ready') = Elems(ready) \cup {c}
    BY <2>1, MoveFacts
  <2>3. /\ processed' = processed \cup {c} /\ code' = [code EXCEPT ![c] = "canceled"]
        /\ pending' = pending \ {c} /\ taken' = taken \ {c}
    BY <2>1 DEF MoveToReady
  <2> QED
    BY <1>15, <2>1, <2>2, <2>3 DEF PushCanceled
<1>16. ASSUME NEW c \in Async, CancelSignals(c) \/ StopTask(c) PROVE CancelInv'
  BY <1>16 DEF CancelSignals, SignalResponseWaiters, StopTask
<1>17. ASSUME NEW c \in Async, ClearPuts(c) PROVE CancelInv'
  BY <1>17 DEF ClearPuts, Drops, ReleaseAwaiterData
<1>18. CASE Disbanded
  BY <1>18, DisbandedFacts DEF Disbanded, ReleaseAwaiterData
<1>19. CASE UNCHANGED vars
  BY <1>19 DEF vars
<1> QED
  BY <1>1, <1>2, <1>3, <1>4, <1>5, <1>6, <1>7, <1>8, <1>9, <1>10, <1>11, <1>12, <1>13,
     <1>14, <1>15, <1>16, <1>17, <1>18, <1>19
     DEF Next, SenderStep, HandlerStep, WriterStep

\* Every step that takes a response off a list, or puts it there, moves the
\* reference of the driver with it.
LEMMA NextHolders ==
  Types /\ ReadyInv /\ PhaseInv /\ ListInv /\ CancelInv /\ HolderInv /\ [Next]_vars
    => HolderInv'
<1> SUFFICES ASSUME Types, ReadyInv, PhaseInv, ListInv, CancelInv, HolderInv, [Next]_vars
             PROVE HolderInv'
  OBVIOUS
<1> USE IkvAssumption DEF Types, SenderPcs, Codes, Phases, Holders, PhaseInv, ListInv,
      CancelInv, HolderInv, Sender, GroupLocked, awaiterVars, senderVars, groupVars,
      listVars, signalVars, taskVars
<1>1. ASSUME NEW c \in Async, SendViiCommand(c) PROVE HolderInv'
  BY <1>1 DEF SendViiCommand
<1>2. ASSUME NEW c \in Async, \/ FenceWaitEnds(c) \/ DoSendCmd(c)
                              \/ BeforeEnqueueWaitList(c) \/ PushWaitResp(c)
                              \/ UntrackFenceTask(c)
      PROVE HolderInv'
  BY <1>2 DEF FenceWaitEnds, DoSendCmd, Send, Becomes, BeforeEnqueueWaitList,
     PushWaitResp, Listed, UntrackFenceTask
<1>3. ASSUME NEW c \in Async, DoSendCmdFails(c) PROVE HolderInv'
  BY <1>3 DEF DoSendCmdFails, SendFails, Becomes, Drops
<1>4. ASSUME NEW c \in Async, SendReturns(c) PROVE HolderInv'
  BY <1>4 DEF SendReturns
<1>5. ASSUME NEW c \in Async, ErrorResponse(c) PROVE HolderInv'
  <2>1. c \notin Elems(ready) /\ MoveToReady(c, "error")
    BY <1>5 DEF ErrorResponse, ListInv, CancelInv
  <2>2. Elems(ready') = Elems(ready) \cup {c}
    BY <2>1, MoveFacts
  <2>3. /\ processed' = processed \cup {c} /\ code' = [code EXCEPT ![c] = "error"]
        /\ pending' = pending \ {c} /\ taken' = taken \ {c}
    BY <2>1 DEF MoveToReady
  <2> QED
    BY <1>5, <2>1, <2>2, <2>3 DEF ErrorResponse
<1>6. ASSUME NEW c \in Async, ErrorSignals(c) PROVE HolderInv'
  BY <1>6 DEF ErrorSignals, SignalResponseWaiters
<1>7. ASSUME NEW c \in Async, ResponseArrives(c) \/ ResponseTimesOut(c) PROVE HolderInv'
  BY <1>7 DEF ResponseArrives, Arrives, Becomes, ResponseTimesOut, TimesOut, Drops
<1>8. ASSUME NEW c \in Async, ProcessResponse(c) PROVE HolderInv'
  <2>1. CASE c \in processed
    BY <1>8, <2>1 DEF ProcessResponse, Handled, Becomes
  <2>2. CASE c \notin processed
    <3>1. c \notin Elems(ready) /\ MoveToReady(c, phase[c])
      BY <1>8, <2>2 DEF ProcessResponse, ListInv, CancelInv
    <3>2. Elems(ready') = Elems(ready) \cup {c}
      BY <3>1, MoveFacts
    <3>3. /\ processed' = processed \cup {c} /\ code' = [code EXCEPT ![c] = phase[c]]
          /\ pending' = pending \ {c} /\ taken' = taken \ {c}
      BY <3>1 DEF MoveToReady
    <3> QED
      BY <1>8, <2>2, <3>1, <3>2, <3>3 DEF ProcessResponse
  <2> QED
    BY <2>1, <2>2
<1>9. ASSUME NEW c \in Async, HandlerSignals(c) PROVE HolderInv'
  BY <1>9 DEF HandlerSignals, SignalResponseWaiters, Handled, Becomes
<1>10. ASSUME NEW c \in Async, MailboxPuts(c) PROVE HolderInv'
  BY <1>10 DEF MailboxPuts, HandlerPuts, TimerPuts, Drops, ReleaseAwaiterData
<1>11. CASE GetViiResponse
  <2>1. /\ Head(ready) \in Async
        /\ Head(ready) \in Elems(ready)
        /\ Elems(ready') = Elems(ready) \ {Head(ready)}
    BY <1>11, GetFacts DEF ReadyInv, GetViiResponse
  <2>2. /\ refs' = [refs EXCEPT ![Head(ready)] = @ \ {"driver"}]
        /\ gone' = gone \cup {c \in Async : refs[c] # {} /\ refs'[c] = {}}
        /\ UNCHANGED <<phase, canc, ipc, hpc, pending, taken, processed>>
    BY <1>11 DEF GetViiResponse, Drops, ReleaseAwaiterData
  <2> HIDE DEF Holders
  <2> QED
    BY <2>1, <2>2
<1>12. CASE GroupErrored \/ Disband \/ CancelEnds
  BY <1>12 DEF GroupErrored, Disband, CancelEnds
<1>13. CASE FatalErrorNotify \/ ClearResponses
  BY <1>13 DEF FatalErrorNotify, TakePending, ClearResponses
<1>14. ASSUME NEW c \in Async, CancelAwaiter(c) PROVE HolderInv'
  BY <1>14 DEF CancelAwaiter, Cancels, CancelRemoves, CancelMisses, CancelWaits,
     Becomes, Drops, ReleaseAwaiterData
<1>15. ASSUME NEW c \in Async, PushCanceled(c) PROVE HolderInv'
  <2>1. c \notin Elems(ready) /\ MoveToReady(c, "canceled")
    BY <1>15 DEF PushCanceled, ListInv, CancelInv
  <2>2. Elems(ready') = Elems(ready) \cup {c}
    BY <2>1, MoveFacts
  <2>3. /\ processed' = processed \cup {c} /\ code' = [code EXCEPT ![c] = "canceled"]
        /\ pending' = pending \ {c} /\ taken' = taken \ {c}
    BY <2>1 DEF MoveToReady
  <2> QED
    BY <1>15, <2>1, <2>2, <2>3 DEF PushCanceled
<1>16. ASSUME NEW c \in Async, CancelSignals(c) \/ StopTask(c) PROVE HolderInv'
  BY <1>16 DEF CancelSignals, SignalResponseWaiters, StopTask
<1>17. ASSUME NEW c \in Async, ClearPuts(c) PROVE HolderInv'
  BY <1>17 DEF ClearPuts, Drops, ReleaseAwaiterData
<1>18. CASE Disbanded
  <2>1. /\ Elems(ready') = {}
        /\ refs' = [c \in Async |-> IF c \in Elems(ready) THEN refs[c] \ {"driver"}
                                                          ELSE refs[c]]
    BY <1>18, DisbandedFacts
  <2>2. /\ gone' = gone \cup {c \in Async : refs[c] # {} /\ refs'[c] = {}}
        /\ UNCHANGED <<phase, canc, ipc, hpc, pending, taken, processed>>
    BY <1>18 DEF Disbanded, ReleaseAwaiterData
  <2> QED
    BY <2>1, <2>2
<1>19. CASE UNCHANGED vars
  BY <1>19 DEF vars
<1> QED
  BY <1>1, <1>2, <1>3, <1>4, <1>5, <1>6, <1>7, <1>8, <1>9, <1>10, <1>11, <1>12, <1>13,
     <1>14, <1>15, <1>16, <1>17, <1>18, <1>19
     DEF Next, SenderStep, HandlerStep, WriterStep

\* Nobody signals the fences of a command that are signaled already.
LEMMA NextSignals ==
  Types /\ PhaseInv /\ ListInv /\ CancelInv /\ SignalInv /\ [Next]_vars => SignalInv'
<1> SUFFICES ASSUME Types, PhaseInv, ListInv, CancelInv, SignalInv, [Next]_vars
    PROVE SignalInv'
  OBVIOUS
<1> USE IkvAssumption DEF Types, SenderPcs, Codes, Phases, Holders, PhaseInv, ListInv,
      CancelInv, SignalInv, Sender, GroupLocked, awaiterVars, senderVars, groupVars,
      listVars, signalVars, taskVars
<1>1. ASSUME NEW c \in Async, SendViiCommand(c) PROVE SignalInv'
  BY <1>1 DEF SendViiCommand
<1>2. ASSUME NEW c \in Async, \/ FenceWaitEnds(c) \/ DoSendCmd(c)
                              \/ BeforeEnqueueWaitList(c) \/ PushWaitResp(c)
                              \/ UntrackFenceTask(c)
      PROVE SignalInv'
  BY <1>2 DEF FenceWaitEnds, DoSendCmd, Send, Becomes, BeforeEnqueueWaitList,
     PushWaitResp, Listed, UntrackFenceTask
<1>3. ASSUME NEW c \in Async, DoSendCmdFails(c) PROVE SignalInv'
  BY <1>3 DEF DoSendCmdFails, SendFails, Becomes, Drops
<1>4. ASSUME NEW c \in Async, SendReturns(c) PROVE SignalInv'
  BY <1>4 DEF SendReturns
<1>5. ASSUME NEW c \in Async, ErrorResponse(c) PROVE SignalInv'
  BY <1>5 DEF ErrorResponse, MoveToReady
<1>6. ASSUME NEW c \in Async, ErrorSignals(c) PROVE SignalInv'
  BY <1>6 DEF ErrorSignals, SignalResponseWaiters
<1>7. ASSUME NEW c \in Async, ResponseArrives(c) \/ ResponseTimesOut(c) PROVE SignalInv'
  BY <1>7 DEF ResponseArrives, Arrives, Becomes, ResponseTimesOut, TimesOut, Drops
<1>8. ASSUME NEW c \in Async, ProcessResponse(c) PROVE SignalInv'
  <2>1. CASE c \in processed
    BY <1>8, <2>1 DEF ProcessResponse, Handled, Becomes
  <2>2. CASE c \notin processed
    BY <1>8, <2>2 DEF ProcessResponse, MoveToReady
  <2> QED
    BY <2>1, <2>2
<1>9. ASSUME NEW c \in Async, HandlerSignals(c) PROVE SignalInv'
  BY <1>9 DEF HandlerSignals, SignalResponseWaiters, Handled, Becomes
<1>10. ASSUME NEW c \in Async, MailboxPuts(c) PROVE SignalInv'
  BY <1>10 DEF MailboxPuts, HandlerPuts, TimerPuts, Drops, ReleaseAwaiterData
<1>11. CASE GetViiResponse
  BY <1>11 DEF GetViiResponse, Drops, ReleaseAwaiterData
<1>12. CASE GroupErrored \/ Disband \/ CancelEnds
  BY <1>12 DEF GroupErrored, Disband, CancelEnds
<1>13. CASE FatalErrorNotify \/ ClearResponses
  BY <1>13 DEF FatalErrorNotify, TakePending, ClearResponses
<1>14. ASSUME NEW c \in Async, CancelAwaiter(c) PROVE SignalInv'
  BY <1>14 DEF CancelAwaiter, Cancels, CancelRemoves, CancelMisses, CancelWaits,
     Becomes, Drops, ReleaseAwaiterData
<1>15. ASSUME NEW c \in Async, PushCanceled(c) PROVE SignalInv'
  BY <1>15 DEF PushCanceled, MoveToReady
<1>16. ASSUME NEW c \in Async, CancelSignals(c) \/ StopTask(c) PROVE SignalInv'
  BY <1>16 DEF CancelSignals, SignalResponseWaiters, StopTask
<1>17. ASSUME NEW c \in Async, ClearPuts(c) PROVE SignalInv'
  BY <1>17 DEF ClearPuts, Drops, ReleaseAwaiterData
<1>18. CASE Disbanded
  BY <1>18 DEF Disbanded, ReleaseAwaiterData
<1>19. CASE UNCHANGED vars
  BY <1>19 DEF vars
<1> QED
  BY <1>1, <1>2, <1>3, <1>4, <1>5, <1>6, <1>7, <1>8, <1>9, <1>10, <1>11, <1>12, <1>13,
     <1>14, <1>15, <1>16, <1>17, <1>18, <1>19
     DEF Next, SenderStep, HandlerStep, WriterStep

\* The release does not begin to clear the lists before every sender is gone.
LEMMA NextStop == Types /\ ListInv /\ CancelInv /\ StopInv /\ [Next]_vars => StopInv'
<1> SUFFICES ASSUME Types, ListInv, CancelInv, StopInv, [Next]_vars PROVE StopInv'
  OBVIOUS
<1> USE IkvAssumption DEF Types, SenderPcs, ListInv, CancelInv, StopInv, Sender,
      GroupLocked, awaiterVars, senderVars, groupVars, listVars, signalVars, taskVars
<1>1. ASSUME NEW c \in Async, SendViiCommand(c) PROVE StopInv'
  BY <1>1 DEF SendViiCommand
<1>2. ASSUME NEW c \in Async, \/ FenceWaitEnds(c) \/ DoSendCmd(c)
                              \/ BeforeEnqueueWaitList(c) \/ PushWaitResp(c)
                              \/ UntrackFenceTask(c)
      PROVE StopInv'
  BY <1>2 DEF FenceWaitEnds, DoSendCmd, Send, BeforeEnqueueWaitList,
     PushWaitResp, Listed, UntrackFenceTask
<1>3. ASSUME NEW c \in Async, DoSendCmdFails(c) PROVE StopInv'
  <2>1. CASE vii_lock = c
    <3>1. ipc' = [ipc EXCEPT ![c] = "rejected"] /\ vii_lock' = None
      BY <1>3, <2>1 DEF DoSendCmdFails
    <3>2. UNCHANGED <<writer, status, cur, tasks, pending, taken, ready>>
      BY <1>3 DEF DoSendCmdFails
    <3> QED
      BY <2>1, <3>1, <3>2
  <2>2. CASE vii_lock # c
    BY <1>3, <2>2 DEF DoSendCmdFails
  <2> QED
    BY <2>1, <2>2
<1>4. ASSUME NEW c \in Async, SendReturns(c) PROVE StopInv'
  <2>1. CASE vii_lock = c
    <3>1. ipc' = [ipc EXCEPT ![c] = "accepted"] /\ vii_lock' = None
      BY <1>4, <2>1 DEF SendReturns
    <3>2. UNCHANGED <<writer, status, cur, tasks, pending, taken, ready>>
      BY <1>4 DEF SendReturns
    <3> QED
      BY <2>1, <3>1, <3>2
  <2>2. CASE vii_lock # c
    BY <1>4, <2>2 DEF SendReturns
  <2> QED
    BY <2>1, <2>2
<1>5. ASSUME NEW c \in Async, ErrorResponse(c) PROVE StopInv'
  BY <1>5 DEF ErrorResponse
<1>6. ASSUME NEW c \in Async, ErrorSignals(c) PROVE StopInv'
  <2>1. CASE vii_lock = c
    <3>1. ipc' = [ipc EXCEPT ![c] = "accepted"] /\ vii_lock' = None
      BY <1>6, <2>1 DEF ErrorSignals
    <3>2. UNCHANGED <<writer, status, cur, tasks, pending, taken, ready>>
      BY <1>6 DEF ErrorSignals
    <3> QED
      BY <2>1, <3>1, <3>2
  <2>2. CASE vii_lock # c
    BY <1>6, <2>2 DEF ErrorSignals
  <2> QED
    BY <2>1, <2>2
<1>7. ASSUME NEW c \in Async, ResponseArrives(c) \/ ResponseTimesOut(c) PROVE StopInv'
  BY <1>7 DEF ResponseArrives, Arrives, ResponseTimesOut, TimesOut
<1>8. ASSUME NEW c \in Async, ProcessResponse(c) PROVE StopInv'
  <2>1. CASE c \in processed
    BY <1>8, <2>1 DEF ProcessResponse, Handled, Becomes
  <2>2. CASE c \notin processed
    BY <1>8, <2>2 DEF ProcessResponse
  <2> QED
    BY <2>1, <2>2
<1>9. ASSUME NEW c \in Async, HandlerSignals(c) PROVE StopInv'
  BY <1>9 DEF HandlerSignals, Handled
<1>10. ASSUME NEW c \in Async, MailboxPuts(c) PROVE StopInv'
  BY <1>10 DEF MailboxPuts, HandlerPuts, TimerPuts, ReleaseAwaiterData
<1>11. CASE GetViiResponse
  BY <1>11 DEF GetViiResponse, ReleaseAwaiterData
<1>12. CASE GroupErrored \/ Disband \/ CancelEnds
  BY <1>12 DEF GroupErrored, Disband, CancelEnds
<1>13. CASE FatalErrorNotify \/ ClearResponses
  BY <1>13 DEF FatalErrorNotify, TakePending, ClearResponses
<1>14. ASSUME NEW c \in Async, CancelAwaiter(c) PROVE StopInv'
  BY <1>14 DEF CancelAwaiter, Cancels, CancelRemoves, CancelMisses, CancelWaits,
     ReleaseAwaiterData
<1>15. ASSUME NEW c \in Async, PushCanceled(c) PROVE StopInv'
  BY <1>15 DEF PushCanceled
<1>16. ASSUME NEW c \in Async, CancelSignals(c) \/ StopTask(c) PROVE StopInv'
  BY <1>16 DEF CancelSignals, StopTask
<1>17. ASSUME NEW c \in Async, ClearPuts(c) PROVE StopInv'
  BY <1>17 DEF ClearPuts, ReleaseAwaiterData
<1>18. CASE Disbanded
  BY <1>18 DEF Disbanded, ReleaseAwaiterData
<1>19. CASE UNCHANGED vars
  BY <1>19 DEF vars
<1> QED
  BY <1>1, <1>2, <1>3, <1>4, <1>5, <1>6, <1>7, <1>8, <1>9, <1>10, <1>11, <1>12, <1>13,
     <1>14, <1>15, <1>16, <1>17, <1>18, <1>19
     DEF Next, SenderStep, HandlerStep, WriterStep

\* A step that neither takes a command nor answers one keeps the credits.
LEMMA CreditsKept ==
  ASSUME CreditInv, credits' = credits, Spent' = Spent PROVE CreditInv'
  BY DEF CreditInv

\* A command that is refused or answered gives its credit back.
LEMMA CreditRefunded ==
  ASSUME CreditInv, NEW c \in Spent, credits' = credits + 1, Spent' = Spent \ {c}
  PROVE  CreditInv'
<1>1. IsFiniteSet(Spent') /\ Cardinality(Spent') = Cardinality(Spent) - 1
  BY FS_RemoveElement DEF CreditInv
<1>2. Cardinality(Spent) \in Nat
  BY FS_CardinalityType DEF CreditInv
<1> QED
  BY <1>1, <1>2, IkvAssumption DEF CreditInv

\* A credit is taken with a command and refunded when it is refused or answered.
LEMMA NextCredits ==
  Types /\ PhaseInv /\ ListInv /\ CancelInv /\ SignalInv /\ CreditInv /\ [Next]_vars
    => CreditInv'
<1> SUFFICES ASSUME Types, PhaseInv, ListInv, CancelInv, SignalInv, CreditInv, [Next]_vars
             PROVE CreditInv'
  OBVIOUS
<1> USE IkvAssumption DEF Types, SenderPcs, PhaseInv, ListInv, CancelInv, SignalInv,
      Sender, GroupLocked, awaiterVars, senderVars, groupVars, listVars, signalVars,
      taskVars
<1>1. ASSUME NEW c \in Async, SendViiCommand(c) PROVE CreditInv'
  <2>1. c \notin Spent /\ credits' = credits - 1 /\ credits > 0
    BY <1>1 DEF SendViiCommand, Spent
  <2>2. Spent' = Spent \cup {c}
    BY <1>1 DEF SendViiCommand, Spent
  <2>3. IsFiniteSet(Spent') /\ Cardinality(Spent') = Cardinality(Spent) + 1
    BY <2>1, <2>2, FS_AddElement DEF CreditInv
  <2>4. Cardinality(Spent) \in Nat
    BY FS_CardinalityType DEF CreditInv
  <2> QED
    BY <2>1, <2>3, <2>4 DEF CreditInv
<1>2. ASSUME NEW c \in Async, \/ FenceWaitEnds(c) \/ DoSendCmd(c)
                              \/ BeforeEnqueueWaitList(c) \/ PushWaitResp(c)
                              \/ SendReturns(c) \/ UntrackFenceTask(c)
      PROVE CreditInv'
  <2>1. Spent' = Spent /\ credits' = credits
    BY <1>2 DEF FenceWaitEnds, DoSendCmd, BeforeEnqueueWaitList, PushWaitResp, SendReturns,
       UntrackFenceTask, Spent
  <2> QED
    BY <2>1, CreditsKept
<1>3. ASSUME NEW c \in Async, DoSendCmdFails(c) PROVE CreditInv'
  <2>1. CASE vii_lock = c
    <3>1. c \in Spent /\ credits' = credits + 1
      BY <1>3, <2>1 DEF DoSendCmdFails, Spent
    <3>2. Spent' = Spent \ {c}
      BY <1>3, <2>1 DEF DoSendCmdFails, Spent
    <3> QED
      BY <3>1, <3>2, CreditRefunded
  <2>2. CASE vii_lock # c
    <3>1. Spent' = Spent /\ credits' = credits
      BY <1>3, <2>2 DEF DoSendCmdFails, Spent
    <3> QED
      BY <3>1, CreditsKept
  <2> QED
    BY <2>1, <2>2
<1>4. ASSUME NEW c \in Async, ErrorResponse(c) PROVE CreditInv'
  <2>1. Spent' = Spent /\ credits' = credits
    BY <1>4 DEF ErrorResponse, Spent
  <2> QED
    BY <2>1, CreditsKept
<1>5. ASSUME NEW c \in Async, ErrorSignals(c) PROVE CreditInv'
  <2>1. c \in Spent
    BY <1>5 DEF ErrorSignals, Spent
  <2>2. credits' = credits + 1 /\ signaled' = [signaled EXCEPT ![c] = @ + 1]
    BY <1>5 DEF ErrorSignals, SignalResponseWaiters
  <2>3. Spent' = Spent \ {c}
    BY <1>5, <2>2 DEF ErrorSignals, Spent
  <2> QED
    BY <2>1, <2>2, <2>3, CreditRefunded
<1>6. ASSUME NEW c \in Async, \/ ResponseArrives(c) \/ ResponseTimesOut(c)
                              \/ MailboxPuts(c) \/ CancelAwaiter(c) \/ StopTask(c)
                              \/ ClearPuts(c)
      PROVE CreditInv'
  <2>1. Spent' = Spent /\ credits' = credits
    BY <1>6 DEF ResponseArrives, ResponseTimesOut, MailboxPuts, CancelAwaiter,
       StopTask, ClearPuts, Spent
  <2> QED
    BY <2>1, CreditsKept
<1>7. ASSUME NEW c \in Async, ProcessResponse(c) PROVE CreditInv'
  <2>1. Spent' = Spent /\ credits' = credits
    BY <1>7 DEF ProcessResponse, Spent
  <2> QED
    BY <2>1, CreditsKept
<1>8. ASSUME NEW c \in Async, HandlerSignals(c) PROVE CreditInv'
  <2>1. c \in Spent
    BY <1>8 DEF HandlerSignals, Spent
  <2>2. credits' = credits + 1 /\ signaled' = [signaled EXCEPT ![c] = @ + 1]
    BY <1>8 DEF HandlerSignals, SignalResponseWaiters
  <2>3. Spent' = Spent \ {c}
    BY <1>8, <2>2 DEF HandlerSignals, Spent
  <2> QED
    BY <2>1, <2>2, <2>3, CreditRefunded
<1>9. CASE \/ GroupErrored \/ Disband \/ CancelEnds \/ FatalErrorNotify
           \/ ClearResponses \/ GetViiResponse \/ Disbanded
  <2>1. Spent' = Spent /\ credits' = credits
    BY <1>9 DEF GroupErrored, Disband, CancelEnds, FatalErrorNotify, ClearResponses,
       GetViiResponse, Disbanded, Spent
  <2> QED
    BY <2>1, CreditsKept
<1>10. ASSUME NEW c \in Async, PushCanceled(c) PROVE CreditInv'
  <2>1. Spent' = Spent /\ credits' = credits
    BY <1>10 DEF PushCanceled, Spent
  <2> QED
    BY <2>1, CreditsKept
<1>11. ASSUME NEW c \in Async, CancelSignals(c) PROVE CreditInv'
  <2>1. c \in Spent
    BY <1>11 DEF CancelSignals, Spent
  <2>2. credits' = credits + 1 /\ signaled' = [signaled EXCEPT ![c] = @ + 1]
    BY <1>11 DEF CancelSignals, SignalResponseWaiters
  <2>3. Spent' = Spent \ {c}
    BY <1>11, <2>2 DEF CancelSignals, Spent
  <2> QED
    BY <2>1, <2>2, <2>3, CreditRefunded
<1>12. CASE UNCHANGED vars
  <2>1. Spent' = Spent /\ credits' = credits
    BY <1>12 DEF vars, Spent
  <2> QED
    BY <2>1, CreditsKept
<1> QED
  BY <1>1, <1>2, <1>3, <1>4, <1>5, <1>6, <1>7, <1>8, <1>9, <1>10, <1>11,
     <1>12 DEF Next, SenderStep, HandlerStep, WriterStep

\* A thread leaves the list of tasks when it exits, or has been asked to stop.
LEMMA NextTasks == Types /\ TrackedTaskAlive /\ [Next]_vars => TrackedTaskAlive'
<1> SUFFICES ASSUME Types, TrackedTaskAlive, [Next]_vars
             PROVE TrackedTaskAlive'
  OBVIOUS
<1> USE DEF Types, TrackedTaskAlive, Sender
<1>1. ASSUME NEW c \in Async, SendViiCommand(c) PROVE TrackedTaskAlive'
  BY <1>1 DEF SendViiCommand
<1>2. ASSUME NEW c \in Async, FenceWaitEnds(c) PROVE TrackedTaskAlive'
  BY <1>2 DEF FenceWaitEnds, taskVars
<1>3. ASSUME NEW c \in Async, SenderStep(c) PROVE TrackedTaskAlive'
  BY <1>3 DEF SenderStep, DoSendCmd, DoSendCmdFails, BeforeEnqueueWaitList,
     PushWaitResp, SendReturns, ErrorResponse, ErrorSignals, UntrackFenceTask, taskVars
<1>4. ASSUME NEW c \in Async, ResponseArrives(c) \/ ResponseTimesOut(c)
      PROVE TrackedTaskAlive'
  BY <1>4 DEF ResponseArrives, ResponseTimesOut, taskVars, senderVars
<1>5. ASSUME NEW c \in Async, HandlerStep(c) PROVE TrackedTaskAlive'
  BY <1>5 DEF HandlerStep, ProcessResponse, HandlerSignals,
     MailboxPuts, taskVars, senderVars
<1>6. CASE GetViiResponse \/ GroupErrored \/ FatalErrorNotify \/ Disband
  BY <1>6 DEF GetViiResponse, GroupErrored, FatalErrorNotify, Disband, taskVars,
     senderVars
<1>7. CASE WriterStep
  BY <1>7 DEF WriterStep, CancelAwaiter, PushCanceled, CancelSignals, StopTask,
     ClearPuts, CancelEnds, ClearResponses, Disbanded, taskVars, senderVars
<1>8. CASE UNCHANGED vars
  BY <1>8 DEF vars, senderVars, taskVars
<1> QED
  BY <1>1, <1>2, <1>3, <1>4, <1>5, <1>6, <1>7, <1>8 DEF Next

\* Only the disband sets is_clearing_pending_commands.
LEMMA NextClearing == ClearingFlag /\ [Next]_vars => ClearingFlag'
  BY Zenon DEF ClearingFlag, Next, SenderStep, HandlerStep, WriterStep,
     SendViiCommand, FenceWaitEnds,
     DoSendCmd, DoSendCmdFails, BeforeEnqueueWaitList, PushWaitResp, SendReturns,
     ErrorResponse,
     ErrorSignals, UntrackFenceTask, ResponseArrives, ResponseTimesOut, ProcessResponse,
     HandlerSignals, MailboxPuts, GetViiResponse, GroupErrored, FatalErrorNotify,
     Disband, CancelAwaiter, PushCanceled, CancelSignals, StopTask, ClearPuts,
     CancelEnds, ClearResponses, Disbanded, taskVars, vars

-----------------------------------------------------------------------------
\* The inductive invariant of the in-kernel VII.
THEOREM IkvInductive == Spec => []IInv
<1>1. IInv /\ [Next]_vars => IInv'
  BY NextTypes, NextReady, NextPhase, NextList, NextCancel, NextHolders, NextSignals,
     NextStop, NextCredits, NextTasks DEF IInv
<1> QED
  BY <1>1, IkvInit, PTL DEF Spec

\* Every variable keeps its type; in particular no command is taken without a
\* credit that is there, and the ready list only holds commands of the group.
THEOREM IkvTypeCorrect == Spec => []TypeOK
<1>1. Init => ClearingFlag
  BY DEF Init, ClearingFlag
<1>2. Spec => []ClearingFlag
  BY <1>1, NextClearing, PTL DEF Spec
<1>3. CreditInv => credits \in 0 .. Credits
  <2> SUFFICES ASSUME CreditInv PROVE credits \in 0 .. Credits
    OBVIOUS
  <2>1. Cardinality(Spent) \in Nat
    BY FS_CardinalityType DEF CreditInv
  <2> QED
    BY <2>1, IkvAssumption DEF CreditInv
<1>4. IInv /\ ClearingFlag => TypeOK
  BY <1>3, Zenon DEF ClearingFlag, IInv, Types, ReadyInv, TypeOK
<1> QED
  BY <1>2, <1>4, IkvInductive, PTL

\* Whoever answers a command first, its credit is refunded once: the credits
\* left and the commands that wait for an answer add up, however many commands
\* there are.
THEOREM CreditsAddUp == Spec => []CreditsConserved
<1>1. IInv => CreditsConserved
  BY DEF IInv, CreditInv, CreditsConserved, Spent
<1> QED
  BY <1>1, IkvInductive, PTL

\* No list, callback, cancellation or sender reaches a response that is freed,
\* but for a sender that signals the fences of an error response.
THEOREM NothingUsesFreed == Spec => []NoUseAfterFree
<1>1. ASSUME IInv, NEW c \in gone
      PROVE  /\ hpc[c] = "idle"
             /\ phase[c] \notin {"listed", "arrived", "timedout"}
             /\ c \notin pending \cup taken \cup Elems(ready)
             /\ cur = c => writer = "stop"
             /\ ipc[c] \notin {"fence", "send", "put", "published", "error"}
  <2>1. c \in Async /\ refs[c] = {}
    BY <1>1 DEF IInv, Types, HolderInv
  <2>2. c \notin pending \cup taken \cup Elems(ready)
    BY <1>1, <2>1 DEF IInv, HolderInv
  <2>3. cur = c => writer = "stop"
    BY <2>1, <2>2, <1>1, IkvAssumption DEF IInv, CancelInv
  <2>4. phase[c] \notin {"listed", "arrived", "timedout"}
    BY <2>1, <2>2, <2>3, <1>1, IkvAssumption DEF IInv, HolderInv, CancelInv
  <2>5. hpc[c] = "idle"
    BY <2>1, <2>4, <1>1 DEF IInv, Types, CancelInv
  <2>6. ipc[c] \notin {"fence", "send", "put", "published", "error"}
    BY <2>1, <1>1 DEF IInv, HolderInv
  <2> QED
    BY <2>2, <2>3, <2>4, <2>5, <2>6
<1>2. IInv => NoUseAfterFree
  BY <1>1 DEF NoUseAfterFree, Elems
<1> QED
  BY <1>2, IkvInductive, PTL

\* A group that is disbanded has nothing in its lists, no sender on its way and
\* no reference of the driver left.
THEOREM DisbandLeavesNothing == Spec => []DisbandedIsEmpty
<1>1. ASSUME IInv, status = "disbanded", NEW c \in Async
      PROVE  /\ pending = {} /\ taken = {} /\ ready = <<>>
             /\ "driver" \notin refs[c]
             /\ ipc[c] \in {"new", "accepted", "rejected", "exited"}
  <2>1. /\ pending = {} /\ taken = {} /\ ready = <<>> /\ tasks = {} /\ vii_lock = None
    BY <1>1 DEF IInv, StopInv
  <2>2. Elems(ready) = {}
    BY <2>1 DEF Elems
  <2>3. ipc[c] \in {"new", "accepted", "rejected", "exited"}
    BY <2>1, <1>1, IkvAssumption DEF IInv, Types, SenderPcs, StopInv
  <2>4. "driver" \notin refs[c]
    BY <2>1, <2>2, <2>3, <1>1 DEF IInv, HolderInv
  <2> QED
    BY <2>1, <2>3, <2>4
<1>2. IInv /\ status = "disbanded" => pending = {} /\ taken = {} /\ ready = <<>>
  BY DEF IInv, StopInv
<1>3. IInv => DisbandedIsEmpty
  BY <1>1, <1>2 DEF DisbandedIsEmpty
<1> QED
  BY <1>3, IkvInductive, PTL

\* kthread_stop is never called for a fence thread that has exited by itself.
THEOREM StoppedTasksAlive == Spec => []TrackedTaskAlive
  BY IkvInductive, PTL DEF IInv

\* A step answers a command that a cancellation or a release has taken with
\* CANCELED or not at all.
LEMMA StepKeepsCanceled ==
  IInv /\ [Next]_vars => [\A c \in taken : code'[c] \in {code[c], "canceled"}]_vars
<1> SUFFICES ASSUME IInv, Next, NEW d \in taken
             PROVE code'[d] \in {code[d], "canceled"}
  OBVIOUS
<1> USE DEF IInv, Types, ListInv, Sender
<1>1. ASSUME NEW c \in Async, SendViiCommand(c) \/ FenceWaitEnds(c)
      PROVE code'[d] \in {code[d], "canceled"}
  BY <1>1 DEF SendViiCommand, FenceWaitEnds, listVars
<1>2. ASSUME NEW c \in Async, SenderStep(c)
      PROVE code'[d] \in {code[d], "canceled"}
  BY <1>2 DEF SenderStep, DoSendCmd, DoSendCmdFails, BeforeEnqueueWaitList,
     PushWaitResp, SendReturns, ErrorResponse, ErrorSignals, UntrackFenceTask, MoveToReady,
     listVars
<1>3. ASSUME NEW c \in Async, \/ ResponseArrives(c) \/ ResponseTimesOut(c)
                              \/ HandlerStep(c)
      PROVE code'[d] \in {code[d], "canceled"}
  BY <1>3 DEF ResponseArrives, ResponseTimesOut, HandlerStep, ProcessResponse,
     HandlerSignals, MailboxPuts, MoveToReady, listVars
<1>4. CASE \/ GetViiResponse \/ GroupErrored \/ FatalErrorNotify \/ Disband
           \/ WriterStep
  BY <1>4 DEF GetViiResponse, GroupErrored, FatalErrorNotify, Disband, WriterStep,
     CancelAwaiter, PushCanceled, CancelSignals, StopTask, ClearPuts, CancelEnds,
     ClearResponses, Disbanded, TakePending, MoveToReady, listVars
<1> QED
  BY <1>1, <1>2, <1>3, <1>4 DEF Next

\* Once edgetpu_ikv_cancel has claimed a command, neither a response nor a
\* timeout nor an error of its fence thread changes what the client will read.
THEOREM CanceledIsFinal == Spec => CanceledStays
  BY IkvInductive, StepKeepsCanceled, PTL DEF Spec, CanceledStays
=============================================================================
