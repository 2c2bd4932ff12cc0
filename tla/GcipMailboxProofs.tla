------------------------- MODULE GcipMailboxProofs -------------------------
(***************************************************************************)
(* Proofs about the mailbox: an element of the wait list is claimed by one *)
(* of its claimants only, its references are counted, a response reaches   *)
(* the command it answers, and the whole is an implementation of           *)
(* GcipAwaiter.                                                            *)
(*                                                                         *)
(* All of it rests on the numbers.  A claimant looks an element up by      *)
(* its sequence number and has to find its own: the lemmas MatchFacts to   *)
(* HandleFacts state this once, and the proofs about the actions cite them *)
(* instead of the lookup.                                                  *)
(***************************************************************************)
EXTENDS GcipMailbox, TLAPS

\* Numbers tell the commands apart, and no command has the number 0 of an awaiter
\* that has none yet: the callers take them from the counter of the KCI, or choose
\* distinct ones other than zero, or the mailbox counts and has no awaiters.
SeqUnambiguous ==
  \/ Numbering = "kci"
  \/ Numbering = "client" /\ \A c, d \in Cmds : /\ UserSeq[c] # 0
                                                /\ UserSeq[c] = UserSeq[d] => c = d
  \/ Numbering = "mailbox" /\ Async = {}

\* Commands whose number is final, and those the firmware has got.
Numbered == {c \in Cmds : pc[c] \in {"push", "write", "sent", "late", "returned"}}
Transmitted == {c \in Cmds : pc[c] \in {"sent", "late", "returned"}}

\* The sets of the variables.  A reference count may be any integer here: that it
\* is not negative follows from KrefInv.
Types ==
  /\ pc \in [Cmds -> {"new", "lock", "space", "hook", "push", "write", "sent",
                      "fail", "failed", "late", "returned"}]
  /\ txlock \in Cmds \cup {None}
  /\ cur_seq \in Nat /\ pushed \in Nat
  /\ cmd_seq \in [Cmds -> Nat \cup Cmds]
  /\ seq \in [Cmds -> Nat \cup Cmds]
  /\ place \in [Cmds -> Nat]
  /\ wait_list \subseteq Cmds /\ waiting \subseteq Cmds
  /\ kref \in [Cmds -> Int]
  /\ freed \subseteq Cmds
  /\ owner \in [Cmds -> {"none", "owns", "gone"}]
  /\ timer \in [Cmds -> {"none", "scheduled", "running", "taken", "put"}]
  /\ canceller \in [Cmds -> {"no", "del", "wait", "done"}]
  /\ completed \subseteq Cmds
  /\ calls \in [Cmds -> Nat]
  /\ early \subseteq Async
  /\ got \in [Cmds -> Cmds \cup {None}]
  /\ rxlock \in Consumers \cup {None}
  /\ cpc \in [Consumers -> {"idle", "call", "fetch", "unlock", "match",
                            "cancel", "arrived", "put"}]
  /\ hand \in [Consumers -> Async \cup {None}]
  /\ rel \in {"no", "list", "sync", "done"}
  /\ rel_list \subseteq Cmds
  /\ rel_cur \in Async \cup {None}

\* Only what was written to the command queue is answered.
QueueInv ==
  /\ tx_queue \in Seq(Transmitted) /\ rx_queue \in Seq(Transmitted)
  /\ fw \subseteq Transmitted
  /\ batch \in [Consumers -> Seq(Transmitted)]

\* Where a sender is says who holds the lock of the command queue, whose element
\* may be listed, and when the frame of a synchronous command is gone.
PlaceInv ==
  \A c \in Cmds :
    /\ pc[c] \in {"space", "hook", "push", "write"} <=> txlock = c
    /\ c \in wait_list => pc[c] \in {"write", "sent", "late"}
    /\ c \in wait_list \/ pc[c] \in {"hook", "push"} => c \in waiting
    /\ pc[c] \in {"late", "returned"} => c \in Sync
    /\ c \in rel_list => c \in Async
    /\ c \in Sync => /\ timer[c] = "none" /\ canceller[c] = "no" /\ calls[c] = 0
                     /\ kref[c] = 0 /\ c \notin completed
                     /\ c \in freed <=> pc[c] \in {"returned", "failed"}

\* Numbers tell commands apart from the moment they can be listed: the client's
\* number never changes, that of the KCI was drawn before its command asked for the
\* queue, the counter of the mailbox grows with each command that is written.
SeqInv ==
  /\ \A c \in Cmds : /\ seq[c] \in {0, cmd_seq[c]}
                     /\ c \in Numbered \/ pc[c] = "hook" => seq[c] = cmd_seq[c]
                     /\ pc[c] \in {"new", "lock", "space"} => seq[c] = 0
  /\ Numbering = "client" => \A c \in Cmds : pc[c] # "new" => cmd_seq[c] = UserSeq[c]
  /\ Numbering = "kci" =>
       /\ \A c \in Cmds : /\ cmd_seq[c] \in Nat /\ cmd_seq[c] <= cur_seq
                          /\ pc[c] # "new" => cmd_seq[c] > 0
       /\ \A c, d \in Cmds :
            pc[c] # "new" /\ pc[d] # "new" /\ cmd_seq[c] = cmd_seq[d] => c = d
  /\ Numbering = "mailbox" =>
       /\ \A c \in Cmds :
            /\ cmd_seq[c] \in Nat
            /\ pc[c] \in {"space", "hook", "push", "write"} => cmd_seq[c] = cur_seq
            /\ c \in Transmitted => cmd_seq[c] < cur_seq
       /\ \A c, d \in Transmitted : cmd_seq[c] = cmd_seq[d] => c = d
  /\ \A c \in Async : canceller[c] # "no" => c \in Numbered

\* An awaiter is in one place only: listed, on the list of the release, in the
\* hand of one consumer, taken by its timeout work, removed by its driver, or
\* called back.
ClaimInv ==
  \A c \in Async :
    /\ c \in wait_list => /\ calls[c] = 0 /\ timer[c] # "taken"
                          /\ canceller[c] # "done"
                          /\ c \notin rel_list /\ rel_cur # c
                          /\ \A t \in Consumers : hand[t] # c
    /\ c \in rel_list \/ rel_cur = c =>
         /\ rel # "no"
         /\ pc[c] = "sent" /\ calls[c] = 0 /\ timer[c] # "taken"
         /\ canceller[c] = "no"
         /\ \A t \in Consumers : hand[t] # c
    /\ rel_cur = c => c \notin rel_list
    /\ \A t \in Consumers :
         hand[t] = c =>
           /\ pc[c] \in {"write", "sent"} /\ timer[c] # "taken"
           /\ cpc[t] \in {"cancel", "arrived", "put"}
           /\ cpc[t] # "put" => calls[c] = 0 /\ canceller[c] # "done"
           /\ cpc[t] = "put" => calls[c] # 0
           /\ \A u \in Consumers : hand[u] = c => u = t
    /\ timer[c] = "taken" => /\ pc[c] \in {"write", "sent"} /\ calls[c] = 0
                             /\ canceller[c] # "done"
    /\ c \in completed <=> calls[c] # 0
    /\ canceller[c] = "done" \/ calls[c] # 0 => pc[c] \in {"write", "sent"}
    /\ canceller[c] # "no" => pc[c] \in {"push", "write", "sent"}

\* A consumer that handles an arrived response has its awaiter in hand, and the
\* release works on one awaiter only while it flushes them.
HandInv ==
  /\ \A t \in Consumers : cpc[t] \in {"cancel", "arrived", "put"} => hand[t] \in Async
  /\ rel # "sync" => rel_cur = None

\* The driver keeps its reference until the awaiter is settled.
OwnerInv ==
  \A c \in Async :
    /\ owner[c] = "none" <=> pc[c] = "new"
    /\ owner[c] = "gone" => \/ pc[c] = "failed" \/ calls[c] # 0 \/ canceller[c] = "done"
                            \/ InCallback(c)
    /\ canceller[c] \in {"del", "wait"} => owner[c] = "owns"
    /\ rel_cur = c => owner[c] = "owns"
    /\ pc[c] \in {"new", "failed"} => timer[c] = "none"

\* No command was given the response of another.
OwnInv == \A c \in Cmds : got[c] \in {c, None}

\* The count is the number of the holders, and the awaiter is freed when it is
\* zero.
KrefInv ==
  \A c \in Async : /\ kref[c] = Owned(c) + Timed(c) + Listed(c) + Handled(c)
                   /\ c \in freed <=> pc[c] # "new" /\ kref[c] = 0

\* The flag of the interrupt, apart from the rest of the types.
IrqFlag == irq \in BOOLEAN

\* The inductive invariant.
IInv == /\ SeqUnambiguous /\ Types /\ QueueInv /\ PlaceInv /\ SeqInv /\ ClaimInv
        /\ HandInv /\ OwnerInv /\ OwnInv /\ KrefInv

-----------------------------------------------------------------------------
\* Asynchronous commands are commands.
LEMMA AsyncFact == Async \subseteq Cmds
  BY DEF Cmds

\* The two consumers.
LEMMA ConsumerFact == "irq" \in Consumers /\ "flush" \in Consumers
  BY DEF Consumers

\* Whoever looks for the number of a command finds its element or none.
LEMMA MatchFacts ==
  ASSUME IInv, NEW c \in Cmds, Numbering # "mailbox" \/ c \in Numbered
  PROVE  /\ Matching(seq[c]) = wait_list \cap {c}
         /\ c \in wait_list => FirstMatch(seq[c]) = c
<1> USE MailboxAssumption
<1>1. SeqUnambiguous /\ Types /\ PlaceInv /\ SeqInv
  BY DEF IInv
<1>2. \A d \in Cmds : pc[d] \in {"push", "write"} => txlock = d
  BY DEF IInv, PlaceInv
<1>3. ASSUME NEW m \in wait_list, seq[m] = seq[c] PROVE m = c
  <2>1. m \in Cmds /\ m \in Numbered /\ pc[m] \in {"write", "sent", "late"}
    BY <1>1 DEF Types, PlaceInv, Numbered
  <2>2. CASE Numbering # "mailbox"
    <3>1. pc[m] # "new" /\ seq[m] = cmd_seq[m] /\ cmd_seq[m] # 0
      BY <1>1, <2>1, <2>2 DEF SeqUnambiguous, SeqInv
    <3>2. seq[c] = cmd_seq[c] /\ pc[c] # "new"
      BY <1>1, <1>3, <3>1 DEF SeqInv
    <3>3. cmd_seq[m] = cmd_seq[c]
      BY <3>1, <3>2, <1>3
    <3> QED
      BY <1>1, <2>1, <2>2, <3>1, <3>2, <3>3 DEF SeqUnambiguous, SeqInv
  <2>3. CASE Numbering = "mailbox"
    <3>1. c \in Numbered
      BY <2>3
    <3>2. m \in Transmitted \/ (pc[m] = "write" /\ txlock = m)
      BY <2>1, <1>2 DEF Transmitted
    <3>3. c \in Transmitted \/ (pc[c] \in {"push", "write"} /\ txlock = c)
      BY <3>1, <1>2 DEF Numbered, Transmitted
    <3> QED
      BY <3>2, <3>3, <2>1, <2>3, <1>1, <1>3 DEF SeqInv, Types
  <2> QED
    BY <2>2, <2>3
<1>4. Matching(seq[c]) = wait_list \cap {c}
  BY <1>3 DEF Matching
<1>5. ASSUME c \in wait_list PROVE FirstMatch(seq[c]) = c
  <2>1. Matching(seq[c]) = {c}
    BY <1>4, <1>5
  <2>2. place[c] <= place[c]
    BY <1>1 DEF Types
  <2> QED
    BY <2>1, <2>2 DEF FirstMatch
<1> QED
  BY <1>4, <1>5

\* gcip_mailbox_del_wait_resp of a command removes its own element.
LEMMA DelFacts ==
  ASSUME IInv, NEW c \in Async, Numbering # "mailbox" \/ c \in Numbered
  PROVE  /\ DelWaitResp(c) => /\ c \in wait_list /\ wait_list' = wait_list \ {c}
                              /\ UNCHANGED waiting /\ PutRef(c)
         /\ Matching(seq[c]) = {} => c \notin wait_list
<1>1. /\ Matching(seq[c]) = wait_list \cap {c}
      /\ c \in wait_list => FirstMatch(seq[c]) = c
  BY MatchFacts, AsyncFact
<1>2. ASSUME DelWaitResp(c) PROVE c \in wait_list /\ FirstMatch(seq[c]) = c
  BY <1>1, <1>2 DEF DelWaitResp
<1>3. DelWaitResp(c) => /\ wait_list' = wait_list \ {c}
                        /\ UNCHANGED waiting /\ PutRef(c)
  BY <1>2 DEF DelWaitResp
<1> QED
  BY <1>1, <1>2, <1>3

\* The timeout work claims its own awaiter, or finds it claimed.
LEMMA TimeoutFacts ==
  ASSUME IInv, NEW c \in Async, TimeoutDelWaitResp(c)
  PROVE  /\ timer[c] = "running"
         /\ \/ /\ c \in wait_list /\ wait_list' = wait_list \ {c}
               /\ timer' = [timer EXCEPT ![c] = "taken"] /\ PutRef(c)
               /\ UNCHANGED early
            \/ /\ c \notin wait_list /\ UNCHANGED wait_list
               /\ timer' = [timer EXCEPT ![c] = "put"] /\ NoRef
               /\ early' = IF Unlisted(c) THEN early \cup {c} ELSE early
         /\ UNCHANGED <<sendVars, waiting, owner, canceller, completed, calls, got,
                        hwVars, conVars, relVars>>
<1>1. timer[c] = "running"
  BY DEF TimeoutDelWaitResp, Work
<1>2. Numbering # "mailbox" \/ c \in Numbered
  BY DEF IInv, SeqUnambiguous
<1>3. CASE DelWaitResp(c) /\ Work(c, "running", "taken")
  BY <1>1, <1>2, <1>3, DelFacts DEF TimeoutDelWaitResp, Work
<1>4. CASE /\ Matching(seq[c]) = {}
           /\ Work(c, "running", "put")
           /\ UNCHANGED listVars /\ NoRef
  BY <1>1, <1>2, <1>4, DelFacts DEF TimeoutDelWaitResp, Work, listVars
<1> QED
  BY <1>3, <1>4 DEF TimeoutDelWaitResp

\* The driver that cancels claims its own awaiter, or finds it claimed.
LEMMA CancelFacts ==
  ASSUME IInv, NEW c \in Async, CancelDelWaitResp(c)
  PROVE  /\ canceller[c] = "del"
         /\ \/ /\ c \in wait_list /\ wait_list' = wait_list \ {c}
               /\ canceller' = [canceller EXCEPT ![c] = "done"] /\ PutRef(c)
            \/ /\ c \notin wait_list /\ UNCHANGED wait_list
               /\ canceller' = [canceller EXCEPT ![c] = "wait"] /\ NoRef
         /\ UNCHANGED <<sendVars, waiting, owner, timer, cbVars, got, hwVars, conVars,
                        relVars>>
<1>1. canceller[c] = "del"
  BY DEF CancelDelWaitResp, Cancel
<1>2. Numbering # "mailbox" \/ c \in Numbered
  BY <1>1 DEF IInv, SeqInv
<1>3. CASE DelWaitResp(c) /\ Cancel(c, "del", "done")
  BY <1>1, <1>2, <1>3, DelFacts DEF CancelDelWaitResp, Cancel
<1>4. CASE /\ Matching(seq[c]) = {}
           /\ Cancel(c, "del", "wait")
           /\ UNCHANGED listVars /\ NoRef
  BY <1>1, <1>2, <1>4, DelFacts DEF CancelDelWaitResp, Cancel, listVars
<1> QED
  BY <1>3, <1>4 DEF CancelDelWaitResp

\* A synchronous sender that gives up takes its own element off the list.
LEMMA SyncFacts ==
  ASSUME IInv, NEW c \in Cmds, SyncDelWaitResp(c)
  PROVE  /\ c \in Sync /\ pc[c] = "late" /\ pc' = [pc EXCEPT ![c] = "returned"]
         /\ wait_list' = wait_list \ {c}
         /\ freed' = freed \cup {c}
         /\ UNCHANGED <<txlock, cur_seq, cmd_seq, seq, pushed, place, waiting, kref, owner,
                        timer, canceller, cbVars, got, hwVars, conVars, relVars>>
<1> DEFINE found == {m \in Matching(seq[c]) : m = FirstMatch(seq[c])}
<1>1. c \in Sync /\ pc[c] = "late" /\ pc' = [pc EXCEPT ![c] = "returned"]
  BY DEF SyncDelWaitResp, Goto, IInv, PlaceInv
<1>2. /\ Matching(seq[c]) = wait_list \cap {c}
      /\ c \in wait_list => FirstMatch(seq[c]) = c
  BY <1>1, MatchFacts DEF Numbered
<1>3. found = wait_list \cap {c}
  BY <1>2
<1>4. found \cap Async = {}
  BY <1>3, <1>1, MailboxAssumption
<1>5. /\ wait_list' = wait_list \ found
      /\ kref' = [m \in Cmds |-> IF m \in found \cap Async THEN kref[m] - 1
                                                            ELSE kref[m]]
      /\ freed' = freed \cup {c} \cup {m \in found \cap Async : kref[m] = 1}
  BY DEF SyncDelWaitResp
<1> HIDE DEF found
<1>6. kref' = kref
  BY <1>4, <1>5 DEF IInv, Types
<1> QED
  BY <1>1, <1>3, <1>4, <1>5, <1>6 DEF SyncDelWaitResp

\* What gcip_mailbox_handle_response does when it matches by command.
Handles(t, r) ==
  /\ cpc[t] = "match"
  /\ Tail(batch[t]) \in Seq(Transmitted)
  /\ batch' = [batch EXCEPT ![t] = Tail(batch[t])]
  /\ \/ r \notin wait_list /\ UNCHANGED <<wait_list, waiting, got, cpc, hand>>
     \/ /\ r \in wait_list
        /\ wait_list' = wait_list \ {r}
        /\ waiting' = waiting \ {r}
        /\ got' = [got EXCEPT ![r] = r]
        /\ IF r \in Async THEN /\ cpc' = [cpc EXCEPT ![t] = "cancel"]
                               /\ hand' = [hand EXCEPT ![t] = r]
                          ELSE UNCHANGED <<cpc, hand>>
  /\ UNCHANGED <<sendVars, refVars, timer, canceller, cbVars, hwVars, rxlock, relVars>>

\* A response is handed to the command it answers, or to nobody.
LEMMA HandleFacts ==
  ASSUME IInv, NEW t \in Consumers, HandleResponse(t)
  PROVE  \E r \in Transmitted : Handles(t, r)
<1> DEFINE r == Head(batch[t])
<1>1. batch[t] \in Seq(Transmitted) /\ batch[t] # <<>>
  BY DEF IInv, QueueInv, HandleResponse
<1>2. r \in Transmitted /\ Tail(batch[t]) \in Seq(Transmitted)
  BY <1>1
<1>3. r \in Cmds /\ r \in Numbered
  BY <1>2 DEF Transmitted, Numbered
<1>4. /\ Matching(cmd_seq[r]) = wait_list \cap {r}
      /\ r \in wait_list => FirstMatch(cmd_seq[r]) = r
  <2>1. cmd_seq[r] = seq[r]
    BY <1>3 DEF IInv, SeqInv
  <2>2. /\ Matching(seq[r]) = wait_list \cap {r}
        /\ r \in wait_list => FirstMatch(seq[r]) = r
    BY <1>3, MatchFacts
  <2> QED
    BY <2>1, <2>2
<1>5. /\ cpc[t] = "match"
      /\ batch' = [batch EXCEPT ![t] = Tail(batch[t])]
      /\ UNCHANGED <<sendVars, refVars, timer, canceller, cbVars, hwVars, rxlock,
                     relVars>>
  BY DEF HandleResponse
<1>6. IF Matching(cmd_seq[r]) = {}
        THEN UNCHANGED <<wait_list, waiting, got, cpc, hand>>
        ELSE /\ wait_list' = wait_list \ {FirstMatch(cmd_seq[r])}
             /\ waiting' = waiting \ {FirstMatch(cmd_seq[r])}
             /\ got' = [got EXCEPT ![FirstMatch(cmd_seq[r])] = r]
             /\ IF FirstMatch(cmd_seq[r]) \in Async
                  THEN /\ cpc' = [cpc EXCEPT ![t] = "cancel"]
                       /\ hand' = [hand EXCEPT ![t] = FirstMatch(cmd_seq[r])]
                  ELSE UNCHANGED <<cpc, hand>>
  BY DEF HandleResponse, listVars
<1> HIDE DEF r
<1>7. Handles(t, r)
  BY <1>2, <1>4, <1>5, <1>6 DEF Handles
<1> QED
  BY <1>2, <1>7

\* At the start no awaiter exists and everything is idle.
LEMMA MailboxInit == Init /\ SeqUnambiguous => IInv
<1> SUFFICES ASSUME Init, SeqUnambiguous PROVE IInv
  OBVIOUS
<1> USE MailboxAssumption, AsyncFact DEF Init
<1>1. Transmitted = {} /\ Numbered = {}
  BY DEF Transmitted, Numbered
<1>2. Types /\ HandInv
  BY DEF Types, HandInv
<1>3. QueueInv
  BY DEF QueueInv
<1>4. PlaceInv
  BY DEF PlaceInv
<1>5. SeqInv
  BY <1>1 DEF SeqInv
<1>6. ClaimInv /\ OwnerInv
  BY DEF ClaimInv, OwnerInv
<1>7. OwnInv /\ KrefInv
  BY DEF OwnInv, KrefInv, Owned, Timed, Listed, Handled
<1> QED
  BY <1>2, <1>3, <1>4, <1>5, <1>6, <1>7 DEF IInv

\* Every step keeps the variables in their sets.
LEMMA NextTypes == IInv /\ [Next]_vars => Types'
<1> SUFFICES ASSUME IInv, [Next]_vars PROVE Types'
  OBVIOUS
<1>1. Types /\ HandInv /\ PlaceInv
  BY DEF IInv
<1> USE <1>1, MailboxAssumption, AsyncFact, ConsumerFact DEF Types, HandInv, Goto,
      Consume, Work, Cancel, sendVars, listVars, refVars, cbVars, hwVars, conVars,
      relVars
<1>2. ASSUME NEW c \in Cmds, Create(c) PROVE Types'
  BY <1>2 DEF Create, CallerNumbers
<1>3. ASSUME NEW c \in Cmds, AcquireTxLock(c) PROVE Types'
  BY <1>3 DEF AcquireTxLock
<1>4. ASSUME NEW c \in Cmds, TxNotFull(c) PROVE Types'
  BY <1>4 DEF TxNotFull
<1>5. ASSUME NEW c \in Cmds, EnqueueFails(c) PROVE Types'
  BY <1>5 DEF EnqueueFails
<1>6. ASSUME NEW c \in Cmds, BeforeEnqueueWaitList(c) PROVE Types'
  BY <1>6 DEF BeforeEnqueueWaitList
<1>7. ASSUME NEW c \in Cmds, PushWaitResp(c) PROVE Types'
  BY <1>7 DEF PushWaitResp, GetRef, NoRef
<1>8. ASSUME NEW c \in Cmds, WriteCmd(c) PROVE Types'
  BY <1>8 DEF WriteCmd
<1>9. ASSUME NEW c \in Cmds, EnqueueCleanup(c) PROVE Types'
  BY <1>9 DEF EnqueueCleanup
<1>10. ASSUME NEW c \in Cmds, SyncReturns(c) PROVE Types'
  BY <1>10 DEF SyncReturns
<1>11. ASSUME NEW c \in Cmds, SyncTimesOut(c) PROVE Types'
  BY <1>11 DEF SyncTimesOut
<1>12. ASSUME NEW c \in Cmds, SyncDelWaitResp(c) PROVE Types'
  BY <1>12, SyncFacts
<1>13. CASE FirmwareTakes
  BY <1>13 DEF FirmwareTakes
<1>14. ASSUME NEW c \in Cmds, FirmwareResponds(c) PROVE Types'
  BY <1>14 DEF FirmwareResponds
<1>15. CASE IrqHandler
  BY <1>15 DEF IrqHandler
<1>16. CASE ConsumeResponses
  BY <1>16 DEF ConsumeResponses
<1>17. CASE AcquireRxLock
  BY <1>17 DEF AcquireRxLock
<1>18. ASSUME NEW t \in Consumers, FetchResponses(t) PROVE Types'
  BY <1>18 DEF FetchResponses
<1>19. ASSUME NEW t \in Consumers, FetchEnds(t) PROVE Types'
  BY <1>19 DEF FetchEnds
<1>20. ASSUME NEW t \in Consumers, ReleaseRxLock(t) PROVE Types'
  BY <1>20 DEF ReleaseRxLock
<1>21. ASSUME NEW t \in Consumers, HandleResponse(t) PROVE Types'
  <2>1. PICK r \in Transmitted : Handles(t, r)
    BY <1>21, HandleFacts
  <2>2. r \in Cmds
    BY DEF Transmitted
  <2>3. CASE r \in wait_list
    <3>1. /\ wait_list' = wait_list \ {r} /\ waiting' = waiting \ {r}
          /\ got' = [got EXCEPT ![r] = r] /\ cpc[t] = "match"
          /\ \/ /\ r \in Async /\ cpc' = [cpc EXCEPT ![t] = "cancel"]
                /\ hand' = [hand EXCEPT ![t] = r]
             \/ r \notin Async /\ UNCHANGED <<cpc, hand>>
          /\ UNCHANGED <<sendVars, refVars, timer, canceller, cbVars, hwVars, rxlock,
                         relVars>>
      BY <2>1, <2>3 DEF Handles
    <3> QED
      BY <2>2, <2>3, <3>1
  <2>4. CASE r \notin wait_list
    BY <2>1, <2>4 DEF Handles
  <2> QED
    BY <2>3, <2>4
<1>22. ASSUME NEW t \in Consumers, HandlerCancelsTimer(t) PROVE Types'
  BY <1>22 DEF HandlerCancelsTimer, CancelTimeoutWork, PutRef, NoRef
<1>23. ASSUME NEW t \in Consumers, HandleArrived(t) PROVE Types'
  BY <1>23 DEF HandleArrived, Callback
<1>24. ASSUME NEW t \in Consumers, HandlerPuts(t) PROVE Types'
  BY <1>24 DEF HandlerPuts, PutRef
<1>25. ASSUME NEW t \in Consumers, ConsumeReturns(t) PROVE Types'
  BY <1>25 DEF ConsumeReturns
<1>26. ASSUME NEW c \in Async, TimerExpires(c) PROVE Types'
  BY <1>26 DEF TimerExpires
<1>27. ASSUME NEW c \in Async, TimeoutDelWaitResp(c) PROVE Types'
  BY <1>27, TimeoutFacts DEF PutRef, NoRef
<1>28. ASSUME NEW c \in Async, HandleTimedout(c) PROVE Types'
  BY <1>28 DEF HandleTimedout, Callback
<1>29. ASSUME NEW c \in Async, TimeoutPuts(c) PROVE Types'
  BY <1>29 DEF TimeoutPuts, PutRef
<1>30. ASSUME NEW c \in Async, CancelAwaiter(c) PROVE Types'
  BY <1>30 DEF CancelAwaiter, MayCancel, Published, CancelTimeoutWork, PutRef, NoRef
<1>31. ASSUME NEW c \in Async, CancelDelWaitResp(c) PROVE Types'
  BY <1>31, CancelFacts DEF PutRef, NoRef
<1>32. ASSUME NEW c \in Async, CancelWaits(c) PROVE Types'
  BY <1>32 DEF CancelWaits
<1>33. ASSUME NEW c \in Async, OwnerPuts(c) PROVE Types'
  BY <1>33 DEF OwnerPuts, Settled, InCallback, PutRef
<1>34. CASE ReleaseStart
  BY <1>34 DEF ReleaseStart
<1>35. ASSUME NEW c \in Async, ReleasePuts(c) PROVE Types'
  BY <1>35 DEF ReleasePuts, PutRef
<1>36. ASSUME NEW c \in Async, ReleaseFlushes(c) PROVE Types'
  BY <1>36 DEF ReleaseFlushes, Callback
<1>37. CASE ReleaseEnds
  BY <1>37 DEF ReleaseEnds
<1>38. CASE UNCHANGED vars
  BY <1>38 DEF vars
<1> QED
  BY <1>2, <1>3, <1>4, <1>5, <1>6, <1>7, <1>8, <1>9, <1>10, <1>11, <1>12, <1>13, <1>14,
     <1>15, <1>16, <1>17, <1>18, <1>19, <1>20, <1>21, <1>22, <1>23, <1>24, <1>25,
     <1>26, <1>27, <1>28, <1>29, <1>30, <1>31, <1>32, <1>33, <1>34, <1>35, <1>36,
     <1>37, <1>38, AsyncFact
     DEF Next, SenderStep, ConsumerStep, TimeoutStep, DriverStep

\* A consumer with a response in hand holds an awaiter.
LEMMA NextHand == IInv /\ [Next]_vars => HandInv'
<1> SUFFICES ASSUME IInv, [Next]_vars PROVE HandInv'
  OBVIOUS
<1>1. Types /\ HandInv
  BY DEF IInv
<1> USE <1>1, MailboxAssumption, AsyncFact, ConsumerFact DEF Types, HandInv, Goto,
      Consume, Work, Cancel, sendVars, listVars, refVars, cbVars, hwVars, conVars,
      relVars
<1>2. ASSUME NEW c \in Cmds, Create(c) PROVE HandInv'
  BY <1>2 DEF Create
<1>3. ASSUME NEW c \in Cmds, AcquireTxLock(c) PROVE HandInv'
  BY <1>3 DEF AcquireTxLock
<1>4. ASSUME NEW c \in Cmds, TxNotFull(c) PROVE HandInv'
  BY <1>4 DEF TxNotFull
<1>5. ASSUME NEW c \in Cmds, EnqueueFails(c) PROVE HandInv'
  BY <1>5 DEF EnqueueFails
<1>6. ASSUME NEW c \in Cmds, BeforeEnqueueWaitList(c) PROVE HandInv'
  BY <1>6 DEF BeforeEnqueueWaitList
<1>7. ASSUME NEW c \in Cmds, PushWaitResp(c) PROVE HandInv'
  BY <1>7 DEF PushWaitResp, GetRef, NoRef
<1>8. ASSUME NEW c \in Cmds, WriteCmd(c) PROVE HandInv'
  BY <1>8 DEF WriteCmd
<1>9. ASSUME NEW c \in Cmds, EnqueueCleanup(c) PROVE HandInv'
  BY <1>9 DEF EnqueueCleanup
<1>10. ASSUME NEW c \in Cmds, SyncReturns(c) PROVE HandInv'
  BY <1>10 DEF SyncReturns
<1>11. ASSUME NEW c \in Cmds, SyncTimesOut(c) PROVE HandInv'
  BY <1>11 DEF SyncTimesOut
<1>12. ASSUME NEW c \in Cmds, SyncDelWaitResp(c) PROVE HandInv'
  BY <1>12, SyncFacts
<1>13. CASE FirmwareTakes
  BY <1>13 DEF FirmwareTakes
<1>14. ASSUME NEW c \in Cmds, FirmwareResponds(c) PROVE HandInv'
  BY <1>14 DEF FirmwareResponds
<1>15. CASE IrqHandler
  BY <1>15 DEF IrqHandler
<1>16. CASE ConsumeResponses
  BY <1>16 DEF ConsumeResponses
<1>17. CASE AcquireRxLock
  BY <1>17 DEF AcquireRxLock
<1>18. ASSUME NEW t \in Consumers, FetchResponses(t) PROVE HandInv'
  BY <1>18 DEF FetchResponses
<1>19. ASSUME NEW t \in Consumers, FetchEnds(t) PROVE HandInv'
  BY <1>19 DEF FetchEnds
<1>20. ASSUME NEW t \in Consumers, ReleaseRxLock(t) PROVE HandInv'
  BY <1>20 DEF ReleaseRxLock
<1>21. ASSUME NEW t \in Consumers, HandleResponse(t) PROVE HandInv'
  <2>1. PICK r \in Transmitted : Handles(t, r)
    BY <1>21, HandleFacts
  <2>2. r \in Cmds
    BY DEF Transmitted
  <2>3. CASE r \in wait_list
    <3>1. /\ wait_list' = wait_list \ {r} /\ waiting' = waiting \ {r}
          /\ got' = [got EXCEPT ![r] = r] /\ cpc[t] = "match"
          /\ \/ /\ r \in Async /\ cpc' = [cpc EXCEPT ![t] = "cancel"]
                /\ hand' = [hand EXCEPT ![t] = r]
             \/ r \notin Async /\ UNCHANGED <<cpc, hand>>
          /\ UNCHANGED <<sendVars, refVars, timer, canceller, cbVars, hwVars, rxlock,
                         relVars>>
      BY <2>1, <2>3 DEF Handles
    <3> QED
      BY <2>2, <2>3, <3>1
  <2>4. CASE r \notin wait_list
    BY <2>1, <2>4 DEF Handles
  <2> QED
    BY <2>3, <2>4
<1>22. ASSUME NEW t \in Consumers, HandlerCancelsTimer(t) PROVE HandInv'
  BY <1>22 DEF HandlerCancelsTimer, CancelTimeoutWork, PutRef, NoRef
<1>23. ASSUME NEW t \in Consumers, HandleArrived(t) PROVE HandInv'
  BY <1>23 DEF HandleArrived, Callback
<1>24. ASSUME NEW t \in Consumers, HandlerPuts(t) PROVE HandInv'
  BY <1>24 DEF HandlerPuts, PutRef
<1>25. ASSUME NEW t \in Consumers, ConsumeReturns(t) PROVE HandInv'
  BY <1>25 DEF ConsumeReturns
<1>26. ASSUME NEW c \in Async, TimerExpires(c) PROVE HandInv'
  BY <1>26 DEF TimerExpires
<1>27. ASSUME NEW c \in Async, TimeoutDelWaitResp(c) PROVE HandInv'
  BY <1>27, TimeoutFacts DEF PutRef, NoRef
<1>28. ASSUME NEW c \in Async, HandleTimedout(c) PROVE HandInv'
  BY <1>28 DEF HandleTimedout, Callback
<1>29. ASSUME NEW c \in Async, TimeoutPuts(c) PROVE HandInv'
  BY <1>29 DEF TimeoutPuts, PutRef
<1>30. ASSUME NEW c \in Async, CancelAwaiter(c) PROVE HandInv'
  BY <1>30 DEF CancelAwaiter, MayCancel, Published, CancelTimeoutWork, PutRef, NoRef
<1>31. ASSUME NEW c \in Async, CancelDelWaitResp(c) PROVE HandInv'
  BY <1>31, CancelFacts DEF PutRef, NoRef
<1>32. ASSUME NEW c \in Async, CancelWaits(c) PROVE HandInv'
  BY <1>32 DEF CancelWaits
<1>33. ASSUME NEW c \in Async, OwnerPuts(c) PROVE HandInv'
  BY <1>33 DEF OwnerPuts, Settled, InCallback, PutRef
<1>34. CASE ReleaseStart
  BY <1>34 DEF ReleaseStart
<1>35. ASSUME NEW c \in Async, ReleasePuts(c) PROVE HandInv'
  BY <1>35 DEF ReleasePuts, PutRef
<1>36. ASSUME NEW c \in Async, ReleaseFlushes(c) PROVE HandInv'
  BY <1>36 DEF ReleaseFlushes, Callback
<1>37. CASE ReleaseEnds
  BY <1>37 DEF ReleaseEnds
<1>38. CASE UNCHANGED vars
  BY <1>38 DEF vars
<1> QED
  BY <1>2, <1>3, <1>4, <1>5, <1>6, <1>7, <1>8, <1>9, <1>10, <1>11, <1>12, <1>13, <1>14,
     <1>15, <1>16, <1>17, <1>18, <1>19, <1>20, <1>21, <1>22, <1>23, <1>24, <1>25,
     <1>26, <1>27, <1>28, <1>29, <1>30, <1>31, <1>32, <1>33, <1>34, <1>35, <1>36,
     <1>37, <1>38, AsyncFact
     DEF Next, SenderStep, ConsumerStep, TimeoutStep, DriverStep

\* The senders and the lock of the command queue stay where they belong.
LEMMA NextPlace == IInv /\ [Next]_vars => PlaceInv'
<1> SUFFICES ASSUME IInv, [Next]_vars PROVE PlaceInv'
  OBVIOUS
<1>1. Types /\ PlaceInv /\ HandInv /\ ClaimInv
  BY DEF IInv
<1> USE <1>1, MailboxAssumption, AsyncFact, ConsumerFact DEF Types, HandInv, PlaceInv,
      Goto, Consume, Work, Cancel, sendVars, listVars, refVars, cbVars, hwVars,
      conVars, relVars
<1>2. ASSUME NEW c \in Cmds, Create(c) PROVE PlaceInv'
  BY <1>2 DEF Create
<1>3. ASSUME NEW c \in Cmds, AcquireTxLock(c) PROVE PlaceInv'
  BY <1>3 DEF AcquireTxLock
<1>4. ASSUME NEW c \in Cmds, TxNotFull(c) PROVE PlaceInv'
  BY <1>4 DEF TxNotFull
<1>5. ASSUME NEW c \in Cmds, EnqueueFails(c) PROVE PlaceInv'
  <2>1. CASE Goto(c, "space", "fail")
    BY <1>5, <2>1 DEF EnqueueFails
  <2>2. CASE Goto(c, "hook", "fail")
    BY <1>5, <2>2 DEF EnqueueFails
  <2> QED
    BY <1>5, <2>1, <2>2 DEF EnqueueFails
<1>6. ASSUME NEW c \in Cmds, BeforeEnqueueWaitList(c) PROVE PlaceInv'
  BY <1>6 DEF BeforeEnqueueWaitList
<1>7. ASSUME NEW c \in Cmds, PushWaitResp(c) PROVE PlaceInv'
  BY <1>7 DEF PushWaitResp, GetRef, NoRef
<1>8. ASSUME NEW c \in Cmds, WriteCmd(c) PROVE PlaceInv'
  BY <1>8 DEF WriteCmd
<1>9. ASSUME NEW c \in Cmds, EnqueueCleanup(c) PROVE PlaceInv'
  BY <1>9 DEF EnqueueCleanup
<1>10. ASSUME NEW c \in Cmds, SyncReturns(c) PROVE PlaceInv'
  BY <1>10 DEF SyncReturns
<1>11. ASSUME NEW c \in Cmds, SyncTimesOut(c) PROVE PlaceInv'
  BY <1>11 DEF SyncTimesOut
<1>12. ASSUME NEW c \in Cmds, SyncDelWaitResp(c) PROVE PlaceInv'
  BY <1>12, SyncFacts
<1>13. CASE FirmwareTakes
  BY <1>13 DEF FirmwareTakes
<1>14. ASSUME NEW c \in Cmds, FirmwareResponds(c) PROVE PlaceInv'
  BY <1>14 DEF FirmwareResponds
<1>15. CASE IrqHandler
  BY <1>15 DEF IrqHandler
<1>16. CASE ConsumeResponses
  BY <1>16 DEF ConsumeResponses
<1>17. CASE AcquireRxLock
  BY <1>17 DEF AcquireRxLock
<1>18. ASSUME NEW t \in Consumers, FetchResponses(t) PROVE PlaceInv'
  BY <1>18 DEF FetchResponses
<1>19. ASSUME NEW t \in Consumers, FetchEnds(t) PROVE PlaceInv'
  BY <1>19 DEF FetchEnds
<1>20. ASSUME NEW t \in Consumers, ReleaseRxLock(t) PROVE PlaceInv'
  BY <1>20 DEF ReleaseRxLock
<1>21. ASSUME NEW t \in Consumers, HandleResponse(t) PROVE PlaceInv'
  <2>1. PICK r \in Transmitted : Handles(t, r)
    BY <1>21, HandleFacts
  <2>2. r \in Cmds
    BY DEF Transmitted
  <2>3. CASE r \in wait_list
    <3>1. /\ wait_list' = wait_list \ {r} /\ waiting' = waiting \ {r}
          /\ got' = [got EXCEPT ![r] = r] /\ cpc[t] = "match"
          /\ \/ /\ r \in Async /\ cpc' = [cpc EXCEPT ![t] = "cancel"]
                /\ hand' = [hand EXCEPT ![t] = r]
             \/ r \notin Async /\ UNCHANGED <<cpc, hand>>
          /\ UNCHANGED <<sendVars, refVars, timer, canceller, cbVars, hwVars, rxlock,
                         relVars>>
      BY <2>1, <2>3 DEF Handles
    <3> QED
      BY <2>2, <2>3, <3>1
  <2>4. CASE r \notin wait_list
    BY <2>1, <2>4 DEF Handles
  <2> QED
    BY <2>3, <2>4
<1>22. ASSUME NEW t \in Consumers, HandlerCancelsTimer(t) PROVE PlaceInv'
  BY <1>22 DEF HandlerCancelsTimer, CancelTimeoutWork, PutRef, NoRef
<1>23. ASSUME NEW t \in Consumers, HandleArrived(t) PROVE PlaceInv'
  BY <1>23 DEF HandleArrived, Callback
<1>24. ASSUME NEW t \in Consumers, HandlerPuts(t) PROVE PlaceInv'
  BY <1>24 DEF HandlerPuts, PutRef
<1>25. ASSUME NEW t \in Consumers, ConsumeReturns(t) PROVE PlaceInv'
  BY <1>25 DEF ConsumeReturns
<1>26. ASSUME NEW c \in Async, TimerExpires(c) PROVE PlaceInv'
  BY <1>26 DEF TimerExpires
<1>27. ASSUME NEW c \in Async, TimeoutDelWaitResp(c) PROVE PlaceInv'
  BY <1>27, TimeoutFacts DEF PutRef, NoRef
<1>28. ASSUME NEW c \in Async, HandleTimedout(c) PROVE PlaceInv'
  BY <1>28 DEF HandleTimedout, Callback
<1>29. ASSUME NEW c \in Async, TimeoutPuts(c) PROVE PlaceInv'
  BY <1>29 DEF TimeoutPuts, PutRef
<1>30. ASSUME NEW c \in Async, CancelAwaiter(c) PROVE PlaceInv'
  BY <1>30 DEF CancelAwaiter, MayCancel, Published, CancelTimeoutWork, PutRef, NoRef
<1>31. ASSUME NEW c \in Async, CancelDelWaitResp(c) PROVE PlaceInv'
  BY <1>31, CancelFacts DEF PutRef, NoRef
<1>32. ASSUME NEW c \in Async, CancelWaits(c) PROVE PlaceInv'
  BY <1>32 DEF CancelWaits
<1>33. ASSUME NEW c \in Async, OwnerPuts(c) PROVE PlaceInv'
  BY <1>33 DEF OwnerPuts, Settled, InCallback, PutRef
<1>34. CASE ReleaseStart
  <2>1. \A d \in wait_list : d \in Async
    BY <1>34 DEF ReleaseStart, Cmds
  <2> QED
    BY <1>34, <2>1 DEF ReleaseStart
<1>35. ASSUME NEW c \in Async, ReleasePuts(c) PROVE PlaceInv'
  BY <1>35 DEF ReleasePuts, PutRef
<1>36. ASSUME NEW c \in Async, ReleaseFlushes(c) PROVE PlaceInv'
  BY <1>36 DEF ReleaseFlushes, Callback
<1>37. CASE ReleaseEnds
  BY <1>37 DEF ReleaseEnds
<1>38. CASE UNCHANGED vars
  BY <1>38 DEF vars
<1> QED
  BY <1>2, <1>3, <1>4, <1>5, <1>6, <1>7, <1>8, <1>9, <1>10, <1>11, <1>12, <1>13, <1>14,
     <1>15, <1>16, <1>17, <1>18, <1>19, <1>20, <1>21, <1>22, <1>23, <1>24, <1>25,
     <1>26, <1>27, <1>28, <1>29, <1>30, <1>31, <1>32, <1>33, <1>34, <1>35, <1>36,
     <1>37, <1>38, AsyncFact
     DEF Next, SenderStep, ConsumerStep, TimeoutStep, DriverStep

\* A response handed over is the one of the command.
LEMMA NextOwn == IInv /\ [Next]_vars => OwnInv'
<1> SUFFICES ASSUME IInv, [Next]_vars PROVE OwnInv'
  OBVIOUS
<1>1. Types /\ OwnInv
  BY DEF IInv
<1> USE <1>1, MailboxAssumption, AsyncFact, ConsumerFact DEF Types, OwnInv, Goto,
      Consume, Work, Cancel, sendVars, listVars, refVars, cbVars, hwVars, conVars,
      relVars
<1>2. ASSUME NEW c \in Cmds, Create(c) PROVE OwnInv'
  BY <1>2 DEF Create
<1>3. ASSUME NEW c \in Cmds, AcquireTxLock(c) PROVE OwnInv'
  BY <1>3 DEF AcquireTxLock
<1>4. ASSUME NEW c \in Cmds, TxNotFull(c) PROVE OwnInv'
  BY <1>4 DEF TxNotFull
<1>5. ASSUME NEW c \in Cmds, EnqueueFails(c) PROVE OwnInv'
  BY <1>5 DEF EnqueueFails
<1>6. ASSUME NEW c \in Cmds, BeforeEnqueueWaitList(c) PROVE OwnInv'
  BY <1>6 DEF BeforeEnqueueWaitList
<1>7. ASSUME NEW c \in Cmds, PushWaitResp(c) PROVE OwnInv'
  BY <1>7 DEF PushWaitResp, GetRef, NoRef
<1>8. ASSUME NEW c \in Cmds, WriteCmd(c) PROVE OwnInv'
  BY <1>8 DEF WriteCmd
<1>9. ASSUME NEW c \in Cmds, EnqueueCleanup(c) PROVE OwnInv'
  BY <1>9 DEF EnqueueCleanup
<1>10. ASSUME NEW c \in Cmds, SyncReturns(c) PROVE OwnInv'
  BY <1>10 DEF SyncReturns
<1>11. ASSUME NEW c \in Cmds, SyncTimesOut(c) PROVE OwnInv'
  BY <1>11 DEF SyncTimesOut
<1>12. ASSUME NEW c \in Cmds, SyncDelWaitResp(c) PROVE OwnInv'
  BY <1>12, SyncFacts
<1>13. CASE FirmwareTakes
  BY <1>13 DEF FirmwareTakes
<1>14. ASSUME NEW c \in Cmds, FirmwareResponds(c) PROVE OwnInv'
  BY <1>14 DEF FirmwareResponds
<1>15. CASE IrqHandler
  BY <1>15 DEF IrqHandler
<1>16. CASE ConsumeResponses
  BY <1>16 DEF ConsumeResponses
<1>17. CASE AcquireRxLock
  BY <1>17 DEF AcquireRxLock
<1>18. ASSUME NEW t \in Consumers, FetchResponses(t) PROVE OwnInv'
  BY <1>18 DEF FetchResponses
<1>19. ASSUME NEW t \in Consumers, FetchEnds(t) PROVE OwnInv'
  BY <1>19 DEF FetchEnds
<1>20. ASSUME NEW t \in Consumers, ReleaseRxLock(t) PROVE OwnInv'
  BY <1>20 DEF ReleaseRxLock
<1>21. ASSUME NEW t \in Consumers, HandleResponse(t) PROVE OwnInv'
  <2>1. PICK r \in Transmitted : Handles(t, r)
    BY <1>21, HandleFacts
  <2>2. r \in Cmds
    BY DEF Transmitted
  <2>3. CASE r \in wait_list
    <3>1. /\ wait_list' = wait_list \ {r} /\ waiting' = waiting \ {r}
          /\ got' = [got EXCEPT ![r] = r] /\ cpc[t] = "match"
          /\ \/ /\ r \in Async /\ cpc' = [cpc EXCEPT ![t] = "cancel"]
                /\ hand' = [hand EXCEPT ![t] = r]
             \/ r \notin Async /\ UNCHANGED <<cpc, hand>>
          /\ UNCHANGED <<sendVars, refVars, timer, canceller, cbVars, hwVars, rxlock,
                         relVars>>
      BY <2>1, <2>3 DEF Handles
    <3> QED
      BY <2>2, <2>3, <3>1
  <2>4. CASE r \notin wait_list
    BY <2>1, <2>4 DEF Handles
  <2> QED
    BY <2>3, <2>4
<1>22. ASSUME NEW t \in Consumers, HandlerCancelsTimer(t) PROVE OwnInv'
  BY <1>22 DEF HandlerCancelsTimer, CancelTimeoutWork, PutRef, NoRef
<1>23. ASSUME NEW t \in Consumers, HandleArrived(t) PROVE OwnInv'
  BY <1>23 DEF HandleArrived, Callback
<1>24. ASSUME NEW t \in Consumers, HandlerPuts(t) PROVE OwnInv'
  BY <1>24 DEF HandlerPuts, PutRef
<1>25. ASSUME NEW t \in Consumers, ConsumeReturns(t) PROVE OwnInv'
  BY <1>25 DEF ConsumeReturns
<1>26. ASSUME NEW c \in Async, TimerExpires(c) PROVE OwnInv'
  BY <1>26 DEF TimerExpires
<1>27. ASSUME NEW c \in Async, TimeoutDelWaitResp(c) PROVE OwnInv'
  BY <1>27, TimeoutFacts DEF PutRef, NoRef
<1>28. ASSUME NEW c \in Async, HandleTimedout(c) PROVE OwnInv'
  BY <1>28 DEF HandleTimedout, Callback
<1>29. ASSUME NEW c \in Async, TimeoutPuts(c) PROVE OwnInv'
  BY <1>29 DEF TimeoutPuts, PutRef
<1>30. ASSUME NEW c \in Async, CancelAwaiter(c) PROVE OwnInv'
  BY <1>30 DEF CancelAwaiter, MayCancel, Published, CancelTimeoutWork, PutRef, NoRef
<1>31. ASSUME NEW c \in Async, CancelDelWaitResp(c) PROVE OwnInv'
  BY <1>31, CancelFacts DEF PutRef, NoRef
<1>32. ASSUME NEW c \in Async, CancelWaits(c) PROVE OwnInv'
  BY <1>32 DEF CancelWaits
<1>33. ASSUME NEW c \in Async, OwnerPuts(c) PROVE OwnInv'
  BY <1>33 DEF OwnerPuts, Settled, InCallback, PutRef
<1>34. CASE ReleaseStart
  BY <1>34 DEF ReleaseStart
<1>35. ASSUME NEW c \in Async, ReleasePuts(c) PROVE OwnInv'
  BY <1>35 DEF ReleasePuts, PutRef
<1>36. ASSUME NEW c \in Async, ReleaseFlushes(c) PROVE OwnInv'
  BY <1>36 DEF ReleaseFlushes, Callback
<1>37. CASE ReleaseEnds
  BY <1>37 DEF ReleaseEnds
<1>38. CASE UNCHANGED vars
  BY <1>38 DEF vars
<1> QED
  BY <1>2, <1>3, <1>4, <1>5, <1>6, <1>7, <1>8, <1>9, <1>10, <1>11, <1>12, <1>13, <1>14,
     <1>15, <1>16, <1>17, <1>18, <1>19, <1>20, <1>21, <1>22, <1>23, <1>24, <1>25,
     <1>26, <1>27, <1>28, <1>29, <1>30, <1>31, <1>32, <1>33, <1>34, <1>35, <1>36,
     <1>37, <1>38, AsyncFact
     DEF Next, SenderStep, ConsumerStep, TimeoutStep, DriverStep

\* Every claim takes the awaiter from the list, so the other claimants miss it.
LEMMA NextClaim == IInv /\ [Next]_vars => ClaimInv'
<1> SUFFICES ASSUME IInv, [Next]_vars PROVE ClaimInv'
  OBVIOUS
<1>1. Types /\ PlaceInv /\ HandInv /\ ClaimInv
  BY DEF IInv
<1> USE <1>1, MailboxAssumption, AsyncFact, ConsumerFact DEF Types, HandInv, PlaceInv,
      ClaimInv, Goto, Consume, Work, Cancel, sendVars, listVars, refVars, cbVars,
      hwVars, conVars, relVars
<1>2. ASSUME NEW c \in Cmds, Create(c) PROVE ClaimInv'
  BY <1>2 DEF Create
<1>3. ASSUME NEW c \in Cmds, AcquireTxLock(c) PROVE ClaimInv'
  BY <1>3 DEF AcquireTxLock
<1>4. ASSUME NEW c \in Cmds, TxNotFull(c) PROVE ClaimInv'
  BY <1>4 DEF TxNotFull
<1>5. ASSUME NEW c \in Cmds, EnqueueFails(c) PROVE ClaimInv'
  <2>1. CASE Goto(c, "space", "fail")
    BY <1>5, <2>1 DEF EnqueueFails
  <2>2. CASE Goto(c, "hook", "fail")
    BY <1>5, <2>2 DEF EnqueueFails
  <2> QED
    BY <1>5, <2>1, <2>2 DEF EnqueueFails
<1>6. ASSUME NEW c \in Cmds, BeforeEnqueueWaitList(c) PROVE ClaimInv'
  BY <1>6 DEF BeforeEnqueueWaitList
<1>7. ASSUME NEW c \in Cmds, PushWaitResp(c) PROVE ClaimInv'
  BY <1>7 DEF PushWaitResp, GetRef, NoRef
<1>8. ASSUME NEW c \in Cmds, WriteCmd(c) PROVE ClaimInv'
  BY <1>8 DEF WriteCmd
<1>9. ASSUME NEW c \in Cmds, EnqueueCleanup(c) PROVE ClaimInv'
  BY <1>9 DEF EnqueueCleanup
<1>10. ASSUME NEW c \in Cmds, SyncReturns(c) PROVE ClaimInv'
  BY <1>10 DEF SyncReturns
<1>11. ASSUME NEW c \in Cmds, SyncTimesOut(c) PROVE ClaimInv'
  BY <1>11 DEF SyncTimesOut
<1>12. ASSUME NEW c \in Cmds, SyncDelWaitResp(c) PROVE ClaimInv'
  BY <1>12, SyncFacts
<1>13. CASE FirmwareTakes
  BY <1>13 DEF FirmwareTakes
<1>14. ASSUME NEW c \in Cmds, FirmwareResponds(c) PROVE ClaimInv'
  BY <1>14 DEF FirmwareResponds
<1>15. CASE IrqHandler
  BY <1>15 DEF IrqHandler
<1>16. CASE ConsumeResponses
  BY <1>16 DEF ConsumeResponses
<1>17. CASE AcquireRxLock
  BY <1>17 DEF AcquireRxLock
<1>18. ASSUME NEW t \in Consumers, FetchResponses(t) PROVE ClaimInv'
  BY <1>18 DEF FetchResponses
<1>19. ASSUME NEW t \in Consumers, FetchEnds(t) PROVE ClaimInv'
  BY <1>19 DEF FetchEnds
<1>20. ASSUME NEW t \in Consumers, ReleaseRxLock(t) PROVE ClaimInv'
  BY <1>20 DEF ReleaseRxLock
<1>21. ASSUME NEW t \in Consumers, HandleResponse(t) PROVE ClaimInv'
  <2>1. PICK r \in Transmitted : Handles(t, r)
    BY <1>21, HandleFacts
  <2>2. r \in Cmds
    BY DEF Transmitted
  <2>3. CASE r \in wait_list
    <3>1. /\ wait_list' = wait_list \ {r} /\ waiting' = waiting \ {r}
          /\ got' = [got EXCEPT ![r] = r] /\ cpc[t] = "match"
          /\ \/ /\ r \in Async /\ cpc' = [cpc EXCEPT ![t] = "cancel"]
                /\ hand' = [hand EXCEPT ![t] = r]
             \/ r \notin Async /\ UNCHANGED <<cpc, hand>>
          /\ UNCHANGED <<sendVars, refVars, timer, canceller, cbVars, hwVars, rxlock,
                         relVars>>
      BY <2>1, <2>3 DEF Handles
    <3> QED
      BY <2>2, <2>3, <3>1
  <2>4. CASE r \notin wait_list
    BY <2>1, <2>4 DEF Handles
  <2> QED
    BY <2>3, <2>4
<1>22. ASSUME NEW t \in Consumers, HandlerCancelsTimer(t) PROVE ClaimInv'
  BY <1>22 DEF HandlerCancelsTimer, CancelTimeoutWork, PutRef, NoRef
<1>23. ASSUME NEW t \in Consumers, HandleArrived(t) PROVE ClaimInv'
  BY <1>23 DEF HandleArrived, Callback
<1>24. ASSUME NEW t \in Consumers, HandlerPuts(t) PROVE ClaimInv'
  BY <1>24 DEF HandlerPuts, PutRef
<1>25. ASSUME NEW t \in Consumers, ConsumeReturns(t) PROVE ClaimInv'
  BY <1>25 DEF ConsumeReturns
<1>26. ASSUME NEW c \in Async, TimerExpires(c) PROVE ClaimInv'
  BY <1>26 DEF TimerExpires
<1>27. ASSUME NEW c \in Async, TimeoutDelWaitResp(c) PROVE ClaimInv'
  BY <1>27, TimeoutFacts DEF PutRef, NoRef
<1>28. ASSUME NEW c \in Async, HandleTimedout(c) PROVE ClaimInv'
  BY <1>28 DEF HandleTimedout, Callback
<1>29. ASSUME NEW c \in Async, TimeoutPuts(c) PROVE ClaimInv'
  BY <1>29 DEF TimeoutPuts, PutRef
<1>30. ASSUME NEW c \in Async, CancelAwaiter(c) PROVE ClaimInv'
  BY <1>30 DEF CancelAwaiter, MayCancel, Published, CancelTimeoutWork, PutRef, NoRef
<1>31. ASSUME NEW c \in Async, CancelDelWaitResp(c) PROVE ClaimInv'
  BY <1>31, CancelFacts DEF PutRef, NoRef
<1>32. ASSUME NEW c \in Async, CancelWaits(c) PROVE ClaimInv'
  BY <1>32 DEF CancelWaits
<1>33. ASSUME NEW c \in Async, OwnerPuts(c) PROVE ClaimInv'
  BY <1>33 DEF OwnerPuts, Settled, InCallback, PutRef
<1>34. CASE ReleaseStart
  BY <1>34 DEF ReleaseStart
<1>35. ASSUME NEW c \in Async, ReleasePuts(c) PROVE ClaimInv'
  BY <1>35 DEF ReleasePuts, PutRef
<1>36. ASSUME NEW c \in Async, ReleaseFlushes(c) PROVE ClaimInv'
  BY <1>36 DEF ReleaseFlushes, Callback
<1>37. CASE ReleaseEnds
  BY <1>37 DEF ReleaseEnds
<1>38. CASE UNCHANGED vars
  BY <1>38 DEF vars
<1> QED
  BY <1>2, <1>3, <1>4, <1>5, <1>6, <1>7, <1>8, <1>9, <1>10, <1>11, <1>12, <1>13, <1>14,
     <1>15, <1>16, <1>17, <1>18, <1>19, <1>20, <1>21, <1>22, <1>23, <1>24, <1>25,
     <1>26, <1>27, <1>28, <1>29, <1>30, <1>31, <1>32, <1>33, <1>34, <1>35, <1>36,
     <1>37, <1>38, AsyncFact
     DEF Next, SenderStep, ConsumerStep, TimeoutStep, DriverStep

\* A driver puts its reference of a settled awaiter only.
LEMMA NextOwner == IInv /\ [Next]_vars => OwnerInv'
<1> SUFFICES ASSUME IInv, [Next]_vars PROVE OwnerInv'
  OBVIOUS
<1>1. Types /\ PlaceInv /\ HandInv /\ ClaimInv /\ OwnerInv
  BY DEF IInv
<1> USE <1>1, MailboxAssumption, AsyncFact, ConsumerFact DEF Types, HandInv, PlaceInv,
      ClaimInv, OwnerInv, InCallback, Goto, Consume, Work, Cancel, sendVars, listVars,
      refVars, cbVars, hwVars, conVars, relVars
<1>2. ASSUME NEW c \in Cmds, Create(c) PROVE OwnerInv'
  BY <1>2 DEF Create
<1>3. ASSUME NEW c \in Cmds, AcquireTxLock(c) PROVE OwnerInv'
  BY <1>3 DEF AcquireTxLock
<1>4. ASSUME NEW c \in Cmds, TxNotFull(c) PROVE OwnerInv'
  BY <1>4 DEF TxNotFull
<1>5. ASSUME NEW c \in Cmds, EnqueueFails(c) PROVE OwnerInv'
  <2>1. CASE Goto(c, "space", "fail")
    BY <1>5, <2>1 DEF EnqueueFails
  <2>2. CASE Goto(c, "hook", "fail")
    BY <1>5, <2>2 DEF EnqueueFails
  <2> QED
    BY <1>5, <2>1, <2>2 DEF EnqueueFails
<1>6. ASSUME NEW c \in Cmds, BeforeEnqueueWaitList(c) PROVE OwnerInv'
  BY <1>6 DEF BeforeEnqueueWaitList
<1>7. ASSUME NEW c \in Cmds, PushWaitResp(c) PROVE OwnerInv'
  BY <1>7 DEF PushWaitResp, GetRef, NoRef
<1>8. ASSUME NEW c \in Cmds, WriteCmd(c) PROVE OwnerInv'
  BY <1>8 DEF WriteCmd
<1>9. ASSUME NEW c \in Cmds, EnqueueCleanup(c) PROVE OwnerInv'
  BY <1>9 DEF EnqueueCleanup
<1>10. ASSUME NEW c \in Cmds, SyncReturns(c) PROVE OwnerInv'
  BY <1>10 DEF SyncReturns
<1>11. ASSUME NEW c \in Cmds, SyncTimesOut(c) PROVE OwnerInv'
  BY <1>11 DEF SyncTimesOut
<1>12. ASSUME NEW c \in Cmds, SyncDelWaitResp(c) PROVE OwnerInv'
  BY <1>12, SyncFacts
<1>13. CASE FirmwareTakes
  BY <1>13 DEF FirmwareTakes
<1>14. ASSUME NEW c \in Cmds, FirmwareResponds(c) PROVE OwnerInv'
  BY <1>14 DEF FirmwareResponds
<1>15. CASE IrqHandler
  BY <1>15 DEF IrqHandler
<1>16. CASE ConsumeResponses
  BY <1>16 DEF ConsumeResponses
<1>17. CASE AcquireRxLock
  BY <1>17 DEF AcquireRxLock
<1>18. ASSUME NEW t \in Consumers, FetchResponses(t) PROVE OwnerInv'
  BY <1>18 DEF FetchResponses
<1>19. ASSUME NEW t \in Consumers, FetchEnds(t) PROVE OwnerInv'
  BY <1>19 DEF FetchEnds
<1>20. ASSUME NEW t \in Consumers, ReleaseRxLock(t) PROVE OwnerInv'
  BY <1>20 DEF ReleaseRxLock
<1>21. ASSUME NEW t \in Consumers, HandleResponse(t) PROVE OwnerInv'
  <2>1. PICK r \in Transmitted : Handles(t, r)
    BY <1>21, HandleFacts
  <2>2. r \in Cmds
    BY DEF Transmitted
  <2>3. CASE r \in wait_list
    <3>1. /\ wait_list' = wait_list \ {r} /\ waiting' = waiting \ {r}
          /\ got' = [got EXCEPT ![r] = r] /\ cpc[t] = "match"
          /\ \/ /\ r \in Async /\ cpc' = [cpc EXCEPT ![t] = "cancel"]
                /\ hand' = [hand EXCEPT ![t] = r]
             \/ r \notin Async /\ UNCHANGED <<cpc, hand>>
          /\ UNCHANGED <<sendVars, refVars, timer, canceller, cbVars, hwVars, rxlock,
                         relVars>>
      BY <2>1, <2>3 DEF Handles
    <3> QED
      BY <2>2, <2>3, <3>1
  <2>4. CASE r \notin wait_list
    BY <2>1, <2>4 DEF Handles
  <2> QED
    BY <2>3, <2>4
<1>22. ASSUME NEW t \in Consumers, HandlerCancelsTimer(t) PROVE OwnerInv'
  BY <1>22 DEF HandlerCancelsTimer, CancelTimeoutWork, PutRef, NoRef
<1>23. ASSUME NEW t \in Consumers, HandleArrived(t) PROVE OwnerInv'
  BY <1>23 DEF HandleArrived, Callback
<1>24. ASSUME NEW t \in Consumers, HandlerPuts(t) PROVE OwnerInv'
  BY <1>24 DEF HandlerPuts, PutRef
<1>25. ASSUME NEW t \in Consumers, ConsumeReturns(t) PROVE OwnerInv'
  BY <1>25 DEF ConsumeReturns
<1>26. ASSUME NEW c \in Async, TimerExpires(c) PROVE OwnerInv'
  BY <1>26 DEF TimerExpires
<1>27. ASSUME NEW c \in Async, TimeoutDelWaitResp(c) PROVE OwnerInv'
  BY <1>27, TimeoutFacts DEF PutRef, NoRef
<1>28. ASSUME NEW c \in Async, HandleTimedout(c) PROVE OwnerInv'
  BY <1>28 DEF HandleTimedout, Callback
<1>29. ASSUME NEW c \in Async, TimeoutPuts(c) PROVE OwnerInv'
  BY <1>29 DEF TimeoutPuts, PutRef
<1>30. ASSUME NEW c \in Async, CancelAwaiter(c) PROVE OwnerInv'
  BY <1>30 DEF CancelAwaiter, MayCancel, Published, CancelTimeoutWork, PutRef, NoRef
<1>31. ASSUME NEW c \in Async, CancelDelWaitResp(c) PROVE OwnerInv'
  BY <1>31, CancelFacts DEF PutRef, NoRef
<1>32. ASSUME NEW c \in Async, CancelWaits(c) PROVE OwnerInv'
  BY <1>32 DEF CancelWaits
<1>33. ASSUME NEW c \in Async, OwnerPuts(c) PROVE OwnerInv'
  BY <1>33 DEF OwnerPuts, Settled, InCallback, PutRef
<1>34. CASE ReleaseStart
  BY <1>34 DEF ReleaseStart
<1>35. ASSUME NEW c \in Async, ReleasePuts(c) PROVE OwnerInv'
  BY <1>35 DEF ReleasePuts, PutRef
<1>36. ASSUME NEW c \in Async, ReleaseFlushes(c) PROVE OwnerInv'
  BY <1>36 DEF ReleaseFlushes, Callback
<1>37. CASE ReleaseEnds
  BY <1>37 DEF ReleaseEnds
<1>38. CASE UNCHANGED vars
  BY <1>38 DEF vars
<1> QED
  BY <1>2, <1>3, <1>4, <1>5, <1>6, <1>7, <1>8, <1>9, <1>10, <1>11, <1>12, <1>13, <1>14,
     <1>15, <1>16, <1>17, <1>18, <1>19, <1>20, <1>21, <1>22, <1>23, <1>24, <1>25,
     <1>26, <1>27, <1>28, <1>29, <1>30, <1>31, <1>32, <1>33, <1>34, <1>35, <1>36,
     <1>37, <1>38, AsyncFact
     DEF Next, SenderStep, ConsumerStep, TimeoutStep, DriverStep

\* Numbers stay distinct: the counter moves when a command is written.
LEMMA NextSeq == IInv /\ [Next]_vars => SeqInv'
<1> SUFFICES ASSUME IInv, [Next]_vars PROVE SeqInv'
  OBVIOUS
<1>1. SeqUnambiguous /\ Types /\ PlaceInv /\ SeqInv
  BY DEF IInv
<1> USE <1>1, MailboxAssumption, AsyncFact, ConsumerFact DEF SeqUnambiguous, Types,
      PlaceInv, SeqInv, Numbered, Transmitted, Goto, Consume, Work, Cancel, sendVars,
      listVars, refVars, cbVars, hwVars, conVars, relVars
<1>2. ASSUME NEW c \in Cmds, Create(c) PROVE SeqInv'
  <2>1. /\ pc[c] = "new" /\ pc' = [pc EXCEPT ![c] = "lock"]
        /\ CallerNumbers(c) /\ UNCHANGED <<seq, canceller, txlock>>
    BY <1>2 DEF Create
  <2>2. CASE Numbering = "client"
    BY <2>1, <2>2 DEF CallerNumbers
  <2>3. CASE Numbering = "kci"
    BY <2>1, <2>3 DEF CallerNumbers
  <2>4. CASE Numbering = "mailbox"
    BY <2>1, <2>4 DEF CallerNumbers
  <2> QED
    BY <2>2, <2>3, <2>4
<1>3. ASSUME NEW c \in Cmds, AcquireTxLock(c) PROVE SeqInv'
  BY <1>3 DEF AcquireTxLock
<1>4. ASSUME NEW c \in Cmds, TxNotFull(c) PROVE SeqInv'
  BY <1>4, SMTT(30) DEF TxNotFull
<1>5. ASSUME NEW c \in Cmds, EnqueueFails(c) PROVE SeqInv'
  <2>1. CASE Goto(c, "space", "fail")
    BY <1>5, <2>1 DEF EnqueueFails
  <2>2. CASE Goto(c, "hook", "fail")
    BY <1>5, <2>2 DEF EnqueueFails
  <2> QED
    BY <1>5, <2>1, <2>2 DEF EnqueueFails
<1>6. ASSUME NEW c \in Cmds, BeforeEnqueueWaitList(c) PROVE SeqInv'
  BY <1>6 DEF BeforeEnqueueWaitList
<1>7. ASSUME NEW c \in Cmds, PushWaitResp(c) PROVE SeqInv'
  BY <1>7 DEF PushWaitResp, GetRef, NoRef
<1>8. ASSUME NEW c \in Cmds, WriteCmd(c) PROVE SeqInv'
  <2>1. /\ pc[c] = "write" /\ pc' = [pc EXCEPT ![c] = "sent"]
        /\ cur_seq' = IF Numbering = "mailbox" THEN cur_seq + 1 ELSE cur_seq
        /\ UNCHANGED <<cmd_seq, seq, timer, canceller>>
    BY <1>8 DEF WriteCmd
  <2>2. CASE Numbering # "mailbox"
    BY <2>1, <2>2
  <2>3. CASE Numbering = "mailbox"
    BY <2>1, <2>3
  <2> QED
    BY <2>2, <2>3
<1>9. ASSUME NEW c \in Cmds, EnqueueCleanup(c) PROVE SeqInv'
  BY <1>9 DEF EnqueueCleanup
<1>10. ASSUME NEW c \in Cmds, SyncReturns(c) PROVE SeqInv'
  BY <1>10 DEF SyncReturns
<1>11. ASSUME NEW c \in Cmds, SyncTimesOut(c) PROVE SeqInv'
  BY <1>11 DEF SyncTimesOut
<1>12. ASSUME NEW c \in Cmds, SyncDelWaitResp(c) PROVE SeqInv'
  BY <1>12, SyncFacts
<1>13. CASE FirmwareTakes
  BY <1>13 DEF FirmwareTakes
<1>14. ASSUME NEW c \in Cmds, FirmwareResponds(c) PROVE SeqInv'
  BY <1>14 DEF FirmwareResponds
<1>15. CASE IrqHandler
  BY <1>15 DEF IrqHandler
<1>16. CASE ConsumeResponses
  BY <1>16 DEF ConsumeResponses
<1>17. CASE AcquireRxLock
  BY <1>17 DEF AcquireRxLock
<1>18. ASSUME NEW t \in Consumers, FetchResponses(t) PROVE SeqInv'
  BY <1>18 DEF FetchResponses
<1>19. ASSUME NEW t \in Consumers, FetchEnds(t) PROVE SeqInv'
  BY <1>19 DEF FetchEnds
<1>20. ASSUME NEW t \in Consumers, ReleaseRxLock(t) PROVE SeqInv'
  BY <1>20 DEF ReleaseRxLock
<1>21. ASSUME NEW t \in Consumers, HandleResponse(t) PROVE SeqInv'
  <2>1. PICK r \in Transmitted : Handles(t, r)
    BY <1>21, HandleFacts
  <2>2. r \in Cmds
    BY DEF Transmitted
  <2>3. CASE r \in wait_list
    <3>1. /\ wait_list' = wait_list \ {r} /\ waiting' = waiting \ {r}
          /\ got' = [got EXCEPT ![r] = r] /\ cpc[t] = "match"
          /\ \/ /\ r \in Async /\ cpc' = [cpc EXCEPT ![t] = "cancel"]
                /\ hand' = [hand EXCEPT ![t] = r]
             \/ r \notin Async /\ UNCHANGED <<cpc, hand>>
          /\ UNCHANGED <<sendVars, refVars, timer, canceller, cbVars, hwVars, rxlock,
                         relVars>>
      BY <2>1, <2>3 DEF Handles
    <3> QED
      BY <2>2, <2>3, <3>1
  <2>4. CASE r \notin wait_list
    BY <2>1, <2>4 DEF Handles
  <2> QED
    BY <2>3, <2>4
<1>22. ASSUME NEW t \in Consumers, HandlerCancelsTimer(t) PROVE SeqInv'
  BY <1>22 DEF HandlerCancelsTimer, CancelTimeoutWork, PutRef, NoRef
<1>23. ASSUME NEW t \in Consumers, HandleArrived(t) PROVE SeqInv'
  BY <1>23 DEF HandleArrived, Callback
<1>24. ASSUME NEW t \in Consumers, HandlerPuts(t) PROVE SeqInv'
  BY <1>24 DEF HandlerPuts, PutRef
<1>25. ASSUME NEW t \in Consumers, ConsumeReturns(t) PROVE SeqInv'
  BY <1>25 DEF ConsumeReturns
<1>26. ASSUME NEW c \in Async, TimerExpires(c) PROVE SeqInv'
  BY <1>26 DEF TimerExpires
<1>27. ASSUME NEW c \in Async, TimeoutDelWaitResp(c) PROVE SeqInv'
  BY <1>27, TimeoutFacts DEF PutRef, NoRef
<1>28. ASSUME NEW c \in Async, HandleTimedout(c) PROVE SeqInv'
  BY <1>28 DEF HandleTimedout, Callback
<1>29. ASSUME NEW c \in Async, TimeoutPuts(c) PROVE SeqInv'
  BY <1>29 DEF TimeoutPuts, PutRef
<1>30. ASSUME NEW c \in Async, CancelAwaiter(c) PROVE SeqInv'
  BY <1>30 DEF CancelAwaiter, MayCancel, Published, CancelTimeoutWork, PutRef, NoRef
<1>31. ASSUME NEW c \in Async, CancelDelWaitResp(c) PROVE SeqInv'
  BY <1>31, CancelFacts DEF PutRef, NoRef
<1>32. ASSUME NEW c \in Async, CancelWaits(c) PROVE SeqInv'
  BY <1>32 DEF CancelWaits
<1>33. ASSUME NEW c \in Async, OwnerPuts(c) PROVE SeqInv'
  BY <1>33 DEF OwnerPuts, Settled, InCallback, PutRef
<1>34. CASE ReleaseStart
  BY <1>34 DEF ReleaseStart
<1>35. ASSUME NEW c \in Async, ReleasePuts(c) PROVE SeqInv'
  BY <1>35 DEF ReleasePuts, PutRef
<1>36. ASSUME NEW c \in Async, ReleaseFlushes(c) PROVE SeqInv'
  BY <1>36 DEF ReleaseFlushes, Callback
<1>37. CASE ReleaseEnds
  BY <1>37 DEF ReleaseEnds
<1>38. CASE UNCHANGED vars
  BY <1>38 DEF vars
<1> QED
  BY <1>2, <1>3, <1>4, <1>5, <1>6, <1>7, <1>8, <1>9, <1>10, <1>11, <1>12, <1>13, <1>14,
     <1>15, <1>16, <1>17, <1>18, <1>19, <1>20, <1>21, <1>22, <1>23, <1>24, <1>25,
     <1>26, <1>27, <1>28, <1>29, <1>30, <1>31, <1>32, <1>33, <1>34, <1>35, <1>36,
     <1>37, <1>38, AsyncFact
     DEF Next, SenderStep, ConsumerStep, TimeoutStep, DriverStep

\* Every action counts the references that it hands over.
LEMMA NextKref == IInv /\ [Next]_vars => KrefInv'
<1> SUFFICES ASSUME IInv, [Next]_vars PROVE KrefInv'
  OBVIOUS
<1>1. Types /\ PlaceInv /\ HandInv /\ ClaimInv /\ OwnerInv /\ KrefInv
  BY DEF IInv
<1> USE <1>1, MailboxAssumption, AsyncFact, ConsumerFact DEF Types, HandInv, PlaceInv,
      ClaimInv, OwnerInv, InCallback, KrefInv, Owned, Timed, Listed, Handled, Goto,
      Consume, Work, Cancel, sendVars, listVars, refVars, cbVars, hwVars, conVars,
      relVars
<1>2. ASSUME NEW c \in Cmds, Create(c) PROVE KrefInv'
  BY <1>2 DEF Create
<1>3. ASSUME NEW c \in Cmds, AcquireTxLock(c) PROVE KrefInv'
  BY <1>3 DEF AcquireTxLock
<1>4. ASSUME NEW c \in Cmds, TxNotFull(c) PROVE KrefInv'
  <2>1. UNCHANGED <<kref, freed, owner, timer, wait_list, rel_list, hand>>
    BY <1>4 DEF TxNotFull
  <2>2. \A d \in Async : pc'[d] = "new" <=> pc[d] = "new"
    BY <1>4 DEF TxNotFull
  <2> QED
    BY <2>1, <2>2
<1>5. ASSUME NEW c \in Cmds, EnqueueFails(c) PROVE KrefInv'
  <2>1. UNCHANGED <<kref, freed, owner, timer, wait_list, rel_list, hand>>
    BY <1>5 DEF EnqueueFails
  <2>2. \A d \in Async : pc'[d] = "new" <=> pc[d] = "new"
    BY <1>5 DEF EnqueueFails
  <2> QED
    BY <2>1, <2>2
<1>6. ASSUME NEW c \in Cmds, BeforeEnqueueWaitList(c) PROVE KrefInv'
  BY <1>6 DEF BeforeEnqueueWaitList
<1>7. ASSUME NEW c \in Cmds, PushWaitResp(c) PROVE KrefInv'
  BY <1>7 DEF PushWaitResp, GetRef, NoRef
<1>8. ASSUME NEW c \in Cmds, WriteCmd(c) PROVE KrefInv'
  <2>1. UNCHANGED <<kref, freed, owner, timer, wait_list, rel_list, hand>>
    BY <1>8 DEF WriteCmd
  <2>2. \A d \in Async : pc'[d] = "new" <=> pc[d] = "new"
    BY <1>8 DEF WriteCmd
  <2> QED
    BY <2>1, <2>2
<1>9. ASSUME NEW c \in Cmds, EnqueueCleanup(c) PROVE KrefInv'
  BY <1>9 DEF EnqueueCleanup
<1>10. ASSUME NEW c \in Cmds, SyncReturns(c) PROVE KrefInv'
  BY <1>10 DEF SyncReturns
<1>11. ASSUME NEW c \in Cmds, SyncTimesOut(c) PROVE KrefInv'
  BY <1>11 DEF SyncTimesOut
<1>12. ASSUME NEW c \in Cmds, SyncDelWaitResp(c) PROVE KrefInv'
  BY <1>12, SyncFacts
<1>13. CASE FirmwareTakes
  <2>1. UNCHANGED <<pc, kref, freed, owner, timer, wait_list, rel_list, hand>>
    BY <1>13 DEF FirmwareTakes
  <2> QED
    BY <2>1
<1>14. ASSUME NEW c \in Cmds, FirmwareResponds(c) PROVE KrefInv'
  <2>1. UNCHANGED <<pc, kref, freed, owner, timer, wait_list, rel_list, hand>>
    BY <1>14 DEF FirmwareResponds
  <2> QED
    BY <2>1
<1>15. CASE IrqHandler
  BY <1>15 DEF IrqHandler
<1>16. CASE ConsumeResponses
  BY <1>16 DEF ConsumeResponses
<1>17. CASE AcquireRxLock
  BY <1>17 DEF AcquireRxLock
<1>18. ASSUME NEW t \in Consumers, FetchResponses(t) PROVE KrefInv'
  <2>1. UNCHANGED <<pc, kref, freed, owner, timer, wait_list, rel_list, hand>>
    BY <1>18 DEF FetchResponses
  <2> QED
    BY <2>1
<1>19. ASSUME NEW t \in Consumers, FetchEnds(t) PROVE KrefInv'
  <2>1. UNCHANGED <<pc, kref, freed, owner, timer, wait_list, rel_list, hand>>
    BY <1>19 DEF FetchEnds
  <2> QED
    BY <2>1
<1>20. ASSUME NEW t \in Consumers, ReleaseRxLock(t) PROVE KrefInv'
  BY <1>20 DEF ReleaseRxLock
<1>21. ASSUME NEW t \in Consumers, HandleResponse(t) PROVE KrefInv'
  <2>1. PICK r \in Transmitted : Handles(t, r)
    BY <1>21, HandleFacts
  <2>2. r \in Cmds
    BY DEF Transmitted
  <2>3. CASE r \in wait_list
    <3>1. /\ wait_list' = wait_list \ {r} /\ waiting' = waiting \ {r}
          /\ got' = [got EXCEPT ![r] = r] /\ cpc[t] = "match"
          /\ \/ /\ r \in Async /\ cpc' = [cpc EXCEPT ![t] = "cancel"]
                /\ hand' = [hand EXCEPT ![t] = r]
             \/ r \notin Async /\ UNCHANGED <<cpc, hand>>
          /\ UNCHANGED <<sendVars, refVars, timer, canceller, cbVars, hwVars, rxlock,
                         relVars>>
      BY <2>1, <2>3 DEF Handles
    <3> QED
      BY <2>2, <2>3, <3>1
  <2>4. CASE r \notin wait_list
    <3>1. UNCHANGED <<pc, kref, freed, owner, timer, wait_list, rel_list, hand>>
      BY <2>1, <2>4 DEF Handles
    <3> QED
      BY <3>1
  <2> QED
    BY <2>3, <2>4
<1>22. ASSUME NEW t \in Consumers, HandlerCancelsTimer(t) PROVE KrefInv'
  BY <1>22 DEF HandlerCancelsTimer, CancelTimeoutWork, PutRef, NoRef
<1>23. ASSUME NEW t \in Consumers, HandleArrived(t) PROVE KrefInv'
  BY <1>23 DEF HandleArrived, Callback
<1>24. ASSUME NEW t \in Consumers, HandlerPuts(t) PROVE KrefInv'
  BY <1>24 DEF HandlerPuts, PutRef
<1>25. ASSUME NEW t \in Consumers, ConsumeReturns(t) PROVE KrefInv'
  <2>1. UNCHANGED <<pc, kref, freed, owner, timer, wait_list, rel_list, hand>>
    BY <1>25 DEF ConsumeReturns
  <2> QED
    BY <2>1
<1>26. ASSUME NEW c \in Async, TimerExpires(c) PROVE KrefInv'
  BY <1>26 DEF TimerExpires
<1>27. ASSUME NEW c \in Async, TimeoutDelWaitResp(c) PROVE KrefInv'
  BY <1>27, TimeoutFacts DEF PutRef, NoRef
<1>28. ASSUME NEW c \in Async, HandleTimedout(c) PROVE KrefInv'
  BY <1>28 DEF HandleTimedout, Callback
<1>29. ASSUME NEW c \in Async, TimeoutPuts(c) PROVE KrefInv'
  BY <1>29 DEF TimeoutPuts, PutRef
<1>30. ASSUME NEW c \in Async, CancelAwaiter(c) PROVE KrefInv'
  BY <1>30 DEF CancelAwaiter, MayCancel, Published, CancelTimeoutWork, PutRef, NoRef
<1>31. ASSUME NEW c \in Async, CancelDelWaitResp(c) PROVE KrefInv'
  BY <1>31, CancelFacts DEF PutRef, NoRef
<1>32. ASSUME NEW c \in Async, CancelWaits(c) PROVE KrefInv'
  BY <1>32 DEF CancelWaits
<1>33. ASSUME NEW c \in Async, OwnerPuts(c) PROVE KrefInv'
  BY <1>33 DEF OwnerPuts, Settled, InCallback, PutRef
<1>34. CASE ReleaseStart
  BY <1>34 DEF ReleaseStart
<1>35. ASSUME NEW c \in Async, ReleasePuts(c) PROVE KrefInv'
  BY <1>35 DEF ReleasePuts, PutRef
<1>36. ASSUME NEW c \in Async, ReleaseFlushes(c) PROVE KrefInv'
  BY <1>36 DEF ReleaseFlushes, Callback
<1>37. CASE ReleaseEnds
  BY <1>37 DEF ReleaseEnds
<1>38. CASE UNCHANGED vars
  BY <1>38 DEF vars
<1> QED
  BY <1>2, <1>3, <1>4, <1>5, <1>6, <1>7, <1>8, <1>9, <1>10, <1>11, <1>12, <1>13, <1>14,
     <1>15, <1>16, <1>17, <1>18, <1>19, <1>20, <1>21, <1>22, <1>23, <1>24, <1>25,
     <1>26, <1>27, <1>28, <1>29, <1>30, <1>31, <1>32, <1>33, <1>34, <1>35, <1>36,
     <1>37, <1>38, AsyncFact
     DEF Next, SenderStep, ConsumerStep, TimeoutStep, DriverStep

\* A command that was transmitted stays so.
LEMMA TransmittedGrows == IInv /\ [Next]_vars => Transmitted \subseteq Transmitted'
<1> SUFFICES ASSUME IInv, [Next]_vars, NEW d \in Cmds,
                    pc[d] \in {"sent", "late", "returned"}
             PROVE  pc'[d] \in {"sent", "late", "returned"}
  BY DEF Transmitted
<1>1. Types
  BY DEF IInv
<1> USE <1>1 DEF Types, Goto, sendVars
<1>2. ASSUME NEW c \in Cmds, Create(c) \/ SenderStep(c)
      PROVE  pc'[d] \in {"sent", "late", "returned"}
  BY <1>2 DEF SenderStep, Create, AcquireTxLock, TxNotFull, EnqueueFails,
     BeforeEnqueueWaitList, PushWaitResp, WriteCmd, EnqueueCleanup, SyncReturns,
     SyncTimesOut, SyncDelWaitResp
<1>3. CASE \/ FirmwareTakes \/ IrqHandler \/ ConsumeResponses \/ AcquireRxLock
           \/ ReleaseStart \/ ReleaseEnds
  BY <1>3 DEF FirmwareTakes, IrqHandler, ConsumeResponses, AcquireRxLock, ReleaseStart,
     ReleaseEnds
<1>4. ASSUME NEW c \in Cmds, FirmwareResponds(c)
      PROVE  pc'[d] \in {"sent", "late", "returned"}
  BY <1>4 DEF FirmwareResponds
<1>5. ASSUME NEW t \in Consumers, ConsumerStep(t)
      PROVE  pc'[d] \in {"sent", "late", "returned"}
  BY <1>5 DEF ConsumerStep, FetchResponses, FetchEnds, ReleaseRxLock, HandleResponse,
     HandlerCancelsTimer, HandleArrived, HandlerPuts, ConsumeReturns
<1>6. ASSUME NEW c \in Async, TimeoutStep(c) \/ CancelAwaiter(c) \/ DriverStep(c)
      PROVE  pc'[d] \in {"sent", "late", "returned"}
  BY <1>6 DEF TimeoutStep, TimerExpires, TimeoutDelWaitResp, HandleTimedout,
     TimeoutPuts,
     CancelAwaiter, DriverStep, CancelDelWaitResp, CancelWaits, OwnerPuts
<1>7. ASSUME NEW c \in Async, ReleasePuts(c) \/ ReleaseFlushes(c)
      PROVE  pc'[d] \in {"sent", "late", "returned"}
  BY <1>7 DEF ReleasePuts, ReleaseFlushes
<1>8. CASE UNCHANGED vars
  BY <1>8 DEF vars
<1> QED
  BY <1>2, <1>3, <1>4, <1>5, <1>6, <1>7, <1>8 DEF Next

\* Only commands that were transmitted are in the queues.
LEMMA NextQueue == IInv /\ [Next]_vars => QueueInv'
<1> SUFFICES ASSUME IInv, [Next]_vars PROVE QueueInv'
  OBVIOUS
<1>1. Types /\ QueueInv
  BY DEF IInv
<1> DEFINE S == Transmitted'
<1>2. Transmitted \subseteq S
  BY TransmittedGrows
<1>3. \A s \in Seq(Transmitted) : s \in Seq(S)
  BY <1>2
<1>4. /\ tx_queue \in Seq(S) /\ rx_queue \in Seq(S) /\ fw \subseteq S
      /\ batch \in [Consumers -> Seq(S)]
  BY <1>1, <1>2, <1>3 DEF QueueInv
<1> HIDE DEF S
<1> SUFFICES /\ tx_queue' \in Seq(S) /\ rx_queue' \in Seq(S) /\ fw' \subseteq S
             /\ batch' \in [Consumers -> Seq(S)]
  BY DEF QueueInv, S
<1> USE DEF hwVars, conVars
<1>5. ASSUME NEW c \in Cmds, WriteCmd(c)
      PROVE  tx_queue' \in Seq(S) /\ UNCHANGED <<rx_queue, fw, batch>>
  <2>1. c \in S
    BY <1>5, <1>1 DEF WriteCmd, Goto, Types, S, Transmitted
  <2> QED
    BY <1>4, <1>5, <2>1 DEF WriteCmd
<1>6. CASE FirmwareTakes
  BY <1>4, <1>6 DEF FirmwareTakes
<1>7. ASSUME NEW c \in Cmds, FirmwareResponds(c)
      PROVE  rx_queue' \in Seq(S) /\ fw' \subseteq S /\ UNCHANGED <<tx_queue, batch>>
  BY <1>4, <1>7 DEF FirmwareResponds
<1>8. ASSUME NEW t \in Consumers, FetchResponses(t)
      PROVE  /\ rx_queue' \in Seq(S) /\ batch' \in [Consumers -> Seq(S)]
             /\ UNCHANGED <<tx_queue, fw>>
  BY <1>4, <1>8 DEF FetchResponses
<1>9. ASSUME NEW t \in Consumers, HandleResponse(t)
      PROVE  batch' \in [Consumers -> Seq(S)] /\ UNCHANGED <<tx_queue, rx_queue, fw>>
  BY <1>4, <1>9 DEF HandleResponse
<1>10. ASSUME NEW c \in Cmds, \/ Create(c) \/ AcquireTxLock(c) \/ TxNotFull(c)
                             \/ EnqueueFails(c) \/ BeforeEnqueueWaitList(c)
                             \/ PushWaitResp(c) \/ EnqueueCleanup(c) \/ SyncReturns(c)
                             \/ SyncTimesOut(c) \/ SyncDelWaitResp(c)
      PROVE  UNCHANGED <<tx_queue, rx_queue, fw, batch>>
  BY <1>10 DEF Create, AcquireTxLock, TxNotFull, EnqueueFails,
     BeforeEnqueueWaitList, PushWaitResp, EnqueueCleanup, SyncReturns,
     SyncTimesOut, SyncDelWaitResp
<1>11. CASE \/ IrqHandler \/ ConsumeResponses \/ AcquireRxLock \/ ReleaseStart
            \/ ReleaseEnds
  BY <1>4, <1>11 DEF IrqHandler, ConsumeResponses, AcquireRxLock, ReleaseStart,
     ReleaseEnds
<1>12. ASSUME NEW t \in Consumers, \/ FetchEnds(t) \/ ReleaseRxLock(t)
                                   \/ HandlerCancelsTimer(t) \/ HandleArrived(t)
                                   \/ HandlerPuts(t) \/ ConsumeReturns(t)
       PROVE  UNCHANGED <<tx_queue, rx_queue, fw, batch>>
  BY <1>12 DEF FetchEnds, ReleaseRxLock, HandlerCancelsTimer, HandleArrived,
     HandlerPuts,
     ConsumeReturns
<1>13. ASSUME NEW c \in Async, \/ TimeoutStep(c) \/ CancelAwaiter(c) \/ DriverStep(c)
                               \/ ReleasePuts(c) \/ ReleaseFlushes(c)
       PROVE  UNCHANGED <<tx_queue, rx_queue, fw, batch>>
  BY <1>13 DEF TimeoutStep, TimerExpires, TimeoutDelWaitResp, HandleTimedout,
     TimeoutPuts,
     CancelAwaiter, DriverStep, CancelDelWaitResp, CancelWaits, OwnerPuts, ReleasePuts,
     ReleaseFlushes
<1>14. CASE UNCHANGED vars
  BY <1>4, <1>14 DEF vars
<1> QED
  BY <1>4, <1>5, <1>6, <1>7, <1>8, <1>9, <1>10, <1>11, <1>12, <1>13, <1>14
     DEF Next, SenderStep, ConsumerStep

\* The doorbell is a flag.
LEMMA NextIrq == IrqFlag /\ [Next]_vars => IrqFlag'
  BY Zenon DEF IrqFlag, Next, SenderStep, ConsumerStep, TimeoutStep, DriverStep, Create,
     AcquireTxLock, TxNotFull, EnqueueFails, BeforeEnqueueWaitList, PushWaitResp,
     WriteCmd, EnqueueCleanup, SyncReturns, SyncTimesOut, SyncDelWaitResp,
     FirmwareTakes, FirmwareResponds, IrqHandler, ConsumeResponses, AcquireRxLock,
     FetchResponses, FetchEnds, ReleaseRxLock, HandleResponse, HandlerCancelsTimer,
     HandleArrived, HandlerPuts, ConsumeReturns, TimerExpires, TimeoutDelWaitResp,
     HandleTimedout, TimeoutPuts, CancelAwaiter, CancelDelWaitResp, CancelWaits,
     OwnerPuts, ReleaseStart, ReleasePuts, ReleaseFlushes, ReleaseEnds, hwVars, vars

-----------------------------------------------------------------------------
\* The inductive invariant of the mailbox.
THEOREM MailboxInductive == ASSUME SeqUnambiguous PROVE Spec => []IInv
<1>1. IInv /\ [Next]_vars => IInv'
  BY NextTypes, NextHand, NextPlace, NextOwn, NextClaim, NextOwner, NextSeq, NextKref,
     NextQueue DEF IInv, SeqUnambiguous
<1>2. Init => IInv
  BY MailboxInit
<1> QED
  BY <1>1, <1>2, PTL DEF Spec

\* The count of an awaiter is the number of those who hold it, for any number of
\* commands, in every interleaving of senders, responses, timeouts,
\* cancellations and a release.
THEOREM KrefIsExact == ASSUME SeqUnambiguous PROVE Spec => []KrefExact
<1>1. IInv => KrefExact
  BY DEF IInv, KrefInv, KrefExact
<1> QED
  BY <1>1, MailboxInductive, PTL

\* No list, timeout work, handler, canceller or release reaches an awaiter or a
\* stack frame that is gone.
THEOREM NothingUsesFreed == ASSUME SeqUnambiguous PROVE Spec => []NoUseAfterFree
<1>1. ASSUME IInv, NEW c \in freed
      PROVE  /\ c \notin wait_list \cup rel_list
             /\ timer[c] = "none"
             /\ \A t \in Consumers : hand[t] # c
             /\ canceller[c] \in {"no", "done"}
             /\ rel_cur # c
  <2>1. c \in Cmds /\ Types /\ PlaceInv /\ OwnerInv /\ KrefInv
    BY <1>1 DEF IInv, Types
  <2>2. CASE c \in Async
    <3>1. kref[c] = 0 /\ kref[c] = Owned(c) + Timed(c) + Listed(c) + Handled(c)
      BY <1>1, <2>1, <2>2 DEF KrefInv
    <3>2. /\ owner[c] # "owns" /\ timer[c] = "none" /\ c \notin wait_list \cup rel_list
          /\ \A t \in Consumers : hand[t] # c
      BY <3>1 DEF Owned, Timed, Listed, Handled
    <3>3. canceller[c] \in {"no", "done"} /\ rel_cur # c
      BY <2>1, <2>2, <3>2, AsyncFact DEF OwnerInv, Types
    <3> QED
      BY <3>2, <3>3
  <2>3. CASE c \in Sync
    <3>1. c \notin Async /\ c # None
      BY <2>3, <2>1, MailboxAssumption
    <3>2. pc[c] \in {"returned", "failed"} /\ timer[c] = "none" /\ canceller[c] = "no"
      BY <1>1, <2>1, <2>3 DEF PlaceInv
    <3>3. c \notin wait_list /\ c \notin rel_list
      BY <2>1, <3>1, <3>2 DEF PlaceInv
    <3>4. rel_cur # c /\ \A t \in Consumers : hand[t] # c
      BY <2>1, <3>1 DEF Types
    <3> QED
      BY <3>2, <3>3, <3>4
  <2> QED
    BY <2>1, <2>2, <2>3 DEF Cmds
<1>2. IInv => NoUseAfterFree
  BY <1>1 DEF NoUseAfterFree
<1> QED
  BY <1>2, MailboxInductive, PTL

\* Numbers from a counter, that of the KCI or that of a mailbox that has no
\* awaiters, are enough for every sender to get the response to its own command:
\* nothing is assumed of the numbers themselves.
THEOREM WaiterGetsOwn ==
  ASSUME Numbering = "kci" \/ (Numbering = "mailbox" /\ Async = {})
  PROVE  Spec => []OwnResponse
<1> SeqUnambiguous
  BY DEF SeqUnambiguous
<1>1. IInv => OwnResponse
  BY DEF IInv, OwnInv, OwnResponse
<1> QED
  BY <1>1, MailboxInductive, PTL

\* A command that is not listed yet, or listed, has lost its timeout work only to a
\* cancellation or to a search that came too early.
TimedInv ==
  \A c \in Async \ NoTimeout :
    Unlisted(c) \/ c \in wait_list =>
      timer[c] \in {"scheduled", "running"} \/ canceller[c] # "no" \/ c \in early

\* The claims of IInv say that whoever cancels or ends a timeout work has taken
\* its awaiter off the list.
LEMMA NextTimed == IInv /\ TimedInv /\ [Next]_vars => TimedInv'
<1> SUFFICES ASSUME IInv, TimedInv, [Next]_vars PROVE TimedInv'
  OBVIOUS
<1>1. Types /\ PlaceInv /\ ClaimInv /\ HandInv /\ TimedInv
  BY DEF IInv
<1> USE <1>1, MailboxAssumption, AsyncFact, ConsumerFact DEF Types, PlaceInv, ClaimInv,
      HandInv, TimedInv, Unlisted, Goto, Consume, Work, Cancel, sendVars, listVars,
      refVars, cbVars, hwVars, conVars, relVars
<1>2. ASSUME NEW c \in Cmds, Create(c) PROVE TimedInv'
  BY <1>2 DEF Create
<1>3. ASSUME NEW c \in Cmds, AcquireTxLock(c) PROVE TimedInv'
  BY <1>3 DEF AcquireTxLock
<1>4. ASSUME NEW c \in Cmds, TxNotFull(c) PROVE TimedInv'
  BY <1>4 DEF TxNotFull
<1>5. ASSUME NEW c \in Cmds, EnqueueFails(c) PROVE TimedInv'
  BY <1>5 DEF EnqueueFails
<1>6. ASSUME NEW c \in Cmds, BeforeEnqueueWaitList(c) PROVE TimedInv'
  BY <1>6 DEF BeforeEnqueueWaitList
<1>7. ASSUME NEW c \in Cmds, PushWaitResp(c) PROVE TimedInv'
  BY <1>7 DEF PushWaitResp
<1>8. ASSUME NEW c \in Cmds, WriteCmd(c) PROVE TimedInv'
  BY <1>8 DEF WriteCmd
<1>9. ASSUME NEW c \in Cmds, EnqueueCleanup(c) PROVE TimedInv'
  BY <1>9 DEF EnqueueCleanup
<1>10. ASSUME NEW c \in Cmds, SyncReturns(c) PROVE TimedInv'
  BY <1>10 DEF SyncReturns
<1>11. ASSUME NEW c \in Cmds, SyncTimesOut(c) PROVE TimedInv'
  BY <1>11 DEF SyncTimesOut
<1>12. ASSUME NEW c \in Cmds, SyncDelWaitResp(c) PROVE TimedInv'
  BY <1>12, SyncFacts
<1>13. CASE FirmwareTakes
  BY <1>13 DEF FirmwareTakes
<1>14. ASSUME NEW c \in Cmds, FirmwareResponds(c) PROVE TimedInv'
  BY <1>14 DEF FirmwareResponds
<1>15. CASE IrqHandler
  BY <1>15 DEF IrqHandler
<1>16. CASE ConsumeResponses
  BY <1>16 DEF ConsumeResponses
<1>17. CASE AcquireRxLock
  BY <1>17 DEF AcquireRxLock
<1>18. ASSUME NEW t \in Consumers, FetchResponses(t) PROVE TimedInv'
  BY <1>18 DEF FetchResponses
<1>19. ASSUME NEW t \in Consumers, FetchEnds(t) PROVE TimedInv'
  BY <1>19 DEF FetchEnds
<1>20. ASSUME NEW t \in Consumers, ReleaseRxLock(t) PROVE TimedInv'
  BY <1>20 DEF ReleaseRxLock
<1>21. ASSUME NEW t \in Consumers, HandleResponse(t) PROVE TimedInv'
  <2>1. PICK r \in Transmitted : Handles(t, r)
    BY <1>21, HandleFacts
  <2> QED
    BY <2>1 DEF Handles
<1>22. ASSUME NEW t \in Consumers, HandlerCancelsTimer(t) PROVE TimedInv'
  BY <1>22 DEF HandlerCancelsTimer, CancelTimeoutWork
<1>23. ASSUME NEW t \in Consumers, HandleArrived(t) PROVE TimedInv'
  BY <1>23 DEF HandleArrived, Callback
<1>24. ASSUME NEW t \in Consumers, HandlerPuts(t) PROVE TimedInv'
  BY <1>24 DEF HandlerPuts
<1>25. ASSUME NEW t \in Consumers, ConsumeReturns(t) PROVE TimedInv'
  BY <1>25 DEF ConsumeReturns
<1>26. ASSUME NEW c \in Async, TimerExpires(c) PROVE TimedInv'
  BY <1>26 DEF TimerExpires
<1>27. ASSUME NEW c \in Async, TimeoutDelWaitResp(c) PROVE TimedInv'
  BY <1>27, TimeoutFacts
<1>28. ASSUME NEW c \in Async, HandleTimedout(c) PROVE TimedInv'
  BY <1>28 DEF HandleTimedout, Callback
<1>29. ASSUME NEW c \in Async, TimeoutPuts(c) PROVE TimedInv'
  BY <1>29 DEF TimeoutPuts
<1>30. ASSUME NEW c \in Async, CancelAwaiter(c) PROVE TimedInv'
  BY <1>30 DEF CancelAwaiter, CancelTimeoutWork
<1>31. ASSUME NEW c \in Async, CancelDelWaitResp(c) PROVE TimedInv'
  BY <1>31, CancelFacts
<1>32. ASSUME NEW c \in Async, CancelWaits(c) PROVE TimedInv'
  BY <1>32 DEF CancelWaits
<1>33. ASSUME NEW c \in Async, OwnerPuts(c) PROVE TimedInv'
  BY <1>33 DEF OwnerPuts
<1>34. CASE ReleaseStart
  BY <1>34 DEF ReleaseStart
<1>35. ASSUME NEW c \in Async, ReleasePuts(c) PROVE TimedInv'
  BY <1>35 DEF ReleasePuts
<1>36. ASSUME NEW c \in Async, ReleaseFlushes(c) PROVE TimedInv'
  BY <1>36 DEF ReleaseFlushes, Callback
<1>37. CASE ReleaseEnds
  BY <1>37 DEF ReleaseEnds
<1>38. CASE UNCHANGED vars
  BY <1>38 DEF vars
<1> QED
  BY <1>2, <1>3, <1>4, <1>5, <1>6, <1>7, <1>8, <1>9, <1>10, <1>11, <1>12, <1>13,
     <1>14, <1>15, <1>16, <1>17, <1>18, <1>19, <1>20, <1>21, <1>22, <1>23, <1>24,
     <1>25, <1>26, <1>27, <1>28, <1>29, <1>30, <1>31, <1>32, <1>33, <1>34, <1>35,
     <1>36, <1>37, <1>38, AsyncFact
     DEF Next, SenderStep, ConsumerStep, TimeoutStep, DriverStep

\* A listed command keeps its timeout work, unless it is cancelled or the work was
\* too early.
THEOREM ListedAreTimed == ASSUME SeqUnambiguous PROVE Spec => []ListedIsTimed
<1>1. Init => TimedInv
  BY DEF Init, TimedInv, Unlisted, Cmds
<1>2. TimedInv => ListedIsTimed
  BY DEF TimedInv, ListedIsTimed
<1> QED
  BY <1>1, <1>2, NextTimed, MailboxInductive, PTL DEF Spec

\* Every variable keeps its type; in particular no count goes below zero.
THEOREM MailboxTypeCorrect == ASSUME SeqUnambiguous PROVE Spec => []TypeOK
<1>1. Init => IrqFlag
  BY DEF Init, IrqFlag
<1>2. Spec => []IrqFlag
  BY <1>1, NextIrq, PTL DEF Spec
<1>3. ASSUME IInv PROVE kref \in [Cmds -> Nat]
  <2>1. ASSUME NEW c \in Cmds PROVE kref[c] \in Nat
    <3>1. CASE c \in Async
      BY <1>3, <3>1 DEF IInv, KrefInv, Owned, Timed, Listed, Handled
    <3>2. CASE c \in Sync
      BY <1>3, <3>2 DEF IInv, PlaceInv
    <3> QED
      BY <3>1, <3>2 DEF Cmds
  <2> QED
    BY <2>1, <1>3 DEF IInv, Types
<1>4. ASSUME IInv PROVE completed \subseteq Async
  BY <1>4 DEF IInv, Types, PlaceInv, Cmds
<1>5. ASSUME IInv
      PROVE  /\ tx_queue \in Seq(Cmds) /\ rx_queue \in Seq(Cmds) /\ fw \subseteq Cmds
             /\ batch \in [Consumers -> Seq(Cmds)]
  <2>1. Transmitted \subseteq Cmds
    BY DEF Transmitted
  <2>2. \A s \in Seq(Transmitted) : s \in Seq(Cmds)
    BY <2>1
  <2> HIDE DEF Transmitted
  <2> QED
    BY <1>5, <2>1, <2>2 DEF IInv, QueueInv
<1>6. ASSUME IInv, IrqFlag PROVE TypeOK
  <2>1. Types /\ irq \in BOOLEAN
    BY <1>6 DEF IInv, IrqFlag
  <2>2. /\ kref \in [Cmds -> Nat] /\ completed \subseteq Async
        /\ tx_queue \in Seq(Cmds) /\ rx_queue \in Seq(Cmds) /\ fw \subseteq Cmds
        /\ batch \in [Consumers -> Seq(Cmds)]
    BY <1>3, <1>4, <1>5, <1>6
  <2> QED
    BY ZenonT(60), <2>1, <2>2 DEF Types, TypeOK
<1> QED
  BY <1>2, <1>6, MailboxInductive, PTL

\* A step calls the driver back for an awaiter that was not called back before
\* and whose cancellation has not returned.
LEMMA StepCallsOnce ==
  IInv /\ [Next]_vars =>
    [\A c \in Async :
        calls'[c] # calls[c] => calls[c] = 0 /\ canceller[c] # "done"]_vars
<1> SUFFICES ASSUME IInv, Next, NEW d \in Async, calls'[d] # calls[d]
             PROVE  calls[d] = 0 /\ canceller[d] # "done"
  OBVIOUS
<1>1. Types /\ HandInv /\ ClaimInv
  BY DEF IInv
<1> USE <1>1, AsyncFact DEF Types, HandInv, ClaimInv, Consume, Work, Callback, cbVars
<1>2. ASSUME NEW t \in Consumers, HandleArrived(t)
      PROVE  calls[d] = 0 /\ canceller[d] # "done"
  BY <1>2 DEF HandleArrived
<1>3. ASSUME NEW c \in Async, HandleTimedout(c) \/ ReleaseFlushes(c)
      PROVE  calls[d] = 0 /\ canceller[d] # "done"
  BY <1>3 DEF HandleTimedout, ReleaseFlushes
<1>4. ASSUME NEW c \in Cmds, Create(c) \/ SenderStep(c) PROVE UNCHANGED calls
  BY <1>4 DEF SenderStep, Create, AcquireTxLock, TxNotFull, EnqueueFails,
     BeforeEnqueueWaitList, PushWaitResp, WriteCmd, EnqueueCleanup, SyncReturns,
     SyncTimesOut, SyncDelWaitResp
<1>5. ASSUME \/ FirmwareTakes \/ IrqHandler \/ ConsumeResponses \/ AcquireRxLock
             \/ ReleaseStart \/ ReleaseEnds \/ \E c \in Cmds : FirmwareResponds(c)
      PROVE  UNCHANGED calls
  BY <1>5 DEF FirmwareTakes, IrqHandler, ConsumeResponses, AcquireRxLock, ReleaseStart,
     ReleaseEnds, FirmwareResponds
<1>6. ASSUME NEW t \in Consumers, ConsumerStep(t)
      PROVE  HandleArrived(t) \/ UNCHANGED calls
  BY <1>6 DEF ConsumerStep, FetchResponses, FetchEnds, ReleaseRxLock, HandleResponse,
     HandlerCancelsTimer, HandlerPuts, ConsumeReturns
<1>7. ASSUME NEW c \in Async, \/ TimeoutStep(c) \/ CancelAwaiter(c) \/ DriverStep(c)
                              \/ ReleasePuts(c)
      PROVE  HandleTimedout(c) \/ UNCHANGED calls
  BY <1>7 DEF TimeoutStep, TimerExpires, TimeoutDelWaitResp, TimeoutPuts, CancelAwaiter,
     DriverStep, CancelDelWaitResp, CancelWaits, OwnerPuts, ReleasePuts
<1> QED
  BY <1>2, <1>3, <1>4, <1>5, <1>6, <1>7 DEF Next

\* Whatever races for an awaiter, its driver is called back once at most, and not
\* after gcip_mailbox_cancel_awaiter has returned.
THEOREM CalledBackOnce == ASSUME SeqUnambiguous PROVE Spec => OneCallback
  BY MailboxInductive, StepCallsOnce, PTL DEF Spec, OneCallback

-----------------------------------------------------------------------------
(***************************************************************************)
(* The mailbox implements GcipAwaiter, step by step.                       *)
(***************************************************************************)
\* A step that changes nothing of d that PhaseOf and RefsOf look at.
SameView(d) ==
  /\ pc'[d] = "new" <=> pc[d] = "new"
  /\ pc'[d] = "failed" <=> pc[d] = "failed"
  /\ d \in wait_list' <=> d \in wait_list
  /\ d \in rel_list' <=> d \in rel_list
  /\ rel_cur' = d <=> rel_cur = d
  /\ calls'[d] = calls[d]
  /\ (\E t \in Consumers : hand'[t] = d) <=> (\E t \in Consumers : hand[t] = d)
  /\ timer'[d] = "taken" <=> timer[d] = "taken"
  /\ timer'[d] = "none" <=> timer[d] = "none"
  /\ owner'[d] = "owns" <=> owner[d] = "owns"
  /\ canceller'[d] = canceller[d]

\* An awaiter whose view is the same is in the same phase with the same holders.
LEMMA SameAwaiter ==
  ASSUME NEW d \in Async, SameView(d)
  PROVE  /\ PhaseOf(d)' = PhaseOf(d) /\ RefsOf(d)' = RefsOf(d)
         /\ canceller'[d] = canceller[d]
<1>1. PhaseOf(d)' = PhaseOf(d)
  BY DEF SameView, PhaseOf
<1>2. RefsOf(d)' = RefsOf(d)
  BY DEF SameView, RefsOf
<1> QED
  BY <1>1, <1>2 DEF SameView

\* The mapped variables, of which a step changes one awaiter at most.
PhaseMap == [c \in Async |-> PhaseOf(c)]
RefsMap == [c \in Async |-> RefsOf(c)]
CancMap == [c \in Async |-> canceller[c]]

\* A step that changes one awaiter updates the mapped state at that awaiter.
LEMMA OneAwaiterChanges ==
  ASSUME NEW c \in Async, \A d \in Async : d # c => SameView(d)
  PROVE  /\ PhaseMap' = [PhaseMap EXCEPT ![c] = PhaseOf(c)']
         /\ RefsMap' = [RefsMap EXCEPT ![c] = RefsOf(c)']
         /\ CancMap' = [CancMap EXCEPT ![c] = canceller'[c]]
<1>1. \A d \in Async : d # c => /\ PhaseOf(d)' = PhaseOf(d) /\ RefsOf(d)' = RefsOf(d)
                               /\ canceller'[d] = canceller[d]
  BY SameAwaiter
<1> QED
  BY <1>1 DEF PhaseMap, RefsMap, CancMap

\* A step that changes no awaiter is a stutter of GcipAwaiter.
LEMMA NoAwaiterChanges ==
  ASSUME \A d \in Async : SameView(d)
  PROVE  UNCHANGED Awaiter!awaiterVars
<1>1. \A d \in Async : /\ PhaseOf(d)' = PhaseOf(d) /\ RefsOf(d)' = RefsOf(d)
                       /\ canceller'[d] = canceller[d]
  BY SameAwaiter
<1> QED
  BY <1>1 DEF Awaiter!awaiterVars

\* A command sent with an awaiter is the action Send of GcipAwaiter.
LEMMA SendMaps ==
  ASSUME NEW c \in Async, \A d \in Async : d # c => SameView(d),
         PhaseOf(c) = "none" /\ PhaseOf(c)' = "sending",
         RefsOf(c)' = {"driver"} \cup (IF c \in NoTimeout THEN {} ELSE {"timer"}),
         canceller'[c] = canceller[c]
  PROVE  Awaiter!Send(c)
  BY OneAwaiterChanges DEF Awaiter!Send, Awaiter!Becomes, PhaseMap, RefsMap, CancMap

\* An awaiter pushed to the wait list is the action Listed of GcipAwaiter.
LEMMA ListedMaps ==
  ASSUME NEW c \in Async, \A d \in Async : d # c => SameView(d),
         PhaseOf(c) = "sending" /\ PhaseOf(c)' = "listed",
         RefsOf(c)' = RefsOf(c) \cup {"list"},
         canceller'[c] = canceller[c]
  PROVE  Awaiter!Listed(c)
  BY OneAwaiterChanges DEF Awaiter!Listed, Awaiter!Becomes, PhaseMap, RefsMap, CancMap

\* An awaiter dropped because its command was not sent
\* is the action SendFails of GcipAwaiter.
LEMMA SendFailsMaps ==
  ASSUME NEW c \in Async, \A d \in Async : d # c => SameView(d),
         PhaseOf(c) = "sending" /\ PhaseOf(c)' = "failed",
         RefsOf(c)' = RefsOf(c) \ {"driver", "list", "timer"},
         canceller'[c] = canceller[c]
  PROVE  Awaiter!SendFails(c)
  BY OneAwaiterChanges DEF Awaiter!SendFails, Awaiter!Becomes, Awaiter!Drops,
     Awaiter!Holders, PhaseMap, RefsMap, CancMap

\* An awaiter taken from the list by its response
\* is the action Arrives of GcipAwaiter.
LEMMA ArrivesMaps ==
  ASSUME NEW c \in Async, \A d \in Async : d # c => SameView(d),
         PhaseOf(c) = "listed" /\ PhaseOf(c)' = "arrived",
         RefsOf(c)' = RefsOf(c),
         canceller'[c] = canceller[c]
  PROVE  Awaiter!Arrives(c)
  BY OneAwaiterChanges DEF Awaiter!Arrives, Awaiter!Becomes, PhaseMap, RefsMap, CancMap

\* A timer that drops its reference is the action TimerPuts of GcipAwaiter.
LEMMA TimerPutsMaps ==
  ASSUME NEW c \in Async, \A d \in Async : d # c => SameView(d),
         PhaseOf(c) # "timedout" /\ PhaseOf(c)' = PhaseOf(c),
         "timer" \in RefsOf(c) /\ RefsOf(c)' = RefsOf(c) \ {"timer"},
         canceller'[c] = canceller[c]
  PROVE  Awaiter!TimerPuts(c)
  BY OneAwaiterChanges DEF Awaiter!TimerPuts, Awaiter!Drops, PhaseMap, RefsMap, CancMap

\* A callback for an arrived response or a timeout
\* is the action Handled of GcipAwaiter.
LEMMA HandledMaps ==
  ASSUME NEW c \in Async, \A d \in Async : d # c => SameView(d),
         PhaseOf(c) \in {"arrived", "timedout"} /\ PhaseOf(c)' = "handled",
         RefsOf(c)' = RefsOf(c),
         canceller'[c] = canceller[c]
  PROVE  Awaiter!Handled(c)
  BY OneAwaiterChanges DEF Awaiter!Handled, Awaiter!Becomes, PhaseMap, RefsMap, CancMap

\* The consumer that drops the reference of the list
\* is the action HandlerPuts of GcipAwaiter.
LEMMA HandlerPutsMaps ==
  ASSUME NEW c \in Async, \A d \in Async : d # c => SameView(d),
         PhaseOf(c) = "handled" /\ PhaseOf(c)' = PhaseOf(c),
         "list" \in RefsOf(c) /\ RefsOf(c)' = RefsOf(c) \ {"list"},
         canceller'[c] = canceller[c]
  PROVE  Awaiter!HandlerPuts(c)
  BY OneAwaiterChanges DEF Awaiter!HandlerPuts, Awaiter!Drops, PhaseMap, RefsMap,
     CancMap

\* An awaiter taken from the list by its timeout work
\* is the action TimesOut of GcipAwaiter.
LEMMA TimesOutMaps ==
  ASSUME NEW c \in Async, \A d \in Async : d # c => SameView(d),
         PhaseOf(c) = "listed" /\ PhaseOf(c)' = "timedout",
         "timer" \in RefsOf(c) /\ RefsOf(c)' = RefsOf(c) \ {"list"},
         canceller'[c] = canceller[c]
  PROVE  Awaiter!TimesOut(c)
  BY OneAwaiterChanges DEF Awaiter!TimesOut, Awaiter!Becomes, Awaiter!Drops, PhaseMap,
     RefsMap, CancMap

\* A driver that begins to cancel is the action Cancels of GcipAwaiter.
LEMMA CancelsMaps ==
  ASSUME NEW c \in Async, \A d \in Async : d # c => SameView(d),
         PhaseOf(c) = PhaseOf(c) /\ PhaseOf(c)' = PhaseOf(c),
         /\ "driver" \in RefsOf(c)
         /\ RefsOf(c)' = RefsOf(c) \/ RefsOf(c)' = RefsOf(c) \ {"timer"},
         canceller[c] = "no" /\ canceller'[c] = "del"
  PROVE  Awaiter!Cancels(c)
  BY OneAwaiterChanges DEF Awaiter!Cancels, Awaiter!Drops, PhaseMap, RefsMap, CancMap

\* A driver that cancels an awaiter it finds listed
\* is the action CancelRemoves of GcipAwaiter.
LEMMA CancelRemovesMaps ==
  ASSUME NEW c \in Async, \A d \in Async : d # c => SameView(d),
         PhaseOf(c) = "listed" /\ PhaseOf(c)' = "removed",
         RefsOf(c)' = RefsOf(c) \ {"list"},
         canceller[c] = "del" /\ canceller'[c] = "done"
  PROVE  Awaiter!CancelRemoves(c)
  BY OneAwaiterChanges DEF Awaiter!CancelRemoves, Awaiter!Becomes, Awaiter!Drops,
     PhaseMap, RefsMap, CancMap

\* A driver that cancels too late is the action CancelMisses of GcipAwaiter.
LEMMA CancelMissesMaps ==
  ASSUME NEW c \in Async, \A d \in Async : d # c => SameView(d),
         PhaseOf(c) # "listed" /\ PhaseOf(c)' = PhaseOf(c),
         RefsOf(c)' = RefsOf(c),
         canceller[c] = "del" /\ canceller'[c] = "wait"
  PROVE  Awaiter!CancelMisses(c)
  BY OneAwaiterChanges DEF Awaiter!CancelMisses, PhaseMap, RefsMap, CancMap

\* A driver that has waited for the callback is the action CancelWaits of GcipAwaiter.
LEMMA CancelWaitsMaps ==
  ASSUME NEW c \in Async, \A d \in Async : d # c => SameView(d),
         PhaseOf(c) = "handled" /\ PhaseOf(c)' = PhaseOf(c),
         RefsOf(c)' = RefsOf(c),
         canceller[c] = "wait" /\ canceller'[c] = "done"
  PROVE  Awaiter!CancelWaits(c)
  BY OneAwaiterChanges DEF Awaiter!CancelWaits, PhaseMap, RefsMap, CancMap

\* A driver that drops its reference is the action DriverPuts of GcipAwaiter.
LEMMA DriverPutsMaps ==
  ASSUME NEW c \in Async, \A d \in Async : d # c => SameView(d),
         /\ PhaseOf(c) \in {"arrived", "timedout", "handled", "removed"}
         /\ PhaseOf(c)' = PhaseOf(c),
         "driver" \in RefsOf(c) /\ RefsOf(c)' = RefsOf(c) \ {"driver"},
         canceller[c] \in {"no", "done"} /\ canceller'[c] = canceller[c]
  PROVE  Awaiter!DriverPuts(c)
  BY OneAwaiterChanges DEF Awaiter!DriverPuts, Awaiter!Drops, PhaseMap, RefsMap, CancMap

\* The release that drops the reference of the list
\* is the action ListPuts of GcipAwaiter.
LEMMA ListPutsMaps ==
  ASSUME NEW c \in Async, \A d \in Async : d # c => SameView(d),
         PhaseOf(c) = "flushed" /\ PhaseOf(c)' = PhaseOf(c),
         "list" \in RefsOf(c) /\ RefsOf(c)' = RefsOf(c) \ {"list"},
         canceller'[c] = canceller[c]
  PROVE  Awaiter!ListPuts(c)
  BY OneAwaiterChanges DEF Awaiter!ListPuts, Awaiter!Drops, PhaseMap, RefsMap, CancMap

\* The release that calls an awaiter back is the action Flushed of GcipAwaiter.
LEMMA FlushedMaps ==
  ASSUME NEW c \in Async, \A d \in Async : d # c => SameView(d),
         PhaseOf(c) = "flushed" /\ PhaseOf(c)' = "handled",
         "list" \notin RefsOf(c) /\ RefsOf(c)' = RefsOf(c) \ {"driver", "timer"},
         canceller'[c] = canceller[c]
  PROVE  Awaiter!Flushed(c)
  BY OneAwaiterChanges DEF Awaiter!Flushed, Awaiter!Becomes, Awaiter!Drops, PhaseMap,
     RefsMap, CancMap

\* Every step of the mailbox is a step of GcipAwaiter for one awaiter, the release
\* of all that are listed, or none.
LEMMA AwaiterStep ==
  IInv /\ [Next]_vars => [Awaiter!AwaiterNext]_(Awaiter!awaiterVars)
<1> SUFFICES ASSUME IInv, [Next]_vars
    PROVE Awaiter!AwaiterNext \/ UNCHANGED Awaiter!awaiterVars
  OBVIOUS
<1>1. Types /\ PlaceInv /\ HandInv /\ ClaimInv /\ OwnerInv
  BY DEF IInv
<1> USE <1>1, MailboxAssumption, AsyncFact, ConsumerFact
    DEF Types, PlaceInv, HandInv, ClaimInv, OwnerInv, Goto, Consume, Work, Cancel,
        sendVars, listVars, refVars, cbVars, hwVars, conVars, relVars
<1>2. ASSUME NEW c \in Async, Create(c) PROVE Awaiter!AwaiterNext
  <2>1. \A d \in Async : d # c => SameView(d)
    BY <1>2 DEF Create, SameView
  <2>2. PhaseOf(c) = "none" /\ PhaseOf(c)' = "sending"
    BY <1>2 DEF Create, PhaseOf
  <2>3. RefsOf(c)' = {"driver"} \cup (IF c \in NoTimeout THEN {} ELSE {"timer"})
    BY <1>2 DEF Create, RefsOf
  <2>4. canceller'[c] = canceller[c]
    BY <1>2 DEF Create
  <2>5. Awaiter!Send(c)
    BY <2>1, <2>2, <2>3, <2>4, SendMaps
  <2> QED
    BY <2>5 DEF Awaiter!AwaiterNext
<1>3. ASSUME NEW c \in Cmds, \/ AcquireTxLock(c) \/ TxNotFull(c) \/ EnqueueFails(c)
                             \/ BeforeEnqueueWaitList(c) \/ WriteCmd(c)
      PROVE UNCHANGED Awaiter!awaiterVars
  <2>1. \A d \in Async : SameView(d)
    BY <1>3 DEF AcquireTxLock, TxNotFull, EnqueueFails, BeforeEnqueueWaitList,
       WriteCmd, SameView
  <2> QED
    BY <2>1, NoAwaiterChanges
<1>4. ASSUME NEW c \in Async, PushWaitResp(c) PROVE Awaiter!AwaiterNext
  <2>1. \A d \in Async : d # c => SameView(d)
    BY <1>4 DEF PushWaitResp, SameView
  <2>2. PhaseOf(c) = "sending" /\ PhaseOf(c)' = "listed"
    BY <1>4 DEF PushWaitResp, PhaseOf
  <2>3. RefsOf(c)' = RefsOf(c) \cup {"list"}
    BY <1>4 DEF PushWaitResp, RefsOf
  <2>4. canceller'[c] = canceller[c]
    BY <1>4 DEF PushWaitResp
  <2>5. Awaiter!Listed(c)
    BY <2>1, <2>2, <2>3, <2>4, ListedMaps
  <2> QED
    BY <2>5 DEF Awaiter!AwaiterNext
<1>5. ASSUME NEW c \in Async, EnqueueCleanup(c) PROVE Awaiter!AwaiterNext
  <2>1. \A d \in Async : d # c => SameView(d)
    BY <1>5 DEF EnqueueCleanup, SameView
  <2>2. PhaseOf(c) = "sending" /\ PhaseOf(c)' = "failed"
    BY <1>5 DEF EnqueueCleanup, PhaseOf
  <2>3. RefsOf(c)' = RefsOf(c) \ {"driver", "list", "timer"}
    BY <1>5 DEF EnqueueCleanup, RefsOf
  <2>4. canceller'[c] = canceller[c]
    BY <1>5 DEF EnqueueCleanup
  <2>5. Awaiter!SendFails(c)
    BY <2>1, <2>2, <2>3, <2>4, SendFailsMaps
  <2> QED
    BY <2>5 DEF Awaiter!AwaiterNext
<1>6. ASSUME NEW c \in Sync, Create(c) \/ PushWaitResp(c) \/ EnqueueCleanup(c)
      PROVE UNCHANGED Awaiter!awaiterVars
  <2>1. \A d \in Async : SameView(d)
    BY <1>6 DEF Create, PushWaitResp, GetRef, NoRef, EnqueueCleanup, SameView
  <2> QED
    BY <2>1, NoAwaiterChanges
<1>7. ASSUME NEW c \in Cmds, SyncReturns(c) \/ SyncTimesOut(c)
      PROVE UNCHANGED Awaiter!awaiterVars
  <2>1. \A d \in Async : SameView(d)
    BY <1>7 DEF SyncReturns, SyncTimesOut, SameView
  <2> QED
    BY <2>1, NoAwaiterChanges
<1>8. ASSUME NEW c \in Cmds, SyncDelWaitResp(c) PROVE UNCHANGED Awaiter!awaiterVars
  <2>1. \A d \in Async : SameView(d)
    BY <1>8, SyncFacts DEF SameView
  <2> QED
    BY <2>1, NoAwaiterChanges
<1>9. ASSUME \/ FirmwareTakes \/ IrqHandler \/ ConsumeResponses \/ AcquireRxLock
             \/ ReleaseEnds
      PROVE UNCHANGED Awaiter!awaiterVars
  <2>1. \A d \in Async : SameView(d)
    BY <1>9 DEF FirmwareTakes, IrqHandler, ConsumeResponses, AcquireRxLock,
       ReleaseEnds, SameView
  <2> QED
    BY <2>1, NoAwaiterChanges
<1>10. ASSUME NEW c \in Cmds, FirmwareResponds(c) PROVE UNCHANGED Awaiter!awaiterVars
  <2>1. \A d \in Async : SameView(d)
    BY <1>10 DEF FirmwareResponds, SameView
  <2> QED
    BY <2>1, NoAwaiterChanges
<1>11. ASSUME NEW t \in Consumers, \/ FetchResponses(t) \/ FetchEnds(t)
                                   \/ ReleaseRxLock(t) \/ ConsumeReturns(t)
       PROVE UNCHANGED Awaiter!awaiterVars
  <2>1. \A d \in Async : SameView(d)
    BY <1>11 DEF FetchResponses, FetchEnds, ReleaseRxLock, ConsumeReturns, SameView
  <2> QED
    BY <2>1, NoAwaiterChanges
<1>12. ASSUME NEW t \in Consumers, HandleResponse(t)
       PROVE Awaiter!AwaiterNext \/ UNCHANGED Awaiter!awaiterVars
  <2>1. PICK r \in Transmitted : Handles(t, r)
    BY <1>12, HandleFacts
  <2>2. CASE r \in wait_list /\ r \in Async
    <3>1. /\ wait_list' = wait_list \ {r} /\ hand' = [hand EXCEPT ![t] = r]
          /\ cpc[t] = "match"
          /\ UNCHANGED <<sendVars, refVars, timer, canceller, cbVars, relVars>>
      BY <2>1, <2>2 DEF Handles
    <3>2. \A d \in Async : d # r => SameView(d)
      BY <2>2, <3>1 DEF SameView
    <3>3. PhaseOf(r) = "listed" /\ PhaseOf(r)' = "arrived"
      BY <2>2, <3>1 DEF PhaseOf
    <3>4. RefsOf(r)' = RefsOf(r)
      BY <2>2, <3>1 DEF RefsOf
    <3>5. canceller'[r] = canceller[r]
      BY <2>2, <3>1
    <3>6. Awaiter!Arrives(r)
      BY <3>2, <3>3, <3>4, <3>5, ArrivesMaps, <2>2
    <3> QED
      BY <3>6, <2>2 DEF Awaiter!AwaiterNext
  <2>3. CASE ~(r \in wait_list /\ r \in Async)
    <3>1. \A d \in Async : SameView(d)
      BY <2>1, <2>3 DEF Handles, SameView
    <3> QED
      BY <3>1, NoAwaiterChanges
  <2> QED
    BY <2>2, <2>3
<1>13. ASSUME NEW t \in Consumers, HandlerCancelsTimer(t)
       PROVE Awaiter!AwaiterNext \/ UNCHANGED Awaiter!awaiterVars
  <2>1. PICK c \in Async : hand[t] = c
    BY <1>13 DEF HandlerCancelsTimer
  <2>2. CASE timer[c] = "scheduled"
    <3>1. \A d \in Async : d # c => SameView(d)
      BY <1>13, <2>1, <2>2 DEF HandlerCancelsTimer, CancelTimeoutWork, SameView
    <3>2. PhaseOf(c) # "timedout" /\ PhaseOf(c)' = PhaseOf(c)
      BY <1>13, <2>1, <2>2 DEF HandlerCancelsTimer, CancelTimeoutWork, PhaseOf
    <3>3. "timer" \in RefsOf(c) /\ RefsOf(c)' = RefsOf(c) \ {"timer"}
      BY <1>13, <2>1, <2>2 DEF HandlerCancelsTimer, CancelTimeoutWork, RefsOf
    <3>4. canceller'[c] = canceller[c]
      BY <1>13, <2>1, <2>2 DEF HandlerCancelsTimer, CancelTimeoutWork
    <3>5. Awaiter!TimerPuts(c)
      BY <3>1, <3>2, <3>3, <3>4, TimerPutsMaps
    <3> QED
      BY <3>5 DEF Awaiter!AwaiterNext
  <2>3. CASE timer[c] # "scheduled"
    <3>1. \A d \in Async : SameView(d)
      BY <1>13, <2>1, <2>3 DEF HandlerCancelsTimer, CancelTimeoutWork, SameView
    <3> QED
      BY <3>1, NoAwaiterChanges
  <2> QED
    BY <2>2, <2>3
<1>14. ASSUME NEW t \in Consumers, HandleArrived(t) PROVE Awaiter!AwaiterNext
  <2>1. PICK c \in Async : hand[t] = c
    BY <1>14 DEF HandleArrived
  <2>2. calls[c] = 0 /\ calls'[c] = 1
    BY <1>14, <2>1 DEF HandleArrived, Callback
  <2>3. \A d \in Async : d # c => SameView(d)
    BY <1>14, <2>1, <2>2 DEF HandleArrived, Callback, SameView
  <2>4. PhaseOf(c) \in {"arrived", "timedout"} /\ PhaseOf(c)' = "handled"
    BY <1>14, <2>1, <2>2 DEF HandleArrived, Callback, PhaseOf
  <2>5. RefsOf(c)' = RefsOf(c)
    BY <1>14, <2>1, <2>2 DEF HandleArrived, Callback, RefsOf
  <2>6. canceller'[c] = canceller[c]
    BY <1>14, <2>1, <2>2 DEF HandleArrived, Callback
  <2>7. Awaiter!Handled(c)
    BY <2>3, <2>4, <2>5, <2>6, HandledMaps
  <2> QED
    BY <2>7 DEF Awaiter!AwaiterNext
<1>15. ASSUME NEW t \in Consumers, HandlerPuts(t) PROVE Awaiter!AwaiterNext
  <2>1. PICK c \in Async : hand[t] = c
    BY <1>15 DEF HandlerPuts
  <2>2. calls[c] > 0 /\ calls' = calls
    BY <1>15, <2>1 DEF HandlerPuts
  <2>3. \A d \in Async : d # c => SameView(d)
    BY <1>15, <2>1, <2>2 DEF HandlerPuts, SameView
  <2>4. PhaseOf(c) = "handled" /\ PhaseOf(c)' = PhaseOf(c)
    BY <1>15, <2>1, <2>2 DEF HandlerPuts, PhaseOf
  <2>5. "list" \in RefsOf(c) /\ RefsOf(c)' = RefsOf(c) \ {"list"}
    BY <1>15, <2>1, <2>2 DEF HandlerPuts, RefsOf
  <2>6. canceller'[c] = canceller[c]
    BY <1>15, <2>1, <2>2 DEF HandlerPuts
  <2>7. Awaiter!HandlerPuts(c)
    BY <2>3, <2>4, <2>5, <2>6, HandlerPutsMaps
  <2> QED
    BY <2>7 DEF Awaiter!AwaiterNext
<1>16. ASSUME NEW c \in Async, TimerExpires(c) PROVE UNCHANGED Awaiter!awaiterVars
  <2>1. \A d \in Async : SameView(d)
    BY <1>16 DEF TimerExpires, SameView
  <2> QED
    BY <2>1, NoAwaiterChanges
<1>17. ASSUME NEW c \in Async, TimeoutDelWaitResp(c)
       PROVE Awaiter!AwaiterNext \/ UNCHANGED Awaiter!awaiterVars
  <2>1. CASE c \in wait_list
    <3>1. \A d \in Async : d # c => SameView(d)
      BY <1>17, <2>1, TimeoutFacts DEF SameView
    <3>2. PhaseOf(c) = "listed" /\ PhaseOf(c)' = "timedout"
      BY <1>17, <2>1, TimeoutFacts DEF PhaseOf
    <3>3. "timer" \in RefsOf(c) /\ RefsOf(c)' = RefsOf(c) \ {"list"}
      BY <1>17, <2>1, TimeoutFacts DEF RefsOf
    <3>4. canceller'[c] = canceller[c]
      BY <1>17, <2>1, TimeoutFacts
    <3>5. Awaiter!TimesOut(c)
      BY <3>1, <3>2, <3>3, <3>4, TimesOutMaps
    <3> QED
      BY <3>5 DEF Awaiter!AwaiterNext
  <2>2. CASE c \notin wait_list
    <3>1. \A d \in Async : SameView(d)
      BY <1>17, <2>2, TimeoutFacts DEF SameView
    <3> QED
      BY <3>1, NoAwaiterChanges
  <2> QED
    BY <2>1, <2>2
<1>18. ASSUME NEW c \in Async, HandleTimedout(c) PROVE Awaiter!AwaiterNext
  <2>1. \A d \in Async : d # c => SameView(d)
    BY <1>18 DEF HandleTimedout, Callback, SameView
  <2>2. PhaseOf(c) \in {"arrived", "timedout"} /\ PhaseOf(c)' = "handled"
    BY <1>18 DEF HandleTimedout, Callback, PhaseOf
  <2>3. RefsOf(c)' = RefsOf(c)
    BY <1>18 DEF HandleTimedout, Callback, RefsOf
  <2>4. canceller'[c] = canceller[c]
    BY <1>18 DEF HandleTimedout, Callback
  <2>5. Awaiter!Handled(c)
    BY <2>1, <2>2, <2>3, <2>4, HandledMaps
  <2> QED
    BY <2>5 DEF Awaiter!AwaiterNext
<1>19. ASSUME NEW c \in Async, TimeoutPuts(c) PROVE Awaiter!AwaiterNext
  <2>1. \A d \in Async : d # c => SameView(d)
    BY <1>19 DEF TimeoutPuts, SameView
  <2>2. PhaseOf(c) # "timedout" /\ PhaseOf(c)' = PhaseOf(c)
    BY <1>19 DEF TimeoutPuts, PhaseOf
  <2>3. "timer" \in RefsOf(c) /\ RefsOf(c)' = RefsOf(c) \ {"timer"}
    BY <1>19 DEF TimeoutPuts, RefsOf
  <2>4. canceller'[c] = canceller[c]
    BY <1>19 DEF TimeoutPuts
  <2>5. Awaiter!TimerPuts(c)
    BY <2>1, <2>2, <2>3, <2>4, TimerPutsMaps
  <2> QED
    BY <2>5 DEF Awaiter!AwaiterNext
<1>20. ASSUME NEW c \in Async, CancelAwaiter(c) PROVE Awaiter!AwaiterNext
  <2>1. \A d \in Async : d # c => SameView(d)
    BY <1>20 DEF CancelAwaiter, MayCancel, CancelTimeoutWork, SameView
  <2>2. PhaseOf(c) = PhaseOf(c) /\ PhaseOf(c)' = PhaseOf(c)
    BY <1>20 DEF CancelAwaiter, MayCancel, CancelTimeoutWork, PhaseOf
  <2>3. /\ "driver" \in RefsOf(c)
        /\ RefsOf(c)' = RefsOf(c) \/ RefsOf(c)' = RefsOf(c) \ {"timer"}
    BY <1>20 DEF CancelAwaiter, MayCancel, CancelTimeoutWork, RefsOf
  <2>4. canceller[c] = "no" /\ canceller'[c] = "del"
    BY <1>20 DEF CancelAwaiter, MayCancel, CancelTimeoutWork
  <2>5. Awaiter!Cancels(c)
    BY <2>1, <2>2, <2>3, <2>4, CancelsMaps
  <2> QED
    BY <2>5 DEF Awaiter!AwaiterNext
<1>21. ASSUME NEW c \in Async, CancelDelWaitResp(c) PROVE Awaiter!AwaiterNext
  <2>1. CASE c \in wait_list
    <3>1. \A d \in Async : d # c => SameView(d)
      BY <1>21, <2>1, CancelFacts DEF SameView
    <3>2. PhaseOf(c) = "listed" /\ PhaseOf(c)' = "removed"
      BY <1>21, <2>1, CancelFacts DEF PhaseOf
    <3>3. RefsOf(c)' = RefsOf(c) \ {"list"}
      BY <1>21, <2>1, CancelFacts DEF RefsOf
    <3>4. canceller[c] = "del" /\ canceller'[c] = "done"
      BY <1>21, <2>1, CancelFacts
    <3>5. Awaiter!CancelRemoves(c)
      BY <3>1, <3>2, <3>3, <3>4, CancelRemovesMaps
    <3> QED
      BY <3>5 DEF Awaiter!AwaiterNext
  <2>2. CASE c \notin wait_list
    <3>1. \A d \in Async : d # c => SameView(d)
      BY <1>21, <2>2, CancelFacts DEF SameView
    <3>2. PhaseOf(c) # "listed" /\ PhaseOf(c)' = PhaseOf(c)
      BY <1>21, <2>2, CancelFacts DEF PhaseOf
    <3>3. RefsOf(c)' = RefsOf(c)
      BY <1>21, <2>2, CancelFacts DEF RefsOf
    <3>4. canceller[c] = "del" /\ canceller'[c] = "wait"
      BY <1>21, <2>2, CancelFacts
    <3>5. Awaiter!CancelMisses(c)
      BY <3>1, <3>2, <3>3, <3>4, CancelMissesMaps
    <3> QED
      BY <3>5 DEF Awaiter!AwaiterNext
  <2> QED
    BY <2>1, <2>2
<1>22. ASSUME NEW c \in Async, CancelWaits(c) PROVE Awaiter!AwaiterNext
  <2>1. calls[c] > 0 /\ calls' = calls
    BY <1>22 DEF CancelWaits
  <2>2. \A d \in Async : d # c => SameView(d)
    BY <1>22, <2>1 DEF CancelWaits, SameView
  <2>3. PhaseOf(c) = "handled" /\ PhaseOf(c)' = PhaseOf(c)
    BY <1>22, <2>1 DEF CancelWaits, PhaseOf
  <2>4. RefsOf(c)' = RefsOf(c)
    BY <1>22, <2>1 DEF CancelWaits, RefsOf
  <2>5. canceller[c] = "wait" /\ canceller'[c] = "done"
    BY <1>22, <2>1 DEF CancelWaits
  <2>6. Awaiter!CancelWaits(c)
    BY <2>2, <2>3, <2>4, <2>5, CancelWaitsMaps
  <2> QED
    BY <2>6 DEF Awaiter!AwaiterNext
<1>23. ASSUME NEW c \in Async, OwnerPuts(c) PROVE Awaiter!AwaiterNext
  <2>1. \A d \in Async : d # c => SameView(d)
    BY <1>23 DEF OwnerPuts, Settled, InCallback, SameView
  <2>2. /\ PhaseOf(c) \in {"arrived", "timedout", "handled", "removed"}
        /\ PhaseOf(c)' = PhaseOf(c)
    BY <1>23 DEF OwnerPuts, Settled, InCallback, PhaseOf
  <2>3. "driver" \in RefsOf(c) /\ RefsOf(c)' = RefsOf(c) \ {"driver"}
    BY <1>23 DEF OwnerPuts, Settled, InCallback, RefsOf
  <2>4. canceller[c] \in {"no", "done"} /\ canceller'[c] = canceller[c]
    BY <1>23 DEF OwnerPuts, Settled, InCallback
  <2>5. Awaiter!DriverPuts(c)
    BY <2>1, <2>2, <2>3, <2>4, DriverPutsMaps
  <2> QED
    BY <2>5 DEF Awaiter!AwaiterNext
<1>24. ASSUME ReleaseStart PROVE Awaiter!AwaiterNext
  <2>1. ASSUME NEW d \in Async
        PROVE  PhaseOf(d)' = IF PhaseOf(d) = "listed" THEN "flushed" ELSE PhaseOf(d)
    <3>1. CASE d \in wait_list
      BY <1>24, <3>1 DEF ReleaseStart, PhaseOf
    <3>2. CASE d \notin wait_list
      BY <1>24, <3>2 DEF ReleaseStart, PhaseOf
    <3> QED
      BY <3>1, <3>2
  <2>2. ASSUME NEW d \in Async
        PROVE RefsOf(d)' = RefsOf(d) /\ canceller'[d] = canceller[d]
    BY <1>24 DEF ReleaseStart, RefsOf
  <2>3. Awaiter!Release
    BY <2>1, <2>2 DEF Awaiter!Release
  <2> QED
    BY <2>3 DEF Awaiter!AwaiterNext
<1>25. ASSUME NEW c \in Async, ReleasePuts(c) PROVE Awaiter!AwaiterNext
  <2>1. \A d \in Async : d # c => SameView(d)
    BY <1>25 DEF ReleasePuts, SameView
  <2>2. PhaseOf(c) = "flushed" /\ PhaseOf(c)' = PhaseOf(c)
    BY <1>25 DEF ReleasePuts, PhaseOf
  <2>3. "list" \in RefsOf(c) /\ RefsOf(c)' = RefsOf(c) \ {"list"}
    BY <1>25 DEF ReleasePuts, RefsOf
  <2>4. canceller'[c] = canceller[c]
    BY <1>25 DEF ReleasePuts
  <2>5. Awaiter!ListPuts(c)
    BY <2>1, <2>2, <2>3, <2>4, ListPutsMaps
  <2> QED
    BY <2>5 DEF Awaiter!AwaiterNext
<1>26. ASSUME NEW c \in Async, ReleaseFlushes(c) PROVE Awaiter!AwaiterNext
  <2>1. \A d \in Async : d # c => SameView(d)
    BY <1>26 DEF ReleaseFlushes, Callback, SameView
  <2>2. PhaseOf(c) = "flushed" /\ PhaseOf(c)' = "handled"
    BY <1>26 DEF ReleaseFlushes, Callback, PhaseOf
  <2>3. "list" \notin RefsOf(c) /\ RefsOf(c)' = RefsOf(c) \ {"driver", "timer"}
    BY <1>26 DEF ReleaseFlushes, Callback, RefsOf
  <2>4. canceller'[c] = canceller[c]
    BY <1>26 DEF ReleaseFlushes, Callback
  <2>5. Awaiter!Flushed(c)
    BY <2>1, <2>2, <2>3, <2>4, FlushedMaps
  <2> QED
    BY <2>5 DEF Awaiter!AwaiterNext
<1>27. CASE UNCHANGED vars
  <2>1. \A d \in Async : SameView(d)
    BY <1>27 DEF vars, SameView
  <2> QED
    BY <2>1, NoAwaiterChanges
<1> HIDE DEF Types, PlaceInv, HandInv, ClaimInv, OwnerInv
<1> QED
  BY <1>2, <1>3, <1>4, <1>5, <1>6, <1>7, <1>8, <1>9, <1>10, <1>11, <1>12, <1>13, <1>14,
     <1>15, <1>16, <1>17, <1>18, <1>19, <1>20, <1>21, <1>22, <1>23, <1>24, <1>25,
     <1>26, <1>27
     DEF Cmds, Next, SenderStep, ConsumerStep, TimeoutStep, DriverStep

\* At the start no awaiter is sent.
LEMMA AwaiterStarts == Init => Awaiter!AwaiterInit
  BY AsyncFact, MailboxAssumption DEF Init, Awaiter!AwaiterInit, PhaseOf, RefsOf

\* The mailbox keeps the promise EdgetpuIkv is built on: every awaiter is claimed
\* once, and its references are dropped by those who hold them.
THEOREM MailboxImplementsAwaiter ==
  ASSUME SeqUnambiguous PROVE Spec => ImplementsAwaiter
<1>1. Init => Awaiter!AwaiterInit
  BY AwaiterStarts
<1>2. IInv /\ [Next]_vars => [Awaiter!AwaiterNext]_(Awaiter!awaiterVars)
  BY AwaiterStep
<1> QED
  BY <1>1, <1>2, MailboxInductive, PTL DEF Spec, ImplementsAwaiter, Awaiter!AwaiterSpec
=============================================================================
