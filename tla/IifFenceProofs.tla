--------------------------- MODULE IifFenceProofs ---------------------------
(***************************************************************************)
(* Proofs about the inter-IP fences.  The counters of a fence are the      *)
(* numbers of commands at certain places: those that were submitted, those *)
(* whose signal was written to the table, those whose signal was counted,  *)
(* those that wait.  The table of a fence is bounded by the same sets,     *)
(* although the firmware and the driver overwrite each other's count.      *)
(***************************************************************************)
EXTENDS IifFence, FiniteSetTheorems, WellFoundedInduction, TLAPS

\* A command under way keeps its fences referenced.
Active(c) == pc[c] \notin {"idle", "refused", "done"}

\* How far a command is with f: its signal is counted, is written to the table,
\* it waits; and whether the firmware has run it.
HasCounted(c, f) ==
  \/ pc[c] \in {"signal", "table", "count"} /\ f \notin todo[c]
  \/ pc[c] = "inline" /\ (f \notin todo[c] \/ f = Min(todo[c]))
  \/ pc[c] \in {"waited", "done"}

HasWritten(c, f) == HasCounted(c, f) \/ (pc[c] = "count" /\ f = Min(todo[c]))

StillWaits(c, f) ==
  \/ pc[c] \in {"sent", "signal", "table", "count", "inline"}
  \/ pc[c] = "waited" /\ f \in todo[c]

HasRun(c) == fw[c] \in {"done", "failed"}

\* The signalers of f: submitted, run by the firmware, written to the table and
\* counted by the driver; and the commands of an IP that wait for f.
Signalers(f) == {c \in Cmd : f \in Out[c] /\ InFirmware(c)}
Ran(f) == {c \in Cmd : f \in Out[c] /\ HasRun(c)}
Counted(f) == {c \in Cmd : f \in Out[c] /\ HasCounted(c, f)}
Written(f) == {c \in Cmd : f \in Out[c] /\ HasWritten(c, f)}
Waits(f, ip) == {c \in Cmd : f \in In[c] /\ IpOf[c] = ip /\ StillWaits(c, f)}

\* A fence object, without the bounds of its counters.
FenceRec ==
  [submitted : Nat, signalers : Nat, waiting : [Ips -> Int],
   wakelock : [Ips -> Int], waiters : SUBSET Ips, timeline : Nat,
   derror : BOOLEAN, signaled : BOOLEAN, error : BOOLEAN, propagate : BOOLEAN,
   file : BOOLEAN, retired : BOOLEAN, destroyed : BOOLEAN,
   poll : {"none", "armed", "woken"}, pollOff : BOOLEAN, pended : BOOLEAN,
   signaledWork : BOOLEAN, waitedWork : BOOLEAN]

\* The types that need no argument; the bounds of the counters come from the parts
\* below.
Types ==
  /\ fence \in [Fence -> FenceRec]
  /\ table \in [Fence -> [rem : Nat, err : BOOLEAN]]
  /\ pc \in [Cmd -> Pcs]
  /\ locked \in [Cmd -> SUBSET Fence] /\ todo \in [Cmd -> SUBSET Fence]
  /\ held \in [Cmd -> [Fence -> SUBSET Ips]]
  /\ sig \in [Cmd -> Nat] /\ failed \in [Cmd -> BOOLEAN]
  /\ fw \in [Cmd -> FwStates]

\* A submission with a fence on both sides is refused, a completion works through
\* its out-fences and then its in-fences, and only what was sent can have run.
PlaceInv ==
  \A c \in Cmd :
    /\ pc[c] \notin {"idle", "refused"} => In[c] \cap Out[c] = {}
    /\ pc[c] \in {"signal", "table", "count", "inline"} =>
         todo[c] # {} /\ todo[c] \subseteq Out[c]
    /\ pc[c] = "waited" => todo[c] # {} /\ todo[c] \subseteq In[c]
    /\ HasRun(c) => InFirmware(c)

\* A fence_lock has one holder: of two signals of a fence, one is through with the
\* table before the other one reads it.
LockInv ==
  /\ \A c \in Cmd : pc[c] = "table" => locked[c] = {Min(todo[c])}
  /\ \A c, d \in Cmd : c # d => locked[c] \cap locked[d] = {}
  /\ \A c \in Cmd : locked[c] \subseteq Uses(c)

\* A command that is completed without an error was run by its firmware, so the
\* table was counted down for it; for any other the driver is to propagate.
RanInv ==
  \A c \in Cmd : \A f \in Out[c] :
    \/ pc[c] \in {"idle", "lock", "refused", "sent"}
    \/ fence[f].propagate
    \/ HasRun(c)

\* Nothing uses a destroyed fence.
EndInv ==
  \A f \in Fence :
    fence[f].destroyed => /\ ~fence[f].file
                          /\ fence[f].signalers = Total[f]
                          /\ \A c \in Cmd : f \in Uses(c) => ~Active(c)

\* The counters of a fence are the numbers of commands at their places.
CountInv ==
  \A f \in Fence :
    /\ fence[f].submitted = Cardinality(Signalers(f))
    /\ fence[f].submitted <= Total[f]
    /\ ~fence[f].destroyed => fence[f].signalers = Cardinality(Counted(f))
    /\ \A ip \in Ips : fence[f].waiting[ip] = Cardinality(Waits(f, ip))

\* A fence retires when its file is closed and nobody waits or is to signal.
RetireInv ==
  \A f \in Fence :
    fence[f].retired => /\ ~fence[f].file
                        /\ \A ip \in Ips : fence[f].waiting[ip] = 0
                        /\ fence[f].destroyed \/ Outstanding(fence[f]) = 0

\* Every signal the driver has written is missing from the table, also when the
\* driver overwrites the count of the firmware with one it read before; and so is
\* every signal of the firmware as long as the driver does not overwrite it.
TableInv ==
  /\ \A f \in Fence :
       /\ table[f].rem + Cardinality(Written(f)) <= Total[f]
       /\ ~fence[f].propagate => table[f].rem + Cardinality(Ran(f)) <= Total[f]
       /\ fence[f].timeline <= Total[f]
  /\ \A c \in Cmd :
       pc[c] = "table" =>
         sig[c] + Cardinality(Written(Min(todo[c]))) < Total[Min(todo[c])]

\* A fence whose signals are all written has called its poll callbacks, or keeps
\* them pended while polls are disabled.
SeenInv ==
  \A f \in Fence :
    /\ Cardinality(Written(f)) = Total[f] => fence[f].signaled
    /\ fence[f].signaled /\ fence[f].poll = "armed" =>
         fence[f].pollOff /\ fence[f].pended

\* The inductive invariant.
IInv == /\ Types /\ PlaceInv /\ LockInv /\ RanInv /\ EndInv /\ CountInv /\ RetireInv
        /\ TableInv /\ SeenInv /\ WaiterPowered

-----------------------------------------------------------------------------
\* A set of fences that is not empty has a first one.
LEMMA MinFact ==
  ASSUME NEW S \in SUBSET Fence, S # {}
  PROVE  Min(S) \in S
<1> DEFINE Below(x) == {y \in S : y < x}
           T == {Below(x) : x \in S}
<1>1. S \subseteq Nat /\ IsFiniteSet(S)
  BY IifAssumption, FS_Subset
<1>2. IsWellFoundedOn(StrictSubsetOrdering(S), SUBSET S)
  BY <1>1, FS_StrictSubsetOrderingWellFounded, FS_FiniteSubsetsOfFinite
<1>3. T \subseteq SUBSET S /\ T # {}
  OBVIOUS
<1>4. PICK t \in T : \A u \in T : <<u, t>> \notin StrictSubsetOrdering(S)
  <2> HIDE DEF T
  <2> QED
    BY <1>2, <1>3, WFMin
<1>5. PICK x \in S : t = Below(x)
  OBVIOUS
<1>6. ASSUME NEW y \in S, y < x PROVE FALSE
  <2>1. y \in Below(x)
    BY <1>6
  <2>2. y \notin Below(y) /\ \A z \in S : z < y => z < x
    BY <1>1, <1>6
  <2>3. Below(y) \subseteq Below(x)
    BY <2>2
  <2>4. <<Below(y), t>> \in StrictSubsetOrdering(S)
    BY <1>5, <2>1, <2>2, <2>3 DEF StrictSubsetOrdering
  <2> QED
    BY <1>4, <2>4
<1>7. \A y \in S : x <= y
  BY <1>1, <1>6
<1> QED
  BY <1>7 DEF Min

-----------------------------------------------------------------------------
(***************************************************************************)
(* What the functions of one fence object change.                          *)
(***************************************************************************)
\* Two records of a fence agree on the counters, on what becomes of the fence, on
\* its pollers and on its timeline.
SameCounts(q, r) ==
  q.submitted = r.submitted /\ q.signalers = r.signalers /\ q.waiting = r.waiting

SameLife(q, r) ==
  /\ q.file = r.file /\ q.retired = r.retired /\ q.destroyed = r.destroyed
  /\ q.propagate = r.propagate

SamePoll(q, r) ==
  /\ q.signaled = r.signaled /\ q.poll = r.poll
  /\ q.pollOff = r.pollOff /\ q.pended = r.pended

SameTime(q, r) == q.timeline = r.timeline

\* Nothing the invariant is about, the wakelocks apart.
Alike(q, r) == SameCounts(q, r) /\ SameLife(q, r) /\ SamePoll(q, r) /\ SameTime(q, r)

\* A poller that is left waiting has its callback pended.
PollKept(r) == r.signaled /\ r.poll = "armed" => r.pollOff /\ r.pended

\* The fields have their types.
LEMMA RecFacts ==
  ASSUME NEW r \in FenceRec
  PROVE  /\ r.submitted \in Nat /\ r.signalers \in Nat /\ r.timeline \in Nat
         /\ r.waiting \in [Ips -> Int] /\ r.wakelock \in [Ips -> Int]
         /\ r.waiters \in SUBSET Ips
         /\ {r.propagate, r.destroyed, r.file, r.signaled, r.derror} \subseteq BOOLEAN
  BY DEF FenceRec

\* The marks that the invariant is not about.
LEMMA MarkFacts ==
  ASSUME NEW r \in FenceRec, NEW b \in BOOLEAN
  PROVE  /\ [r EXCEPT !.derror = b] \in FenceRec
         /\ Alike([r EXCEPT !.derror = b], r)
         /\ [r EXCEPT !.derror = b].wakelock = r.wakelock
         /\ [r EXCEPT !.waitedWork = b] \in FenceRec
         /\ Alike([r EXCEPT !.waitedWork = b], r)
         /\ [r EXCEPT !.waitedWork = b].wakelock = r.wakelock
         /\ [r EXCEPT !.signaledWork = b] \in FenceRec
         /\ Alike([r EXCEPT !.signaledWork = b], r)
         /\ [r EXCEPT !.signaledWork = b].wakelock = r.wakelock
  BY DEF FenceRec, Alike, SameCounts, SameLife, SamePoll, SameTime

\* iif_fence_set_propagate_unblock.
LEMMA PropagateFacts ==
  ASSUME NEW r \in FenceRec
  PROVE  LET q == [r EXCEPT !.propagate = TRUE] IN
           /\ q \in FenceRec /\ q.propagate
           /\ SameCounts(q, r) /\ SamePoll(q, r) /\ SameTime(q, r)
           /\ q.wakelock = r.wakelock
           /\ q.file = r.file /\ q.retired = r.retired /\ q.destroyed = r.destroyed
  BY DEF FenceRec, SameCounts, SamePoll, SameTime

\* iif_fence_retire_if_possible_locked.
LEMMA RetireFacts ==
  ASSUME NEW r \in FenceRec
  PROVE  LET q == RetireIfPossible(r) IN
           /\ q \in FenceRec
           /\ SameCounts(q, r) /\ SamePoll(q, r) /\ SameTime(q, r)
           /\ q.wakelock = r.wakelock
           /\ q.file = r.file /\ q.destroyed = r.destroyed /\ q.propagate = r.propagate
           /\ q.retired => \/ r.retired
                           \/ /\ \A ip \in Ips : r.waiting[ip] = 0
                              /\ Outstanding(r) = 0 /\ ~r.file
  BY DEF RetireIfPossible, FenceRec, SameCounts, SamePoll, SameTime

\* iif_fence_notify_poll_cb_locked.
LEMMA NotifyFacts ==
  ASSUME NEW r \in FenceRec
  PROVE  LET q == NotifyPollCb(r) IN
           /\ q \in FenceRec
           /\ SameCounts(q, r) /\ SameLife(q, r) /\ SameTime(q, r)
           /\ q.wakelock = r.wakelock
           /\ q.signaled = r.signaled /\ q.pollOff = r.pollOff
           /\ PollKept(q)
  BY DEF NotifyPollCb, FenceRec, SameCounts, SameLife, SameTime, PollKept

\* iif_fence_poll_cb_func_locked: the fence is signaled.
LEMMA PollCbFacts ==
  ASSUME NEW r \in FenceRec
  PROVE  LET q == PollCbFunc(r) IN
           /\ q \in FenceRec
           /\ SameCounts(q, r) /\ SameLife(q, r) /\ SameTime(q, r)
           /\ q.wakelock = r.wakelock
           /\ q.signaled
           /\ PollKept(r) => PollKept(q)
<1> DEFINE p == [r EXCEPT !.signaled = TRUE, !.error = @ \/ r.derror,
                          !.signaledWork = TRUE]
<1>1. CASE r.signaled
  <2>1. PollCbFunc(r) = r
    BY <1>1 DEF PollCbFunc
  <2> QED
    BY <1>1, <2>1 DEF SameCounts, SameLife, SameTime
<1>2. CASE ~r.signaled
  <2>1. PollCbFunc(r) = NotifyPollCb(p)
    BY <1>2 DEF PollCbFunc
  <2>2. /\ p \in FenceRec /\ p.signaled /\ p.wakelock = r.wakelock
        /\ SameCounts(p, r) /\ SameLife(p, r) /\ SameTime(p, r)
    BY DEF FenceRec, SameCounts, SameLife, SameTime
  <2> HIDE DEF p
  <2> QED
    BY <2>1, <2>2, NotifyFacts DEF SameCounts, SameLife, SameTime
<1> QED
  BY <1>1, <1>2

\* iif_direct_fence_sync_status.
SyncOf(r, n, b) == [r EXCEPT !.timeline = n, !.derror = b]

\* What it changes.
LEMMA SyncFacts ==
  ASSUME NEW r \in FenceRec, NEW n \in Nat, NEW b \in BOOLEAN
  PROVE  LET q == SyncOf(r, n, b) IN
           /\ q \in FenceRec
           /\ SameCounts(q, r) /\ SameLife(q, r) /\ SamePoll(q, r)
           /\ q.timeline = n /\ q.wakelock = r.wakelock
  BY DEF SyncOf, FenceRec, SameCounts, SameLife, SamePoll

\* A signal is counted.
LEMMA CountFacts ==
  ASSUME NEW r \in FenceRec
  PROVE  LET q == [r EXCEPT !.signalers = @ + 1] IN
           /\ q \in FenceRec
           /\ SameLife(q, r) /\ SamePoll(q, r) /\ SameTime(q, r)
           /\ q.submitted = r.submitted /\ q.waiting = r.waiting
           /\ q.signalers = r.signalers + 1 /\ q.wakelock = r.wakelock
  BY DEF FenceRec, SameLife, SamePoll, SameTime

\* A waiter leaves.
LEMMA LeaveFacts ==
  ASSUME NEW r \in FenceRec, NEW ip \in Ips
  PROVE  LET q == [r EXCEPT !.waiting[ip] = @ - 1] IN
           /\ q \in FenceRec
           /\ SameLife(q, r) /\ SamePoll(q, r) /\ SameTime(q, r)
           /\ q.submitted = r.submitted /\ q.signalers = r.signalers
           /\ q.waiting = [r.waiting EXCEPT ![ip] = @ - 1] /\ q.wakelock = r.wakelock
  BY DEF FenceRec, SameLife, SamePoll, SameTime

\* Wakelocks are released.
LEMMA WakelockFacts ==
  ASSUME NEW r \in FenceRec, NEW w \in [Ips -> Int], NEW b \in BOOLEAN
  PROVE  /\ [r EXCEPT !.wakelock = w] \in FenceRec
         /\ Alike([r EXCEPT !.wakelock = w], r)
         /\ [r EXCEPT !.wakelock = w].wakelock = w
         /\ [r EXCEPT !.waitedWork = b, !.wakelock = w] \in FenceRec
         /\ Alike([r EXCEPT !.waitedWork = b, !.wakelock = w], r)
         /\ [r EXCEPT !.waitedWork = b, !.wakelock = w].wakelock = w
  BY DEF FenceRec, Alike, SameCounts, SameLife, SamePoll, SameTime

\* iif_sync_file_release.
LEMMA CloseFacts ==
  ASSUME NEW r \in FenceRec
  PROVE  LET q == [r EXCEPT !.file = FALSE, !.poll = "none"] IN
           /\ q \in FenceRec
           /\ SameCounts(q, r) /\ SameTime(q, r) /\ q.wakelock = r.wakelock
           /\ ~q.file /\ q.retired = r.retired /\ q.destroyed = r.destroyed
           /\ q.propagate = r.propagate /\ q.signaled = r.signaled /\ q.poll = "none"
  BY DEF FenceRec, SameCounts, SameTime

\* iif_sync_file_poll.
LEMMA PollFacts ==
  ASSUME NEW r \in FenceRec, NEW p \in {"none", "armed", "woken"}
  PROVE  LET q == [r EXCEPT !.poll = p] IN
           /\ q \in FenceRec
           /\ SameCounts(q, r) /\ SameLife(q, r) /\ SameTime(q, r)
           /\ q.wakelock = r.wakelock /\ q.signaled = r.signaled /\ q.poll = p
  BY DEF FenceRec, SameCounts, SameLife, SameTime

\* iif_fence_set_flags.
LEMMA FlagFacts ==
  ASSUME NEW r \in FenceRec, NEW b \in BOOLEAN
  PROVE  LET q == [r EXCEPT !.pollOff = b] IN
           /\ q \in FenceRec
           /\ SameCounts(q, r) /\ SameLife(q, r) /\ SameTime(q, r)
           /\ q.wakelock = r.wakelock /\ q.signaled = r.signaled
           /\ q.poll = r.poll /\ q.pended = r.pended /\ q.pollOff = b
  BY DEF FenceRec, SameCounts, SameLife, SameTime

\* iif_fence_do_destroy before it notifies the pollers.
DestroyOf(r, n, s, e, p, w) ==
  [r EXCEPT !.signalers = n, !.signaled = s, !.error = e, !.propagate = p,
            !.retired = TRUE, !.wakelock = w, !.destroyed = TRUE]

\* What it changes.
LEMMA DestroyFacts ==
  ASSUME NEW r \in FenceRec, NEW s \in BOOLEAN, NEW e \in BOOLEAN, NEW p \in BOOLEAN,
         NEW n \in Nat, NEW w \in [Ips -> Int]
  PROVE  LET q == DestroyOf(r, n, s, e, p, w) IN
           /\ q \in FenceRec
           /\ q.submitted = r.submitted /\ q.signalers = n /\ q.waiting = r.waiting
           /\ SameTime(q, r) /\ q.wakelock = w
           /\ q.file = r.file /\ q.destroyed /\ q.retired
           /\ q.propagate = p /\ q.signaled = s
<1> USE DEF DestroyOf
<1> DEFINE q == DestroyOf(r, n, s, e, p, w)
<1>1. q \in FenceRec
  BY DEF FenceRec
<1>2. /\ q.submitted = r.submitted /\ q.signalers = n /\ q.waiting = r.waiting
      /\ SameTime(q, r) /\ q.wakelock = w
  BY DEF FenceRec, SameTime
<1>3. /\ q.file = r.file /\ q.destroyed /\ q.retired
      /\ q.propagate = p /\ q.signaled = s
  BY DEF FenceRec
<1> QED
  BY <1>1, <1>2, <1>3

\* iif_fence_submit_waiter_locked.
LEMMA WaiterFacts ==
  ASSUME NEW r \in FenceRec, NEW ip \in Ips
  PROVE  LET q == WithWaiter(r, ip) IN
           /\ q \in FenceRec
           /\ SameLife(q, r) /\ SamePoll(q, r) /\ SameTime(q, r)
           /\ q.submitted = r.submitted /\ q.signalers = r.signalers
           /\ q.waiting = [r.waiting EXCEPT ![ip] = @ + 1]
           /\ q.wakelock = [r.wakelock EXCEPT ![ip] = @ + 1]
<1>1. /\ r.waiting \in [Ips -> Int] /\ r.wakelock \in [Ips -> Int]
      /\ r.waiters \in SUBSET Ips
  BY RecFacts
<1>2. /\ [r.waiting EXCEPT ![ip] = @ + 1] \in [Ips -> Int]
      /\ [r.wakelock EXCEPT ![ip] = @ + 1] \in [Ips -> Int]
      /\ r.waiters \cup {ip} \in SUBSET Ips
  BY <1>1
<1>3. WithWaiter(r, ip) = [r EXCEPT !.waiting = [r.waiting EXCEPT ![ip] = @ + 1],
                                    !.waiters = r.waiters \cup {ip},
                                    !.wakelock = [r.wakelock EXCEPT ![ip] = @ + 1]]
  BY DEF WithWaiter, FenceRec
<1> QED
  BY <1>2, <1>3 DEF FenceRec, SameLife, SamePoll, SameTime

\* iif_fence_submit_signaler_locked.
SignalerOf(r, n, w) == [r EXCEPT !.submitted = n, !.wakelock = w]

\* What a counted signaler changes.
LEMMA SignalerFacts ==
  ASSUME NEW r \in FenceRec, NEW w \in [Ips -> Int], NEW n \in Nat
  PROVE  LET q == SignalerOf(r, n, w) IN
           /\ q \in FenceRec
           /\ SameLife(q, r) /\ SamePoll(q, r) /\ SameTime(q, r)
           /\ q.submitted = n
           /\ q.signalers = r.signalers /\ q.waiting = r.waiting
           /\ q.wakelock = w
<1> USE DEF SignalerOf
<1> DEFINE q == SignalerOf(r, n, w)
<1>1. q \in FenceRec
  BY DEF FenceRec
<1>2. SameLife(q, r) /\ SamePoll(q, r) /\ SameTime(q, r)
  BY DEF FenceRec, SameLife, SamePoll, SameTime
<1>3. /\ q.submitted = n /\ q.signalers = r.signalers
      /\ q.waiting = r.waiting /\ q.wakelock = w
  BY DEF FenceRec
<1> QED
  BY <1>1, <1>2, <1>3

-----------------------------------------------------------------------------
(***************************************************************************)
(* What each action does to the fences.                                    *)
(***************************************************************************)
\* A step that assigns to one fence.
LEMMA OneFence ==
  ASSUME fence \in [Fence -> FenceRec], NEW f \in Fence, NEW q \in FenceRec,
         fence' = [fence EXCEPT ![f] = q]
  PROVE  /\ fence' \in [Fence -> FenceRec] /\ fence'[f] = q
         /\ \A g \in Fence : g # f => fence'[g] = fence[g]
  OBVIOUS

\* A fence that is not assigned to is alike.
LEMMA AlikeFact == ASSUME NEW r PROVE Alike(r, r)
  BY DEF Alike, SameCounts, SameLife, SamePoll, SameTime

\* The fence that a command signals or leaves.
LEMMA FirstFact ==
  ASSUME Types, PlaceInv, NEW c \in Cmd,
         pc[c] \in {"signal", "table", "count", "inline", "waited"}
  PROVE  /\ Min(todo[c]) \in todo[c] /\ Min(todo[c]) \in Fence
         /\ pc[c] # "waited" => Min(todo[c]) \in Out[c]
         /\ pc[c] = "waited" => Min(todo[c]) \in In[c]
<1>1. todo[c] \in SUBSET Fence /\ todo[c] # {}
  BY DEF Types, PlaceInv
<1>2. Min(todo[c]) \in todo[c]
  BY <1>1, MinFact
<1> QED
  BY <1>1, <1>2 DEF PlaceInv

\* A submission counts its signaler and its waiter and takes the wakelocks over.
LEMMA SubmitFacts ==
  ASSUME Types, PlaceInv, NEW c \in Cmd, Submit(c), NEW f \in Fence
  PROVE  /\ fence' \in [Fence -> FenceRec]
         /\ SameLife(fence'[f], fence[f]) /\ SamePoll(fence'[f], fence[f])
         /\ SameTime(fence'[f], fence[f])
         /\ fence'[f].signalers = fence[f].signalers
         /\ f \in Out[c] =>
              /\ fence'[f].submitted = fence[f].submitted + 1
              /\ fence'[f].waiting = fence[f].waiting
              /\ fence'[f].wakelock = [ip \in Ips |->
                    fence[f].wakelock[ip] + IF ip \in held[c][f] THEN 1 ELSE 0]
         /\ f \in In[c] =>
              /\ fence'[f].submitted = fence[f].submitted
              /\ fence'[f].waiting = [fence[f].waiting EXCEPT ![IpOf[c]] = @ + 1]
              /\ fence'[f].wakelock = [fence[f].wakelock EXCEPT ![IpOf[c]] = @ + 1]
         /\ f \notin Uses(c) => fence'[f] = fence[f]
<1>1. In[c] \cap Out[c] = {} /\ IpOf[c] \in Ips /\ fence[f] \in FenceRec
  BY IifAssumption DEF Submit, PlaceInv, Types
<1>2. fence' = [g \in Fence |-> IF g \in In[c] THEN WithWaiter(fence[g], IpOf[c])
                                ELSE IF g \in Out[c] THEN WithSignaler(g, held[c][g])
                                ELSE fence[g]]
  BY DEF Submit
<1>3. ASSUME NEW g \in Fence
      PROVE  /\ WithWaiter(fence[g], IpOf[c]) \in FenceRec
             /\ WithSignaler(g, held[c][g]) \in FenceRec
             /\ LET q == WithSignaler(g, held[c][g])
                    r == fence[g] IN
                  /\ SameLife(q, r) /\ SamePoll(q, r) /\ SameTime(q, r)
                  /\ q.submitted = r.submitted + 1
                  /\ q.signalers = r.signalers /\ q.waiting = r.waiting
                  /\ q.wakelock = [ip \in Ips |->
                       r.wakelock[ip] + IF ip \in held[c][g] THEN 1 ELSE 0]
  <2> DEFINE w == [ip \in Ips |->
                     fence[g].wakelock[ip] + IF ip \in held[c][g] THEN 1 ELSE 0]
             n == fence[g].submitted + 1
  <2>1. fence[g] \in FenceRec
    BY DEF Types
  <2>2. w \in [Ips -> Int] /\ n \in Nat
    BY <2>1, RecFacts
  <2>3. WithSignaler(g, held[c][g]) = SignalerOf(fence[g], n, w)
    BY DEF WithSignaler, SignalerOf
  <2>4. WithWaiter(fence[g], IpOf[c]) \in FenceRec
    BY <2>1, <1>1, WaiterFacts
  <2> HIDE DEF w, n
  <2>5. LET q == SignalerOf(fence[g], n, w)
            r == fence[g] IN
           /\ q \in FenceRec
           /\ SameLife(q, r) /\ SamePoll(q, r) /\ SameTime(q, r)
           /\ q.submitted = n
           /\ q.signalers = r.signalers /\ q.waiting = r.waiting
           /\ q.wakelock = w
    BY <2>1, <2>2, SignalerFacts
  <2> QED
    BY <2>3, <2>4, <2>5 DEF w, n
<1>4. fence' \in [Fence -> FenceRec]
  BY <1>2, <1>3 DEF Types
<1>5. CASE f \in In[c]
  <2>1. fence'[f] = WithWaiter(fence[f], IpOf[c]) /\ f \notin Out[c] /\ f \in Uses(c)
    BY <1>1, <1>2, <1>5 DEF Uses
  <2>2. LET q == WithWaiter(fence[f], IpOf[c])
            r == fence[f] IN
          /\ SameLife(q, r) /\ SamePoll(q, r) /\ SameTime(q, r)
          /\ q.submitted = r.submitted /\ q.signalers = r.signalers
          /\ q.waiting = [r.waiting EXCEPT ![IpOf[c]] = @ + 1]
          /\ q.wakelock = [r.wakelock EXCEPT ![IpOf[c]] = @ + 1]
    BY <1>1, WaiterFacts, SMTT(30)
  <2> QED
    BY <1>4, <1>5, <2>1, <2>2
<1>6. CASE f \in Out[c]
  <2>1. fence'[f] = WithSignaler(f, held[c][f]) /\ f \notin In[c] /\ f \in Uses(c)
    BY <1>1, <1>2, <1>6 DEF Uses
  <2> QED
    BY <1>3, <1>4, <1>6, <2>1
<1>7. CASE f \notin Uses(c)
  <2>1. fence'[f] = fence[f] /\ f \notin In[c] /\ f \notin Out[c]
    BY <1>2, <1>7 DEF Uses
  <2> QED
    BY <1>4, <1>7, <2>1, AlikeFact DEF Alike, SameCounts
<1> QED
  BY <1>5, <1>6, <1>7 DEF Uses

\* A completion with an error makes the driver propagate its signals.
LEMMA CompletesFacts ==
  ASSUME Types, NEW c \in Cmd, NEW e \in BOOLEAN, Completes(c, e), NEW f \in Fence
  PROVE  /\ fence' \in [Fence -> FenceRec]
         /\ SameCounts(fence'[f], fence[f]) /\ SamePoll(fence'[f], fence[f])
         /\ SameTime(fence'[f], fence[f])
         /\ fence'[f].wakelock = fence[f].wakelock
         /\ fence'[f].file = fence[f].file /\ fence'[f].retired = fence[f].retired
         /\ fence'[f].destroyed = fence[f].destroyed
         /\ fence[f].propagate => fence'[f].propagate
         /\ e /\ f \in Out[c] => fence'[f].propagate
<1>1. fence' = [g \in Fence |-> IF e /\ g \in Out[c]
                                  THEN [fence[g] EXCEPT !.propagate = TRUE] ELSE fence[g]]
  BY DEF Completes
<1>2. \A g \in Fence : fence[g] \in FenceRec
  BY DEF Types
<1>3. \A g \in Fence : [fence[g] EXCEPT !.propagate = TRUE] \in FenceRec
  BY <1>2, PropagateFacts
<1>4. fence' \in [Fence -> FenceRec]
  BY <1>1, <1>2, <1>3
<1>5. CASE e /\ f \in Out[c]
  <2>1. fence'[f] = [fence[f] EXCEPT !.propagate = TRUE]
    BY <1>1, <1>5
  <2> QED
    BY <1>2, <1>4, <2>1, PropagateFacts
<1>6. CASE ~(e /\ f \in Out[c])
  <2>1. fence'[f] = fence[f]
    BY <1>1, <1>6
  <2> QED
    BY <1>4, <1>6, <2>1, AlikeFact DEF Alike, SameLife
<1> QED
  BY <1>5, <1>6

\* The first half of a signal leaves the fence alone.
LEMMA BeginsFacts ==
  ASSUME Types, PlaceInv, NEW c \in Cmd, SignalBegins(c), NEW g \in Fence
  PROVE  /\ fence' \in [Fence -> FenceRec]
         /\ Alike(fence'[g], fence[g]) /\ fence'[g].wakelock = fence[g].wakelock
<1> DEFINE f == Min(todo[c])
           rem == table[f].rem
           error == IF rem = 0 THEN table[f].err ELSE failed[c]
           writes == error /\ fence[f].propagate
           b == fence[f].derror \/ writes
<1>1. f \in Fence
  BY FirstFact DEF SignalBegins
<1>2. fence[f] \in FenceRec /\ fence \in [Fence -> FenceRec]
  BY <1>1 DEF Types
<1>3. fence' = [fence EXCEPT ![f] = [fence[f] EXCEPT !.derror = b]]
  BY <1>1, <1>2 DEF SignalBegins
<1>4. b \in BOOLEAN
  OBVIOUS
<1> HIDE DEF b, f
<1>5. /\ [fence[f] EXCEPT !.derror = b] \in FenceRec
      /\ Alike([fence[f] EXCEPT !.derror = b], fence[f])
      /\ [fence[f] EXCEPT !.derror = b].wakelock = fence[f].wakelock
  BY <1>2, <1>4, MarkFacts
<1>6. /\ fence' \in [Fence -> FenceRec] /\ fence'[f] = [fence[f] EXCEPT !.derror = b]
      /\ g # f => fence'[g] = fence[g]
  BY <1>1, <1>2, <1>3, <1>5, OneFence
<1> QED
  BY <1>5, <1>6, AlikeFact

\* The second half of a signal: the timeline follows the table, and a timeline at
\* its end signals the fence.
LEMMA WritesFacts ==
  ASSUME Types, PlaceInv, NEW c \in Cmd, SignalWrites(c), NEW g \in Fence
  PROVE  LET f == Min(todo[c])
             rem == IF fence[f].propagate THEN sig[c] ELSE table[f].rem IN
         /\ fence' \in [Fence -> FenceRec]
         /\ SameCounts(fence'[g], fence[g]) /\ SameLife(fence'[g], fence[g])
         /\ fence'[g].wakelock = fence[g].wakelock
         /\ fence[g].timeline <= Total[g] => fence'[g].timeline <= Total[g]
         /\ fence[g].signaled => fence'[g].signaled
         /\ PollKept(fence[g]) => PollKept(fence'[g])
         /\ g = f /\ rem = 0 => fence'[g].signaled
         /\ table' = [table EXCEPT ![f].rem = rem] /\ rem \in Nat
<1> DEFINE f == Min(todo[c])
           rem == IF fence[f].propagate THEN sig[c] ELSE table[f].rem
           n == IF Total[f] - rem > fence[f].timeline THEN Total[f] - rem
                                                      ELSE fence[f].timeline
           b == fence[f].derror \/ table[f].err
           r == SyncOf(fence[f], n, b)
           q == IF r.timeline >= Total[f] THEN PollCbFunc(r) ELSE r
<1>1. f \in Fence
  BY FirstFact DEF SignalWrites
<1>2. fence[f] \in FenceRec /\ fence \in [Fence -> FenceRec] /\ Total[f] \in Nat
      /\ fence[f].timeline \in Nat
  BY <1>1, IifAssumption, RecFacts DEF Types
<1>3. rem \in Nat /\ b \in BOOLEAN
  BY <1>1 DEF Types
<1>4. n \in Nat /\ (fence[f].timeline <= Total[f] => n <= Total[f])
      /\ (rem = 0 => n >= Total[f])
  <2> HIDE DEF f, rem
  <2> QED
    BY <1>2, <1>3
<1>5. fence' = [fence EXCEPT ![f] = q]
  BY DEF SignalWrites, SyncOf
<1>6. table' = [table EXCEPT ![f].rem = rem]
  BY DEF SignalWrites
<1> HIDE DEF f, rem, n, b
<1>7. /\ r \in FenceRec /\ r.timeline = n /\ r.wakelock = fence[f].wakelock
      /\ SameCounts(r, fence[f]) /\ SameLife(r, fence[f]) /\ SamePoll(r, fence[f])
  BY <1>2, <1>3, <1>4, SyncFacts
<1> HIDE DEF r
<1>8. LET p == PollCbFunc(r) IN
           /\ p \in FenceRec
           /\ SameCounts(p, r) /\ SameLife(p, r) /\ SameTime(p, r)
           /\ p.wakelock = r.wakelock
           /\ p.signaled
           /\ PollKept(r) => PollKept(p)
  BY <1>7, PollCbFacts
<1>9. /\ q \in FenceRec /\ q.timeline = n /\ q.wakelock = fence[f].wakelock
      /\ SameCounts(q, fence[f]) /\ SameLife(q, fence[f])
      /\ fence[f].signaled => q.signaled
      /\ PollKept(fence[f]) => PollKept(q)
      /\ n >= Total[f] => q.signaled
  <2>1. CASE r.timeline >= Total[f]
    BY <1>7, <1>8, <2>1 DEF SameCounts, SameLife, SamePoll, SameTime, PollKept
  <2>2. CASE ~(r.timeline >= Total[f])
    BY <1>7, <2>2 DEF SameCounts, SameLife, SamePoll, SameTime, PollKept
  <2> QED
    BY <2>1, <2>2
<1> HIDE DEF q
<1>10. /\ fence' \in [Fence -> FenceRec] /\ fence'[f] = q
       /\ g # f => fence'[g] = fence[g]
  BY <1>1, <1>2, <1>5, <1>9, OneFence
<1>11. CASE g = f
  BY <1>3, <1>4, <1>6, <1>9, <1>10, <1>11 DEF f, rem
<1>12. CASE g # f
  BY <1>3, <1>6, <1>10, <1>12, AlikeFact DEF f, rem, Alike
<1> QED
  BY <1>11, <1>12

\* A signal is counted, and the fence retires if it can.
LEMMA CountsFacts ==
  ASSUME Types, PlaceInv, NEW c \in Cmd, SignalCounts(c), NEW g \in Fence
  PROVE  LET f == Min(todo[c]) IN
         /\ fence' \in [Fence -> FenceRec]
         /\ g # f => fence'[g] = fence[g]
         /\ fence'[f].submitted = fence[f].submitted
         /\ fence'[f].signalers = fence[f].signalers + 1
         /\ fence'[f].waiting = fence[f].waiting
         /\ fence'[f].wakelock = fence[f].wakelock
         /\ fence'[f].file = fence[f].file /\ fence'[f].destroyed = fence[f].destroyed
         /\ fence'[f].propagate = fence[f].propagate
         /\ SamePoll(fence'[f], fence[f]) /\ SameTime(fence'[f], fence[f])
         /\ fence'[f].retired => \/ fence[f].retired
                                 \/ /\ \A ip \in Ips : fence[f].waiting[ip] = 0
                                    /\ Outstanding(fence'[f]) = 0 /\ ~fence[f].file
         /\ \/ Goes(c, [pc |-> "inline", todo |-> todo[c]])
            \/ Goes(c, AfterSignals(c, todo[c] \ {f}))
<1> DEFINE f == Min(todo[c])
           p == [fence[f] EXCEPT !.signalers = @ + 1]
           r == RetireIfPossible(p)
<1>1. f \in Fence
  BY FirstFact DEF SignalCounts
<1>2. fence[f] \in FenceRec /\ fence \in [Fence -> FenceRec]
  BY <1>1 DEF Types
<1>3. PICK b \in BOOLEAN : /\ fence' = [fence EXCEPT ![f] = [r EXCEPT !.waitedWork = b]]
                           /\ \/ Goes(c, [pc |-> "inline", todo |-> todo[c]])
                              \/ Goes(c, AfterSignals(c, todo[c] \ {f}))
  <2>1. PICK async \in BOOLEAN :
          /\ fence' = [fence EXCEPT ![f] =
                 [r EXCEPT !.waitedWork = @ \/ (Outstanding(r) = 0 /\ async)]]
          /\ Goes(c, IF Outstanding(r) = 0 /\ ~async
                       THEN [pc |-> "inline", todo |-> todo[c]]
                       ELSE AfterSignals(c, todo[c] \ {f}))
    BY DEF SignalCounts
  <2>2. (r.waitedWork \/ (Outstanding(r) = 0 /\ async)) \in BOOLEAN
    OBVIOUS
  <2>3. \/ Goes(c, [pc |-> "inline", todo |-> todo[c]])
        \/ Goes(c, AfterSignals(c, todo[c] \ {f}))
    BY <2>1
  <2> HIDE DEF r, f
  <2> QED
    BY <2>1, <2>2, <2>3
<1> HIDE DEF f
<1>4. /\ p \in FenceRec
      /\ SameLife(p, fence[f]) /\ SamePoll(p, fence[f]) /\ SameTime(p, fence[f])
      /\ p.submitted = fence[f].submitted /\ p.waiting = fence[f].waiting
      /\ p.signalers = fence[f].signalers + 1 /\ p.wakelock = fence[f].wakelock
  BY <1>2, CountFacts
<1> HIDE DEF p
<1>5. /\ r \in FenceRec
      /\ SameCounts(r, p) /\ SamePoll(r, p) /\ SameTime(r, p)
      /\ r.wakelock = p.wakelock
      /\ r.file = p.file /\ r.destroyed = p.destroyed /\ r.propagate = p.propagate
      /\ r.retired => \/ p.retired
                      \/ /\ \A ip \in Ips : p.waiting[ip] = 0
                         /\ Outstanding(p) = 0 /\ ~p.file
  BY <1>4, RetireFacts
<1> HIDE DEF r
<1>6. /\ [r EXCEPT !.waitedWork = b] \in FenceRec
      /\ Alike([r EXCEPT !.waitedWork = b], r)
      /\ [r EXCEPT !.waitedWork = b].wakelock = r.wakelock
  BY <1>5, MarkFacts
<1>7. /\ fence' \in [Fence -> FenceRec] /\ fence'[f] = [r EXCEPT !.waitedWork = b]
      /\ g # f => fence'[g] = fence[g]
  BY <1>1, <1>2, <1>3, <1>6, OneFence
<1>8. Alike(fence'[f], r) /\ fence'[f].wakelock = r.wakelock
  BY <1>6, <1>7
<1> QED
  BY <1>3, <1>4, <1>5, <1>7, <1>8
     DEF f, Alike, SameCounts, SameLife, SamePoll, SameTime, Outstanding

\* iif_fence_waited_work_func releases only what no waiter needs.
LEMMA WaitedFacts ==
  ASSUME Types, WaiterPowered, NEW f \in Fence, WaitedWorkFunc(f), NEW g \in Fence
  PROVE  /\ fence' \in [Fence -> FenceRec]
         /\ Alike(fence'[g], fence[g])
         /\ \A ip \in Ips : fence'[g].waiting[ip] <= fence'[g].wakelock[ip]
         /\ g # f => fence'[g] = fence[g]
         /\ \E n : /\ wakelocks' = [ip \in Ips |-> wakelocks[ip] - n[ip]]
                   /\ fence'[f].wakelock = [ip \in Ips |-> fence[f].wakelock[ip] - n[ip]]
                   /\ \A ip \in Ips : n[ip] \in Int /\ n[ip] >= 0
<1> DEFINE n == [ip \in Ips |-> IF Outstanding(fence[f]) = 0 THEN Excess(fence[f], ip)
                                                            ELSE 0]
           w == [ip \in Ips |-> fence[f].wakelock[ip] - n[ip]]
           q == [fence[f] EXCEPT !.waitedWork = FALSE, !.wakelock = w]
<1>1. fence[f] \in FenceRec /\ fence \in [Fence -> FenceRec]
  BY DEF Types
<1>2. fence[f].wakelock \in [Ips -> Int] /\ fence[f].waiting \in [Ips -> Int]
  BY <1>1, RecFacts
<1>3. fence' = [fence EXCEPT ![f] = q]
  BY <1>1 DEF WaitedWorkFunc
<1>4. w \in [Ips -> Int] /\ \A ip \in Ips : fence[f].waiting[ip] <= w[ip]
  BY <1>2 DEF Excess, WaiterPowered
<1> HIDE DEF w
<1>5. q \in FenceRec /\ Alike(q, fence[f]) /\ q.wakelock = w
  BY <1>1, <1>4, WakelockFacts
<1> HIDE DEF q
<1>6. /\ fence' \in [Fence -> FenceRec] /\ fence'[f] = q
      /\ g # f => fence'[g] = fence[g]
  BY <1>1, <1>3, <1>5, OneFence
<1>7. wakelocks' = [ip \in Ips |-> wakelocks[ip] - n[ip]]
  BY DEF WaitedWorkFunc
<1>8. /\ q.wakelock = [ip \in Ips |-> fence[f].wakelock[ip] - n[ip]]
      /\ \A ip \in Ips : n[ip] \in Int /\ n[ip] >= 0
  BY <1>2, <1>5 DEF w, Excess
<1> HIDE DEF n
<1> QED
  BY <1>4, <1>5, <1>6, <1>7, <1>8, AlikeFact DEF Alike, SameCounts, WaiterPowered

\* A waiter leaves: its wakelock stays as long as signalers are outstanding.
LEMMA LeavesFacts ==
  ASSUME Types, PlaceInv, WaiterPowered, NEW c \in Cmd,
         WaiterCompletedAsync(c) \/ WaiterCompleted(c), NEW g \in Fence
  PROVE  LET f == Min(todo[c])
             ip == IpOf[c] IN
         /\ fence' \in [Fence -> FenceRec]
         /\ g # f => fence'[g] = fence[g]
         /\ fence'[f].submitted = fence[f].submitted
         /\ fence'[f].signalers = fence[f].signalers
         /\ fence'[f].waiting = [fence[f].waiting EXCEPT ![ip] = @ - 1]
         /\ \A i \in Ips : fence'[f].waiting[i] <= fence'[f].wakelock[i]
         /\ fence'[f].file = fence[f].file /\ fence'[f].destroyed = fence[f].destroyed
         /\ fence'[f].propagate = fence[f].propagate
         /\ SamePoll(fence'[f], fence[f]) /\ SameTime(fence'[f], fence[f])
         /\ fence'[f].retired => \/ fence[f].retired
                                 \/ /\ \A i \in Ips : fence'[f].waiting[i] = 0
                                    /\ Outstanding(fence[f]) = 0 /\ ~fence[f].file
         /\ pc[c] = "waited" /\ Goes(c, AfterWaits(todo[c] \ {f}))
         /\ \/ wakelocks' = wakelocks /\ fence'[f].wakelock = fence[f].wakelock
            \/ \E n \in {0, 1} :
                 /\ wakelocks' = [wakelocks EXCEPT ![ip] = @ - n]
                 /\ fence'[f].wakelock = [fence[f].wakelock EXCEPT ![ip] = @ - n]
<1> DEFINE f == Min(todo[c])
           ip == IpOf[c]
           p == [fence[f] EXCEPT !.waiting[ip] = @ - 1]
           r == RetireIfPossible(p)
<1>1. f \in Fence /\ ip \in Ips /\ pc[c] = "waited"
  BY FirstFact, IifAssumption DEF WaiterCompletedAsync, WaiterCompleted
<1>2. fence[f] \in FenceRec /\ fence \in [Fence -> FenceRec]
  BY <1>1 DEF Types
<1>3. Goes(c, AfterWaits(todo[c] \ {f}))
  BY DEF WaiterCompletedAsync, WaiterCompleted
<1>4. \/ /\ fence' = [fence EXCEPT ![f] = [r EXCEPT !.waitedWork = TRUE]]
         /\ wakelocks' = wakelocks
      \/ \E n \in {0, 1} :
           /\ fence' = [fence EXCEPT ![f] = [r EXCEPT !.wakelock[ip] = @ - n]]
           /\ wakelocks' = [wakelocks EXCEPT ![ip] = @ - n]
  BY DEF WaiterCompletedAsync, WaiterCompleted
<1>5. \A i \in Ips : fence[f].waiting[i] <= fence[f].wakelock[i]
  BY <1>1 DEF WaiterPowered
<1> HIDE DEF f, ip
<1>6. /\ p \in FenceRec
      /\ SameLife(p, fence[f]) /\ SamePoll(p, fence[f]) /\ SameTime(p, fence[f])
      /\ p.submitted = fence[f].submitted /\ p.signalers = fence[f].signalers
      /\ p.waiting = [fence[f].waiting EXCEPT ![ip] = @ - 1]
      /\ p.wakelock = fence[f].wakelock
  BY <1>1, <1>2, LeaveFacts
<1> HIDE DEF p
<1>7. /\ r \in FenceRec
      /\ SameCounts(r, p) /\ SamePoll(r, p) /\ SameTime(r, p)
      /\ r.wakelock = p.wakelock
      /\ r.file = p.file /\ r.destroyed = p.destroyed /\ r.propagate = p.propagate
      /\ r.retired => \/ p.retired
                      \/ /\ \A i \in Ips : p.waiting[i] = 0
                         /\ Outstanding(p) = 0 /\ ~p.file
  BY <1>6, RetireFacts
<1> HIDE DEF r
<1>8. /\ fence[f].waiting \in [Ips -> Int] /\ fence[f].wakelock \in [Ips -> Int]
      /\ r.waiting = [fence[f].waiting EXCEPT ![ip] = @ - 1]
      /\ r.wakelock = fence[f].wakelock
  BY <1>2, <1>6, <1>7, RecFacts DEF SameCounts
<1> DEFINE Powers(q) ==
             \/ wakelocks' = wakelocks /\ q.wakelock = fence[f].wakelock
             \/ \E n \in {0, 1} : /\ wakelocks' = [wakelocks EXCEPT ![ip] = @ - n]
                                  /\ q.wakelock = [fence[f].wakelock EXCEPT ![ip] = @ - n]
<1>9. \E q \in FenceRec : /\ fence' = [fence EXCEPT ![f] = q]
                          /\ Alike(q, r) /\ Powers(q)
                          /\ \A i \in Ips : q.waiting[i] <= q.wakelock[i]
  <2>1. CASE /\ fence' = [fence EXCEPT ![f] = [r EXCEPT !.waitedWork = TRUE]]
             /\ wakelocks' = wakelocks
    <3> DEFINE q == [r EXCEPT !.waitedWork = TRUE]
    <3>1. q \in FenceRec /\ Alike(q, r) /\ q.wakelock = r.wakelock
      BY <1>7, MarkFacts
    <3> HIDE DEF q
    <3>2. \A i \in Ips : q.waiting[i] <= q.wakelock[i]
      BY <1>1, <1>5, <1>8, <3>1 DEF Alike, SameCounts
    <3>3. fence' = [fence EXCEPT ![f] = q] /\ Powers(q)
      BY <1>8, <2>1, <3>1 DEF q
    <3> QED
      BY <3>1, <3>2, <3>3
  <2>2. ASSUME NEW n \in {0, 1},
               fence' = [fence EXCEPT ![f] = [r EXCEPT !.wakelock[ip] = @ - n]],
               wakelocks' = [wakelocks EXCEPT ![ip] = @ - n]
        PROVE  \E q \in FenceRec : /\ fence' = [fence EXCEPT ![f] = q]
                                   /\ Alike(q, r) /\ Powers(q)
                                   /\ \A i \in Ips : q.waiting[i] <= q.wakelock[i]
    <3> DEFINE w == [r.wakelock EXCEPT ![ip] = @ - n]
               q == [r EXCEPT !.wakelock = w]
    <3>1. w \in [Ips -> Int] /\ \A i \in Ips : r.waiting[i] <= w[i]
      BY <1>1, <1>5, <1>8
    <3>2. fence' = [fence EXCEPT ![f] = q]
      BY <2>2
    <3> HIDE DEF w
    <3>3. q \in FenceRec /\ Alike(q, r) /\ q.wakelock = w
      BY <1>7, <3>1, WakelockFacts
    <3> HIDE DEF q
    <3>4. w = [fence[f].wakelock EXCEPT ![ip] = @ - n]
      BY <1>8 DEF w
    <3>5. Powers(q)
      BY <2>2, <3>3, <3>4
    <3> HIDE DEF Powers
    <3> QED
      BY <3>1, <3>2, <3>3, <3>5 DEF Alike, SameCounts
  <2> QED
    BY <1>4, <2>1, <2>2
<1> HIDE DEF Powers
<1>10. PICK q \in FenceRec : /\ fence' = [fence EXCEPT ![f] = q]
                             /\ Alike(q, r) /\ Powers(q)
                             /\ \A i \in Ips : q.waiting[i] <= q.wakelock[i]
  BY <1>9
<1>11. /\ fence' \in [Fence -> FenceRec] /\ fence'[f] = q
       /\ g # f => fence'[g] = fence[g]
  BY <1>1, <1>2, <1>10, OneFence
<1>12. /\ q.submitted = fence[f].submitted /\ q.signalers = fence[f].signalers
       /\ q.waiting = [fence[f].waiting EXCEPT ![ip] = @ - 1]
       /\ q.file = fence[f].file /\ q.destroyed = fence[f].destroyed
       /\ q.propagate = fence[f].propagate
       /\ SamePoll(q, fence[f]) /\ SameTime(q, fence[f])
  BY <1>6, <1>7, <1>10 DEF Alike, SameCounts, SameLife, SamePoll, SameTime
<1>13. ASSUME q.retired
       PROVE  \/ fence[f].retired
              \/ /\ \A i \in Ips : q.waiting[i] = 0
                 /\ Outstanding(fence[f]) = 0 /\ ~fence[f].file
  <2>1. r.retired /\ q.waiting = r.waiting
    BY <1>10, <1>13 DEF Alike, SameLife, SameCounts
  <2> QED
    BY <1>6, <1>7, <2>1 DEF SameLife, SameCounts, Outstanding
<1> QED
  BY <1>1, <1>3, <1>10, <1>11, <1>12, <1>13 DEF f, ip, Powers

\* The signaled work leaves the fence alone.
LEMMA SignaledFacts ==
  ASSUME Types, NEW f \in Fence, SignaledWork(f), NEW g \in Fence
  PROVE  /\ fence' \in [Fence -> FenceRec]
         /\ Alike(fence'[g], fence[g]) /\ fence'[g].wakelock = fence[g].wakelock
<1> DEFINE q == [fence[f] EXCEPT !.signaledWork = FALSE]
<1>1. fence[f] \in FenceRec /\ fence \in [Fence -> FenceRec]
  BY DEF Types
<1>2. fence' = [fence EXCEPT ![f] = q]
  BY <1>1 DEF SignaledWork
<1>3. q \in FenceRec /\ Alike(q, fence[f]) /\ q.wakelock = fence[f].wakelock
  BY <1>1, MarkFacts
<1> HIDE DEF q
<1>4. /\ fence' \in [Fence -> FenceRec] /\ fence'[f] = q
      /\ g # f => fence'[g] = fence[g]
  BY <1>1, <1>2, <1>3, OneFence
<1> QED
  BY <1>3, <1>4, AlikeFact

\* The file of a fence is closed.
LEMMA CloseFileFacts ==
  ASSUME Types, NEW f \in Fence, CloseFile(f), NEW g \in Fence
  PROVE  /\ fence' \in [Fence -> FenceRec]
         /\ g # f => fence'[g] = fence[g]
         /\ SameCounts(fence'[g], fence[g]) /\ SameTime(fence'[g], fence[g])
         /\ fence'[g].wakelock = fence[g].wakelock
         /\ fence'[g].destroyed = fence[g].destroyed
         /\ fence'[g].propagate = fence[g].propagate
         /\ fence'[g].signaled = fence[g].signaled
         /\ fence'[f].poll = "none" /\ ~fence'[f].file
         /\ fence'[f].retired => \/ fence[f].retired
                                 \/ /\ \A ip \in Ips : fence[f].waiting[ip] = 0
                                    /\ Outstanding(fence[f]) = 0
<1> DEFINE p == [fence[f] EXCEPT !.file = FALSE, !.poll = "none"]
           q == RetireIfPossible(p)
<1>1. fence[f] \in FenceRec /\ fence \in [Fence -> FenceRec]
  BY DEF Types
<1>2. fence' = [fence EXCEPT ![f] = q]
  BY <1>1 DEF CloseFile
<1>3. /\ p \in FenceRec
      /\ SameCounts(p, fence[f]) /\ SameTime(p, fence[f])
      /\ p.wakelock = fence[f].wakelock
      /\ ~p.file /\ p.retired = fence[f].retired /\ p.destroyed = fence[f].destroyed
      /\ p.propagate = fence[f].propagate /\ p.signaled = fence[f].signaled
      /\ p.poll = "none"
  BY <1>1, CloseFacts
<1> HIDE DEF p
<1>4. /\ q \in FenceRec
      /\ SameCounts(q, p) /\ SamePoll(q, p) /\ SameTime(q, p)
      /\ q.wakelock = p.wakelock
      /\ q.file = p.file /\ q.destroyed = p.destroyed /\ q.propagate = p.propagate
      /\ q.retired => \/ p.retired
                      \/ /\ \A ip \in Ips : p.waiting[ip] = 0
                         /\ Outstanding(p) = 0 /\ ~p.file
  BY <1>3, RetireFacts
<1> HIDE DEF q
<1>5. /\ fence' \in [Fence -> FenceRec] /\ fence'[f] = q
      /\ g # f => fence'[g] = fence[g]
  BY <1>1, <1>2, <1>4, OneFence
<1>6. CASE g = f
  BY <1>3, <1>4, <1>5, <1>6 DEF SameCounts, SamePoll, SameTime, Outstanding
<1>7. CASE g # f
  BY <1>3, <1>4, <1>5, <1>7, AlikeFact
     DEF Alike, SameCounts, SamePoll, SameTime, SameLife, Outstanding
<1> QED
  BY <1>6, <1>7

\* A poll that is not answered at once is armed, and only an unsignaled fence arms
\* one; what enables polls again delivers the callback that was pended.
LEMMA PollerFacts ==
  ASSUME Types, NEW f \in Fence,
         Poll(f) \/ \E off \in BOOLEAN : SetDisablePoll(f, off), NEW g \in Fence
  PROVE  /\ fence' \in [Fence -> FenceRec]
         /\ SameCounts(fence'[g], fence[g]) /\ SameLife(fence'[g], fence[g])
         /\ SameTime(fence'[g], fence[g]) /\ fence'[g].wakelock = fence[g].wakelock
         /\ fence'[g].signaled = fence[g].signaled
         /\ PollKept(fence[g]) => PollKept(fence'[g])
<1>1. fence[f] \in FenceRec /\ fence \in [Fence -> FenceRec]
  BY DEF Types
<1>2. \E q \in FenceRec :
        /\ fence' = [fence EXCEPT ![f] = q]
        /\ SameCounts(q, fence[f]) /\ SameLife(q, fence[f])
        /\ SameTime(q, fence[f]) /\ q.wakelock = fence[f].wakelock
        /\ q.signaled = fence[f].signaled
        /\ PollKept(fence[f]) => PollKept(q)
  <2>1. CASE Poll(f)
    <3> DEFINE p == IF fence[f].signaled \/ AllSignaled(f) THEN "woken" ELSE "armed"
               q == [fence[f] EXCEPT !.poll = p]
    <3>1. p \in {"none", "armed", "woken"} /\ (fence[f].signaled => p = "woken")
      OBVIOUS
    <3>2. fence' = [fence EXCEPT ![f] = q]
      BY <1>1, <2>1 DEF Poll
    <3> HIDE DEF p
    <3>3. /\ q \in FenceRec /\ SameCounts(q, fence[f]) /\ SameLife(q, fence[f])
          /\ SameTime(q, fence[f]) /\ q.wakelock = fence[f].wakelock
          /\ q.signaled = fence[f].signaled /\ q.poll = p
      BY <1>1, <3>1, PollFacts
    <3> HIDE DEF q
    <3> QED
      BY <3>1, <3>2, <3>3 DEF PollKept
  <2>2. ASSUME NEW off \in BOOLEAN, SetDisablePoll(f, off)
        PROVE \E q \in FenceRec :
                /\ fence' = [fence EXCEPT ![f] = q]
                /\ SameCounts(q, fence[f]) /\ SameLife(q, fence[f])
                /\ SameTime(q, fence[f]) /\ q.wakelock = fence[f].wakelock
                /\ q.signaled = fence[f].signaled
                /\ PollKept(fence[f]) => PollKept(q)
    <3> DEFINE p == [fence[f] EXCEPT !.pollOff = off]
               q == IF ~off /\ p.pended THEN NotifyPollCb(p) ELSE p
    <3>1. fence' = [fence EXCEPT ![f] = q]
      BY <2>2 DEF SetDisablePoll
    <3>2. /\ p \in FenceRec /\ SameCounts(p, fence[f]) /\ SameLife(p, fence[f])
          /\ SameTime(p, fence[f]) /\ p.wakelock = fence[f].wakelock
          /\ p.signaled = fence[f].signaled /\ p.poll = fence[f].poll
          /\ p.pended = fence[f].pended /\ p.pollOff = off
      BY <1>1, FlagFacts
    <3> HIDE DEF p
    <3>3. LET n == NotifyPollCb(p) IN
           /\ n \in FenceRec
           /\ SameCounts(n, p) /\ SameLife(n, p) /\ SameTime(n, p)
           /\ n.wakelock = p.wakelock
           /\ n.signaled = p.signaled /\ n.pollOff = p.pollOff
           /\ PollKept(n)
      BY <3>2, NotifyFacts
    <3>4. /\ q \in FenceRec /\ SameCounts(q, fence[f]) /\ SameLife(q, fence[f])
          /\ SameTime(q, fence[f]) /\ q.wakelock = fence[f].wakelock
          /\ q.signaled = fence[f].signaled
      <4>1. CASE ~off /\ p.pended
        BY <3>2, <3>3, <4>1 DEF SameCounts, SameLife, SameTime
      <4>2. CASE ~(~off /\ p.pended)
        BY <3>2, <4>2
      <4> QED
        BY <4>1, <4>2
    <3>5. ASSUME PollKept(fence[f]) PROVE PollKept(q)
      <4>1. CASE ~off /\ p.pended
        BY <3>3, <4>1
      <4>2. CASE ~(~off /\ p.pended)
        BY <3>2, <3>5, <4>2 DEF PollKept
      <4> QED
        BY <4>1, <4>2
    <3> HIDE DEF q
    <3> QED
      BY <3>1, <3>4, <3>5
  <2> QED
    BY <2>1, <2>2
<1>3. PICK q \in FenceRec :
        /\ fence' = [fence EXCEPT ![f] = q]
        /\ SameCounts(q, fence[f]) /\ SameLife(q, fence[f])
        /\ SameTime(q, fence[f]) /\ q.wakelock = fence[f].wakelock
        /\ q.signaled = fence[f].signaled
        /\ PollKept(fence[f]) => PollKept(q)
  BY <1>2
<1>4. /\ fence' \in [Fence -> FenceRec] /\ fence'[f] = q
      /\ g # f => fence'[g] = fence[g]
  BY <1>1, <1>3, OneFence
<1>5. CASE g = f
  BY <1>3, <1>4, <1>5
<1>6. CASE g # f
  BY <1>4, <1>6, AlikeFact DEF Alike
<1> QED
  BY <1>5, <1>6

\* A fence that is destroyed is retired, released and signaled.
LEMMA DestroysFacts ==
  ASSUME Types, NEW f \in Fence, Destroy(f), NEW g \in Fence
  PROVE  /\ fence' \in [Fence -> FenceRec]
         /\ g # f => fence'[g] = fence[g]
         /\ fence'[f].submitted = fence[f].submitted
         /\ fence'[f].signalers = Total[f]
         /\ fence'[f].waiting = fence[f].waiting
         /\ fence'[f].wakelock = [ip \in Ips |-> 0]
         /\ fence'[f].destroyed
         /\ fence'[f].file = fence[f].file
         /\ SameTime(fence'[f], fence[f])
         /\ fence[f].propagate => fence'[f].propagate
         /\ fence[f].signaled => fence'[f].signaled
         /\ PollKept(fence'[f])
<1> DEFINE e == ~AllSignaled(f)
           w == [ip \in Ips |-> 0]
           s == fence[f].signaled \/ e
           x == fence[f].error \/ e
           p == fence[f].propagate \/ e
           n == Total[f]
           r == DestroyOf(fence[f], n, s, x, p, w)
           q == NotifyPollCb(r)
<1>1. fence[f] \in FenceRec /\ fence \in [Fence -> FenceRec] /\ n \in Nat
  BY IifAssumption DEF Types
<1>2. fence' = [fence EXCEPT ![f] = q]
  BY DEF Destroy, DestroyOf
<1>3. /\ s \in BOOLEAN /\ x \in BOOLEAN /\ p \in BOOLEAN /\ w \in [Ips -> Int]
      /\ fence[f].propagate => p
      /\ fence[f].signaled => s
  OBVIOUS
<1> HIDE DEF s, x, p, w, n
<1>4. /\ r \in FenceRec
      /\ r.submitted = fence[f].submitted /\ r.signalers = n
      /\ r.waiting = fence[f].waiting
      /\ SameTime(r, fence[f]) /\ r.wakelock = w
      /\ r.file = fence[f].file /\ r.destroyed /\ r.retired
      /\ r.propagate = p /\ r.signaled = s
  BY <1>1, <1>3, DestroyFacts
<1> HIDE DEF r
<1>5. /\ q \in FenceRec
      /\ SameCounts(q, r) /\ SameLife(q, r) /\ SameTime(q, r)
      /\ q.wakelock = r.wakelock
      /\ q.signaled = r.signaled
      /\ PollKept(q)
  BY <1>4, NotifyFacts
<1> HIDE DEF q
<1>6. /\ fence' \in [Fence -> FenceRec] /\ fence'[f] = q
      /\ g # f => fence'[g] = fence[g]
  BY <1>1, <1>2, <1>5, OneFence
<1> QED
  BY <1>3, <1>4, <1>5, <1>6 DEF n, w, SameCounts, SameLife, SameTime

-----------------------------------------------------------------------------
(***************************************************************************)
(* What each action does to the sets of commands.                          *)
(***************************************************************************)
\* Sets of commands are finite.
LEMMA CardFact ==
  ASSUME NEW S \in SUBSET Cmd
  PROVE  IsFiniteSet(S) /\ Cardinality(S) \in Nat
  BY IifAssumption, FS_Subset, FS_CardinalityType

\* A command more.
LEMMA AddFact ==
  ASSUME NEW S \in SUBSET Cmd, NEW c \in Cmd, c \notin S
  PROVE  Cardinality(S \cup {c}) = Cardinality(S) + 1
  BY CardFact, FS_AddElement

\* A command less.
LEMMA RemoveFact ==
  ASSUME NEW S \in SUBSET Cmd, NEW c \in S
  PROVE  Cardinality(S \ {c}) = Cardinality(S) - 1
  BY CardFact, FS_RemoveElement

\* Part of a set is not larger, and smaller if it lacks a command.
LEMMA PartFact ==
  ASSUME NEW T \in SUBSET Cmd, NEW S \in SUBSET T
  PROVE  /\ Cardinality(S) <= Cardinality(T)
         /\ \A c \in T : c \notin S => Cardinality(S) < Cardinality(T)
<1>1. IsFiniteSet(T) /\ Cardinality(T) \in Nat /\ Cardinality(S) \in Nat
  BY CardFact
<1>2. /\ Cardinality(S) <= Cardinality(T)
      /\ Cardinality(T) = Cardinality(S) => T = S
  BY <1>1, FS_Subset
<1> QED
  BY <1>1, <1>2

\* The sets are sets of commands.
LEMMA SetsFact ==
  /\ \A f : /\ Signalers(f) \in SUBSET Cmd /\ Ran(f) \in SUBSET Cmd
            /\ Counted(f) \in SUBSET Cmd /\ Written(f) \in SUBSET Cmd
            /\ Counted(f) \subseteq Written(f)
  /\ \A f, ip : Waits(f, ip) \in SUBSET Cmd
  BY DEF Signalers, Ran, Counted, Written, Waits, HasWritten

\* A written signal is one of a submitted command.
LEMMA WrittenFact ==
  ASSUME Types, PlaceInv, NEW f \in Fence
  PROVE  Written(f) \subseteq Signalers(f) /\ Ran(f) \subseteq Signalers(f)
  BY DEF PlaceInv, Written, Ran, Signalers, HasWritten, HasCounted, InFirmware

\* A step that does not move c.
SameAt(c) ==
  /\ InFirmware(c)' <=> InFirmware(c)
  /\ HasRun(c)' <=> HasRun(c)
  /\ \A f \in Out[c] : /\ HasCounted(c, f)' <=> HasCounted(c, f)
                       /\ HasWritten(c, f)' <=> HasWritten(c, f)
  /\ \A f \in In[c] : StillWaits(c, f)' <=> StillWaits(c, f)

\* A step that moves no command from one place to another.
SameSets ==
  \A f \in Fence :
    /\ Signalers(f)' = Signalers(f) /\ Ran(f)' = Ran(f)
    /\ Counted(f)' = Counted(f) /\ Written(f)' = Written(f)
    /\ \A ip \in Ips : Waits(f, ip)' = Waits(f, ip)

\* A step that moves no command leaves the sets alone.
LEMMA SameFact == (\A c \in Cmd : SameAt(c)) => SameSets
  BY DEF SameAt, SameSets, Signalers, Ran, Counted, Written, Waits

\* A step that moves one command changes the sets by that command.
LEMMA OneFact ==
  ASSUME NEW c \in Cmd, \A d \in Cmd : d # c => SameAt(d), NEW f \in Fence
  PROVE  /\ Signalers(f)' = (Signalers(f) \ {c}) \cup
                               {d \in {c} : f \in Out[c] /\ InFirmware(c)'}
         /\ Ran(f)' = (Ran(f) \ {c}) \cup {d \in {c} : f \in Out[c] /\ HasRun(c)'}
         /\ Counted(f)' = (Counted(f) \ {c}) \cup
                             {d \in {c} : f \in Out[c] /\ HasCounted(c, f)'}
         /\ Written(f)' = (Written(f) \ {c}) \cup
                             {d \in {c} : f \in Out[c] /\ HasWritten(c, f)'}
         /\ \A ip \in Ips :
              Waits(f, ip)' = (Waits(f, ip) \ {c}) \cup
                 {d \in {c} : f \in In[c] /\ IpOf[c] = ip /\ StillWaits(c, f)'}
<1>1. ASSUME NEW d \in Cmd, d # c
      PROVE  /\ InFirmware(d)' <=> InFirmware(d)
             /\ HasRun(d)' <=> HasRun(d)
             /\ f \in Out[d] => /\ HasCounted(d, f)' <=> HasCounted(d, f)
                                /\ HasWritten(d, f)' <=> HasWritten(d, f)
             /\ f \in In[d] => (StillWaits(d, f)' <=> StillWaits(d, f))
  BY <1>1 DEF SameAt
<1>2. Signalers(f)' = (Signalers(f) \ {c}) \cup
                         {d \in {c} : f \in Out[c] /\ InFirmware(c)'}
  BY <1>1 DEF Signalers
<1>3. Ran(f)' = (Ran(f) \ {c}) \cup {d \in {c} : f \in Out[c] /\ HasRun(c)'}
  BY <1>1 DEF Ran
<1>4. Counted(f)' = (Counted(f) \ {c}) \cup
                       {d \in {c} : f \in Out[c] /\ HasCounted(c, f)'}
  BY <1>1 DEF Counted
<1>5. Written(f)' = (Written(f) \ {c}) \cup
                       {d \in {c} : f \in Out[c] /\ HasWritten(c, f)'}
  BY <1>1 DEF Written
<1>6. \A ip \in Ips :
        Waits(f, ip)' = (Waits(f, ip) \ {c}) \cup
           {d \in {c} : f \in In[c] /\ IpOf[c] = ip /\ StillWaits(c, f)'}
  BY <1>1 DEF Waits
<1> QED
  BY <1>2, <1>3, <1>4, <1>5, <1>6

\* If the place of that command is not told apart either, a set stays.
LEMMA OneStays ==
  ASSUME NEW c \in Cmd, \A d \in Cmd : d # c => SameAt(d), NEW f \in Fence
  PROVE  /\ (f \in Out[c] => (InFirmware(c)' <=> InFirmware(c))) =>
              Signalers(f)' = Signalers(f)
         /\ (f \in Out[c] => (HasRun(c)' <=> HasRun(c))) => Ran(f)' = Ran(f)
         /\ (f \in Out[c] => (HasCounted(c, f)' <=> HasCounted(c, f))) =>
              Counted(f)' = Counted(f)
         /\ (f \in Out[c] => (HasWritten(c, f)' <=> HasWritten(c, f))) =>
              Written(f)' = Written(f)
         /\ (f \in In[c] => (StillWaits(c, f)' <=> StillWaits(c, f))) =>
              \A ip \in Ips : Waits(f, ip)' = Waits(f, ip)
<1>1. ASSUME NEW d \in Cmd, d # c
      PROVE  /\ (InFirmware(d)' <=> InFirmware(d))
             /\ (HasRun(d)' <=> HasRun(d))
             /\ f \in Out[d] => (HasCounted(d, f)' <=> HasCounted(d, f))
             /\ f \in Out[d] => (HasWritten(d, f)' <=> HasWritten(d, f))
             /\ f \in In[d] => (StillWaits(d, f)' <=> StillWaits(d, f))
  BY <1>1 DEF SameAt
<1>2. (f \in Out[c] => (InFirmware(c)' <=> InFirmware(c))) =>
        Signalers(f)' = Signalers(f)
  BY <1>1 DEF Signalers
<1>3. (f \in Out[c] => (HasRun(c)' <=> HasRun(c))) => Ran(f)' = Ran(f)
  BY <1>1 DEF Ran
<1>4. (f \in Out[c] => (HasCounted(c, f)' <=> HasCounted(c, f))) =>
        Counted(f)' = Counted(f)
  BY <1>1 DEF Counted
<1>5. (f \in Out[c] => (HasWritten(c, f)' <=> HasWritten(c, f))) =>
        Written(f)' = Written(f)
  BY <1>1 DEF Written
<1>6. (f \in In[c] => (StillWaits(c, f)' <=> StillWaits(c, f))) =>
        \A ip \in Ips : Waits(f, ip)' = Waits(f, ip)
  BY <1>1 DEF Waits
<1> QED
  BY <1>2, <1>3, <1>4, <1>5, <1>6

\* The steps that move no command: places before the submission, and the two
\* halves before the table is written, are not told apart.
Calm(c) ==
  /\ todo'[c] = todo[c]
  /\ HasRun(c)' <=> HasRun(c)
  /\ \/ pc'[c] = pc[c]
     \/ {pc[c], pc'[c]} \subseteq {"idle", "lock", "refused"}
     \/ {pc[c], pc'[c]} \subseteq {"signal", "table"}

\* A quiet step leaves the sets alone.
LEMMA CalmFact == (\A c \in Cmd : Calm(c)) => SameSets
<1>1. ASSUME NEW c \in Cmd, Calm(c) PROVE SameAt(c)
  BY <1>1 DEF Calm, SameAt, InFirmware, HasCounted, HasWritten, StillWaits
<1> QED
  BY <1>1, SameFact

\* A command whose places and work in the firmware are as before.
LEMMA StayFact ==
  ASSUME NEW c \in Cmd, pc'[c] = pc[c], todo'[c] = todo[c], fw'[c] = fw[c]
  PROVE  SameAt(c)
  BY DEF SameAt, InFirmware, HasRun, HasCounted, HasWritten, StillWaits

\* A submission adds its command to the signalers and to the waiters.
LEMMA SubmitSets ==
  ASSUME Types, PlaceInv, NEW c \in Cmd, Submit(c), NEW f \in Fence
  PROVE  /\ Ran(f)' = Ran(f) /\ Counted(f)' = Counted(f) /\ Written(f)' = Written(f)
         /\ IF f \in Out[c] THEN /\ c \notin Signalers(f)
                                 /\ Signalers(f)' = Signalers(f) \cup {c}
                            ELSE Signalers(f)' = Signalers(f)
         /\ \A ip \in Ips :
              IF f \in In[c] /\ ip = IpOf[c]
                THEN c \notin Waits(f, ip) /\ Waits(f, ip)' = Waits(f, ip) \cup {c}
                ELSE Waits(f, ip)' = Waits(f, ip)
<1>1. pc[c] = "lock" /\ pc' = [pc EXCEPT ![c] = "sent"] /\ UNCHANGED <<todo, fw>>
  BY DEF Submit, completeVars
<1>2. pc'[c] = "sent" /\ \A d \in Cmd : d # c => pc'[d] = pc[d]
  BY <1>1 DEF Types
<1>3. \A d \in Cmd : d # c => SameAt(d)
  BY <1>1, <1>2, StayFact
<1>4. /\ ~InFirmware(c) /\ InFirmware(c)'
      /\ (HasRun(c)' <=> HasRun(c))
      /\ ~HasCounted(c, f) /\ ~HasCounted(c, f)'
      /\ ~HasWritten(c, f) /\ ~HasWritten(c, f)'
      /\ ~StillWaits(c, f) /\ StillWaits(c, f)'
  BY <1>1, <1>2 DEF InFirmware, HasRun, HasCounted, HasWritten, StillWaits
<1>5. /\ c \notin Signalers(f) /\ c \notin Counted(f) /\ c \notin Written(f)
      /\ \A ip \in Ips : c \notin Waits(f, ip)
      /\ (c \in Ran(f) <=> (f \in Out[c] /\ HasRun(c)))
  BY <1>4 DEF Signalers, Counted, Written, Waits, Ran
<1>6. /\ Ran(f)' = Ran(f) /\ Counted(f)' = Counted(f) /\ Written(f)' = Written(f)
      /\ f \notin Out[c] => Signalers(f)' = Signalers(f)
      /\ f \notin In[c] => \A ip \in Ips : Waits(f, ip)' = Waits(f, ip)
  BY <1>3, <1>4, OneStays
<1>7. f \in Out[c] => Signalers(f)' = Signalers(f) \cup {c}
  BY <1>3, <1>4, <1>5, OneFact
<1>8. ASSUME f \in In[c], NEW ip \in Ips
      PROVE  Waits(f, ip)' = IF ip = IpOf[c] THEN Waits(f, ip) \cup {c}
                                             ELSE Waits(f, ip)
  <2>1. Waits(f, ip)' = (Waits(f, ip) \ {c}) \cup
                 {d \in {c} : f \in In[c] /\ IpOf[c] = ip /\ StillWaits(c, f)'}
    BY <1>3, OneFact
  <2> QED
    BY <1>4, <1>5, <1>8, <2>1
<1> QED
  BY <1>5, <1>6, <1>7, <1>8

\* A command that runs is added to those that ran.
LEMMA RunsSets ==
  ASSUME Types, PlaceInv, NEW c \in Cmd, FwRuns(c), NEW f \in Fence
  PROVE  /\ Signalers(f)' = Signalers(f)
         /\ Counted(f)' = Counted(f) /\ Written(f)' = Written(f)
         /\ \A ip \in Ips : Waits(f, ip)' = Waits(f, ip)
         /\ IF f \in Out[c] THEN c \notin Ran(f) /\ Ran(f)' = Ran(f) \cup {c}
                            ELSE Ran(f)' = Ran(f)
         /\ (c \in Signalers(f) <=> f \in Out[c])
         /\ \A d \in Cmd : HasRun(d) => HasRun(d)'
         /\ InFirmware(c)
<1>1. UNCHANGED <<pc, todo>> /\ InFirmware(c) /\ fw[c] = "queued"
  BY DEF FwRuns, completeVars
<1>2. /\ fw'[c] \in {"failed", "done"}
      /\ \A d \in Cmd : d # c => (HasRun(d)' <=> HasRun(d))
  BY DEF FwRuns, Sleeps, HasRun
<1>3. \A d \in Cmd : d # c => SameAt(d)
  BY <1>1, <1>2 DEF SameAt, InFirmware, HasCounted, HasWritten, StillWaits
<1>4. /\ (InFirmware(c)' <=> InFirmware(c))
      /\ ~HasRun(c) /\ HasRun(c)'
      /\ (HasCounted(c, f)' <=> HasCounted(c, f))
      /\ (HasWritten(c, f)' <=> HasWritten(c, f))
      /\ (StillWaits(c, f)' <=> StillWaits(c, f))
  BY <1>1, <1>2 DEF InFirmware, HasRun, HasCounted, HasWritten, StillWaits
<1>5. /\ (c \in Signalers(f) <=> (f \in Out[c] /\ InFirmware(c)))
      /\ (c \in Counted(f) <=> (f \in Out[c] /\ HasCounted(c, f)))
      /\ (c \in Written(f) <=> (f \in Out[c] /\ HasWritten(c, f)))
      /\ \A ip \in Ips : (c \in Waits(f, ip) <=>
                           (f \in In[c] /\ IpOf[c] = ip /\ StillWaits(c, f)))
      /\ c \notin Ran(f)
  BY <1>4 DEF Signalers, Counted, Written, Waits, Ran
<1>6. InFirmware(c)'
  BY <1>1, <1>4
<1>7. Signalers(f)' = Signalers(f) /\ Counted(f)' = Counted(f) /\ Written(f)' = Written(f)
  BY <1>3, <1>4, OneStays
<1>8. \A ip \in Ips : Waits(f, ip)' = Waits(f, ip)
  BY <1>3, <1>4, OneStays
<1>9. IF f \in Out[c] THEN Ran(f)' = Ran(f) \cup {c} ELSE Ran(f)' = Ran(f)
  BY <1>3, <1>4, <1>5, OneFact
<1> QED
  BY <1>1, <1>2, <1>4, <1>5, <1>7, <1>8, <1>9

\* A command that begins its completion has signaled and left no fence.
LEMMA CompletesSets ==
  ASSUME Types, PlaceInv, NEW c \in Cmd, NEW e \in BOOLEAN, Completes(c, e)
  PROVE  SameSets
<1>1. pc[c] = "sent" /\ Goes(c, AfterSignals(c, Out[c])) /\ UNCHANGED fw
  BY DEF Completes
<1>2. /\ pc'[c] = AfterSignals(c, Out[c]).pc /\ todo'[c] = AfterSignals(c, Out[c]).todo
      /\ \A d \in Cmd : d # c => pc'[d] = pc[d] /\ todo'[d] = todo[d]
  BY <1>1 DEF Goes, Types
<1>3. \A d \in Cmd : d # c => SameAt(d)
  BY <1>1, <1>2, StayFact
<1>4. \/ Out[c] # {} /\ pc'[c] = "signal" /\ todo'[c] = Out[c]
      \/ Out[c] = {} /\ In[c] # {} /\ pc'[c] = "waited" /\ todo'[c] = In[c]
      \/ Out[c] = {} /\ In[c] = {} /\ pc'[c] = "done"
  BY <1>2 DEF AfterSignals
<1>5. SameAt(c)
  BY <1>1, <1>4 DEF SameAt, InFirmware, HasRun, HasCounted, HasWritten, StillWaits
<1> QED
  BY <1>3, <1>5, SameFact

\* The second half of a signal adds its command to those written.
LEMMA WritesSets ==
  ASSUME Types, PlaceInv, NEW c \in Cmd, SignalWrites(c), NEW f \in Fence
  PROVE  /\ Signalers(f)' = Signalers(f) /\ Ran(f)' = Ran(f)
         /\ Counted(f)' = Counted(f)
         /\ \A ip \in Ips : Waits(f, ip)' = Waits(f, ip)
         /\ IF f = Min(todo[c]) THEN c \notin Written(f) /\ Written(f)' = Written(f) \cup {c}
                                ELSE Written(f)' = Written(f)
<1>1. pc[c] = "table" /\ pc' = [pc EXCEPT ![c] = "count"] /\ UNCHANGED <<todo, fw>>
  BY DEF SignalWrites, completeVars
<1>2. pc'[c] = "count" /\ \A d \in Cmd : d # c => pc'[d] = pc[d]
  BY <1>1 DEF Types
<1>3. \A d \in Cmd : d # c => SameAt(d)
  BY <1>1, <1>2, StayFact
<1>4. Min(todo[c]) \in todo[c] /\ Min(todo[c]) \in Out[c]
  BY <1>1, FirstFact
<1>5. /\ InFirmware(c) /\ InFirmware(c)'
      /\ (HasRun(c)' <=> HasRun(c))
      /\ (HasCounted(c, f)' <=> HasCounted(c, f))
      /\ (HasWritten(c, f) <=> HasCounted(c, f))
      /\ (HasWritten(c, f)' <=> (HasCounted(c, f) \/ f = Min(todo[c])))
      /\ f = Min(todo[c]) => ~HasCounted(c, f)
      /\ (StillWaits(c, f)' <=> StillWaits(c, f))
  BY <1>1, <1>2, <1>4 DEF InFirmware, HasRun, HasCounted, HasWritten, StillWaits
<1>6. /\ (c \in Signalers(f) <=> f \in Out[c])
      /\ (c \in Ran(f) <=> (f \in Out[c] /\ HasRun(c)))
      /\ (c \in Counted(f) <=> (f \in Out[c] /\ HasCounted(c, f)))
      /\ (c \in Written(f) <=> (f \in Out[c] /\ HasCounted(c, f)))
      /\ \A ip \in Ips : (c \in Waits(f, ip) <=>
                           (f \in In[c] /\ IpOf[c] = ip /\ StillWaits(c, f)))
  BY <1>5 DEF Signalers, Counted, Written, Waits, Ran
<1>7. Signalers(f)' = Signalers(f) /\ Ran(f)' = Ran(f) /\ Counted(f)' = Counted(f)
  BY <1>3, <1>5, OneStays
<1>8. \A ip \in Ips : Waits(f, ip)' = Waits(f, ip)
  BY <1>3, <1>5, OneStays
<1>9. IF f = Min(todo[c]) THEN c \notin Written(f) /\ Written(f)' = Written(f) \cup {c}
                          ELSE Written(f)' = Written(f)
  BY <1>3, <1>4, <1>5, <1>6, OneFact
<1> QED
  BY <1>7, <1>8, <1>9

\* Where a command is after it has dealt with its first fence.
LEMMA NextPlace ==
  ASSUME Types, PlaceInv, NEW c \in Cmd, pc[c] \in {"count", "inline"},
         Goes(c, AfterSignals(c, todo[c] \ {Min(todo[c])}))
  PROVE  /\ \A f \in Out[c] : HasCounted(c, f)' <=>
                                (f \notin todo[c] \/ f = Min(todo[c]))
         /\ \A f \in Out[c] : HasWritten(c, f)' <=>
                                (f \notin todo[c] \/ f = Min(todo[c]))
         /\ \A f \in In[c] : StillWaits(c, f)'
         /\ InFirmware(c)'
<1>1. /\ pc'[c] = AfterSignals(c, todo[c] \ {Min(todo[c])}).pc
      /\ todo'[c] = AfterSignals(c, todo[c] \ {Min(todo[c])}).todo
  BY DEF Goes, Types
<1>2. \/ /\ todo[c] \ {Min(todo[c])} # {} /\ pc'[c] = "signal"
         /\ todo'[c] = todo[c] \ {Min(todo[c])}
      \/ /\ todo[c] \ {Min(todo[c])} = {} /\ In[c] # {} /\ pc'[c] = "waited"
         /\ todo'[c] = In[c]
      \/ todo[c] \ {Min(todo[c])} = {} /\ In[c] = {} /\ pc'[c] = "done"
  BY <1>1 DEF AfterSignals
<1> QED
  BY <1>2 DEF HasCounted, HasWritten, StillWaits, InFirmware

\* A signal that is counted adds its command to those counted.
LEMMA CountsSets ==
  ASSUME Types, PlaceInv, NEW c \in Cmd, SignalCounts(c), NEW f \in Fence
  PROVE  /\ Signalers(f)' = Signalers(f) /\ Ran(f)' = Ran(f)
         /\ Written(f)' = Written(f)
         /\ \A ip \in Ips : Waits(f, ip)' = Waits(f, ip)
         /\ IF f = Min(todo[c]) THEN c \notin Counted(f) /\ Counted(f)' = Counted(f) \cup {c}
                                ELSE Counted(f)' = Counted(f)
<1>1. /\ pc[c] = "count" /\ UNCHANGED fw
      /\ \/ Goes(c, [pc |-> "inline", todo |-> todo[c]])
         \/ Goes(c, AfterSignals(c, todo[c] \ {Min(todo[c])}))
  BY CountsFacts DEF SignalCounts
<1>2. \A d \in Cmd : d # c => pc'[d] = pc[d] /\ todo'[d] = todo[d]
  BY <1>1 DEF Types, Goes
<1>3. \A d \in Cmd : d # c => SameAt(d)
  BY <1>1, <1>2, StayFact
<1>4. Min(todo[c]) \in todo[c] /\ Min(todo[c]) \in Out[c]
  BY <1>1, FirstFact
<1>5. /\ InFirmware(c)
      /\ (HasRun(c)' <=> HasRun(c))
      /\ (HasCounted(c, f) <=> f \notin todo[c])
      /\ (HasWritten(c, f) <=> (f \notin todo[c] \/ f = Min(todo[c])))
      /\ StillWaits(c, f)
  BY <1>1 DEF InFirmware, HasRun, HasCounted, HasWritten, StillWaits
<1>6. /\ f \in Out[c] => (HasCounted(c, f)' <=> (f \notin todo[c] \/ f = Min(todo[c])))
      /\ f \in Out[c] => (HasWritten(c, f)' <=> (f \notin todo[c] \/ f = Min(todo[c])))
      /\ f \in In[c] => StillWaits(c, f)'
      /\ InFirmware(c)'
  <2>1. CASE Goes(c, [pc |-> "inline", todo |-> todo[c]])
    <3>1. pc'[c] = "inline" /\ todo'[c] = todo[c]
      BY <2>1 DEF Goes, Types
    <3> QED
      BY <3>1 DEF HasCounted, HasWritten, StillWaits, InFirmware
  <2>2. CASE Goes(c, AfterSignals(c, todo[c] \ {Min(todo[c])}))
    BY <1>1, <2>2, NextPlace
  <2> QED
    BY <1>1, <2>1, <2>2
<1>7. /\ (c \in Signalers(f) <=> f \in Out[c])
      /\ (c \in Ran(f) <=> (f \in Out[c] /\ HasRun(c)))
      /\ (c \in Counted(f) <=> (f \in Out[c] /\ f \notin todo[c]))
      /\ (c \in Written(f) <=> (f \in Out[c] /\ (f \notin todo[c] \/ f = Min(todo[c]))))
      /\ \A ip \in Ips : (c \in Waits(f, ip) <=> (f \in In[c] /\ IpOf[c] = ip))
  BY <1>5 DEF Signalers, Counted, Written, Waits, Ran
<1>8. Signalers(f)' = Signalers(f) /\ Ran(f)' = Ran(f) /\ Written(f)' = Written(f)
  BY <1>3, <1>5, <1>6, OneStays
<1>9. \A ip \in Ips : Waits(f, ip)' = Waits(f, ip)
  BY <1>3, <1>5, <1>6, <1>7, OneFact
<1>10. IF f = Min(todo[c]) THEN c \notin Counted(f) /\ Counted(f)' = Counted(f) \cup {c}
                           ELSE Counted(f)' = Counted(f)
  BY <1>3, <1>4, <1>6, <1>7, OneFact
<1> QED
  BY <1>8, <1>9, <1>10

\* The waited work of a signaler moves nothing in the sets.
LEMMA WaitedSets ==
  ASSUME Types, PlaceInv, NEW c \in Cmd, SignalWaited(c)
  PROVE  SameSets
<1>1. /\ pc[c] = "inline" /\ UNCHANGED fw
      /\ Goes(c, AfterSignals(c, todo[c] \ {Min(todo[c])}))
  BY DEF SignalWaited
<1>2. \A d \in Cmd : d # c => pc'[d] = pc[d] /\ todo'[d] = todo[d]
  BY <1>1 DEF Types, Goes
<1>3. \A d \in Cmd : d # c => SameAt(d)
  BY <1>1, <1>2, StayFact
<1>4. SameAt(c)
  BY <1>1, NextPlace
     DEF SameAt, InFirmware, HasRun, HasCounted, HasWritten, StillWaits
<1> QED
  BY <1>3, <1>4, SameFact

\* A waiter that leaves is no longer counted as waiting.
LEMMA LeavesSets ==
  ASSUME Types, PlaceInv, WaiterPowered, NEW c \in Cmd,
         WaiterCompletedAsync(c) \/ WaiterCompleted(c), NEW f \in Fence
  PROVE  /\ Signalers(f)' = Signalers(f) /\ Ran(f)' = Ran(f)
         /\ Written(f)' = Written(f) /\ Counted(f)' = Counted(f)
         /\ \A ip \in Ips :
              IF f = Min(todo[c]) /\ ip = IpOf[c]
                THEN c \in Waits(f, ip) /\ Waits(f, ip)' = Waits(f, ip) \ {c}
                ELSE Waits(f, ip)' = Waits(f, ip)
<1>1. /\ pc[c] = "waited" /\ UNCHANGED fw
      /\ Goes(c, AfterWaits(todo[c] \ {Min(todo[c])}))
  BY LeavesFacts DEF WaiterCompletedAsync, WaiterCompleted
<1>2. /\ \A d \in Cmd : d # c => pc'[d] = pc[d] /\ todo'[d] = todo[d]
      /\ pc'[c] = AfterWaits(todo[c] \ {Min(todo[c])}).pc
      /\ todo'[c] = todo[c] \ {Min(todo[c])}
  BY <1>1 DEF Types, Goes, AfterWaits
<1>3. /\ pc'[c] \in {"waited", "done"}
      /\ (pc'[c] = "waited" <=> todo'[c] # {})
  BY <1>2 DEF AfterWaits
<1>4. \A d \in Cmd : d # c => SameAt(d)
  BY <1>1, <1>2, StayFact
<1>5. Min(todo[c]) \in todo[c] /\ Min(todo[c]) \in In[c]
  BY <1>1, FirstFact
<1>6. /\ InFirmware(c) /\ InFirmware(c)'
      /\ (HasRun(c)' <=> HasRun(c))
      /\ HasCounted(c, f) /\ HasCounted(c, f)'
      /\ HasWritten(c, f) /\ HasWritten(c, f)'
      /\ (StillWaits(c, f) <=> f \in todo[c])
      /\ (StillWaits(c, f)' <=> f \in todo[c] \ {Min(todo[c])})
  BY <1>1, <1>2, <1>3 DEF InFirmware, HasRun, HasCounted, HasWritten, StillWaits
<1>7. /\ (c \in Signalers(f) <=> f \in Out[c])
      /\ (c \in Ran(f) <=> (f \in Out[c] /\ HasRun(c)))
      /\ (c \in Counted(f) <=> f \in Out[c])
      /\ (c \in Written(f) <=> f \in Out[c])
      /\ \A ip \in Ips : (c \in Waits(f, ip) <=>
                           (f \in In[c] /\ IpOf[c] = ip /\ f \in todo[c]))
  BY <1>6 DEF Signalers, Counted, Written, Waits, Ran
<1>8. /\ Signalers(f)' = Signalers(f) /\ Ran(f)' = Ran(f)
      /\ Written(f)' = Written(f) /\ Counted(f)' = Counted(f)
  BY <1>4, <1>6, <1>7, OneFact, SMTT(30)
<1>9. ASSUME NEW ip \in Ips
      PROVE  IF f = Min(todo[c]) /\ ip = IpOf[c]
                THEN c \in Waits(f, ip) /\ Waits(f, ip)' = Waits(f, ip) \ {c}
                ELSE Waits(f, ip)' = Waits(f, ip)
  <2>1. Waits(f, ip)' = (Waits(f, ip) \ {c}) \cup
                 {d \in {c} : f \in In[c] /\ IpOf[c] = ip /\ StillWaits(c, f)'}
    BY <1>4, OneFact
  <2>2. CASE f = Min(todo[c]) /\ ip = IpOf[c]
    BY <1>5, <1>6, <1>7, <2>1, <2>2
  <2>3. CASE ~(f = Min(todo[c]) /\ ip = IpOf[c])
    BY <1>5, <1>6, <1>7, <2>1, <2>3
  <2> QED
    BY <2>2, <2>3
<1> QED
  BY <1>8, <1>9

-----------------------------------------------------------------------------
(***************************************************************************)
(* When a step keeps the parts of the invariant.                           *)
(***************************************************************************)
\* The commands that are under way are the same, or their fences are open.
OpenOrActive ==
  \A c \in Cmd : Active(c)' => Active(c) \/ \A f \in Uses(c) : fence[f].file

\* No fence comes back to life.
LEMMA EndKept ==
  ASSUME EndInv, OpenOrActive,
         \A f \in Fence : /\ fence'[f].destroyed => fence[f].destroyed
                          /\ fence'[f].file => fence[f].file
                          /\ fence[f].destroyed => fence'[f].signalers = fence[f].signalers
  PROVE  EndInv'
  BY DEF EndInv, OpenOrActive

\* The counts stay while neither they nor the sets change.
LEMMA CountKept ==
  ASSUME CountInv,
         \A f \in Fence : /\ SameCounts(fence'[f], fence[f])
                          /\ fence'[f].destroyed = fence[f].destroyed
                          /\ Signalers(f)' = Signalers(f) /\ Counted(f)' = Counted(f)
                          /\ \A ip \in Ips : Waits(f, ip)' = Waits(f, ip)
  PROVE  CountInv'
  BY DEF CountInv, SameCounts

\* A fence that retired earlier stays unused.
LEMMA RetireKept ==
  ASSUME RetireInv,
         \A f \in Fence : /\ SameCounts(fence'[f], fence[f])
                          /\ fence'[f].file => fence[f].file
                          /\ fence'[f].retired => fence[f].retired
                          /\ fence[f].destroyed => fence'[f].destroyed
  PROVE  RetireInv'
  BY DEF RetireInv, SameCounts, Outstanding

\* A step that neither writes the table nor moves a command past a table write.
LEMMA TableKept ==
  ASSUME TableInv, \A f \in Fence : table'[f].rem = table[f].rem,
         \A f \in Fence : /\ Written(f)' = Written(f) /\ Ran(f)' = Ran(f)
                          /\ fence[f].propagate => fence'[f].propagate
                          /\ SameTime(fence'[f], fence[f]),
         \A c \in Cmd : pc'[c] = "table" => /\ pc[c] = "table" /\ todo'[c] = todo[c]
                                            /\ sig'[c] = sig[c]
                                            /\ Min(todo[c]) \in Fence
  PROVE  TableInv'
<1>1. ASSUME NEW f \in Fence
      PROVE  /\ table'[f].rem + Cardinality(Written(f)') <= Total[f]
             /\ ~fence'[f].propagate => table'[f].rem + Cardinality(Ran(f)') <= Total[f]
             /\ fence'[f].timeline <= Total[f]
  BY DEF TableInv, SameTime
<1>2. ASSUME NEW c \in Cmd, pc'[c] = "table"
      PROVE  (sig[c] + Cardinality(Written(Min(todo[c]))) < Total[Min(todo[c])])'
  <2>1. /\ pc[c] = "table" /\ sig'[c] = sig[c] /\ todo'[c] = todo[c]
        /\ Written(Min(todo[c]))' = Written(Min(todo[c]))
    BY <1>2
  <2>2. sig[c] + Cardinality(Written(Min(todo[c]))) < Total[Min(todo[c])]
    BY <2>1 DEF TableInv
  <2> QED
    BY <2>1, <2>2
<1> QED
  BY <1>1, <1>2 DEF TableInv

\* A step that writes no signal.
LEMMA SeenKept ==
  ASSUME SeenInv,
         \A f \in Fence : /\ Written(f)' = Written(f)
                          /\ fence[f].signaled => fence'[f].signaled
                          /\ PollKept(fence[f]) => PollKept(fence'[f])
  PROVE  SeenInv'
  BY DEF SeenInv, PollKept

\* A step that begins no completion.
LEMMA RanKept ==
  ASSUME RanInv, \A c \in Cmd : HasRun(c) => HasRun(c)',
         \A f \in Fence : fence[f].propagate => fence'[f].propagate,
         \A c \in Cmd : \/ pc'[c] \in {"idle", "lock", "refused", "sent"}
                        \/ pc[c] \notin {"idle", "lock", "refused", "sent"}
  PROVE  RanInv'
<1>1. \A c \in Cmd : Out[c] \subseteq Fence
  BY IifAssumption
<1> QED
  BY <1>1 DEF RanInv

\* A step that takes no lock, or gives some back.
LEMMA LockKept ==
  ASSUME LockInv, \A c \in Cmd : locked'[c] \subseteq locked[c],
         \A c \in Cmd : pc'[c] = "table" => /\ pc[c] = "table" /\ todo'[c] = todo[c]
                                            /\ locked'[c] = locked[c]
  PROVE  LockInv'
  BY DEF LockInv

\* A step that changes no wakelock.
LEMMA PowerKept ==
  ASSUME WaiterPowered,
         \A f \in Fence : /\ fence'[f].waiting = fence[f].waiting
                          /\ fence'[f].wakelock = fence[f].wakelock
  PROVE  WaiterPowered'
  BY DEF WaiterPowered

\* A command whose place is the same, or is one of those without fences to do.
LEMMA PlaceKept ==
  ASSUME PlaceInv, \A c \in Cmd : HasRun(c)' => HasRun(c) \/ InFirmware(c),
         \A c \in Cmd :
           \/ pc'[c] = pc[c] /\ todo'[c] = todo[c]
           \/ /\ pc'[c] \in {"lock", "sent"} /\ In[c] \cap Out[c] = {}
              /\ InFirmware(c) => InFirmware(c)'
           \/ pc'[c] = "refused" /\ ~InFirmware(c)
           \/ {pc[c], pc'[c]} \subseteq {"signal", "table", "count"} /\ todo'[c] = todo[c]
  PROVE  PlaceInv'
  BY DEF PlaceInv, InFirmware, HasRun

\* A fence in use is not destroyed.
LEMMA InUse ==
  ASSUME EndInv, NEW c \in Cmd, Active(c), NEW f \in Uses(c), f \in Fence
  PROVE  ~fence[f].destroyed
  BY DEF EndInv

\* What follows when the counts and the sets of commands stay.
LEMMA SetsKeep ==
  ASSUME IInv, SameSets, OpenOrActive,
         \A f \in Fence : /\ SameCounts(fence'[f], fence[f])
                          /\ fence'[f].file = fence[f].file
                          /\ fence'[f].retired = fence[f].retired
                          /\ fence'[f].destroyed = fence[f].destroyed
                          /\ fence[f].signaled => fence'[f].signaled
                          /\ PollKept(fence[f]) => PollKept(fence'[f])
  PROVE  EndInv' /\ CountInv' /\ RetireInv' /\ SeenInv'
<1>1. EndInv'
  BY EndKept DEF IInv, SameCounts
<1>2. CountInv'
  BY CountKept DEF IInv, SameSets
<1>3. RetireInv'
  BY RetireKept DEF IInv
<1>4. SeenInv'
  BY SeenKept DEF IInv, SameSets
<1> QED
  BY <1>1, <1>2, <1>3, <1>4

\* The next lock a submission takes is that of a fence it uses.
LEMMA NextFact ==
  ASSUME Types, LockInv, NEW c \in Cmd, locked[c] # Uses(c)
  PROVE  NextLock(c) \in Uses(c) /\ Uses(c) \subseteq Fence
<1>1. /\ Uses(c) \subseteq Fence /\ In[c] \subseteq Fence /\ Out[c] \subseteq Fence
      /\ In[c] \subseteq Uses(c) /\ Out[c] \subseteq Uses(c)
  BY IifAssumption DEF Uses
<1>2. locked[c] \subseteq Uses(c)
  BY DEF LockInv
<1>3. CASE In[c] \subseteq locked[c]
  <2>1. Out[c] \ locked[c] # {} /\ Out[c] \ locked[c] \in SUBSET Fence
    BY <1>1, <1>2, <1>3 DEF Uses
  <2> QED
    BY <1>1, <1>3, <2>1, MinFact DEF NextLock
<1>4. CASE ~(In[c] \subseteq locked[c])
  <2>1. In[c] \ locked[c] # {} /\ In[c] \ locked[c] \in SUBSET Fence
    BY <1>1, <1>4
  <2> QED
    BY <1>1, <1>4, <2>1, MinFact DEF NextLock
<1> QED
  BY <1>3, <1>4

\* The steps of a submission before it counts, and of a firmware that sleeps.
LEMMA EarlyKeeps ==
  ASSUME IInv, NEW c \in Cmd,
         \/ SubmitBegins(c) \/ SubmitFails(c) \/ WriteLock(c) \/ SubmitRefused(c)
         \/ FwSleeps(c)
  PROVE  IInv'
<1>1. Types /\ PlaceInv
  BY DEF IInv
<1>2. /\ UNCHANGED <<fence, table, todo, sig, failed>>
      /\ \A d \in Cmd : d # c => pc'[d] = pc[d] /\ locked'[d] = locked[d]
      /\ \A d \in Cmd : HasRun(d)' <=> HasRun(d)
      /\ \/ pc[c] = "idle" /\ pc'[c] = "lock" /\ locked'[c] = locked[c]
              /\ In[c] \cap Out[c] = {} /\ \A f \in Uses(c) : fence[f].file
         \/ pc[c] = "idle" /\ pc'[c] = "refused" /\ locked'[c] = locked[c]
         \/ pc[c] = "lock" /\ pc'[c] = "lock" /\ LockFree(NextLock(c))
              /\ locked[c] # Uses(c) /\ locked'[c] = locked[c] \cup {NextLock(c)}
         \/ pc[c] = "lock" /\ pc'[c] = "refused" /\ locked'[c] = {}
         \/ pc'[c] = pc[c] /\ locked'[c] = locked[c]
  <2>1. CASE SubmitBegins(c)
    BY <1>1, <2>1 DEF SubmitBegins, completeVars, Types, HasRun
  <2>2. CASE SubmitFails(c)
    BY <1>1, <2>2 DEF SubmitFails, completeVars, Types, HasRun
  <2>3. CASE WriteLock(c)
    BY <1>1, <2>3 DEF WriteLock, completeVars, Types, HasRun
  <2>4. CASE SubmitRefused(c)
    BY <1>1, <2>4 DEF SubmitRefused, completeVars, Types, HasRun
  <2>5. CASE FwSleeps(c)
    BY <1>1, <2>5 DEF FwSleeps, completeVars, Types, HasRun
  <2> QED
    BY <2>1, <2>2, <2>3, <2>4, <2>5
<1>3. SameSets
  <2>1. \A d \in Cmd : Calm(d)
    BY <1>2 DEF Calm
  <2> QED
    BY <2>1, CalmFact
<1>4. Types'
  <2>1. \A f \in Fence : fence[f].waiters \in SUBSET Ips
    BY <1>1, RecFacts DEF Types
  <2>2. CASE SubmitBegins(c)
    BY <1>1, <1>2, <2>1, <2>2 DEF SubmitBegins, Types, Pcs
  <2>3. CASE SubmitFails(c)
    BY <1>1, <1>2, <2>3 DEF SubmitFails, submitVars, Types, Pcs
  <2>4. CASE WriteLock(c)
    <3>1. NextLock(c) \in Uses(c) /\ Uses(c) \subseteq Fence
      BY <2>4, NextFact DEF IInv, WriteLock
    <3> QED
      BY <1>1, <1>2, <2>4, <3>1 DEF WriteLock, submitVars, Types
  <2>5. CASE SubmitRefused(c)
    BY <1>1, <1>2, <2>5 DEF SubmitRefused, Types, Pcs
  <2>6. CASE FwSleeps(c)
    BY <1>1, <1>2, <2>6 DEF FwSleeps, submitVars, Types, FwStates
  <2> QED
    BY <2>2, <2>3, <2>4, <2>5, <2>6
<1>5. PlaceInv'
  <2>1. /\ \A d \in Cmd : HasRun(d)' => HasRun(d) \/ InFirmware(d)
        /\ \A d \in Cmd : d # c => pc'[d] = pc[d] /\ todo'[d] = todo[d]
    BY <1>2
  <2>2. \/ pc'[c] = pc[c] /\ todo'[c] = todo[c]
        \/ /\ pc'[c] = "lock" /\ In[c] \cap Out[c] = {} /\ ~InFirmware(c)
        \/ pc'[c] = "refused" /\ ~InFirmware(c)
    BY <1>2 DEF InFirmware
  <2> QED
    BY <1>1, <2>1, <2>2, PlaceKept
<1>6. LockInv'
  <2>1. CASE locked'[c] \subseteq locked[c]
    <3>1. \A d \in Cmd : locked'[d] \subseteq locked[d]
      BY <1>2, <2>1
    <3>2. \A d \in Cmd : pc'[d] = "table" => /\ pc[d] = "table" /\ todo'[d] = todo[d]
                                             /\ locked'[d] = locked[d]
      BY <1>2, <2>1
    <3> QED
      BY <3>1, <3>2, LockKept DEF IInv
  <2>2. CASE pc[c] = "lock" /\ pc'[c] = "lock" /\ LockFree(NextLock(c))
             /\ locked[c] # Uses(c) /\ locked'[c] = locked[c] \cup {NextLock(c)}
    <3>1. NextLock(c) \in Uses(c)
      BY <1>2, <2>2, NextFact DEF IInv
    <3> QED
      BY <1>2, <2>2, <3>1 DEF IInv, LockInv, LockFree
  <2> QED
    BY <1>2, <2>1, <2>2
<1>7. OpenOrActive
  BY <1>2 DEF OpenOrActive, Active
<1>8. EndInv' /\ CountInv' /\ RetireInv' /\ SeenInv'
  BY <1>2, <1>3, <1>7, SetsKeep DEF SameCounts
<1>9. TableInv'
  <2>1. \A d \in Cmd : pc'[d] = "table" => /\ pc[d] = "table" /\ todo'[d] = todo[d]
                                           /\ sig'[d] = sig[d] /\ Min(todo[d]) \in Fence
    BY <1>1, <1>2, FirstFact
  <2> QED
    BY <1>2, <1>3, <2>1, TableKept DEF IInv, SameSets, SameTime
<1>10. RanInv'
  BY <1>2, RanKept DEF IInv
<1>11. WaiterPowered'
  BY <1>2, PowerKept DEF IInv
<1> QED
  BY <1>4, <1>5, <1>6, <1>8, <1>9, <1>10, <1>11 DEF IInv

\* A submission: its fences are not retired, so none of them is destroyed.
LEMMA SubmitKeeps ==
  ASSUME IInv, NEW c \in Cmd, Submit(c)
  PROVE  IInv'
<1>1. Types /\ PlaceInv
  BY DEF IInv
<1>2. /\ pc[c] = "lock" /\ pc' = [pc EXCEPT ![c] = "sent"]
      /\ locked' = [locked EXCEPT ![c] = {}]
      /\ UNCHANGED <<table, todo, sig, failed, fw>> /\ Submittable(c)
      /\ held' = [held EXCEPT ![c] = [f \in Fence |-> {}]]
  BY DEF Submit, completeVars
<1>3. /\ pc'[c] = "sent" /\ \A d \in Cmd : d # c => pc'[d] = pc[d]
      /\ locked'[c] = {} /\ \A d \in Cmd : d # c => locked'[d] = locked[d]
      /\ \A d \in Cmd : HasRun(d)' <=> HasRun(d)
  BY <1>1, <1>2 DEF Types, HasRun
<1>4. In[c] \cap Out[c] = {} /\ In[c] \subseteq Fence /\ Out[c] \subseteq Fence
  BY <1>1, <1>2, IifAssumption DEF PlaceInv
<1>5. \A f \in Fence : /\ SameLife(fence'[f], fence[f]) /\ SamePoll(fence'[f], fence[f])
                       /\ SameTime(fence'[f], fence[f])
                       /\ fence'[f].signalers = fence[f].signalers
  BY <1>1, SubmitFacts
<1>6. Types'
  <2>1. Fence = {} \/ fence' \in [Fence -> FenceRec]
    BY <1>1, SubmitFacts
  <2>2. fence' \in [Fence -> FenceRec]
    BY <1>1, <2>1 DEF Submit, Types
  <2> QED
    BY <1>1, <1>2, <2>2 DEF Types, Pcs
<1>7. PlaceInv'
  <2>1. ~InFirmware(c)
    BY <1>2 DEF InFirmware
  <2> QED
    BY <1>1, <1>2, <1>3, <1>4, <2>1, PlaceKept
<1>8. LockInv'
  BY <1>2, <1>3, LockKept DEF IInv
<1>9. EndInv'
  <2>1. OpenOrActive
    BY <1>2, <1>3 DEF OpenOrActive, Active
  <2> QED
    BY <1>5, <2>1, EndKept DEF IInv, SameLife
<1>10. CountInv'
  <2> SUFFICES ASSUME NEW f \in Fence
      PROVE /\ fence'[f].submitted = Cardinality(Signalers(f)')
            /\ fence'[f].submitted <= Total[f]
            /\ ~fence'[f].destroyed => fence'[f].signalers = Cardinality(Counted(f)')
            /\ \A ip \in Ips : fence'[f].waiting[ip] = Cardinality(Waits(f, ip)')
    BY DEF CountInv
  <2>1. /\ fence[f].submitted = Cardinality(Signalers(f))
        /\ fence[f].submitted <= Total[f]
        /\ ~fence[f].destroyed => fence[f].signalers = Cardinality(Counted(f))
        /\ \A ip \in Ips : fence[f].waiting[ip] = Cardinality(Waits(f, ip))
    BY DEF IInv, CountInv
  <2>2. Counted(f)' = Counted(f)
    BY <1>1, SubmitSets
  <2>3. Signalers(f) \in SUBSET Cmd /\ \A ip \in Ips : Waits(f, ip) \in SUBSET Cmd
    BY SetsFact
  <2>4. fence[f] \in FenceRec
    BY <1>1 DEF Types
  <2>5. fence[f].submitted \in Nat /\ fence[f].waiting \in [Ips -> Int]
    BY <2>4, RecFacts
  <2>6. /\ fence'[f].submitted = Cardinality(Signalers(f)')
        /\ fence'[f].submitted <= Total[f]
    <3>1. CASE f \in Out[c]
      <4>1. fence'[f].submitted = fence[f].submitted + 1
        BY <1>1, <3>1, SubmitFacts
      <4>2. c \notin Signalers(f) /\ Signalers(f)' = Signalers(f) \cup {c}
        BY <1>1, <3>1, SubmitSets
      <4>3. fence[f].submitted < Total[f] /\ Total[f] \in Nat
        BY <1>2, <3>1, IifAssumption DEF Submittable
      <4> QED
        BY <2>1, <2>3, <2>5, <4>1, <4>2, <4>3, AddFact
    <3>2. CASE f \notin Out[c]
      <4>1. fence'[f].submitted = fence[f].submitted
        BY <1>1, <3>2, SubmitFacts DEF Uses
      <4>2. Signalers(f)' = Signalers(f)
        BY <1>1, <3>2, SubmitSets
      <4> QED
        BY <2>1, <4>1, <4>2
    <3> QED
      BY <3>1, <3>2
  <2>7. ASSUME NEW ip \in Ips
        PROVE  fence'[f].waiting[ip] = Cardinality(Waits(f, ip)')
    <3>1. CASE f \in In[c] /\ ip = IpOf[c]
      <4>1. fence'[f].waiting = [fence[f].waiting EXCEPT ![IpOf[c]] = @ + 1]
        BY <1>1, <3>1, SubmitFacts
      <4>2. c \notin Waits(f, ip) /\ Waits(f, ip)' = Waits(f, ip) \cup {c}
        BY <1>1, <3>1, SubmitSets
      <4> QED
        BY <2>1, <2>3, <2>5, <3>1, <4>1, <4>2, AddFact
    <3>2. CASE ~(f \in In[c] /\ ip = IpOf[c])
      <4>1. Waits(f, ip)' = Waits(f, ip)
        BY <1>1, <3>2, SubmitSets
      <4>2. fence'[f].waiting[ip] = fence[f].waiting[ip]
        <5>1. CASE f \in In[c]
          <6>1. fence'[f].waiting = [fence[f].waiting EXCEPT ![IpOf[c]] = @ + 1]
            BY <1>1, <5>1, SubmitFacts
          <6> QED
            BY <2>5, <3>2, <5>1, <6>1
        <5>2. CASE f \notin In[c]
          BY <1>1, <5>2, SubmitFacts DEF Uses
        <5> QED
          BY <5>1, <5>2
      <4> QED
        BY <2>1, <4>1, <4>2
    <3> QED
      BY <3>1, <3>2
  <2> QED
    BY <1>5, <2>1, <2>2, <2>6, <2>7 DEF SameLife
<1>11. RetireInv'
  <2>1. ASSUME NEW f \in Fence, fence'[f].retired
        PROVE  SameCounts(fence'[f], fence[f])
    <3>1. fence[f].retired
      BY <1>5, <2>1 DEF SameLife
    <3>2. f \notin In[c] /\ f \notin Out[c]
      BY <1>2, <3>1 DEF Submittable, Uses
    <3> QED
      BY <1>1, <3>2, SubmitFacts DEF SameCounts, Uses
  <2> QED
    BY <1>5, <2>1 DEF IInv, RetireInv, SameLife, SameCounts, Outstanding
<1>12. TableInv'
  <2>1. \A d \in Cmd : pc'[d] = "table" => /\ pc[d] = "table" /\ todo'[d] = todo[d]
                                           /\ sig'[d] = sig[d] /\ Min(todo[d]) \in Fence
    BY <1>1, <1>2, <1>3, FirstFact
  <2>2. \A f \in Fence : Written(f)' = Written(f) /\ Ran(f)' = Ran(f)
    BY <1>1, SubmitSets
  <2> QED
    BY <1>2, <1>5, <2>1, <2>2, TableKept DEF IInv, SameLife
<1>13. SeenInv'
  <2>1. \A f \in Fence : Written(f)' = Written(f)
    BY <1>1, SubmitSets
  <2> QED
    BY <1>5, <2>1, SeenKept DEF IInv, SamePoll, PollKept
<1>14. RanInv'
  BY <1>3, <1>5, RanKept DEF IInv, SameLife
<1>15. WaiterPowered'
  <2> SUFFICES ASSUME NEW f \in Fence, NEW ip \in Ips
               PROVE  fence'[f].waiting[ip] <= fence'[f].wakelock[ip]
    BY DEF WaiterPowered
  <2>1. fence[f] \in FenceRec
    BY <1>1 DEF Types
  <2>2. fence[f].wakelock \in [Ips -> Int] /\ fence[f].waiting \in [Ips -> Int]
    BY <2>1, RecFacts
  <2>3. fence[f].waiting[ip] <= fence[f].wakelock[ip]
    BY DEF IInv, WaiterPowered
  <2>4. CASE f \in Out[c]
    <3>1. /\ fence'[f].waiting = fence[f].waiting
          /\ fence'[f].wakelock = [i \in Ips |->
                fence[f].wakelock[i] + IF i \in held[c][f] THEN 1 ELSE 0]
      BY <1>1, <2>4, SubmitFacts
    <3> QED
      BY <2>2, <2>3, <3>1
  <2>5. CASE f \in In[c]
    <3>1. /\ fence'[f].waiting = [fence[f].waiting EXCEPT ![IpOf[c]] = @ + 1]
          /\ fence'[f].wakelock = [fence[f].wakelock EXCEPT ![IpOf[c]] = @ + 1]
      BY <1>1, <2>5, SubmitFacts
    <3> QED
      BY <2>2, <2>3, <3>1
  <2>6. CASE f \notin In[c] /\ f \notin Out[c]
    BY <1>1, <2>3, <2>6, SubmitFacts DEF Uses
  <2> QED
    BY <2>4, <2>5, <2>6
<1> QED
  BY <1>6, <1>7, <1>8, <1>9, <1>10, <1>11, <1>12, <1>13, <1>14, <1>15 DEF IInv

\* A firmware runs a command: it counts down, and no further than its signalers.
LEMMA RunsKeeps ==
  ASSUME IInv, NEW c \in Cmd, FwRuns(c)
  PROVE  IInv'
<1>1. Types /\ PlaceInv
  BY DEF IInv
<1>2. UNCHANGED <<fence, pc, locked, held, todo, sig, failed>>
  BY DEF FwRuns, submitVars, completeVars
<1>3. PICK fails \in BOOLEAN :
        table' = [f \in Fence |->
                   IF f \in Out[c]
                     THEN [rem |-> IF table[f].rem > 0 THEN table[f].rem - 1 ELSE 0,
                           err |-> table[f].err \/ fails]
                     ELSE table[f]]
  BY DEF FwRuns
<1>4. \A f \in Fence :
        /\ table[f].rem \in Nat /\ table[f].err \in BOOLEAN
        /\ table'[f] = IF f \in Out[c]
                         THEN [rem |-> IF table[f].rem > 0 THEN table[f].rem - 1 ELSE 0,
                               err |-> table[f].err \/ fails]
                         ELSE table[f]
  BY <1>1, <1>3 DEF Types
<1>5. \A f \in Fence :
        /\ table'[f].rem = IF f \in Out[c] THEN IF table[f].rem > 0 THEN table[f].rem - 1
                                                                    ELSE 0
                                           ELSE table[f].rem
        /\ table'[f] \in [rem : Nat, err : BOOLEAN]
  <2> TAKE f \in Fence
  <2>1. table[f] \in [rem : Nat, err : BOOLEAN]
    BY <1>1 DEF Types
  <2> DEFINE n == IF table[f].rem > 0 THEN table[f].rem - 1 ELSE 0
             b == table[f].err \/ fails
  <2>2. table[f].rem \in Nat
    BY <2>1
  <2>3. n \in Nat
    BY <2>2
  <2>4. b \in BOOLEAN
    OBVIOUS
  <2>5. table'[f] = IF f \in Out[c] THEN [rem |-> n, err |-> b] ELSE table[f]
    BY <1>4
  <2>6. table'[f].rem = IF f \in Out[c] THEN n ELSE table[f].rem
    <3> HIDE DEF n, b
    <3> QED
      BY <2>5
  <2>7. table'[f] \in [rem : Nat, err : BOOLEAN]
    <3> HIDE DEF n, b
    <3> QED
      BY <2>1, <2>3, <2>5, <2>4
  <2> QED
    BY <2>6, <2>7
<1>6. /\ \A d \in Cmd : HasRun(d) => HasRun(d)'
      /\ InFirmware(c)
      /\ \A d \in Cmd : HasRun(d)' => HasRun(d) \/ InFirmware(d)
  BY <1>1 DEF FwRuns, Sleeps, HasRun, Types
<1>7. Types'
  <2>1. fw' \in [Cmd -> FwStates]
    BY <1>1 DEF FwRuns, Sleeps, Types, FwStates
  <2>2. table' \in [Fence -> [rem : Nat, err : BOOLEAN]]
    BY <1>3, <1>5
  <2> QED
    BY <1>1, <1>2, <2>1, <2>2 DEF Types
<1>8. PlaceInv'
  BY <1>1, <1>2, <1>6, PlaceKept
<1>9. LockInv'
  BY <1>2, LockKept DEF IInv
<1>10. EndInv' /\ RetireInv'
  <2>1. OpenOrActive
    BY <1>2 DEF OpenOrActive, Active
  <2> QED
    BY <1>2, <2>1, EndKept, RetireKept DEF IInv, SameCounts
<1>11. \A f \in Fence : /\ Signalers(f)' = Signalers(f)
                        /\ Counted(f)' = Counted(f) /\ Written(f)' = Written(f)
                        /\ \A ip \in Ips : Waits(f, ip)' = Waits(f, ip)
  BY <1>1, RunsSets
<1>12. CountInv' /\ SeenInv'
  BY <1>2, <1>11, CountKept, SeenKept DEF IInv, SameCounts
<1>13. TableInv'
  <2>1. ASSUME NEW f \in Fence
        PROVE  /\ table'[f].rem + Cardinality(Written(f)') <= Total[f]
               /\ ~fence'[f].propagate => table'[f].rem + Cardinality(Ran(f)') <= Total[f]
               /\ fence'[f].timeline <= Total[f]
    <3>1. /\ table[f].rem + Cardinality(Written(f)) <= Total[f]
          /\ ~fence[f].propagate => table[f].rem + Cardinality(Ran(f)) <= Total[f]
          /\ fence[f].timeline <= Total[f]
      BY DEF IInv, TableInv
    <3>2. /\ Written(f) \in SUBSET Cmd /\ Ran(f) \in SUBSET Cmd
          /\ Cardinality(Written(f)) \in Nat /\ Cardinality(Ran(f)) \in Nat
          /\ Total[f] \in Nat
      BY SetsFact, CardFact, IifAssumption
    <3>3. CASE f \in Out[c]
      <4>1. c \notin Ran(f) /\ Ran(f)' = Ran(f) \cup {c} /\ c \in Signalers(f)
        BY <1>1, <3>3, RunsSets
      <4>2. Cardinality(Ran(f)') = Cardinality(Ran(f)) + 1
        BY <3>2, <4>1, AddFact
      <4>3. Cardinality(Ran(f)') <= Total[f]
        <5>1. Signalers(f) \in SUBSET Cmd /\ Ran(f)' \in SUBSET Signalers(f)
          BY <1>1, <4>1, WrittenFact, SetsFact
        <5>2. Cardinality(Ran(f)') <= Cardinality(Signalers(f))
          BY <5>1, PartFact
        <5>3. Cardinality(Signalers(f)) <= Total[f] /\ Cardinality(Signalers(f)) \in Nat
          BY <5>1, CardFact DEF IInv, CountInv
        <5> QED
          BY <3>2, <4>2, <5>2, <5>3
      <4>4. table[f].rem \in Nat
        BY <1>4
      <4>5. table'[f].rem = IF table[f].rem > 0 THEN table[f].rem - 1 ELSE 0
        BY <1>5, <3>3
      <4> QED
        BY <1>2, <1>11, <3>1, <3>2, <4>2, <4>3, <4>4, <4>5
    <3>4. CASE f \notin Out[c]
      <4>1. Ran(f)' = Ran(f)
        BY <1>1, <3>4, RunsSets
      <4> QED
        BY <1>2, <1>5, <1>11, <3>1, <3>4, <4>1
    <3> QED
      BY <3>3, <3>4
  <2>2. ASSUME NEW d \in Cmd, pc'[d] = "table"
        PROVE  (sig[d] + Cardinality(Written(Min(todo[d]))) < Total[Min(todo[d])])'
    <3>1. pc[d] = "table" /\ sig'[d] = sig[d] /\ todo'[d] = todo[d]
      BY <1>2, <2>2
    <3>2. Min(todo[d]) \in Fence
      BY <1>1, <3>1, FirstFact
    <3>3. Written(Min(todo[d]))' = Written(Min(todo[d]))
      BY <1>11, <3>1, <3>2
    <3>4. sig[d] + Cardinality(Written(Min(todo[d]))) < Total[Min(todo[d])]
      BY <3>1 DEF IInv, TableInv
    <3> QED
      BY <3>1, <3>3, <3>4
  <2> QED
    BY <2>1, <2>2 DEF TableInv
<1>14. RanInv'
  BY <1>2, <1>6, RanKept DEF IInv
<1>15. WaiterPowered'
  BY <1>2, PowerKept DEF IInv
<1> QED
  BY <1>7, <1>8, <1>9, <1>10, <1>12, <1>13, <1>14, <1>15 DEF IInv

\* A command is answered, times out or is flushed: it has run, or its
\* out-fences are propagated.
LEMMA CompletesKeeps ==
  ASSUME IInv, NEW c \in Cmd, NEW e \in BOOLEAN, Completes(c, e), e \/ HasRun(c)
  PROVE  IInv'
<1>1. Types /\ PlaceInv
  BY DEF IInv
<1>2. /\ pc[c] = "sent" /\ Goes(c, AfterSignals(c, Out[c]))
      /\ failed' = [failed EXCEPT ![c] = e]
      /\ UNCHANGED <<table, locked, held, sig, fw>>
  BY DEF Completes, submitVars
<1>3. /\ pc' = [pc EXCEPT ![c] = AfterSignals(c, Out[c]).pc]
      /\ todo' = [todo EXCEPT ![c] = AfterSignals(c, Out[c]).todo]
  BY <1>2 DEF Goes
<1>4. /\ \/ Out[c] # {} /\ pc'[c] = "signal" /\ todo'[c] = Out[c]
         \/ In[c] # {} /\ pc'[c] = "waited" /\ todo'[c] = In[c]
         \/ pc'[c] = "done" /\ todo'[c] = {}
      /\ \A d \in Cmd : d # c => pc'[d] = pc[d] /\ todo'[d] = todo[d]
      /\ \A d \in Cmd : HasRun(d)' <=> HasRun(d)
      /\ In[c] \in SUBSET Fence /\ Out[c] \in SUBSET Fence
  BY <1>1, <1>2, <1>3, IifAssumption DEF Types, AfterSignals, HasRun
<1>5. SameSets
  BY <1>1, CompletesSets
<1>6. \A f \in Fence :
        /\ SameCounts(fence'[f], fence[f]) /\ SamePoll(fence'[f], fence[f])
        /\ SameTime(fence'[f], fence[f])
        /\ fence'[f].wakelock = fence[f].wakelock
        /\ fence'[f].file = fence[f].file /\ fence'[f].retired = fence[f].retired
        /\ fence'[f].destroyed = fence[f].destroyed
        /\ fence[f].propagate => fence'[f].propagate
        /\ e /\ f \in Out[c] => fence'[f].propagate
  BY <1>1, CompletesFacts
<1>7. Types'
  <2>1. fence' \in [Fence -> FenceRec]
    <3>1. CASE Fence = {}
      BY <3>1 DEF Completes
    <3>2. CASE Fence # {}
      BY <1>1, <3>2, CompletesFacts
    <3> QED
      BY <3>1, <3>2
  <2>2. pc' \in [Cmd -> Pcs] /\ todo' \in [Cmd -> SUBSET Fence]
    BY <1>1, <1>3, <1>4 DEF Types, Pcs
  <2> QED
    BY <1>1, <1>2, <2>1, <2>2 DEF Types
<1>8. PlaceInv'
  <2>1. ASSUME NEW d \in Cmd, d # c
        PROVE  /\ pc'[d] \notin {"idle", "refused"} => In[d] \cap Out[d] = {}
               /\ pc'[d] \in {"signal", "table", "count", "inline"} =>
                    todo'[d] # {} /\ todo'[d] \subseteq Out[d]
               /\ pc'[d] = "waited" => todo'[d] # {} /\ todo'[d] \subseteq In[d]
               /\ HasRun(d)' => InFirmware(d)'
    BY <1>1, <1>4, <2>1 DEF PlaceInv, InFirmware
  <2>2. /\ In[c] \cap Out[c] = {}
        /\ pc'[c] \in {"signal", "table", "count", "inline"} =>
             todo'[c] # {} /\ todo'[c] \subseteq Out[c]
        /\ pc'[c] = "waited" => todo'[c] # {} /\ todo'[c] \subseteq In[c]
        /\ InFirmware(c)'
    BY <1>1, <1>2, <1>4 DEF PlaceInv, InFirmware
  <2> QED
    BY <2>1, <2>2 DEF PlaceInv
<1>9. LockInv'
  BY <1>2, <1>4, LockKept DEF IInv
<1>10. OpenOrActive
  BY <1>2, <1>4 DEF OpenOrActive, Active
<1>11. EndInv' /\ CountInv' /\ RetireInv' /\ SeenInv'
  BY <1>5, <1>6, <1>10, SetsKeep DEF SamePoll, PollKept
<1>12. TableInv'
  <2>1. \A d \in Cmd : pc'[d] = "table" => /\ pc[d] = "table" /\ todo'[d] = todo[d]
                                           /\ sig'[d] = sig[d] /\ Min(todo[d]) \in Fence
    BY <1>1, <1>2, <1>4, FirstFact
  <2> QED
    BY <1>2, <1>5, <1>6, <2>1, TableKept DEF IInv, SameSets
<1>13. RanInv'
  <2>1. ASSUME NEW d \in Cmd, NEW f \in Out[d], f \in Fence
        PROVE  \/ pc'[d] \in {"idle", "lock", "refused", "sent"}
               \/ fence'[f].propagate \/ HasRun(d)'
    BY <1>4, <1>6, <2>1 DEF IInv, RanInv
  <2>2. \A d \in Cmd : Out[d] \subseteq Fence
    BY IifAssumption
  <2> QED
    BY <2>1, <2>2 DEF RanInv
<1>14. WaiterPowered'
  BY <1>6, PowerKept DEF IInv, SameCounts
<1> QED
  BY <1>7, <1>8, <1>9, <1>11, <1>12, <1>13, <1>14 DEF IInv

\* All signalers of a fence that is not propagated have run.
LEMMA RanFact ==
  ASSUME Types, PlaceInv, RanInv, NEW f \in Fence, ~fence[f].propagate
  PROVE  /\ Written(f) \subseteq Ran(f)
         /\ \A c \in Cmd : f \in Out[c] /\ pc[c] \in {"signal", "table", "count"} =>
              c \in Ran(f)
<1>1. ASSUME NEW c \in Cmd, f \in Out[c],
             pc[c] \notin {"idle", "lock", "refused", "sent"}
      PROVE  c \in Ran(f)
  BY <1>1 DEF RanInv, Ran
<1>2. \A c \in Written(f) : c \in Cmd /\ f \in Out[c]
                            /\ pc[c] \notin {"idle", "lock", "refused", "sent"}
  BY DEF Written, HasWritten, HasCounted
<1> QED
  BY <1>1, <1>2

\* The signal that a command is about to write is not among those written, and
\* there is room for it.
LEMMA RoomFact ==
  ASSUME IInv, NEW c \in Cmd, pc[c] \in {"signal", "table"}
  PROVE  LET f == Min(todo[c])
             n == Cardinality(Written(f)) IN
         /\ n \in Nat /\ Total[f] \in Nat /\ table[f].rem \in Nat
         /\ n < Total[f] /\ table[f].rem + n <= Total[f]
         /\ ~fence[f].propagate => table[f].rem + n < Total[f]
<1> DEFINE f == Min(todo[c])
<1>1. Types /\ PlaceInv /\ RanInv
  BY DEF IInv
<1>2. f \in todo[c] /\ f \in Fence /\ f \in Out[c]
  BY <1>1, FirstFact
<1>3. c \notin Written(f) /\ c \in Signalers(f)
  BY <1>2 DEF Written, HasWritten, HasCounted, Signalers, InFirmware
<1> HIDE DEF f
<1>4. /\ Written(f) \in SUBSET Cmd /\ Signalers(f) \in SUBSET Cmd /\ Ran(f) \in SUBSET Cmd
      /\ Cardinality(Written(f)) \in Nat /\ Cardinality(Signalers(f)) \in Nat
      /\ Cardinality(Ran(f)) \in Nat
  BY SetsFact, CardFact
<1>5. Total[f] \in Nat /\ table[f].rem \in Nat
  BY <1>1, <1>2, IifAssumption DEF Types
<1>6. Cardinality(Written(f)) < Cardinality(Signalers(f))
  <2>1. Written(f) \in SUBSET Signalers(f)
    BY <1>1, <1>2, WrittenFact
  <2> QED
    BY <1>3, <1>4, <2>1, PartFact
<1>7. Cardinality(Signalers(f)) <= Total[f]
  BY <1>2 DEF IInv, CountInv
<1>8. /\ table[f].rem + Cardinality(Written(f)) <= Total[f]
      /\ ~fence[f].propagate => table[f].rem + Cardinality(Ran(f)) <= Total[f]
  BY <1>2 DEF IInv, TableInv
<1>9. ASSUME ~fence[f].propagate PROVE Cardinality(Written(f)) < Cardinality(Ran(f))
  <2>1. Written(f) \in SUBSET Ran(f) /\ c \in Ran(f)
    BY <1>1, <1>2, <1>9, RanFact
  <2> QED
    BY <1>3, <1>4, <2>1, PartFact
<1>10. /\ Cardinality(Written(f)) < Total[f]
       /\ ~fence[f].propagate => table[f].rem + Cardinality(Written(f)) < Total[f]
  BY <1>4, <1>5, <1>6, <1>7, <1>8, <1>9
<1> QED
  BY <1>4, <1>5, <1>8, <1>10 DEF f

\* The first half of a signal: what it will write leaves room for its signal.
LEMMA BeginsKeeps ==
  ASSUME IInv, NEW c \in Cmd, SignalBegins(c)
  PROVE  IInv'
<1> DEFINE f == Min(todo[c])
           rem == table[f].rem
           error == IF rem = 0 THEN table[f].err ELSE failed[c]
           b == table[f].err \/ (error /\ fence[f].propagate)
<1>1. Types /\ PlaceInv
  BY DEF IInv
<1>2. /\ pc[c] = "signal" /\ LockFree(f)
      /\ sig' = [sig EXCEPT ![c] = IF fence[f].propagate /\ rem > 0 THEN rem - 1 ELSE rem]
      /\ table' = [table EXCEPT ![f].err = b]
      /\ pc' = [pc EXCEPT ![c] = "table"]
      /\ locked' = [locked EXCEPT ![c] = {f}]
      /\ UNCHANGED <<held, todo, failed, fw>>
  BY DEF SignalBegins, submitVars
<1>3. f \in todo[c] /\ f \in Fence /\ f \in Out[c]
  BY <1>1, <1>2, FirstFact
<1>4. b \in BOOLEAN /\ rem \in Nat
  BY <1>1, <1>3 DEF Types
<1> HIDE DEF b
<1>5. /\ pc'[c] = "table" /\ locked'[c] = {f}
      /\ sig'[c] = IF fence[f].propagate /\ rem > 0 THEN rem - 1 ELSE rem
      /\ \A d \in Cmd : d # c => /\ pc'[d] = pc[d] /\ locked'[d] = locked[d]
                                 /\ sig'[d] = sig[d]
      /\ \A d \in Cmd : HasRun(d)' <=> HasRun(d)
  BY <1>1, <1>2 DEF Types, HasRun
<1>6. /\ table' \in [Fence -> [rem : Nat, err : BOOLEAN]]
      /\ \A g \in Fence : table'[g].rem = table[g].rem
  <2>1. table[f] \in [rem : Nat, err : BOOLEAN]
    BY <1>1, <1>3 DEF Types
  <2>2. /\ [table[f] EXCEPT !.err = b] \in [rem : Nat, err : BOOLEAN]
        /\ [table[f] EXCEPT !.err = b].rem = table[f].rem
    BY <1>4, <2>1
  <2>3. table' = [table EXCEPT ![f] = [table[f] EXCEPT !.err = b]]
    BY <1>1, <1>2, <1>3 DEF Types
  <2> QED
    BY <1>1, <1>3, <2>2, <2>3 DEF Types
<1>7. /\ fence' \in [Fence -> FenceRec]
      /\ \A g \in Fence : /\ Alike(fence'[g], fence[g])
                          /\ fence'[g].wakelock = fence[g].wakelock
  BY <1>1, <1>3, BeginsFacts
<1>8. SameSets
  <2>1. \A d \in Cmd : Calm(d)
    BY <1>2, <1>5 DEF Calm
  <2> QED
    BY <2>1, CalmFact
<1>9. Types'
  <2>1. /\ pc' \in [Cmd -> Pcs] /\ locked' \in [Cmd -> SUBSET Fence]
        /\ sig' \in [Cmd -> Nat]
    BY <1>1, <1>2, <1>3, <1>4 DEF Types, Pcs
  <2> QED
    BY <1>1, <1>2, <1>6, <1>7, <2>1 DEF Types
<1>10. PlaceInv'
  <2>1. \A d \in Cmd :
          \/ pc'[d] = pc[d] /\ todo'[d] = todo[d]
          \/ {pc[d], pc'[d]} \subseteq {"signal", "table", "count"} /\ todo'[d] = todo[d]
    BY <1>2, <1>5
  <2> QED
    BY <1>1, <1>5, <2>1, PlaceKept
<1>11. LockInv'
  <2>1. f \in Uses(c)
    BY <1>3 DEF Uses
  <2>2. /\ \A d \in Cmd : d # c => f \notin locked'[d]
        /\ locked'[c] = {f} /\ todo'[c] = todo[c]
    BY <1>2, <1>5 DEF LockFree
  <2> QED
    BY <1>2, <1>5, <2>1, <2>2 DEF IInv, LockInv
<1>12. OpenOrActive
  BY <1>2, <1>5 DEF OpenOrActive, Active
<1>13. EndInv' /\ CountInv' /\ RetireInv' /\ SeenInv'
  BY <1>7, <1>8, <1>12, SetsKeep DEF Alike, SameLife, SamePoll, PollKept
<1>14. TableInv'
  <2>1. ASSUME NEW g \in Fence
        PROVE  /\ table'[g].rem + Cardinality(Written(g)') <= Total[g]
               /\ ~fence'[g].propagate => table'[g].rem + Cardinality(Ran(g)') <= Total[g]
               /\ fence'[g].timeline <= Total[g]
    BY <1>6, <1>7, <1>8 DEF IInv, TableInv, Alike, SameLife, SameTime, SameSets
  <2>2. ASSUME NEW d \in Cmd, d # c, pc'[d] = "table"
        PROVE  (sig[d] + Cardinality(Written(Min(todo[d]))) < Total[Min(todo[d])])'
    <3>1. pc[d] = "table" /\ sig'[d] = sig[d] /\ todo'[d] = todo[d]
      BY <1>2, <1>5, <2>2
    <3>2. Min(todo[d]) \in Fence
      BY <1>1, <3>1, FirstFact
    <3>3. Written(Min(todo[d]))' = Written(Min(todo[d]))
      BY <1>8, <3>1, <3>2 DEF SameSets
    <3>4. sig[d] + Cardinality(Written(Min(todo[d]))) < Total[Min(todo[d])]
      BY <3>1 DEF IInv, TableInv
    <3> QED
      BY <3>1, <3>3, <3>4
  <2>3. (sig[c] + Cardinality(Written(Min(todo[c]))) < Total[Min(todo[c])])'
    <3>1. /\ Cardinality(Written(f)) \in Nat /\ Total[f] \in Nat
          /\ Cardinality(Written(f)) < Total[f]
          /\ rem + Cardinality(Written(f)) <= Total[f]
          /\ ~fence[f].propagate => rem + Cardinality(Written(f)) < Total[f]
      BY <1>2, RoomFact
    <3>2. sig'[c] + Cardinality(Written(f)) < Total[f]
      BY <1>4, <1>5, <3>1
    <3>3. todo'[c] = todo[c] /\ Written(Min(todo[c]))' = Written(Min(todo[c]))
      BY <1>2, <1>3, <1>8 DEF SameSets
    <3> QED
      BY <3>2, <3>3
  <2> QED
    BY <2>1, <2>2, <2>3 DEF TableInv
<1>15. RanInv'
  BY <1>2, <1>5, <1>7, RanKept DEF IInv, Alike, SameLife
<1>16. WaiterPowered'
  BY <1>7, PowerKept DEF IInv, Alike, SameCounts
<1> QED
  BY <1>9, <1>10, <1>11, <1>13, <1>14, <1>15, <1>16 DEF IInv

\* The second half: the table is written, and the fence is signaled by its last
\* signal at the latest.
LEMMA WritesKeeps ==
  ASSUME IInv, NEW c \in Cmd, SignalWrites(c)
  PROVE  IInv'
<1> DEFINE f == Min(todo[c])
           rem == IF fence[f].propagate THEN sig[c] ELSE table[f].rem
<1>1. Types /\ PlaceInv
  BY DEF IInv
<1>2. /\ pc[c] = "table" /\ pc' = [pc EXCEPT ![c] = "count"]
      /\ locked' = [locked EXCEPT ![c] = {}]
      /\ UNCHANGED <<held, todo, sig, failed, fw>>
  BY DEF SignalWrites, submitVars, completeVars
<1>3. f \in todo[c] /\ f \in Fence /\ f \in Out[c]
  BY <1>1, <1>2, FirstFact
<1>4. /\ pc'[c] = "count" /\ locked'[c] = {}
      /\ \A d \in Cmd : d # c => pc'[d] = pc[d] /\ locked'[d] = locked[d]
      /\ \A d \in Cmd : HasRun(d)' <=> HasRun(d)
  BY <1>1, <1>2 DEF Types, HasRun
<1>5. /\ fence' \in [Fence -> FenceRec]
      /\ \A g \in Fence :
           /\ SameCounts(fence'[g], fence[g]) /\ SameLife(fence'[g], fence[g])
           /\ fence'[g].wakelock = fence[g].wakelock
           /\ fence[g].timeline <= Total[g] => fence'[g].timeline <= Total[g]
           /\ fence[g].signaled => fence'[g].signaled
           /\ PollKept(fence[g]) => PollKept(fence'[g])
           /\ g = f /\ rem = 0 => fence'[g].signaled
  BY <1>1, <1>3, WritesFacts
<1>6. table' = [table EXCEPT ![f].rem = rem] /\ rem \in Nat
  BY <1>1, <1>3, WritesFacts
<1>7. \A g \in Fence : /\ Signalers(g)' = Signalers(g) /\ Ran(g)' = Ran(g)
                       /\ Counted(g)' = Counted(g)
                       /\ \A ip \in Ips : Waits(g, ip)' = Waits(g, ip)
                       /\ g # f => Written(g)' = Written(g)
  BY <1>1, WritesSets
<1>8. c \notin Written(f) /\ Written(f)' = Written(f) \cup {c}
  BY <1>1, <1>2, <1>3, WritesSets
<1> HIDE DEF rem
<1>9. /\ table' \in [Fence -> [rem : Nat, err : BOOLEAN]]
      /\ table'[f].rem = rem /\ \A g \in Fence : g # f => table'[g] = table[g]
  BY <1>1, <1>3, <1>6 DEF Types
<1>10. Types'
  BY <1>1, <1>2, <1>5, <1>9 DEF Types, Pcs
<1>11. PlaceInv'
  <2>1. \A d \in Cmd :
          \/ pc'[d] = pc[d] /\ todo'[d] = todo[d]
          \/ {pc[d], pc'[d]} \subseteq {"signal", "table", "count"} /\ todo'[d] = todo[d]
    BY <1>2, <1>4
  <2> QED
    BY <1>1, <1>4, <2>1, PlaceKept
<1>12. LockInv'
  BY <1>2, <1>4, LockKept DEF IInv
<1>13. EndInv' /\ CountInv' /\ RetireInv'
  <2>1. OpenOrActive
    BY <1>2, <1>4 DEF OpenOrActive, Active
  <2>2. EndInv'
    BY <1>5, <2>1, EndKept DEF IInv, SameLife, SameCounts
  <2>3. CountInv'
    BY <1>5, <1>7, CountKept DEF IInv, SameLife
  <2>4. RetireInv'
    BY <1>5, RetireKept DEF IInv, SameLife
  <2> QED
    BY <2>2, <2>3, <2>4
<1>14. /\ rem + Cardinality(Written(f)') <= Total[f]
       /\ Cardinality(Written(f)') \in Nat
       /\ ~fence[f].propagate => rem = table[f].rem
  <2>1. Cardinality(Written(f)') = Cardinality(Written(f)) + 1
    BY <1>8, SetsFact, AddFact
  <2>2. /\ Cardinality(Written(f)) \in Nat /\ Total[f] \in Nat
        /\ ~fence[f].propagate => table[f].rem + Cardinality(Written(f)) < Total[f]
    BY <1>2, RoomFact
  <2>3. sig[c] + Cardinality(Written(f)) < Total[f]
    BY <1>2 DEF IInv, TableInv
  <2>4. rem + Cardinality(Written(f)) < Total[f]
    BY <2>2, <2>3 DEF rem
  <2> QED
    BY <1>6, <2>1, <2>2, <2>4 DEF rem
<1>15. TableInv'
  <2>1. ASSUME NEW g \in Fence
        PROVE  /\ table'[g].rem + Cardinality(Written(g)') <= Total[g]
               /\ ~fence'[g].propagate => table'[g].rem + Cardinality(Ran(g)') <= Total[g]
               /\ fence'[g].timeline <= Total[g]
    <3>1. /\ table[g].rem + Cardinality(Written(g)) <= Total[g]
          /\ ~fence[g].propagate => table[g].rem + Cardinality(Ran(g)) <= Total[g]
          /\ fence[g].timeline <= Total[g]
      BY DEF IInv, TableInv
    <3>2. fence'[g].propagate = fence[g].propagate /\ fence'[g].timeline <= Total[g]
      BY <1>5, <3>1 DEF SameLife
    <3>3. CASE g = f
      BY <1>2, <1>7, <1>9, <1>14, <3>1, <3>2, <3>3
    <3>4. CASE g # f
      BY <1>7, <1>9, <3>1, <3>2, <3>4
    <3> QED
      BY <3>3, <3>4
  <2>2. ASSUME NEW d \in Cmd, pc'[d] = "table"
        PROVE  (sig[d] + Cardinality(Written(Min(todo[d]))) < Total[Min(todo[d])])'
    <3>1. d # c /\ pc[d] = "table" /\ sig'[d] = sig[d] /\ todo'[d] = todo[d]
      BY <1>2, <1>4, <2>2
    <3>2. Min(todo[d]) \in Fence /\ Min(todo[d]) # f
      <4>1. /\ locked[d] = {Min(todo[d])} /\ locked[c] = {f}
            /\ locked[c] \cap locked[d] = {}
        BY <1>2, <3>1 DEF IInv, LockInv
      <4> QED
        BY <1>1, <3>1, <4>1, FirstFact
    <3>3. Written(Min(todo[d]))' = Written(Min(todo[d]))
      BY <1>7, <3>1, <3>2
    <3>4. sig[d] + Cardinality(Written(Min(todo[d]))) < Total[Min(todo[d])]
      BY <3>1 DEF IInv, TableInv
    <3> QED
      BY <3>1, <3>3, <3>4
  <2> QED
    BY <2>1, <2>2 DEF TableInv
<1>16. SeenInv'
  <2> SUFFICES ASSUME NEW g \in Fence
               PROVE  /\ Cardinality(Written(g)') = Total[g] => fence'[g].signaled
                      /\ PollKept(fence'[g])
    BY DEF SeenInv, PollKept
  <2>1. /\ Cardinality(Written(g)) = Total[g] => fence[g].signaled
        /\ PollKept(fence[g])
    BY DEF IInv, SeenInv, PollKept
  <2>2. CASE g = f
    <3>1. Cardinality(Written(f)') = Total[f] => rem = 0
      BY <1>6, <1>14
    <3> QED
      BY <1>2, <1>5, <2>1, <2>2, <3>1
  <2>3. CASE g # f
    BY <1>5, <1>7, <2>1, <2>3
  <2> QED
    BY <2>2, <2>3
<1>17. RanInv'
  BY <1>2, <1>4, <1>5, RanKept DEF IInv, SameLife
<1>18. WaiterPowered'
  BY <1>5, PowerKept DEF IInv, SameCounts
<1> QED
  BY <1>10, <1>11, <1>12, <1>13, <1>15, <1>16, <1>17, <1>18 DEF IInv

\* A submitted command whose signal is not counted is outstanding.
LEMMA OwesFact ==
  ASSUME IInv, NEW c \in Cmd, NEW f \in Fence, f \in Out[c], InFirmware(c),
         ~HasCounted(c, f), ~fence[f].destroyed
  PROVE  Outstanding(fence[f]) # 0 /\ fence[f].signalers # Total[f]
<1>1. c \in Signalers(f) /\ c \notin Counted(f)
  BY DEF Signalers, Counted
<1>2. Counted(f) \in SUBSET Signalers(f) /\ Signalers(f) \in SUBSET Cmd
  BY WrittenFact, SetsFact DEF IInv
<1>3. Cardinality(Counted(f)) < Cardinality(Signalers(f))
  BY <1>1, <1>2, PartFact
<1>4. /\ Cardinality(Counted(f)) \in Nat /\ Cardinality(Signalers(f)) \in Nat
      /\ Total[f] \in Nat
  BY SetsFact, CardFact, IifAssumption
<1> QED
  BY <1>3, <1>4 DEF Outstanding, IInv, CountInv

\* Where a command is after it has dealt with the fence f.
LEMMA GoesPlace ==
  ASSUME IInv, NEW c \in Cmd,
         \/ /\ pc[c] \in {"count", "inline"}
            /\ Goes(c, AfterSignals(c, todo[c] \ {Min(todo[c])}))
         \/ pc[c] = "count" /\ Goes(c, [pc |-> "inline", todo |-> todo[c]])
         \/ pc[c] = "waited" /\ Goes(c, AfterWaits(todo[c] \ {Min(todo[c])})),
         UNCHANGED <<locked, fw, sig>>
  PROVE  /\ pc' \in [Cmd -> Pcs] /\ todo' \in [Cmd -> SUBSET Fence]
         /\ PlaceInv' /\ LockInv' /\ OpenOrActive
         /\ \A d \in Cmd : HasRun(d)' <=> HasRun(d)
         /\ \A d \in Cmd : \/ pc'[d] \in {"idle", "lock", "refused", "sent"}
                           \/ pc[d] \notin {"idle", "lock", "refused", "sent"}
         /\ \A d \in Cmd :
              pc'[d] = "table" => /\ pc[d] = "table" /\ todo'[d] = todo[d]
                                  /\ sig'[d] = sig[d] /\ Min(todo[d]) \in Fence
<1>1. Types /\ PlaceInv
  BY DEF IInv
<1>2. In[c] \in SUBSET Fence /\ Out[c] \in SUBSET Fence /\ todo[c] \in SUBSET Fence
  BY <1>1, IifAssumption DEF Types
<1>3. /\ In[c] \cap Out[c] = {} /\ todo[c] # {}
      /\ pc[c] \in {"count", "inline"} => todo[c] \subseteq Out[c]
      /\ pc[c] = "waited" => todo[c] \subseteq In[c]
  BY <1>1 DEF PlaceInv
<1>4. PICK p \in Pcs, S \in SUBSET Fence :
        /\ pc' = [pc EXCEPT ![c] = p] /\ todo' = [todo EXCEPT ![c] = S]
        /\ \/ p \in {"signal", "inline"} /\ S # {} /\ S \subseteq Out[c]
           \/ p = "waited" /\ S # {} /\ S \subseteq In[c]
           \/ p = "done"
  <2>1. CASE Goes(c, AfterSignals(c, todo[c] \ {Min(todo[c])})) /\ pc[c] # "waited"
    <3>1. CASE todo[c] \ {Min(todo[c])} # {}
      <4>1. /\ pc' = [pc EXCEPT ![c] = "signal"]
            /\ todo' = [todo EXCEPT ![c] = todo[c] \ {Min(todo[c])}]
        BY <2>1, <3>1 DEF Goes, AfterSignals
      <4> QED
        BY <1>2, <1>3, <2>1, <3>1, <4>1 DEF Pcs
    <3>2. CASE todo[c] \ {Min(todo[c])} = {} /\ In[c] # {}
      <4>1. pc' = [pc EXCEPT ![c] = "waited"] /\ todo' = [todo EXCEPT ![c] = In[c]]
        BY <2>1, <3>2 DEF Goes, AfterSignals
      <4> QED
        BY <1>2, <3>2, <4>1 DEF Pcs
    <3>3. CASE todo[c] \ {Min(todo[c])} = {} /\ In[c] = {}
      <4>1. pc' = [pc EXCEPT ![c] = "done"] /\ todo' = [todo EXCEPT ![c] = {}]
        BY <2>1, <3>3 DEF Goes, AfterSignals
      <4> QED
        BY <4>1 DEF Pcs
    <3> QED
      BY <3>1, <3>2, <3>3
  <2>2. CASE Goes(c, [pc |-> "inline", todo |-> todo[c]]) /\ pc[c] = "count"
    <3>1. pc' = [pc EXCEPT ![c] = "inline"] /\ todo' = [todo EXCEPT ![c] = todo[c]]
      BY <2>2 DEF Goes
    <3> QED
      BY <1>2, <1>3, <2>2, <3>1 DEF Pcs
  <2>3. CASE Goes(c, AfterWaits(todo[c] \ {Min(todo[c])})) /\ pc[c] = "waited"
    <3>1. /\ pc' = [pc EXCEPT ![c] = IF todo[c] \ {Min(todo[c])} # {} THEN "waited"
                                                                     ELSE "done"]
          /\ todo' = [todo EXCEPT ![c] = todo[c] \ {Min(todo[c])}]
      BY <2>3 DEF Goes, AfterWaits
    <3>2. CASE todo[c] \ {Min(todo[c])} # {}
      BY <1>2, <1>3, <2>3, <3>1, <3>2 DEF Pcs
    <3>3. CASE todo[c] \ {Min(todo[c])} = {}
      BY <1>2, <3>1, <3>3 DEF Pcs
    <3> QED
      BY <3>2, <3>3
  <2> QED
    BY <2>1, <2>2, <2>3
<1>5. /\ pc'[c] = p /\ todo'[c] = S /\ pc[c] \in {"count", "inline", "waited"}
      /\ \A d \in Cmd : d # c => pc'[d] = pc[d] /\ todo'[d] = todo[d]
      /\ \A d \in Cmd : HasRun(d)' <=> HasRun(d)
      /\ UNCHANGED <<locked, fw, sig>>
  BY <1>1, <1>4 DEF Types, HasRun
<1>6. pc' \in [Cmd -> Pcs] /\ todo' \in [Cmd -> SUBSET Fence]
  BY <1>1, <1>4 DEF Types
<1>7. PlaceInv'
  <2>1. ASSUME NEW d \in Cmd, d # c
        PROVE  /\ pc'[d] \notin {"idle", "refused"} => In[d] \cap Out[d] = {}
               /\ pc'[d] \in {"signal", "table", "count", "inline"} =>
                    todo'[d] # {} /\ todo'[d] \subseteq Out[d]
               /\ pc'[d] = "waited" => todo'[d] # {} /\ todo'[d] \subseteq In[d]
               /\ HasRun(d)' => InFirmware(d)'
    BY <1>1, <1>5, <2>1 DEF PlaceInv, InFirmware
  <2>2. /\ In[c] \cap Out[c] = {}
        /\ pc'[c] \in {"signal", "table", "count", "inline"} =>
             todo'[c] # {} /\ todo'[c] \subseteq Out[c]
        /\ pc'[c] = "waited" => todo'[c] # {} /\ todo'[c] \subseteq In[c]
        /\ InFirmware(c)'
    BY <1>3, <1>4, <1>5 DEF InFirmware
  <2> QED
    BY <2>1, <2>2 DEF PlaceInv
<1>8. /\ \A d \in Cmd : \/ pc'[d] \in {"idle", "lock", "refused", "sent"}
                        \/ pc[d] \notin {"idle", "lock", "refused", "sent"}
      /\ OpenOrActive
  BY <1>5 DEF OpenOrActive, Active
<1>9. ASSUME NEW d \in Cmd, pc'[d] = "table"
      PROVE  /\ pc[d] = "table" /\ todo'[d] = todo[d]
             /\ sig'[d] = sig[d] /\ Min(todo[d]) \in Fence
  BY <1>1, <1>4, <1>5, <1>9, FirstFact
<1>10. LockInv'
  BY <1>5, <1>9, LockKept DEF IInv
<1> QED
  BY <1>5, <1>6, <1>7, <1>8, <1>9, <1>10

\* A signal is counted: its command is under way, so the fence is not destroyed.
LEMMA CountsKeeps ==
  ASSUME IInv, NEW c \in Cmd, SignalCounts(c)
  PROVE  IInv'
<1>1. Types /\ PlaceInv /\ EndInv
  BY DEF IInv
<1>2. PICK f : f = Min(todo[c])
  OBVIOUS
<1>3. /\ pc[c] = "count" /\ UNCHANGED <<table, locked, held, sig, failed, fw>>
      /\ \/ Goes(c, [pc |-> "inline", todo |-> todo[c]])
         \/ Goes(c, AfterSignals(c, todo[c] \ {Min(todo[c])}))
  BY CountsFacts DEF SignalCounts, submitVars
<1>4. f \in todo[c] /\ f \in Fence /\ f \in Out[c] /\ f \in Uses(c)
  BY <1>1, <1>2, <1>3, FirstFact DEF Uses
<1>5. /\ pc' \in [Cmd -> Pcs] /\ todo' \in [Cmd -> SUBSET Fence]
      /\ PlaceInv' /\ LockInv' /\ OpenOrActive
      /\ \A d \in Cmd : HasRun(d)' <=> HasRun(d)
      /\ \A d \in Cmd : \/ pc'[d] \in {"idle", "lock", "refused", "sent"}
                        \/ pc[d] \notin {"idle", "lock", "refused", "sent"}
      /\ \A d \in Cmd :
           pc'[d] = "table" => /\ pc[d] = "table" /\ todo'[d] = todo[d]
                               /\ sig'[d] = sig[d] /\ Min(todo[d]) \in Fence
  BY <1>3, GoesPlace
<1>6. /\ fence' \in [Fence -> FenceRec]
      /\ \A g \in Fence : g # f => fence'[g] = fence[g]
      /\ fence'[f].submitted = fence[f].submitted
      /\ fence'[f].signalers = fence[f].signalers + 1
      /\ fence'[f].waiting = fence[f].waiting
      /\ fence'[f].wakelock = fence[f].wakelock
      /\ fence'[f].file = fence[f].file /\ fence'[f].destroyed = fence[f].destroyed
      /\ fence'[f].propagate = fence[f].propagate
      /\ SamePoll(fence'[f], fence[f]) /\ SameTime(fence'[f], fence[f])
      /\ fence'[f].retired => \/ fence[f].retired
                              \/ /\ \A ip \in Ips : fence[f].waiting[ip] = 0
                                 /\ Outstanding(fence'[f]) = 0 /\ ~fence[f].file
  BY <1>1, <1>2, <1>4, CountsFacts
<1>7. \A g \in Fence : /\ Signalers(g)' = Signalers(g) /\ Ran(g)' = Ran(g)
                       /\ Written(g)' = Written(g)
                       /\ \A ip \in Ips : Waits(g, ip)' = Waits(g, ip)
                       /\ g # f => Counted(g)' = Counted(g)
                       /\ g = f => /\ c \notin Counted(g)
                                   /\ Counted(g)' = Counted(g) \cup {c}
  BY <1>1, <1>2, CountsSets
<1>8. ~fence[f].destroyed
  <2>1. Active(c)
    BY <1>3 DEF Active
  <2> QED
    BY <1>1, <1>4, <2>1, InUse
<1>9. Types'
  BY <1>1, <1>3, <1>5, <1>6 DEF Types
<1>10. EndInv'
  BY <1>5, <1>6, <1>8, EndKept DEF IInv
<1>11. Cardinality(Counted(f)') = Cardinality(Counted(f)) + 1
  BY <1>4, <1>7, SetsFact, AddFact
<1>12. CountInv'
  <2> SUFFICES ASSUME NEW g \in Fence
      PROVE /\ fence'[g].submitted = Cardinality(Signalers(g)')
            /\ fence'[g].submitted <= Total[g]
            /\ ~fence'[g].destroyed => fence'[g].signalers = Cardinality(Counted(g)')
            /\ \A ip \in Ips : fence'[g].waiting[ip] = Cardinality(Waits(g, ip)')
    BY DEF CountInv
  <2>1. /\ fence[g].submitted = Cardinality(Signalers(g))
        /\ fence[g].submitted <= Total[g]
        /\ ~fence[g].destroyed => fence[g].signalers = Cardinality(Counted(g))
        /\ \A ip \in Ips : fence[g].waiting[ip] = Cardinality(Waits(g, ip))
    BY DEF IInv, CountInv
  <2>2. CASE g = f
    BY <1>6, <1>7, <1>8, <1>11, <2>1, <2>2
  <2>3. CASE g # f
    BY <1>6, <1>7, <2>1, <2>3
  <2> QED
    BY <2>2, <2>3
<1>13. RetireInv'
  <2> SUFFICES ASSUME NEW g \in Fence, fence'[g].retired
      PROVE  /\ ~fence'[g].file /\ \A ip \in Ips : fence'[g].waiting[ip] = 0
             /\ fence'[g].destroyed \/ Outstanding(fence'[g]) = 0
    BY DEF RetireInv
  <2>1. fence[g].retired => /\ ~fence[g].file
                            /\ \A ip \in Ips : fence[g].waiting[ip] = 0
                            /\ fence[g].destroyed \/ Outstanding(fence[g]) = 0
    BY DEF IInv, RetireInv
  <2>2. CASE g = f
    <3>1. ~fence[f].retired
      <4>1. InFirmware(c) /\ ~HasCounted(c, f)
        BY <1>3, <1>4 DEF InFirmware, HasCounted
      <4>2. Outstanding(fence[f]) # 0
        BY <1>4, <1>8, <4>1, OwesFact
      <4> QED
        BY <1>8, <2>1, <2>2, <4>2
    <3> QED
      BY <1>6, <2>2, <3>1
  <2>3. CASE g # f
    BY <1>6, <2>1, <2>3
  <2> QED
    BY <2>2, <2>3
<1>14. TableInv'
  <2>1. \A g \in Fence : /\ fence[g].propagate => fence'[g].propagate
                         /\ SameTime(fence'[g], fence[g])
    BY <1>6 DEF SameTime
  <2> QED
    BY <1>3, <1>5, <1>7, <2>1, TableKept DEF IInv
<1>15. SeenInv'
  <2>1. \A g \in Fence : /\ fence[g].signaled => fence'[g].signaled
                         /\ PollKept(fence[g]) => PollKept(fence'[g])
    BY <1>6 DEF SamePoll, PollKept
  <2> QED
    BY <1>7, <2>1, SeenKept DEF IInv
<1>16. RanInv'
  <2>1. \A g \in Fence : fence[g].propagate => fence'[g].propagate
    BY <1>6
  <2> QED
    BY <1>5, <2>1, RanKept DEF IInv
<1>17. WaiterPowered'
  <2>1. \A g \in Fence : /\ fence'[g].waiting = fence[g].waiting
                         /\ fence'[g].wakelock = fence[g].wakelock
    BY <1>6
  <2> QED
    BY <2>1, PowerKept DEF IInv
<1> QED
  BY <1>5, <1>9, <1>10, <1>12, <1>13, <1>14, <1>15, <1>16, <1>17 DEF IInv

\* The waited work that a signaler runs itself.
LEMMA SignalWaitedKeeps ==
  ASSUME IInv, NEW c \in Cmd, SignalWaited(c)
  PROVE  IInv'
<1>1. Types /\ PlaceInv /\ WaiterPowered
  BY DEF IInv
<1>2. /\ pc[c] = "inline" /\ UNCHANGED <<table, locked, held, sig, failed, fw>>
      /\ Goes(c, AfterSignals(c, todo[c] \ {Min(todo[c])}))
      /\ WaitedWorkFunc(Min(todo[c]))
  BY DEF SignalWaited, submitVars
<1>3. Min(todo[c]) \in Fence
  BY <1>1, <1>2, FirstFact
<1>4. /\ pc' \in [Cmd -> Pcs] /\ todo' \in [Cmd -> SUBSET Fence]
      /\ PlaceInv' /\ LockInv' /\ OpenOrActive
      /\ \A d \in Cmd : HasRun(d)' <=> HasRun(d)
      /\ \A d \in Cmd : \/ pc'[d] \in {"idle", "lock", "refused", "sent"}
                        \/ pc[d] \notin {"idle", "lock", "refused", "sent"}
      /\ \A d \in Cmd :
           pc'[d] = "table" => /\ pc[d] = "table" /\ todo'[d] = todo[d]
                               /\ sig'[d] = sig[d] /\ Min(todo[d]) \in Fence
  BY <1>2, GoesPlace
<1>5. /\ fence' \in [Fence -> FenceRec]
      /\ \A g \in Fence :
           /\ Alike(fence'[g], fence[g])
           /\ \A ip \in Ips : fence'[g].waiting[ip] <= fence'[g].wakelock[ip]
  BY <1>1, <1>2, <1>3, WaitedFacts
<1>6. SameSets
  BY <1>1, WaitedSets
<1>7. Types'
  BY <1>1, <1>2, <1>4, <1>5 DEF Types
<1>8. EndInv' /\ CountInv' /\ RetireInv' /\ SeenInv'
  BY <1>4, <1>5, <1>6, SetsKeep DEF Alike, SameLife, SamePoll, PollKept
<1>9. TableInv'
  BY <1>2, <1>4, <1>5, <1>6, TableKept DEF IInv, SameSets, Alike, SameLife
<1>10. RanInv'
  BY <1>4, <1>5, RanKept DEF IInv, Alike, SameLife
<1>11. WaiterPowered'
  BY <1>5 DEF WaiterPowered
<1> QED
  BY <1>4, <1>7, <1>8, <1>9, <1>10, <1>11 DEF IInv

\* A waiter leaves a fence.
LEMMA LeavesKeeps ==
  ASSUME IInv, NEW c \in Cmd, WaiterCompletedAsync(c) \/ WaiterCompleted(c)
  PROVE  IInv'
<1>1. Types /\ PlaceInv /\ EndInv /\ WaiterPowered
  BY DEF IInv
<1>2. PICK f : f = Min(todo[c])
  OBVIOUS
<1>3. /\ pc[c] = "waited" /\ UNCHANGED <<table, locked, held, sig, failed, fw>>
  BY DEF WaiterCompletedAsync, WaiterCompleted, submitVars
<1>4. f \in todo[c] /\ f \in Fence /\ f \in In[c] /\ f \in Uses(c)
  BY <1>1, <1>2, <1>3, FirstFact DEF Uses
<1>5. IpOf[c] \in Ips
  BY IifAssumption
<1>6. /\ fence' \in [Fence -> FenceRec]
      /\ \A g \in Fence : g # f => fence'[g] = fence[g]
      /\ fence'[f].submitted = fence[f].submitted
      /\ fence'[f].signalers = fence[f].signalers
      /\ fence'[f].waiting = [fence[f].waiting EXCEPT ![IpOf[c]] = @ - 1]
      /\ \A i \in Ips : fence'[f].waiting[i] <= fence'[f].wakelock[i]
      /\ fence'[f].file = fence[f].file /\ fence'[f].destroyed = fence[f].destroyed
      /\ fence'[f].propagate = fence[f].propagate
      /\ SamePoll(fence'[f], fence[f]) /\ SameTime(fence'[f], fence[f])
      /\ fence'[f].retired => \/ fence[f].retired
                              \/ /\ \A i \in Ips : fence'[f].waiting[i] = 0
                                 /\ Outstanding(fence[f]) = 0 /\ ~fence[f].file
      /\ Goes(c, AfterWaits(todo[c] \ {Min(todo[c])}))
  BY <1>1, <1>2, <1>4, LeavesFacts
<1>7. /\ pc' \in [Cmd -> Pcs] /\ todo' \in [Cmd -> SUBSET Fence]
      /\ PlaceInv' /\ LockInv' /\ OpenOrActive
      /\ \A d \in Cmd : HasRun(d)' <=> HasRun(d)
      /\ \A d \in Cmd : \/ pc'[d] \in {"idle", "lock", "refused", "sent"}
                        \/ pc[d] \notin {"idle", "lock", "refused", "sent"}
      /\ \A d \in Cmd :
           pc'[d] = "table" => /\ pc[d] = "table" /\ todo'[d] = todo[d]
                               /\ sig'[d] = sig[d] /\ Min(todo[d]) \in Fence
  BY <1>3, <1>6, GoesPlace
<1>8. \A g \in Fence :
        /\ Signalers(g)' = Signalers(g) /\ Ran(g)' = Ran(g)
        /\ Written(g)' = Written(g) /\ Counted(g)' = Counted(g)
        /\ \A ip \in Ips :
             IF g = f /\ ip = IpOf[c]
               THEN c \in Waits(g, ip) /\ Waits(g, ip)' = Waits(g, ip) \ {c}
               ELSE Waits(g, ip)' = Waits(g, ip)
  BY <1>1, <1>2, LeavesSets
<1>9. Types'
  BY <1>1, <1>3, <1>6, <1>7 DEF Types
<1>10. EndInv'
  <2>1. \A g \in Fence : /\ fence'[g].destroyed => fence[g].destroyed
                         /\ fence'[g].file => fence[g].file
                         /\ fence'[g].signalers = fence[g].signalers
    BY <1>6
  <2> QED
    BY <1>1, <1>7, <2>1, EndKept
<1>11. CountInv'
  <2> SUFFICES ASSUME NEW g \in Fence
      PROVE /\ fence'[g].submitted = Cardinality(Signalers(g)')
            /\ fence'[g].submitted <= Total[g]
            /\ ~fence'[g].destroyed => fence'[g].signalers = Cardinality(Counted(g)')
            /\ \A ip \in Ips : fence'[g].waiting[ip] = Cardinality(Waits(g, ip)')
    BY DEF CountInv
  <2>1. /\ fence[g].submitted = Cardinality(Signalers(g))
        /\ fence[g].submitted <= Total[g]
        /\ ~fence[g].destroyed => fence[g].signalers = Cardinality(Counted(g))
        /\ \A ip \in Ips : fence[g].waiting[ip] = Cardinality(Waits(g, ip))
    BY DEF IInv, CountInv
  <2>2. /\ fence'[g].submitted = Cardinality(Signalers(g)')
        /\ fence'[g].submitted <= Total[g]
        /\ ~fence'[g].destroyed => fence'[g].signalers = Cardinality(Counted(g)')
    BY <1>6, <1>8, <2>1
  <2>3. ASSUME NEW ip \in Ips
        PROVE  fence'[g].waiting[ip] = Cardinality(Waits(g, ip)')
    <3>1. fence[g] \in FenceRec
      BY <1>1 DEF Types
    <3>2. fence[g].waiting \in [Ips -> Int]
      BY <3>1, RecFacts
    <3>3. CASE g = f /\ ip = IpOf[c]
      <4>1. c \in Waits(g, ip) /\ Waits(g, ip)' = Waits(g, ip) \ {c}
        BY <1>8, <3>3
      <4>2. Waits(g, ip) \in SUBSET Cmd
        BY SetsFact
      <4>3. Cardinality(Waits(g, ip)') = Cardinality(Waits(g, ip)) - 1
        BY <4>1, <4>2, RemoveFact
      <4>4. fence'[g].waiting[ip] = fence[g].waiting[ip] - 1
        BY <1>6, <3>2, <3>3
      <4> QED
        BY <2>1, <4>3, <4>4
    <3>4. CASE ~(g = f /\ ip = IpOf[c])
      <4>1. Waits(g, ip)' = Waits(g, ip)
        BY <1>8, <3>4
      <4>2. fence'[g].waiting[ip] = fence[g].waiting[ip]
        BY <1>6, <3>2, <3>4
      <4> QED
        BY <2>1, <4>1, <4>2
    <3> QED
      BY <3>3, <3>4
  <2> QED
    BY <2>2, <2>3
<1>12. RetireInv'
  <2> SUFFICES ASSUME NEW g \in Fence, fence'[g].retired
      PROVE  /\ ~fence'[g].file /\ \A ip \in Ips : fence'[g].waiting[ip] = 0
             /\ fence'[g].destroyed \/ Outstanding(fence'[g]) = 0
    BY DEF RetireInv
  <2>1. fence[g].retired => /\ ~fence[g].file
                            /\ \A ip \in Ips : fence[g].waiting[ip] = 0
                            /\ fence[g].destroyed \/ Outstanding(fence[g]) = 0
    BY DEF IInv, RetireInv
  <2>2. CASE g = f
    <3>1. ~fence[f].retired
      <4>1. c \in Waits(f, IpOf[c]) /\ Waits(f, IpOf[c]) \in SUBSET Cmd
        BY <1>4, <1>5, <1>8, SetsFact
      <4>2. Cardinality(Waits(f, IpOf[c])) # 0
        <5>1. {} \in SUBSET Waits(f, IpOf[c]) /\ c \notin {}
          OBVIOUS
        <5>2. Cardinality({}) < Cardinality(Waits(f, IpOf[c]))
          BY <4>1, <5>1, PartFact
        <5> QED
          BY <5>2, FS_EmptySet
      <4> QED
        BY <1>4, <1>5, <2>1, <2>2, <4>2 DEF IInv, CountInv
    <3> QED
      BY <1>6, <2>2, <3>1 DEF Outstanding
  <2>3. CASE g # f
    BY <1>6, <2>1, <2>3
  <2> QED
    BY <2>2, <2>3
<1>13. TableInv'
  <2>1. \A g \in Fence : /\ fence[g].propagate => fence'[g].propagate
                         /\ SameTime(fence'[g], fence[g])
    BY <1>6 DEF SameTime
  <2> QED
    BY <1>3, <1>7, <1>8, <2>1, TableKept DEF IInv
<1>14. SeenInv'
  <2>1. \A g \in Fence : /\ fence[g].signaled => fence'[g].signaled
                         /\ PollKept(fence[g]) => PollKept(fence'[g])
    BY <1>6 DEF SamePoll, PollKept
  <2> QED
    BY <1>8, <2>1, SeenKept DEF IInv
<1>15. RanInv'
  <2>1. \A g \in Fence : fence[g].propagate => fence'[g].propagate
    BY <1>6
  <2> QED
    BY <1>7, <2>1, RanKept DEF IInv
<1>16. WaiterPowered'
  BY <1>1, <1>6 DEF WaiterPowered
<1> QED
  BY <1>7, <1>9, <1>10, <1>11, <1>12, <1>13, <1>14, <1>15, <1>16 DEF IInv

\* What a step of a work, a file or a poller leaves alone.
LEMMA AsideKeeps ==
  ASSUME IInv, UNCHANGED <<table, pc, locked, held, todo, sig, failed>>,
         \A d \in Cmd : HasRun(d)' <=> HasRun(d),
         fw' \in [Cmd -> FwStates],
         fence' \in [Fence -> FenceRec],
         \A g \in Fence : /\ SameTime(fence'[g], fence[g])
                          /\ fence[g].propagate => fence'[g].propagate
                          /\ fence[g].signaled => fence'[g].signaled
                          /\ PollKept(fence[g]) => PollKept(fence'[g])
  PROVE  /\ Types' /\ PlaceInv' /\ LockInv' /\ RanInv' /\ TableInv' /\ SeenInv'
         /\ SameSets /\ OpenOrActive
<1>1. Types /\ PlaceInv
  BY DEF IInv
<1>2. SameSets
  <2>1. \A d \in Cmd : Calm(d)
    BY DEF Calm
  <2> QED
    BY <2>1, CalmFact
<1>3. Types'
  BY <1>1 DEF Types
<1>4. PlaceInv'
  BY <1>1, PlaceKept
<1>5. LockInv'
  BY LockKept DEF IInv
<1>6. RanInv'
  BY RanKept DEF IInv
<1>7. TableInv'
  <2>1. \A d \in Cmd : pc[d] = "table" => Min(todo[d]) \in Fence
    BY <1>1, FirstFact
  <2> QED
    BY <1>2, <2>1, TableKept DEF IInv, SameSets
<1>8. SeenInv'
  BY <1>2, SeenKept DEF IInv, SameSets
<1>9. OpenOrActive
  BY DEF OpenOrActive, Active
<1> QED
  BY <1>2, <1>3, <1>4, <1>5, <1>6, <1>7, <1>8, <1>9

\* A notification only moves commands between sleep and the firmware's queue.
LEMMA BroadcastFacts ==
  ASSUME Types, NEW f \in Fence, NEW propagate, Broadcast(f, propagate)
  PROVE  /\ fw' \in [Cmd -> FwStates]
         /\ \A d \in Cmd : HasRun(d)' <=> HasRun(d)
<1>1. PICK deaf \in SUBSET fence[f].waiters :
        fw' = [c \in Cmd |->
                 IF ~propagate \/ IpOf[c] \notin fence[f].waiters THEN fw[c]
                 ELSE IF IpOf[c] \in deaf /\ WokenBy(f, table)[c] # fw[c] THEN "missed"
                 ELSE WokenBy(f, table)[c]]
  BY DEF Broadcast
<1>2. ASSUME NEW d \in Cmd
      PROVE  \/ fw'[d] = fw[d]
             \/ fw[d] \in {"asleep", "missed"} /\ fw'[d] \in {"queued", "missed"}
  BY <1>1 DEF WokenBy, Sleeps
<1> QED
  BY <1>1, <1>2 DEF HasRun, Types, FwStates

\* The waited work, the signaled work and the pollers of a fence.
LEMMA WorksKeep ==
  ASSUME IInv, NEW f \in Fence,
         \/ WaitedWork(f) \/ SignaledWork(f)
         \/ Poll(f) \/ \E off \in BOOLEAN : SetDisablePoll(f, off)
  PROVE  IInv'
<1>1. Types /\ PlaceInv /\ WaiterPowered
  BY DEF IInv
<1>2. /\ UNCHANGED <<table, pc, locked, held, todo, sig, failed>>
      /\ \A d \in Cmd : HasRun(d)' <=> HasRun(d)
      /\ fw' \in [Cmd -> FwStates]
  <2>1. CASE SignaledWork(f)
    <3>1. Broadcast(f, fence[f].propagate)
      BY <2>1 DEF SignaledWork
    <3> QED
      BY <1>1, <2>1, <3>1, BroadcastFacts DEF SignaledWork, submitVars, completeVars
  <2>2. CASE ~SignaledWork(f)
    <3>1. UNCHANGED <<table, pc, locked, held, todo, sig, failed, fw>>
      BY <2>2 DEF WaitedWork, Poll, SetDisablePoll, submitVars, completeVars
    <3> QED
      BY <1>1, <3>1 DEF HasRun, Types
  <2> QED
    BY <2>1, <2>2
<1>3. /\ fence' \in [Fence -> FenceRec]
      /\ \A g \in Fence :
           /\ SameCounts(fence'[g], fence[g]) /\ SameLife(fence'[g], fence[g])
           /\ SameTime(fence'[g], fence[g])
           /\ fence[g].signaled => fence'[g].signaled
           /\ PollKept(fence[g]) => PollKept(fence'[g])
           /\ \A ip \in Ips : fence'[g].waiting[ip] <= fence'[g].wakelock[ip]
  <2>1. CASE WaitedWork(f)
    <3>1. WaitedWorkFunc(f)
      BY <2>1 DEF WaitedWork
    <3> QED
      BY <1>1, <3>1, WaitedFacts DEF Alike, SamePoll, PollKept
  <2>2. CASE SignaledWork(f)
    BY <1>1, <2>2, SignaledFacts
       DEF Alike, SamePoll, PollKept, WaiterPowered, SameCounts
  <2>3. CASE Poll(f) \/ \E off \in BOOLEAN : SetDisablePoll(f, off)
    BY <1>1, <2>3, PollerFacts DEF WaiterPowered, SameCounts
  <2> QED
    BY <2>1, <2>2, <2>3
<1>4. /\ Types' /\ PlaceInv' /\ LockInv' /\ RanInv' /\ TableInv' /\ SeenInv'
      /\ SameSets /\ OpenOrActive
  BY <1>2, <1>3, AsideKeeps DEF SameLife
<1>5. EndInv' /\ CountInv' /\ RetireInv'
  BY <1>3, <1>4, SetsKeep DEF SameLife
<1>6. WaiterPowered'
  BY <1>3 DEF WaiterPowered
<1> QED
  BY <1>4, <1>5, <1>6 DEF IInv

\* The file of a fence is closed.
LEMMA CloseKeeps ==
  ASSUME IInv, NEW f \in Fence, CloseFile(f)
  PROVE  IInv'
<1>1. Types /\ PlaceInv
  BY DEF IInv
<1>2. UNCHANGED <<table, pc, locked, held, todo, sig, failed, fw>>
  BY DEF CloseFile, submitVars, completeVars
<1>3. /\ fence' \in [Fence -> FenceRec]
      /\ \A g \in Fence :
           /\ g # f => fence'[g] = fence[g]
           /\ SameCounts(fence'[g], fence[g]) /\ SameTime(fence'[g], fence[g])
           /\ fence'[g].wakelock = fence[g].wakelock
           /\ fence'[g].destroyed = fence[g].destroyed
           /\ fence'[g].propagate = fence[g].propagate
           /\ fence'[g].signaled = fence[g].signaled
      /\ fence'[f].poll = "none" /\ ~fence'[f].file
      /\ fence'[f].retired => \/ fence[f].retired
                              \/ /\ \A ip \in Ips : fence[f].waiting[ip] = 0
                                 /\ Outstanding(fence[f]) = 0
  BY <1>1, CloseFileFacts
<1>4. \A g \in Fence : /\ PollKept(fence[g]) => PollKept(fence'[g])
                       /\ fence'[g].file => fence[g].file
  BY <1>3 DEF PollKept
<1>5. fw' \in [Cmd -> FwStates]
      /\ \A d \in Cmd : HasRun(d)' <=> HasRun(d)
  BY <1>1, <1>2 DEF Types, HasRun
<1>6. /\ Types' /\ PlaceInv' /\ LockInv' /\ RanInv' /\ TableInv' /\ SeenInv'
      /\ SameSets /\ OpenOrActive
  BY <1>2, <1>3, <1>4, <1>5, AsideKeeps
<1>7. EndInv'
  BY <1>3, <1>4, <1>6, EndKept DEF IInv, SameCounts
<1>8. CountInv'
  BY <1>3, <1>6, CountKept DEF IInv, SameSets
<1>9. RetireInv'
  BY <1>3, <1>4 DEF IInv, RetireInv, SameCounts, Outstanding
<1>10. WaiterPowered'
  BY <1>3, PowerKept DEF IInv, SameCounts
<1> QED
  BY <1>6, <1>7, <1>8, <1>9, <1>10 DEF IInv

\* A fence that nobody references is destroyed.
LEMMA DestroyKeeps ==
  ASSUME IInv, NEW f \in Fence, Destroy(f)
  PROVE  IInv'
<1>1. Types /\ PlaceInv
  BY DEF IInv
<1>2. UNCHANGED <<table, pc, locked, held, todo, sig, failed>> /\ ~Referenced(f)
  BY DEF Destroy, submitVars, completeVars
<1>3. /\ fw' \in [Cmd -> FwStates]
      /\ \A d \in Cmd : HasRun(d)' <=> HasRun(d)
  <2>1. PICK e : Broadcast(f, e)
    BY DEF Destroy
  <2> QED
    BY <1>1, <2>1, BroadcastFacts
<1>4. /\ fence' \in [Fence -> FenceRec]
      /\ \A g \in Fence : g # f => fence'[g] = fence[g]
      /\ fence'[f].submitted = fence[f].submitted
      /\ fence'[f].signalers = Total[f]
      /\ fence'[f].waiting = fence[f].waiting
      /\ fence'[f].wakelock = [ip \in Ips |-> 0]
      /\ fence'[f].destroyed
      /\ fence'[f].file = fence[f].file
      /\ SameTime(fence'[f], fence[f])
      /\ fence[f].propagate => fence'[f].propagate
      /\ fence[f].signaled => fence'[f].signaled
      /\ PollKept(fence'[f])
  BY <1>1, DestroysFacts
<1>5. /\ Types' /\ PlaceInv' /\ LockInv' /\ RanInv' /\ TableInv' /\ SeenInv'
      /\ SameSets /\ OpenOrActive
  <2>1. \A g \in Fence : /\ SameTime(fence'[g], fence[g])
                         /\ fence[g].propagate => fence'[g].propagate
                         /\ fence[g].signaled => fence'[g].signaled
                         /\ PollKept(fence[g]) => PollKept(fence'[g])
    BY <1>4 DEF SameTime
  <2> QED
    BY <1>2, <1>3, <1>4, <2>1, AsideKeeps
<1>6. ~fence[f].file /\ \A c \in Cmd : f \in Uses(c) => ~Active(c)
  BY <1>2 DEF Referenced, Active
<1>7. EndInv'
  BY <1>2, <1>4, <1>6 DEF IInv, EndInv, Active
<1>8. CountInv'
  BY <1>4, <1>5 DEF IInv, CountInv, SameSets
<1>9. \A ip \in Ips : fence[f].waiting[ip] = 0
  <2> TAKE ip \in Ips
  <2>1. Waits(f, ip) = {}
    BY <1>6 DEF Waits, StillWaits, Active, Uses
  <2> QED
    BY <2>1, FS_EmptySet DEF IInv, CountInv
<1>10. RetireInv'
  BY <1>4, <1>6, <1>9 DEF IInv, RetireInv
<1>11. WaiterPowered'
  BY <1>4, <1>9 DEF IInv, WaiterPowered
<1> QED
  BY <1>5, <1>7, <1>8, <1>10, <1>11 DEF IInv

-----------------------------------------------------------------------------
(***************************************************************************)
(* The theorems.                                                           *)
(***************************************************************************)
\* At the beginning no command is under way.
LEMMA InitFact == Init => IInv
<1> SUFFICES ASSUME Init PROVE IInv
  OBVIOUS
<1>1. /\ \A c \in Cmd : pc[c] = "idle" /\ todo[c] = {} /\ locked[c] = {}
                        /\ fw[c] = "queued"
      /\ \A f \in Fence : fence[f] = FenceInit /\ table[f].rem = Total[f]
  BY DEF Init
<1>2. /\ FenceInit \in FenceRec /\ ~FenceInit.retired /\ ~FenceInit.destroyed
      /\ FenceInit.submitted = 0 /\ FenceInit.signalers = 0
      /\ FenceInit.waiting = [ip \in Ips |-> 0]
      /\ FenceInit.wakelock = [ip \in Ips |-> 0]
      /\ ~FenceInit.signaled /\ FenceInit.timeline = 0
  BY DEF FenceInit, FenceRec
<1>3. Types
  BY <1>2, IifAssumption DEF Init, Types, Pcs, FwStates
<1>4. \A f \in Fence : /\ Signalers(f) = {} /\ Ran(f) = {} /\ Counted(f) = {}
                       /\ Written(f) = {} /\ \A ip \in Ips : Waits(f, ip) = {}
  BY <1>1 DEF Signalers, Ran, Counted, Written, Waits, InFirmware, HasRun, HasCounted,
              HasWritten, StillWaits
<1>5. Cardinality({}) = 0 /\ \A f \in Fence : Total[f] \in Nat \ {0}
  BY FS_EmptySet, IifAssumption
<1>6. PlaceInv /\ LockInv /\ RanInv
  BY <1>1 DEF PlaceInv, LockInv, RanInv, HasRun
<1>7. EndInv /\ RetireInv
  BY <1>1, <1>2 DEF EndInv, RetireInv
<1>8. \A f \in Fence : /\ fence[f].submitted = 0 /\ fence[f].signalers = 0
                        /\ fence[f].timeline = 0
                        /\ \A ip \in Ips : fence[f].waiting[ip] = 0
  BY <1>1, <1>2
<1>9. CountInv
  <2>1. \A f \in Fence : /\ Cardinality(Signalers(f)) = 0 /\ Cardinality(Counted(f)) = 0
                         /\ \A ip \in Ips : Cardinality(Waits(f, ip)) = 0
                         /\ 0 <= Total[f]
    BY <1>4, <1>5
  <2> QED
    BY <1>8, <2>1 DEF CountInv
<1>10. TableInv
  <2>1. \A f \in Fence : /\ table[f].rem = Total[f] /\ Total[f] \in Nat
                         /\ Cardinality(Written(f)) = 0 /\ Cardinality(Ran(f)) = 0
    BY <1>1, <1>4, <1>5
  <2>2. \A c \in Cmd : pc[c] # "table"
    BY <1>1
  <2> QED
    BY <1>8, <2>1, <2>2 DEF TableInv
<1>11. SeenInv
  <2>1. \A f \in Fence : Cardinality(Written(f)) = 0 /\ Total[f] # 0
    BY <1>4, <1>5
  <2>2. \A f \in Fence : ~fence[f].signaled
    BY <1>1, <1>2
  <2> QED
    BY <2>1, <2>2 DEF SeenInv
<1>12. WaiterPowered
  BY <1>1, <1>2 DEF WaiterPowered
<1> QED
  BY <1>3, <1>6, <1>7, <1>9, <1>10, <1>11, <1>12 DEF IInv

\* Every step keeps the invariant.
LEMMA StepFact == IInv /\ [Next]_vars => IInv'
<1> SUFFICES ASSUME IInv, [Next]_vars PROVE IInv'
  OBVIOUS
<1>1. ASSUME NEW c \in Cmd, SubmitBegins(c) \/ SubmitFails(c) \/ SubmitStep(c)
                              \/ FwSleeps(c) \/ FwRuns(c)
      PROVE  IInv'
  BY <1>1, EarlyKeeps, SubmitKeeps, RunsKeeps DEF SubmitStep
<1>2. ASSUME NEW c \in Cmd, Arrived(c) \/ Aborted(c) PROVE IInv'
  <2>1. CASE Arrived(c)
    <3>1. Completes(c, fw[c] = "failed") /\ HasRun(c) /\ (fw[c] = "failed") \in BOOLEAN
      BY <2>1 DEF Arrived, HasRun
    <3> QED
      BY <3>1, CompletesKeeps
  <2>2. CASE Aborted(c)
    BY <2>2, CompletesKeeps DEF Aborted
  <2> QED
    BY <1>2, <2>1, <2>2
<1>3. ASSUME NEW c \in Cmd, CompleteStep(c) PROVE IInv'
  BY <1>3, BeginsKeeps, WritesKeeps, CountsKeeps, SignalWaitedKeeps, LeavesKeeps
     DEF CompleteStep
<1>4. ASSUME NEW f \in Fence, FenceStep(f) PROVE IInv'
  BY <1>4, WorksKeep, DestroyKeeps DEF FenceStep
<1>5. ASSUME NEW f \in Fence,
             CloseFile(f) \/ Poll(f) \/ \E off \in BOOLEAN : SetDisablePoll(f, off)
      PROVE  IInv'
  BY <1>5, CloseKeeps, WorksKeep
<1>6. CASE UNCHANGED vars
  <2>1. UNCHANGED <<fence, table, pc, locked, held, todo, sig, failed, fw>>
    BY <1>6 DEF vars, submitVars, completeVars
  <2>2. SameSets
    BY <2>1 DEF SameSets, Signalers, Ran, Counted, Written, Waits, InFirmware, HasRun,
                HasCounted, HasWritten, StillWaits
  <2>3. Types' /\ PlaceInv' /\ LockInv' /\ RanInv' /\ RetireInv' /\ WaiterPowered'
    BY <2>1 DEF IInv, Types, PlaceInv, LockInv, RanInv, RetireInv, WaiterPowered,
       HasRun,
                InFirmware
  <2>4. EndInv'
    BY <2>1 DEF IInv, EndInv, Active
  <2>5. CountInv' /\ SeenInv'
    BY <2>1, <2>2 DEF IInv, CountInv, SeenInv, SameSets
  <2>6. TableInv'
    <3>1. \A d \in Cmd : pc[d] = "table" => Min(todo[d]) \in Fence
      BY FirstFact DEF IInv
    <3> QED
      BY <2>1, <2>2, <3>1, TableKept DEF IInv, SameSets, SameTime
  <2> QED
    BY <2>3, <2>4, <2>5, <2>6 DEF IInv
<1> QED
  BY <1>1, <1>2, <1>3, <1>4, <1>5, <1>6 DEF Next

\* The invariant holds: the counters of a fence are the commands at their places,
\* whatever firmwares, completions, works and files interleave.
THEOREM FencesInductive == Spec => []IInv
  BY InitFact, StepFact, PTL DEF Spec

\* The block of a command that waits is powered: fence->wakelock is never below
\* the number of waiters, so neither the waited work nor a waiter that leaves
\* releases the block under another one.
THEOREM WaitersKeepPower == Spec => []WaiterPowered
<1>1. IInv => WaiterPowered
  BY DEF IInv
<1> QED
  BY <1>1, FencesInductive, PTL

\* A command that is not through with f is counted there.
LEMMA UserFact ==
  ASSUME IInv, NEW c \in Cmd, NEW f \in Unfinished(c)
  PROVE  ~fence[f].retired
<1>1. Types /\ PlaceInv /\ EndInv
  BY DEF IInv
<1>2. /\ pc[c] \in {"sent", "signal", "table", "count", "waited"} /\ f \in Uses(c)
      /\ f \in Fence
      /\ \/ f \in In[c] /\ StillWaits(c, f)
         \/ f \in Out[c] /\ ~HasCounted(c, f)
  <2>1. pc[c] \in Pcs /\ In[c] \subseteq Fence /\ Out[c] \subseteq Fence
    BY <1>1, IifAssumption DEF Types
  <2>2. CASE pc[c] = "sent"
    BY <2>1, <2>2 DEF Unfinished, Uses, StillWaits, HasCounted
  <2>3. CASE pc[c] \in {"signal", "table", "count"}
    BY <1>1, <2>1, <2>3 DEF Unfinished, Uses, StillWaits, HasCounted, PlaceInv
  <2>4. CASE pc[c] = "waited"
    BY <1>1, <2>1, <2>4 DEF Unfinished, Uses, StillWaits, HasCounted, PlaceInv
  <2>5. CASE pc[c] \notin {"sent", "signal", "table", "count", "waited"}
    BY <2>5 DEF Unfinished
  <2> QED
    BY <2>2, <2>3, <2>4, <2>5
<1>3. ~fence[f].destroyed
  BY <1>1, <1>2, InUse DEF Active
<1>4. CASE f \in In[c] /\ StillWaits(c, f)
  <2>1. IpOf[c] \in Ips /\ c \in Waits(f, IpOf[c]) /\ Waits(f, IpOf[c]) \in SUBSET Cmd
    BY <1>4, IifAssumption, SetsFact DEF Waits
  <2>2. {} \in SUBSET Waits(f, IpOf[c]) /\ c \notin {}
    OBVIOUS
  <2>3. Cardinality({}) < Cardinality(Waits(f, IpOf[c]))
    BY <2>1, <2>2, PartFact
  <2>4. fence[f].waiting[IpOf[c]] # 0
    BY <1>2, <2>1, <2>3, FS_EmptySet DEF IInv, CountInv
  <2> QED
    BY <1>2, <2>1, <2>4 DEF IInv, RetireInv
<1>5. CASE f \in Out[c] /\ ~HasCounted(c, f)
  <2>1. Outstanding(fence[f]) # 0
    BY <1>2, <1>3, <1>5, OwesFact DEF InFirmware
  <2> QED
    BY <1>2, <1>3, <2>1 DEF IInv, RetireInv
<1> QED
  BY <1>2, <1>4, <1>5

\* A command is never refused by a fence it still has to signal, and the fence
\* keeps its id until the command is through with it.
THEOREM UsersAreCounted == Spec => []UsersCounted
<1>1. IInv => UsersCounted
  <2> SUFFICES ASSUME IInv, NEW c \in Cmd
               PROVE  /\ pc[c] = "signal" => Signalable(Min(todo[c]))
                      /\ \A f \in Unfinished(c) : ~fence[f].retired
    BY DEF UsersCounted
  <2>1. ASSUME pc[c] = "signal" PROVE Signalable(Min(todo[c]))
    <3>1. Types /\ PlaceInv /\ EndInv
      BY DEF IInv
    <3>2. /\ Min(todo[c]) \in todo[c] /\ Min(todo[c]) \in Fence /\ Min(todo[c]) \in Out[c]
          /\ Min(todo[c]) \in Uses(c)
      BY <2>1, <3>1, FirstFact DEF Uses
    <3>3. ~fence[Min(todo[c])].destroyed
      BY <2>1, <3>1, <3>2, InUse DEF Active
    <3>4. ~HasCounted(c, Min(todo[c])) /\ InFirmware(c)
      BY <2>1, <3>2 DEF HasCounted, InFirmware
    <3> QED
      BY <3>2, <3>3, <3>4, OwesFact DEF Signalable, AllSignaled
  <2> QED
    BY <2>1, UserFact
<1> QED
  BY <1>1, FencesInductive, PTL

\* A fence whose signalers the driver has all counted is signaled, also in the
\* table, and no poller is left behind.
THEOREM SignalsAreSeen == Spec => []SignaledIsSeen
<1>1. IInv => SignaledIsSeen
  <2> SUFFICES ASSUME IInv, NEW f \in Fence
      PROVE  /\ AllSignaled(f) /\ ~fence[f].destroyed =>
                  fence[f].signaled /\ table[f].rem = 0
             /\ fence[f].signaled /\ ~fence[f].pollOff => fence[f].poll # "armed"
    BY DEF SignaledIsSeen
  <2>1. fence[f].signaled /\ ~fence[f].pollOff => fence[f].poll # "armed"
    BY DEF IInv, SeenInv
  <2>2. ASSUME AllSignaled(f), ~fence[f].destroyed
        PROVE  fence[f].signaled /\ table[f].rem = 0
    <3>1. Cardinality(Counted(f)) = Total[f]
      BY <2>2 DEF AllSignaled, IInv, CountInv
    <3>2. Written(f) \in SUBSET Cmd /\ Counted(f) \in SUBSET Written(f)
      BY SetsFact
    <3>3. Cardinality(Counted(f)) <= Cardinality(Written(f))
          /\ Cardinality(Written(f)) \in Nat /\ Total[f] \in Nat
      BY <3>2, PartFact, CardFact, IifAssumption
    <3>4. table[f].rem \in Nat /\ table[f].rem + Cardinality(Written(f)) <= Total[f]
      BY DEF IInv, TableInv, Types
    <3>5. Cardinality(Written(f)) = Total[f] /\ table[f].rem = 0
      BY <3>1, <3>3, <3>4
    <3> QED
      BY <3>5 DEF IInv, SeenInv
  <2> QED
    BY <2>1, <2>2
<1> QED
  BY <1>1, FencesInductive, PTL

-----------------------------------------------------------------------------
(***************************************************************************)
(* The wakelocks of an IP are the tokens of its fences and submissions.    *)
(***************************************************************************)
\* The blocks that a submission powers are those of waiters of its out-fences.
HeldInv ==
  \A c \in Cmd : pc[c] = "lock" => \A f \in Fence : f \notin Out[c] => held[c][f] = {}

\* The invariant of the wakelocks.
PowerInv == wakelocks \in [Ips -> Int] /\ HeldInv /\ WakelocksBalanced

\* A token is a fence with a number.
LEMMA TokenFact ==
  ASSUME NEW w, NEW x
  PROVE  x \in Tokens(w) <=> \E f \in Fence : \E n \in 1 .. w[f] : x = <<f, n>>
  BY DEF Tokens

\* There are finitely many tokens.
LEMMA TokensFinite ==
  ASSUME NEW w \in [Fence -> Nat]
  PROVE  IsFiniteSet(Tokens(w)) /\ Cardinality(Tokens(w)) \in Nat
<1> DEFINE T == {{f} \X (1 .. w[f]) : f \in Fence}
           h == [f \in Fence |-> {f} \X (1 .. w[f])]
<1>1. h \in Surjection(Fence, T)
  BY DEF Surjection
<1>2. IsFiniteSet(T)
  <2> HIDE DEF T, h
  <2> QED
    BY <1>1, IifAssumption, FS_Surjection
<1>3. ASSUME NEW t \in T PROVE IsFiniteSet(t)
  <2>1. PICK f \in Fence : t = {f} \X (1 .. w[f])
    OBVIOUS
  <2>2. 1 \in Int /\ w[f] \in Int
    OBVIOUS
  <2>3. IsFiniteSet(1 .. w[f])
    BY <2>2, FS_Interval
  <2>4. IsFiniteSet({f})
    BY FS_Singleton
  <2> QED
    BY <2>1, <2>3, <2>4, FS_Product
<1>4. IsFiniteSet(UNION T)
  <2> HIDE DEF T
  <2> QED
    BY <1>2, <1>3, FS_UNION
<1> QED
  BY <1>4, FS_CardinalityType DEF Tokens

\* A fence gives some of its tokens back.
LEMMA TokensLess ==
  ASSUME NEW w \in [Fence -> Nat], NEW f \in Fence, NEW m \in Nat, m <= w[f],
         NEW v, v = [w EXCEPT ![f] = m]
  PROVE  Cardinality(Tokens(v)) = Cardinality(Tokens(w)) - (w[f] - m)
<1> DEFINE I == (m + 1) .. w[f]
           R == {f} \X I
<1>1. Tokens(v) = Tokens(w) \ R
  <2>1. ASSUME NEW x PROVE x \in Tokens(v) <=> x \in Tokens(w) /\ x \notin R
    <3>1. ASSUME NEW g \in Fence, NEW n, x = <<g, n>>
          PROVE  (n \in 1 .. v[g]) <=> ((n \in 1 .. w[g]) /\ x \notin R)
      BY <3>1
    <3>2. ASSUME x \in Tokens(v) PROVE x \in Tokens(w) /\ x \notin R
      <4>1. PICK g \in Fence : \E n \in 1 .. v[g] : x = <<g, n>>
        BY <3>2, TokenFact
      <4>2. PICK n \in 1 .. v[g] : x = <<g, n>>
        BY <4>1
      <4> QED
        BY <3>1, <4>2, TokenFact
    <3>3. ASSUME x \in Tokens(w), x \notin R PROVE x \in Tokens(v)
      <4>1. PICK g \in Fence : \E n \in 1 .. w[g] : x = <<g, n>>
        BY <3>3, TokenFact
      <4>2. PICK n \in 1 .. w[g] : x = <<g, n>>
        BY <4>1
      <4> QED
        BY <3>1, <3>3, <4>2, TokenFact
    <3> QED
      BY <3>2, <3>3
  <2> QED
    BY <2>1
<1>2. R \subseteq Tokens(w)
  <2> SUFFICES ASSUME NEW n \in (m + 1) .. w[f] PROVE <<f, n>> \in Tokens(w)
    OBVIOUS
  <2>1. n \in 1 .. w[f]
    OBVIOUS
  <2> QED
    BY <2>1, TokenFact
<1>3. IsFiniteSet(R) /\ Cardinality(R) = w[f] - m
  <2>1. IsFiniteSet({f}) /\ Cardinality({f}) = 1
    BY FS_Singleton
  <2>2. m + 1 \in Int /\ w[f] \in Int
    OBVIOUS
  <2>3. IsFiniteSet(I) /\ Cardinality(I) = IF m + 1 > w[f] THEN 0 ELSE w[f] - (m + 1) + 1
    BY <2>2, FS_Interval
  <2>4. IsFiniteSet(I) /\ Cardinality(I) = w[f] - m
    BY <2>3
  <2> HIDE DEF I
  <2>5. IsFiniteSet(R) /\ Cardinality(R) = 1 * Cardinality(I)
    BY <2>1, <2>4, FS_Product
  <2> QED
    BY <2>4, <2>5
<1> HIDE DEF R
<1>4. Tokens(w) \cap R = R /\ IsFiniteSet(Tokens(w))
  BY <1>2, TokensFinite
<1>5. Cardinality(Tokens(w) \ R) = Cardinality(Tokens(w)) - Cardinality(R)
  <2>1. Cardinality(Tokens(w) \ R) = Cardinality(Tokens(w)) - Cardinality(Tokens(w) \cap R)
    BY <1>4, FS_Difference, ZenonT(30)
  <2> QED
    BY <1>4, <2>1, Zenon
<1> QED
  BY <1>1, <1>3, <1>5

\* The fences of A get a token each.
LEMMA TokensMore ==
  ASSUME NEW w \in [Fence -> Nat], NEW A \in SUBSET Fence,
         NEW v, v = [f \in Fence |-> w[f] + IF f \in A THEN 1 ELSE 0]
  PROVE  Cardinality(Tokens(v)) = Cardinality(Tokens(w)) + Cardinality(A)
<1> DEFINE N == {<<f, w[f] + 1>> : f \in A}
           h == [f \in A |-> <<f, w[f] + 1>>]
<1>1. Tokens(v) = Tokens(w) \cup N
  <2>1. ASSUME NEW x PROVE x \in Tokens(v) <=> x \in Tokens(w) \/ x \in N
    <3>1. ASSUME NEW g \in Fence, NEW n, x = <<g, n>>
          PROVE  (n \in 1 .. v[g]) <=> ((n \in 1 .. w[g]) \/ (g \in A /\ n = w[g] + 1))
      OBVIOUS
    <3>2. x \in N <=> \E g \in A : x = <<g, w[g] + 1>>
      OBVIOUS
    <3> QED
      BY <3>1, <3>2, TokenFact
  <2> QED
    BY <2>1
<1>2. Tokens(w) \cap N = {}
  <2> SUFFICES ASSUME NEW f \in A, <<f, w[f] + 1>> \in Tokens(w) PROVE FALSE
    OBVIOUS
  <2>1. PICK g \in Fence : \E n \in 1 .. w[g] : <<f, w[f] + 1>> = <<g, n>>
    BY TokenFact
  <2> QED
    BY <2>1
<1>3. h \in Bijection(A, N)
  <2>1. h \in [A -> N] /\ \A f \in A : h[f] = <<f, w[f] + 1>>
    OBVIOUS
  <2>2. \A f, g \in A : h[f] = h[g] => f = g
    BY <2>1
  <2>3. \A x \in N : \E f \in A : h[f] = x
    BY <2>1
  <2> HIDE DEF h, N
  <2> QED
    BY <2>1, <2>2, <2>3 DEF Bijection, Injection, Surjection, IsInjective
<1>4. IsFiniteSet(A)
  BY IifAssumption, FS_Subset
<1>5. IsFiniteSet(N) /\ Cardinality(N) = Cardinality(A)
  <2>1. ExistsBijection(A, N)
    BY <1>3 DEF ExistsBijection
  <2> HIDE DEF N
  <2> QED
    BY <1>4, <2>1, FS_Bijection
<1> HIDE DEF N
<1>6. IsFiniteSet(Tokens(w)) /\ Cardinality(Tokens(w)) \in Nat
  BY TokensFinite
<1>7. Cardinality(N) \in Nat
  BY <1>5, FS_CardinalityType
<1>8. Cardinality(Tokens(w) \cup N) = Cardinality(Tokens(w)) + Cardinality(N) - 0
  BY <1>2, <1>5, <1>6, FS_Union, FS_EmptySet
<1>9. Cardinality(Tokens(v)) = Cardinality(Tokens(w) \cup N)
  BY <1>1
<1> QED
  BY <1>5, <1>6, <1>7, <1>8, <1>9

\* The pairs of one command more.
LEMMA RowFact ==
  ASSUME NEW S \in SUBSET (Cmd \X Fence), NEW c \in Cmd, NEW X \in SUBSET Fence,
         \A f \in Fence : <<c, f>> \notin S
  PROVE  /\ Cardinality(S \cup ({c} \X X)) = Cardinality(S) + Cardinality(X)
         /\ Cardinality(S) \in Nat /\ Cardinality(X) \in Nat
<1> DEFINE R == {c} \X X
<1>1. IsFiniteSet(Cmd \X Fence)
  BY IifAssumption, FS_Product
<1>2. IsFiniteSet(S) /\ IsFiniteSet(X) /\ Cardinality(S) \in Nat /\ Cardinality(X) \in Nat
  BY <1>1, IifAssumption, FS_Subset, FS_CardinalityType
<1>3. IsFiniteSet(R) /\ Cardinality(R) = Cardinality(X)
  <2>1. IsFiniteSet({c}) /\ Cardinality({c}) = 1
    BY FS_Singleton
  <2>2. IsFiniteSet(R) /\ Cardinality(R) = 1 * Cardinality(X)
    BY <1>2, <2>1, FS_Product
  <2> QED
    BY <1>2, <2>2
<1>4. S \cap R = {}
  OBVIOUS
<1> HIDE DEF R
<1>5. Cardinality(S \cup R) = Cardinality(S) + Cardinality(R) - 0
  BY <1>2, <1>3, <1>4, FS_Union, FS_EmptySet
<1> QED
  BY <1>2, <1>3, <1>5 DEF R

\* The wakelocks the fences have of an IP.
WakelockOf(ip) == [f \in Fence |-> fence[f].wakelock[ip]]

\* They are never negative: there is one for every waiter.
LEMMA WakelockNat == IInv => \A ip \in Ips : WakelockOf(ip) \in [Fence -> Nat]
<1> SUFFICES ASSUME IInv, NEW ip \in Ips, NEW f \in Fence
             PROVE  fence[f].wakelock[ip] \in Nat
  BY DEF WakelockOf
<1>1. fence[f] \in FenceRec
  BY DEF IInv, Types
<1>2. fence[f].wakelock[ip] \in Int
  BY <1>1, RecFacts
<1>3. fence[f].waiting[ip] \in Nat
  BY SetsFact, CardFact DEF IInv, CountInv
<1>4. fence[f].waiting[ip] <= fence[f].wakelock[ip]
  BY DEF IInv, WaiterPowered
<1> QED
  BY <1>2, <1>3, <1>4

\* The pairs of commands and fences are finite sets.
LEMMA PairsFact ==
  ASSUME NEW ip
  PROVE  /\ Cardinality(WaiterLocks(ip)) \in Nat /\ Cardinality(SignalerLocks(ip)) \in Nat
         /\ IsFiniteSet(WaiterLocks(ip)) /\ IsFiniteSet(SignalerLocks(ip))
<1>1. IsFiniteSet(Cmd \X Fence)
  BY IifAssumption, FS_Product
<1>2. /\ WaiterLocks(ip) \in SUBSET (Cmd \X Fence)
      /\ SignalerLocks(ip) \in SUBSET (Cmd \X Fence)
  BY DEF WaiterLocks, SignalerLocks
<1> QED
  BY <1>1, <1>2, FS_Subset, FS_CardinalityType

\* A step that neither takes nor gives back a wakelock.
LEMMA PowerSame ==
  ASSUME PowerInv, wakelocks' = wakelocks,
         \A f \in Fence : fence'[f].wakelock = fence[f].wakelock,
         \A c \in Cmd : (pc'[c] = "lock") <=> (pc[c] = "lock"),
         \A c \in Cmd : held'[c] = held[c]
  PROVE  PowerInv'
<1>1. \A ip \in Ips : /\ FenceLocks(ip)' = FenceLocks(ip)
                      /\ WaiterLocks(ip)' = WaiterLocks(ip)
                      /\ SignalerLocks(ip)' = SignalerLocks(ip)
  <2> TAKE ip \in Ips
  <2>1. [f \in Fence |-> fence'[f].wakelock[ip]] = [f \in Fence |-> fence[f].wakelock[ip]]
    OBVIOUS
  <2>2. FenceLocks(ip)' = FenceLocks(ip)
    BY <2>1 DEF FenceLocks
  <2>3. ASSUME NEW x \in Cmd \X Fence
        PROVE  /\ (pc'[x[1]] = "lock") <=> (pc[x[1]] = "lock")
               /\ held'[x[1]] = held[x[1]]
    OBVIOUS
  <2> QED
    BY <2>2, <2>3 DEF WaiterLocks, SignalerLocks
<1>2. HeldInv'
  BY DEF PowerInv, HeldInv
<1> QED
  BY <1>1, <1>2 DEF PowerInv, WakelocksBalanced

\* A step that gives wakelocks of one fence back.
LEMMA PowerLess ==
  ASSUME IInv, IInv', PowerInv, NEW f \in Fence, NEW n,
         \A ip \in Ips : n[ip] \in Int /\ n[ip] >= 0,
         wakelocks' = [ip \in Ips |-> wakelocks[ip] - n[ip]],
         \A ip \in Ips : fence'[f].wakelock[ip] = fence[f].wakelock[ip] - n[ip],
         \A g \in Fence : g # f => fence'[g].wakelock = fence[g].wakelock,
         \A c \in Cmd : (pc'[c] = "lock") <=> (pc[c] = "lock"),
         \A c \in Cmd : held'[c] = held[c]
  PROVE  PowerInv'
<1>1. \A ip \in Ips : /\ WaiterLocks(ip)' = WaiterLocks(ip)
                      /\ SignalerLocks(ip)' = SignalerLocks(ip)
  <2>1. ASSUME NEW x \in Cmd \X Fence
        PROVE  /\ (pc'[x[1]] = "lock") <=> (pc[x[1]] = "lock")
               /\ held'[x[1]] = held[x[1]]
    OBVIOUS
  <2> QED
    BY <2>1 DEF WaiterLocks, SignalerLocks
<1>2. HeldInv'
  BY DEF PowerInv, HeldInv
<1>3. \A ip \in Ips : WakelockOf(ip) \in [Fence -> Nat]
  BY WakelockNat
<1>4. (\A ip \in Ips : WakelockOf(ip) \in [Fence -> Nat])'
  BY WakelockNat, PTL
<1>5. ASSUME NEW ip \in Ips
      PROVE  /\ Cardinality(FenceLocks(ip)') = Cardinality(FenceLocks(ip)) - n[ip]
             /\ Cardinality(FenceLocks(ip)) \in Nat
  <2> DEFINE w == WakelockOf(ip)
             v == [g \in Fence |-> fence'[g].wakelock[ip]]
  <2>1. w \in [Fence -> Nat] /\ v \in [Fence -> Nat]
    BY <1>3, <1>4 DEF WakelockOf
  <2>2. /\ FenceLocks(ip) = Tokens(w) /\ FenceLocks(ip)' = Tokens(v)
        /\ w = [g \in Fence |-> fence[g].wakelock[ip]]
    BY DEF FenceLocks, WakelockOf
  <2>3. v = [w EXCEPT ![f] = v[f]] /\ v[f] = w[f] - n[ip]
    BY <2>2
  <2> HIDE DEF w, v
  <2>4. v[f] \in Nat /\ v[f] <= w[f] /\ w[f] - v[f] = n[ip]
    BY <2>1, <2>3
  <2>5. Cardinality(Tokens(v)) = Cardinality(Tokens(w)) - (w[f] - v[f])
    BY <2>1, <2>3, <2>4, TokensLess
  <2> QED
    BY <2>1, <2>2, <2>4, <2>5, TokensFinite
<1>6. ASSUME NEW ip \in Ips
      PROVE  wakelocks'[ip] = Cardinality(FenceLocks(ip)')
               + Cardinality(WaiterLocks(ip)') + Cardinality(SignalerLocks(ip)')
  <2>1. /\ Cardinality(WaiterLocks(ip)) \in Nat /\ Cardinality(SignalerLocks(ip)) \in Nat
    BY PairsFact
  <2>2. wakelocks[ip] = Cardinality(FenceLocks(ip))
               + Cardinality(WaiterLocks(ip)) + Cardinality(SignalerLocks(ip))
    BY DEF PowerInv, WakelocksBalanced
  <2> QED
    BY <1>1, <1>5, <2>1, <2>2
<1>7. wakelocks' \in [Ips -> Int]
  BY DEF PowerInv
<1> QED
  BY <1>2, <1>6, <1>7 DEF PowerInv, WakelocksBalanced

\* What a submission has acquired for its in-fences and its out-fences.
Row(c, ip) == IF IpOf[c] = ip THEN In[c] ELSE {}
OutRow(h, ip) == {f \in Fence : ip \in h[f]}

\* They are the numbers the code counts.
LEMMA RowCounts ==
  ASSUME NEW c \in Cmd, NEW ip \in Ips, NEW h
  PROVE  /\ Row(c, ip) \in SUBSET Fence /\ OutRow(h, ip) \in SUBSET Fence
         /\ InLocks(c, ip) = Cardinality(Row(c, ip))
         /\ OutLocks(h, ip) = Cardinality(OutRow(h, ip))
  BY IifAssumption, FS_EmptySet DEF Row, OutRow, InLocks, OutLocks

\* The pairs of a submission under way.
LEMMA RowsFact ==
  ASSUME NEW c \in Cmd, NEW ip \in Ips, Types
  PROVE  LET W == {x \in WaiterLocks(ip) : x[1] # c}
             S == {x \in SignalerLocks(ip) : x[1] # c} IN
         /\ pc[c] = "lock" => /\ WaiterLocks(ip) = W \cup ({c} \X Row(c, ip))
                              /\ SignalerLocks(ip) = S \cup ({c} \X OutRow(held[c], ip))
         /\ pc[c] # "lock" => WaiterLocks(ip) = W /\ SignalerLocks(ip) = S
         /\ \A f \in Fence : <<c, f>> \notin W /\ <<c, f>> \notin S
         /\ W \in SUBSET (Cmd \X Fence) /\ S \in SUBSET (Cmd \X Fence)
<1>1. ASSUME NEW f \in Fence
      PROVE  /\ <<c, f>> \in WaiterLocks(ip) <=> (pc[c] = "lock" /\ f \in Row(c, ip))
             /\ <<c, f>> \in SignalerLocks(ip) <=>
                  (pc[c] = "lock" /\ f \in OutRow(held[c], ip))
  BY DEF WaiterLocks, SignalerLocks, Row, OutRow
<1>2. WaiterLocks(ip) \in SUBSET (Cmd \X Fence) /\ SignalerLocks(ip) \in SUBSET (Cmd \X Fence)
  BY DEF WaiterLocks, SignalerLocks
<1>3. Row(c, ip) \subseteq Fence /\ OutRow(held[c], ip) \subseteq Fence
  BY RowCounts
<1> QED
  BY <1>1, <1>2, <1>3

\* A step of the submission of c leaves the pairs of the other commands alone.
LEMMA RowsStep ==
  ASSUME NEW c \in Cmd, NEW ip \in Ips, Types,
         \A d \in Cmd : d # c => ((pc'[d] = "lock") <=> (pc[d] = "lock")),
         \A d \in Cmd : d # c => held'[d] = held[d]
  PROVE  LET W == {x \in WaiterLocks(ip) : x[1] # c}
             S == {x \in SignalerLocks(ip) : x[1] # c} IN
         /\ pc'[c] = "lock" => /\ WaiterLocks(ip)' = W \cup ({c} \X Row(c, ip))
                               /\ SignalerLocks(ip)' = S \cup ({c} \X OutRow(held'[c], ip))
         /\ pc'[c] # "lock" => WaiterLocks(ip)' = W /\ SignalerLocks(ip)' = S
<1>1. ASSUME NEW f \in Fence
      PROVE  /\ <<c, f>> \in WaiterLocks(ip)' <=> (pc'[c] = "lock" /\ f \in Row(c, ip))
             /\ <<c, f>> \in SignalerLocks(ip)' <=>
                  (pc'[c] = "lock" /\ f \in OutRow(held'[c], ip))
  BY DEF WaiterLocks, SignalerLocks, Row, OutRow
<1>2. ASSUME NEW d \in Cmd, NEW f \in Fence, d # c
      PROVE  /\ <<d, f>> \in WaiterLocks(ip)' <=> <<d, f>> \in WaiterLocks(ip)
             /\ <<d, f>> \in SignalerLocks(ip)' <=> <<d, f>> \in SignalerLocks(ip)
  BY <1>2 DEF WaiterLocks, SignalerLocks
<1>3. /\ WaiterLocks(ip) \in SUBSET (Cmd \X Fence)
      /\ SignalerLocks(ip) \in SUBSET (Cmd \X Fence)
      /\ WaiterLocks(ip)' \in SUBSET (Cmd \X Fence)
      /\ SignalerLocks(ip)' \in SUBSET (Cmd \X Fence)
  BY DEF WaiterLocks, SignalerLocks
<1>4. Row(c, ip) \subseteq Fence /\ OutRow(held'[c], ip) \subseteq Fence
  BY RowCounts
<1> QED
  BY <1>1, <1>2, <1>3, <1>4

\* A submission acquires wakelocks, or gives them back when a check fails.
LEMMA AcquirePower ==
  ASSUME IInv, PowerInv, NEW c \in Cmd, SubmitBegins(c) \/ SubmitRefused(c)
  PROVE  PowerInv'
<1>1. Types
  BY DEF IInv
<1>2. /\ fence' = fence
      /\ \A d \in Cmd : d # c => pc'[d] = pc[d] /\ held'[d] = held[d]
      /\ \/ /\ pc[c] # "lock" /\ pc'[c] = "lock"
            /\ \A f \in Fence : f \notin Out[c] => held'[c][f] = {}
            /\ wakelocks' = [ip \in Ips |-> wakelocks[ip] + InLocks(c, ip)
                                              + OutLocks(held'[c], ip)]
         \/ /\ pc[c] = "lock" /\ pc'[c] # "lock"
            /\ wakelocks' = [ip \in Ips |-> wakelocks[ip] - InLocks(c, ip)
                                              - OutLocks(held[c], ip)]
  <2>1. CASE SubmitBegins(c)
    BY <1>1, <2>1 DEF SubmitBegins, Types
  <2>2. CASE SubmitRefused(c)
    BY <1>1, <2>2 DEF SubmitRefused, Types
  <2> QED
    BY <2>1, <2>2
<1>3. HeldInv'
  BY <1>2 DEF PowerInv, HeldInv
<1>4. wakelocks \in [Ips -> Int]
  BY DEF PowerInv
<1>5. ASSUME NEW ip \in Ips
      PROVE  /\ wakelocks'[ip] = Cardinality(FenceLocks(ip)')
                  + Cardinality(WaiterLocks(ip)') + Cardinality(SignalerLocks(ip)')
             /\ wakelocks'[ip] \in Int
  <2> DEFINE W == {x \in WaiterLocks(ip) : x[1] # c}
             S == {x \in SignalerLocks(ip) : x[1] # c}
  <2>1. FenceLocks(ip)' = FenceLocks(ip) /\ Cardinality(FenceLocks(ip)) \in Nat
    BY <1>2, WakelockNat, TokensFinite DEF FenceLocks, WakelockOf
  <2>2. wakelocks[ip] = Cardinality(FenceLocks(ip)) + Cardinality(WaiterLocks(ip))
                          + Cardinality(SignalerLocks(ip))
    BY DEF PowerInv, WakelocksBalanced
  <2>3. /\ \A f \in Fence : <<c, f>> \notin W /\ <<c, f>> \notin S
        /\ W \in SUBSET (Cmd \X Fence) /\ S \in SUBSET (Cmd \X Fence)
        /\ pc[c] = "lock" => /\ WaiterLocks(ip) = W \cup ({c} \X Row(c, ip))
                             /\ SignalerLocks(ip) = S \cup ({c} \X OutRow(held[c], ip))
        /\ pc[c] # "lock" => WaiterLocks(ip) = W /\ SignalerLocks(ip) = S
    BY <1>1, RowsFact
  <2>4. /\ pc'[c] = "lock" => /\ WaiterLocks(ip)' = W \cup ({c} \X Row(c, ip))
                              /\ SignalerLocks(ip)' = S \cup ({c} \X OutRow(held'[c], ip))
        /\ pc'[c] # "lock" => WaiterLocks(ip)' = W /\ SignalerLocks(ip)' = S
    BY <1>1, <1>2, RowsStep
  <2> HIDE DEF W, S
  <2>5. /\ Row(c, ip) \in SUBSET Fence /\ OutRow(held[c], ip) \in SUBSET Fence
        /\ InLocks(c, ip) = Cardinality(Row(c, ip))
        /\ OutLocks(held[c], ip) = Cardinality(OutRow(held[c], ip))
    BY RowCounts
  <2>6. PICK h : h = held'[c]
    OBVIOUS
  <2>7. /\ OutRow(h, ip) \in SUBSET Fence
        /\ OutLocks(h, ip) = Cardinality(OutRow(h, ip))
    BY RowCounts
  <2>8. /\ Cardinality(W \cup ({c} \X Row(c, ip))) = Cardinality(W) + Cardinality(Row(c, ip))
        /\ Cardinality(W) \in Nat /\ Cardinality(Row(c, ip)) \in Nat
    <3>1. /\ W \in SUBSET (Cmd \X Fence) /\ \A f \in Fence : <<c, f>> \notin W
          /\ Row(c, ip) \in SUBSET Fence
      BY <2>3, <2>5
    <3> QED
      BY <3>1, RowFact
  <2>9. /\ Cardinality(S \cup ({c} \X OutRow(held[c], ip)))
             = Cardinality(S) + Cardinality(OutRow(held[c], ip))
        /\ Cardinality(S) \in Nat /\ Cardinality(OutRow(held[c], ip)) \in Nat
    BY <2>3, <2>5, RowFact
  <2>10. /\ Cardinality(S \cup ({c} \X OutRow(h, ip)))
              = Cardinality(S) + Cardinality(OutRow(h, ip))
         /\ Cardinality(OutRow(h, ip)) \in Nat
    <3>1. /\ S \in SUBSET (Cmd \X Fence) /\ \A f \in Fence : <<c, f>> \notin S
          /\ OutRow(h, ip) \in SUBSET Fence
      BY <2>3, <2>7
    <3> QED
      BY <3>1, RowFact
  <2>11. CASE pc[c] # "lock" /\ pc'[c] = "lock"
    <3>1. wakelocks'[ip] = wakelocks[ip] + InLocks(c, ip) + OutLocks(h, ip)
      BY <1>2, <2>6, <2>11
    <3>2. /\ WaiterLocks(ip)' = W \cup ({c} \X Row(c, ip))
          /\ SignalerLocks(ip)' = S \cup ({c} \X OutRow(h, ip))
          /\ WaiterLocks(ip) = W /\ SignalerLocks(ip) = S
      BY <2>3, <2>4, <2>6, <2>11
    <3> QED
      BY <2>1, <2>2, <2>5, <2>7, <2>8, <2>9, <2>10, <3>1, <3>2
  <2>12. CASE pc[c] = "lock" /\ pc'[c] # "lock"
    <3>1. wakelocks'[ip] = wakelocks[ip] - InLocks(c, ip) - OutLocks(held[c], ip)
      BY <1>2, <2>12
    <3>2. /\ WaiterLocks(ip) = W \cup ({c} \X Row(c, ip))
          /\ SignalerLocks(ip) = S \cup ({c} \X OutRow(held[c], ip))
          /\ WaiterLocks(ip)' = W /\ SignalerLocks(ip)' = S
      BY <2>3, <2>4, <2>12
    <3> QED
      BY <2>1, <2>2, <2>5, <2>8, <2>9, <3>1, <3>2
  <2> QED
    BY <1>2, <2>11, <2>12
<1>6. wakelocks' \in [Ips -> Int]
  <2>1. \E u : wakelocks' = [ip \in Ips |-> u[ip]]
    <3>1. CASE wakelocks' = [ip \in Ips |-> wakelocks[ip] + InLocks(c, ip)
                                              + OutLocks(held'[c], ip)]
      <4>1. wakelocks' = [ip \in Ips |-> wakelocks'[ip]]
        BY <3>1
      <4> QED
        BY <4>1
    <3>2. CASE wakelocks' = [ip \in Ips |-> wakelocks[ip] - InLocks(c, ip)
                                              - OutLocks(held[c], ip)]
      <4>1. wakelocks' = [ip \in Ips |-> wakelocks'[ip]]
        BY <3>2
      <4> QED
        BY <4>1
    <3> QED
      BY <1>2, <3>1, <3>2
  <2> QED
    BY <1>5, <2>1
<1> QED
  BY <1>3, <1>5, <1>6 DEF PowerInv, WakelocksBalanced

\* A submission hands its wakelocks over to its fences.
LEMMA SubmitPower ==
  ASSUME IInv, PowerInv, NEW c \in Cmd, Submit(c)
  PROVE  PowerInv'
<1>1. Types /\ PlaceInv
  BY DEF IInv
<1>2. /\ pc[c] = "lock" /\ pc'[c] = "sent" /\ wakelocks' = wakelocks
      /\ \A d \in Cmd : d # c => pc'[d] = pc[d] /\ held'[d] = held[d]
  BY <1>1 DEF Submit, Types
<1>3. In[c] \cap Out[c] = {} /\ In[c] \subseteq Fence /\ Out[c] \subseteq Fence
  BY <1>1, <1>2, IifAssumption DEF PlaceInv
<1>4. HeldInv'
  BY <1>2 DEF PowerInv, HeldInv
<1>5. ASSUME NEW ip \in Ips
      PROVE  wakelocks'[ip] = Cardinality(FenceLocks(ip)')
               + Cardinality(WaiterLocks(ip)') + Cardinality(SignalerLocks(ip)')
  <2> DEFINE W == {x \in WaiterLocks(ip) : x[1] # c}
             S == {x \in SignalerLocks(ip) : x[1] # c}
             X == Row(c, ip)
             Y == OutRow(held[c], ip)
             w == WakelockOf(ip)
             v == [g \in Fence |-> fence'[g].wakelock[ip]]
  <2>1. wakelocks[ip] = Cardinality(FenceLocks(ip)) + Cardinality(WaiterLocks(ip))
                          + Cardinality(SignalerLocks(ip))
    BY DEF PowerInv, WakelocksBalanced
  <2>2. /\ \A f \in Fence : <<c, f>> \notin W /\ <<c, f>> \notin S
        /\ W \in SUBSET (Cmd \X Fence) /\ S \in SUBSET (Cmd \X Fence)
        /\ WaiterLocks(ip) = W \cup ({c} \X X) /\ SignalerLocks(ip) = S \cup ({c} \X Y)
    BY <1>1, <1>2, RowsFact
  <2>3. WaiterLocks(ip)' = W /\ SignalerLocks(ip)' = S
    BY <1>1, <1>2, RowsStep
  <2>4. X \in SUBSET Fence /\ Y \in SUBSET Fence
    BY RowCounts
  <2>5. X \cap Y = {}
    BY <1>2, <1>3 DEF Row, OutRow, PowerInv, HeldInv
  <2>6. w \in [Fence -> Nat]
    BY WakelockNat
  <2>7. FenceLocks(ip) = Tokens(w) /\ FenceLocks(ip)' = Tokens(v)
    BY DEF FenceLocks, WakelockOf
  <2>8. v = [f \in Fence |-> w[f] + IF f \in X \cup Y THEN 1 ELSE 0]
    <3> SUFFICES ASSUME NEW f \in Fence
                 PROVE  fence'[f].wakelock[ip] =
                          fence[f].wakelock[ip] + IF f \in X \cup Y THEN 1 ELSE 0
      BY DEF WakelockOf
    <3>1. fence[f].wakelock[ip] \in Nat /\ fence[f] \in FenceRec
      BY <1>1, <2>6 DEF WakelockOf, Types
    <3>2. fence[f].wakelock \in [Ips -> Int]
      BY <3>1, RecFacts
    <3>3. CASE f \in Out[c]
      <4>1. fence'[f].wakelock = [i \in Ips |->
                fence[f].wakelock[i] + IF i \in held[c][f] THEN 1 ELSE 0]
        BY <1>1, <3>3, SubmitFacts
      <4>2. f \in X \cup Y <=> ip \in held[c][f]
        BY <1>3, <3>3 DEF Row, OutRow
      <4> QED
        BY <4>1, <4>2
    <3>4. CASE f \in In[c]
      <4>1. fence'[f].wakelock = [fence[f].wakelock EXCEPT ![IpOf[c]] = @ + 1]
        BY <1>1, <3>4, SubmitFacts
      <4>2. f \in X \cup Y <=> IpOf[c] = ip
        BY <1>2, <1>3, <3>4 DEF Row, OutRow, PowerInv, HeldInv
      <4> QED
        BY <3>1, <3>2, <4>1, <4>2
    <3>5. CASE f \notin Uses(c)
      <4>1. fence'[f] = fence[f]
        BY <1>1, <3>5, SubmitFacts
      <4>2. f \notin X \cup Y
        BY <1>2, <3>5 DEF Row, OutRow, PowerInv, HeldInv, Uses
      <4> QED
        BY <3>1, <4>1, <4>2
    <3> QED
      BY <3>3, <3>4, <3>5 DEF Uses
  <2> HIDE DEF W, S, X, Y, w, v
  <2>9. Cardinality(Tokens(v)) = Cardinality(Tokens(w)) + Cardinality(X \cup Y)
    BY <2>4, <2>6, <2>8, TokensMore
  <2>10. /\ Cardinality(W \cup ({c} \X X)) = Cardinality(W) + Cardinality(X)
         /\ Cardinality(W) \in Nat /\ Cardinality(X) \in Nat
    BY <2>2, <2>4, RowFact
  <2>11. /\ Cardinality(S \cup ({c} \X Y)) = Cardinality(S) + Cardinality(Y)
         /\ Cardinality(S) \in Nat /\ Cardinality(Y) \in Nat
    BY <2>2, <2>4, RowFact
  <2>12. Cardinality(X \cup Y) = Cardinality(X) + Cardinality(Y)
    <3>1. IsFiniteSet(X) /\ IsFiniteSet(Y)
      BY <2>4, IifAssumption, FS_Subset
    <3>2. Cardinality(X \cup Y) = Cardinality(X) + Cardinality(Y) - 0
      BY <2>5, <3>1, FS_Union, FS_EmptySet
    <3> QED
      BY <2>10, <2>11, <3>2
  <2>13. Cardinality(Tokens(w)) \in Nat
    BY <2>6, TokensFinite
  <2> QED
    BY <1>2, <2>1, <2>2, <2>3, <2>7, <2>9, <2>10, <2>11, <2>12, <2>13
<1> QED
  BY <1>2, <1>4, <1>5 DEF PowerInv, WakelocksBalanced

\* What a submission acquired before an acquisition failed is all rolled back.
LEMMA FailsReleases ==
  ASSUME NEW c \in Cmd, wakelocks \in [Ips -> Int], SubmitFails(c)
  PROVE  wakelocks' = wakelocks
<1>1. IpOf[c] \in Ips /\ In[c] \in SUBSET Fence /\ Out[c] \in SUBSET Fence
  BY IifAssumption
<1>2. IsFiniteSet(In[c]) /\ Cardinality(In[c]) \in Nat
  BY <1>1, IifAssumption, FS_Subset, FS_CardinalityType
<1>3. ASSUME NEW i \in 0 .. Cardinality(In[c]) - 1,
             wakelocks' = ReleaseFirst([wakelocks EXCEPT ![IpOf[c]] = @ + i], IpOf[c], i)
      PROVE  wakelocks' = wakelocks
  BY <1>1, <1>2, <1>3 DEF ReleaseFirst
<1>4. ASSUME NEW f \in Out[c], NEW s,
             wakelocks' = ReleaseFirst([ip \in Ips |-> wakelocks[ip] + InLocks(c, ip)
                            + OutLocks(HeldUpTo(c, f, s), ip)
                            - OutLocks(RolledBack(HeldUpTo(c, f, s), f), ip)],
                            IpOf[c], Cardinality(In[c]))
      PROVE  wakelocks' = wakelocks
  <2> DEFINE h == HeldUpTo(c, f, s)
             w == [ip \in Ips |-> wakelocks[ip] + InLocks(c, ip)]
  <2>1. RolledBack(h, f) = h
    BY <1>1, IifAssumption DEF RolledBack, HeldUpTo
  <2>2. ASSUME NEW ip \in Ips PROVE OutLocks(h, ip) \in Nat
    BY IifAssumption, RowCounts, FS_Subset, FS_CardinalityType
  <2>3. ASSUME NEW ip \in Ips
        PROVE  /\ InLocks(c, ip) \in Nat
               /\ InLocks(c, ip) = IF ip = IpOf[c] THEN Cardinality(In[c]) ELSE 0
    BY <1>2 DEF InLocks
  <2>4. wakelocks' = ReleaseFirst(w, IpOf[c], Cardinality(In[c]))
    <3>1. \A ip \in Ips : wakelocks[ip] + InLocks(c, ip) + OutLocks(h, ip)
                            - OutLocks(RolledBack(h, f), ip)
                          = wakelocks[ip] + InLocks(c, ip)
      BY <2>1, <2>2, <2>3
    <3>2. [ip \in Ips |-> wakelocks[ip] + InLocks(c, ip) + OutLocks(h, ip)
                            - OutLocks(RolledBack(h, f), ip)] = w
      BY <3>1, Zenon
    <3> QED
      BY <1>4, <3>2
  <2> QED
    BY <1>1, <1>2, <2>3, <2>4 DEF ReleaseFirst
<1>5. CASE UNCHANGED wakelocks
  BY <1>5
<1>6. CASE AcquireFails(c)
  BY <1>3, <1>4, <1>6 DEF AcquireFails
<1> QED
  BY <1>5, <1>6 DEF SubmitFails

\* The steps that leave the wakelocks alone.
LEMMA QuietPower ==
  ASSUME IInv, PowerInv, NEW c \in Cmd,
         \/ SubmitFails(c) \/ WriteLock(c) \/ FwSleeps(c) \/ FwRuns(c)
         \/ Arrived(c) \/ Aborted(c)
         \/ SignalBegins(c) \/ SignalWrites(c) \/ SignalCounts(c)
  PROVE  PowerInv'
<1>1. Types /\ PlaceInv
  BY DEF IInv
<1>2. CASE SubmitFails(c) \/ WriteLock(c) \/ FwSleeps(c) \/ FwRuns(c)
  <2>1. /\ fence' = fence /\ wakelocks' = wakelocks /\ held' = held
        /\ \A d \in Cmd : (pc'[d] = "lock") <=> (pc[d] = "lock")
    BY <1>1, <1>2, FailsReleases
    DEF PowerInv, SubmitFails, WriteLock, FwSleeps, FwRuns, submitVars, Types
  <2> QED
    BY <2>1, PowerSame
<1>3. CASE Arrived(c) \/ Aborted(c)
  <2>1. PICK e \in BOOLEAN : Completes(c, e)
    BY <1>3 DEF Arrived, Aborted
  <2>2. wakelocks' = wakelocks /\ held' = held
    BY <2>1 DEF Completes, submitVars
  <2>3. \A f \in Fence : fence'[f].wakelock = fence[f].wakelock
    BY <1>1, <2>1, CompletesFacts
  <2>4. \A d \in Cmd : (pc'[d] = "lock") <=> (pc[d] = "lock")
    BY <1>1, <2>1 DEF Completes, Goes, AfterSignals, Types
  <2> QED
    BY <2>2, <2>3, <2>4, PowerSame
<1>4. CASE SignalBegins(c)
  <2>1. wakelocks' = wakelocks /\ held' = held
    BY <1>4 DEF SignalBegins, submitVars
  <2>2. \A f \in Fence : fence'[f].wakelock = fence[f].wakelock
    BY <1>1, <1>4, BeginsFacts
  <2>3. \A d \in Cmd : (pc'[d] = "lock") <=> (pc[d] = "lock")
    BY <1>1, <1>4 DEF SignalBegins, Types
  <2> QED
    BY <2>1, <2>2, <2>3, PowerSame
<1>5. CASE SignalWrites(c)
  <2>1. wakelocks' = wakelocks /\ held' = held
    BY <1>5 DEF SignalWrites, submitVars
  <2>2. \A f \in Fence : fence'[f].wakelock = fence[f].wakelock
    BY <1>1, <1>5, WritesFacts
  <2>3. \A d \in Cmd : (pc'[d] = "lock") <=> (pc[d] = "lock")
    BY <1>1, <1>5 DEF SignalWrites, Types
  <2> QED
    BY <2>1, <2>2, <2>3, PowerSame
<1>6. CASE SignalCounts(c)
  <2>1. wakelocks' = wakelocks /\ held' = held
    BY <1>6 DEF SignalCounts, submitVars
  <2>2. \A f \in Fence : fence'[f].wakelock = fence[f].wakelock
    BY <1>1, <1>6, CountsFacts
  <2>3. \A d \in Cmd : (pc'[d] = "lock") <=> (pc[d] = "lock")
    <3>1. pc[c] = "count" /\ \E to : Goes(c, to) /\ to.pc # "lock"
      BY <1>6 DEF SignalCounts, AfterSignals
    <3> QED
      BY <1>1, <3>1 DEF Goes, Types
  <2> QED
    BY <2>1, <2>2, <2>3, PowerSame
<1> QED
  BY <1>2, <1>3, <1>4, <1>5, <1>6

\* A waiter that leaves, or the last signaler, gives wakelocks of one fence back.
LEMMA LeavePower ==
  ASSUME IInv, IInv', PowerInv, NEW c \in Cmd,
         SignalWaited(c) \/ WaiterCompletedAsync(c) \/ WaiterCompleted(c)
  PROVE  PowerInv'
<1> DEFINE f == Min(todo[c])
           ip == IpOf[c]
<1>1. Types /\ PlaceInv /\ WaiterPowered /\ ip \in Ips
  BY IifAssumption DEF IInv
<1>2. held' = held /\ pc[c] \in {"inline", "waited"}
  BY DEF SignalWaited, WaiterCompletedAsync, WaiterCompleted, submitVars
<1>3. \E to : Goes(c, to) /\ to.pc # "lock"
  <2>1. AfterSignals(c, todo[c] \ {f}).pc # "lock" /\ AfterWaits(todo[c] \ {f}).pc # "lock"
    BY DEF AfterSignals, AfterWaits
  <2>2. \/ Goes(c, AfterSignals(c, todo[c] \ {f}))
        \/ Goes(c, AfterWaits(todo[c] \ {f}))
    BY DEF SignalWaited, WaiterCompletedAsync, WaiterCompleted
  <2> QED
    BY <2>1, <2>2
<1>4. \A d \in Cmd : (pc'[d] = "lock") <=> (pc[d] = "lock")
  BY <1>1, <1>2, <1>3 DEF Goes, Types
<1>5. f \in Fence
  BY <1>1, <1>2, FirstFact
<1>6. CASE SignalWaited(c)
  <2>1. WaitedWorkFunc(f)
    BY <1>6 DEF SignalWaited
  <2> HIDE DEF f, ip
  <2>2. \A g \in Fence : g # f => fence'[g].wakelock = fence[g].wakelock
    BY <1>1, <1>5, <2>1, WaitedFacts
  <2>3. PICK n : /\ wakelocks' = [i \in Ips |-> wakelocks[i] - n[i]]
                 /\ fence'[f].wakelock = [i \in Ips |-> fence[f].wakelock[i] - n[i]]
                 /\ \A i \in Ips : n[i] \in Int /\ n[i] >= 0
    BY <1>1, <1>5, <2>1, WaitedFacts
  <2> QED
    BY <1>2, <1>4, <1>5, <2>2, <2>3, PowerLess
<1>7. CASE WaiterCompletedAsync(c) \/ WaiterCompleted(c)
  <2>1. /\ \A g \in Fence : g # f => fence'[g].wakelock = fence[g].wakelock
        /\ \/ wakelocks' = wakelocks /\ fence'[f].wakelock = fence[f].wakelock
           \/ \E n \in {0, 1} :
                /\ wakelocks' = [wakelocks EXCEPT ![ip] = @ - n]
                /\ fence'[f].wakelock = [fence[f].wakelock EXCEPT ![ip] = @ - n]
    BY <1>1, <1>5, <1>7, LeavesFacts
  <2> HIDE DEF f, ip
  <2>2. CASE wakelocks' = wakelocks /\ fence'[f].wakelock = fence[f].wakelock
    <3>1. \A g \in Fence : fence'[g].wakelock = fence[g].wakelock
      BY <2>1, <2>2
    <3> QED
      BY <1>2, <1>4, <2>2, <3>1, PowerSame
  <2>3. ASSUME NEW n \in {0, 1},
               wakelocks' = [wakelocks EXCEPT ![ip] = @ - n],
               fence'[f].wakelock = [fence[f].wakelock EXCEPT ![ip] = @ - n]
        PROVE  PowerInv'
    <3>1. /\ wakelocks \in [Ips -> Int] /\ fence[f].wakelock \in [Ips -> Int]
      BY <1>1, <1>5, RecFacts DEF PowerInv, Types
    <3>2. PICK m : m = [i \in Ips |-> IF i = ip THEN n ELSE 0]
      OBVIOUS
    <3>3. \A i \in Ips : m[i] \in Int /\ m[i] >= 0
      BY <3>2
    <3>4. \A i \in Ips : wakelocks[i] - m[i] = IF i = ip THEN wakelocks[i] - n
                                                         ELSE wakelocks[i]
      BY <3>1, <3>2
    <3>5. wakelocks' = [i \in Ips |-> wakelocks[i] - m[i]]
      BY <1>1, <2>3, <3>1, <3>4
    <3>6. \A i \in Ips : fence'[f].wakelock[i] = fence[f].wakelock[i] - m[i]
      BY <1>1, <2>3, <3>1, <3>2
    <3> QED
      BY <1>2, <1>4, <1>5, <2>1, <3>3, <3>5, <3>6, PowerLess
  <2> QED
    BY <2>1, <2>2, <2>3
<1> QED
  BY <1>6, <1>7

\* The works of a fence, its pollers, its file and its end.
LEMMA FencePower ==
  ASSUME IInv, IInv', PowerInv, NEW f \in Fence,
         \/ FenceStep(f) \/ CloseFile(f) \/ Poll(f)
         \/ \E off \in BOOLEAN : SetDisablePoll(f, off)
  PROVE  PowerInv'
<1>1. Types /\ WaiterPowered
  BY DEF IInv
<1>2. pc' = pc /\ held' = held
  BY DEF FenceStep, WaitedWork, SignaledWork, Destroy, CloseFile, Poll, SetDisablePoll,
         submitVars
<1>3. CASE WaitedWork(f)
  <2>1. WaitedWorkFunc(f)
    BY <1>3 DEF WaitedWork
  <2>2. \A g \in Fence : g # f => fence'[g].wakelock = fence[g].wakelock
    BY <1>1, <2>1, WaitedFacts
  <2>3. PICK n : /\ wakelocks' = [i \in Ips |-> wakelocks[i] - n[i]]
                 /\ fence'[f].wakelock = [i \in Ips |-> fence[f].wakelock[i] - n[i]]
                 /\ \A i \in Ips : n[i] \in Int /\ n[i] >= 0
    BY <1>1, <2>1, WaitedFacts
  <2> QED
    BY <1>2, <2>2, <2>3, PowerLess
<1>4. CASE SignaledWork(f)
  <2>1. \A g \in Fence : fence'[g].wakelock = fence[g].wakelock
    BY <1>1, <1>4, SignaledFacts
  <2>2. wakelocks' = wakelocks
    BY <1>4 DEF SignaledWork
  <2> QED
    BY <1>2, <2>1, <2>2, PowerSame
<1>5. CASE CloseFile(f)
  <2>1. \A g \in Fence : fence'[g].wakelock = fence[g].wakelock
    BY <1>1, <1>5, CloseFileFacts
  <2>2. wakelocks' = wakelocks
    BY <1>5 DEF CloseFile
  <2> QED
    BY <1>2, <2>1, <2>2, PowerSame
<1>6. CASE Poll(f) \/ \E off \in BOOLEAN : SetDisablePoll(f, off)
  <2>1. \A g \in Fence : fence'[g].wakelock = fence[g].wakelock
    BY <1>1, <1>6, PollerFacts
  <2>2. wakelocks' = wakelocks
    BY <1>6 DEF Poll, SetDisablePoll
  <2> QED
    BY <1>2, <2>1, <2>2, PowerSame
<1>7. CASE Destroy(f)
  <2>1. /\ \A g \in Fence : g # f => fence'[g].wakelock = fence[g].wakelock
        /\ fence'[f].wakelock = [i \in Ips |-> 0]
    BY <1>1, <1>7, DestroysFacts
  <2>2. PICK n : n = fence[f].wakelock
    OBVIOUS
  <2>3. wakelocks' = [i \in Ips |-> wakelocks[i] - n[i]]
    BY <1>7, <2>2 DEF Destroy
  <2>4. \A i \in Ips : n[i] \in Nat
    BY <2>2, WakelockNat DEF WakelockOf
  <2>5. \A i \in Ips : /\ n[i] \in Int /\ n[i] >= 0
                       /\ fence'[f].wakelock[i] = fence[f].wakelock[i] - n[i]
    BY <2>1, <2>2, <2>4
  <2> QED
    BY <1>2, <2>1, <2>3, <2>5, PowerLess
<1> QED
  BY <1>3, <1>4, <1>5, <1>6, <1>7 DEF FenceStep

\* At the beginning no wakelock is out.
LEMMA PowerInit == Init => PowerInv
<1> SUFFICES ASSUME Init PROVE PowerInv
  OBVIOUS
<1>1. /\ \A c \in Cmd : pc[c] = "idle"
      /\ \A f \in Fence : fence[f] = FenceInit
      /\ wakelocks = [ip \in Ips |-> 0]
  BY DEF Init
<1>2. FenceInit.wakelock = [ip \in Ips |-> 0]
  BY DEF FenceInit
<1>3. ASSUME NEW ip \in Ips
      PROVE  FenceLocks(ip) = {} /\ WaiterLocks(ip) = {} /\ SignalerLocks(ip) = {}
  <2>1. ASSUME NEW x PROVE x \notin FenceLocks(ip)
    <3>1. PICK w : w = [f \in Fence |-> fence[f].wakelock[ip]]
      OBVIOUS
    <3>2. \A f \in Fence : w[f] = 0
      BY <1>1, <1>2, <3>1
    <3>3. x \notin Tokens(w)
      BY <3>2, TokenFact
    <3> QED
      BY <3>1, <3>3 DEF FenceLocks
  <2> QED
    BY <1>1, <2>1 DEF WaiterLocks, SignalerLocks
<1>4. ASSUME NEW ip \in Ips
      PROVE  wakelocks[ip] = Cardinality(FenceLocks(ip))
               + Cardinality(WaiterLocks(ip)) + Cardinality(SignalerLocks(ip))
  BY <1>1, <1>3, FS_EmptySet
<1> QED
  BY <1>1, <1>4 DEF PowerInv, HeldInv, WakelocksBalanced

\* Every step keeps the balance.
LEMMA PowerStep == IInv /\ IInv' /\ PowerInv /\ [Next]_vars => PowerInv'
<1> SUFFICES ASSUME IInv, IInv', PowerInv, [Next]_vars PROVE PowerInv'
  OBVIOUS
<1>1. ASSUME NEW c \in Cmd, SubmitBegins(c) \/ SubmitFails(c) \/ SubmitStep(c)
                              \/ FwSleeps(c) \/ FwRuns(c) \/ Arrived(c) \/ Aborted(c)
      PROVE  PowerInv'
  BY <1>1, QuietPower, AcquirePower, SubmitPower DEF SubmitStep
<1>2. ASSUME NEW c \in Cmd, CompleteStep(c) PROVE PowerInv'
  BY <1>2, QuietPower, LeavePower DEF CompleteStep
<1>3. ASSUME NEW f \in Fence,
             \/ FenceStep(f) \/ CloseFile(f) \/ Poll(f)
             \/ \E off \in BOOLEAN : SetDisablePoll(f, off)
      PROVE  PowerInv'
  BY <1>3, FencePower
<1>4. CASE UNCHANGED vars
  BY <1>4, PowerSame DEF vars, submitVars
<1> QED
  BY <1>1, <1>2, <1>3, <1>4 DEF Next

\* The block wakelocks an IP has handed out are those its fences and the
\* submissions under way account for: the error path of a submission, the waited
\* work, a waiter that leaves and the end of a fence each give back exactly what was
\* taken.
THEOREM WakelocksAddUp == Spec => []WakelocksBalanced
<1>1. PowerInv => WakelocksBalanced
  BY DEF PowerInv
<1> QED
  BY <1>1, PowerInit, PowerStep, FencesInductive, PTL DEF Spec

\* A record whose counts stay within their bounds.
LEMMA FenceTypeFact ==
  ASSUME NEW f \in Fence, NEW r \in FenceRec,
         r.submitted \in 0 .. Total[f], r.signalers \in 0 .. Total[f],
         r.timeline \in 0 .. Total[f],
         r.waiting \in [Ips -> Nat], r.wakelock \in [Ips -> Nat]
  PROVE  r \in FenceType(f)
  BY DEF FenceRec, FenceType

\* No more signals are counted than were submitted.
LEMMA CountedFact ==
  ASSUME IInv, NEW f \in Fence
  PROVE  fence[f].signalers \in 0 .. Total[f] /\ fence[f].submitted \in 0 .. Total[f]
<1>1. fence[f] \in FenceRec /\ Total[f] \in Nat
  BY IifAssumption DEF IInv, Types
<1>2. fence[f].submitted \in Nat /\ fence[f].signalers \in Nat
  BY <1>1 DEF FenceRec
<1>3. Counted(f) \subseteq Signalers(f) /\ Signalers(f) \in SUBSET Cmd
  BY DEF Counted, Signalers, HasCounted, InFirmware
<1>4. IsFiniteSet(Signalers(f))
  BY <1>3, IifAssumption, FS_Subset
<1>5. Cardinality(Counted(f)) <= Cardinality(Signalers(f))
  BY <1>3, <1>4, FS_Subset
<1>6. /\ fence[f].submitted = Cardinality(Signalers(f))
      /\ fence[f].submitted <= Total[f]
      /\ ~fence[f].destroyed => fence[f].signalers = Cardinality(Counted(f))
      /\ fence[f].destroyed => fence[f].signalers = Total[f]
  BY DEF IInv, CountInv, EndInv
<1> QED
  BY <1>1, <1>2, <1>5, <1>6

\* The bounds of the type invariant follow from the inductive invariant.
LEMMA TypesFact == IInv /\ PowerInv => TypeOK
<1> SUFFICES ASSUME IInv, PowerInv PROVE TypeOK
  OBVIOUS
<1>1. Types
  BY DEF IInv
<1>2. ASSUME NEW f \in Fence PROVE fence[f] \in FenceType(f)
  <2>1. fence[f] \in FenceRec
    BY <1>1 DEF Types
  <2>2. fence[f].wakelock \in [Ips -> Int] /\ fence[f].waiting \in [Ips -> Int]
    BY <2>1, RecFacts
  <2>3. fence[f].wakelock \in [Ips -> Nat]
    BY <2>2, WakelockNat DEF WakelockOf
  <2>4. \A ip \in Ips : fence[f].waiting[ip] \in Nat
    BY SetsFact, CardFact DEF IInv, CountInv
  <2>5. fence[f].waiting \in [Ips -> Nat]
    BY <2>2, <2>4
  <2>6. fence[f].timeline \in Nat /\ fence[f].timeline <= Total[f] /\ Total[f] \in Nat
    BY <2>1, IifAssumption DEF FenceRec, IInv, TableInv
  <2>7. fence[f].timeline \in 0 .. Total[f]
    BY <2>6
  <2> QED
    BY <2>1, <2>3, <2>5, <2>7, CountedFact, FenceTypeFact
<1>3. ASSUME NEW f \in Fence PROVE table[f] \in [rem : 0 .. Total[f], err : BOOLEAN]
  <2>1. table[f] \in [rem : Nat, err : BOOLEAN] /\ Total[f] \in Nat
    BY <1>1, IifAssumption DEF Types
  <2>2. Cardinality(Written(f)) \in Nat
    BY SetsFact, CardFact
  <2>3. table[f].rem + Cardinality(Written(f)) <= Total[f]
    BY DEF IInv, TableInv
  <2>4. table[f].rem \in 0 .. Total[f]
    BY <2>1, <2>2, <2>3
  <2> QED
    BY <2>1, <2>4
<1>4. ASSUME NEW ip \in Ips PROVE wakelocks[ip] \in Nat
  <2>1. Cardinality(FenceLocks(ip)) \in Nat
    BY WakelockNat, TokensFinite DEF FenceLocks, WakelockOf
  <2>2. wakelocks[ip] = Cardinality(FenceLocks(ip)) + Cardinality(WaiterLocks(ip))
                          + Cardinality(SignalerLocks(ip))
    BY DEF PowerInv, WakelocksBalanced
  <2> QED
    BY <2>1, <2>2, PairsFact
<1>5. wakelocks \in [Ips -> Nat]
  BY <1>4 DEF PowerInv
<1> QED
  BY <1>1, <1>2, <1>3, <1>5 DEF TypeOK, Types

\* Every variable has its type; the counters of a fence never pass the number of its
\* signalers and no count of waiters or wakelocks becomes negative.
THEOREM FencesTypeCorrect == Spec => []TypeOK
<1>1. Spec => []PowerInv
  BY PowerInit, PowerStep, FencesInductive, PTL DEF Spec
<1> QED
  BY <1>1, TypesFact, FencesInductive, PTL
=============================================================================
