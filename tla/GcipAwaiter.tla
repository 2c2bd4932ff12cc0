---------------------------- MODULE GcipAwaiter ----------------------------
(***************************************************************************)
(* What gcip-mailbox.h promises of an asynchronous command, without the    *)
(* queues, the sequence numbers and the wait list that implement it.  The  *)
(* awaiter is claimed once, by a response, by its timeout, by the driver   *)
(* that cancels it or by the release of the mailbox; the driver is called  *)
(* back for a claim that is not its own; and the awaiter lives as long as  *)
(* the driver, the wait list and the timeout work hold references to it.   *)
(* GcipMailbox is shown to implement this module, EdgetpuIkv is built on   *)
(* top of it.                                                              *)
(***************************************************************************)
EXTENDS Naturals

CONSTANTS
  Async,     \* commands sent with gcip_mailbox_put_cmd_flags
  NoTimeout  \* those sent with GCIP_MAILBOX_CMD_FLAGS_NO_TIMEOUT

VARIABLES
  phase,  \* what has become of each command
  refs,   \* who holds a reference to its awaiter
  canc    \* the driver's thread in gcip_mailbox_cancel_awaiter

awaiterVars == <<phase, refs, canc>>

Holders == {"driver", "list", "timer"}
Phases == {"none", "sending", "listed", "arrived", "timedout", "flushed",
           "handled", "removed", "failed"}

AwaiterInit ==
  /\ phase = [c \in Async |-> "none"]
  /\ refs = [c \in Async |-> {}]
  /\ canc = [c \in Async |-> "no"]

Becomes(c, from, to) == phase[c] = from /\ phase' = [phase EXCEPT ![c] = to]
Drops(c, holders) == refs' = [refs EXCEPT ![c] = @ \ holders]

\* gcip_mailbox_put_cmd_flags up to gcip_mailbox_enqueue_cmd.
Send(c) ==
  /\ Becomes(c, "none", "sending")
  /\ refs' = [refs EXCEPT ![c] =
                {"driver"} \cup (IF c \in NoTimeout THEN {} ELSE {"timer"})]
  /\ UNCHANGED canc

\* It returns an error, with the awaiter freed.
SendFails(c) ==
  /\ Becomes(c, "sending", "failed")
  /\ Drops(c, Holders)
  /\ UNCHANGED canc

\* gcip_mailbox_push_wait_resp.
Listed(c) ==
  /\ Becomes(c, "sending", "listed")
  /\ refs' = [refs EXCEPT ![c] = @ \cup {"list"}]
  /\ UNCHANGED canc

\* gcip_mailbox_handle_response finds the awaiter and keeps its reference.
Arrives(c) ==
  /\ Becomes(c, "listed", "arrived")
  /\ UNCHANGED <<refs, canc>>

\* The timeout work takes the awaiter off the list.
TimesOut(c) ==
  /\ "timer" \in refs[c]
  /\ Becomes(c, "listed", "timedout")
  /\ Drops(c, {"list"})
  /\ UNCHANGED canc

\* The callback returns and the handled completion is done.
Handled(c) ==
  /\ Becomes(c, "arrived", "handled") \/ Becomes(c, "timedout", "handled")
  /\ UNCHANGED <<refs, canc>>

\* The arrived handler drops the reference that was the list's.
HandlerPuts(c) ==
  /\ phase[c] = "handled"
  /\ "list" \in refs[c]
  /\ Drops(c, {"list"})
  /\ UNCHANGED <<phase, canc>>

\* The timeout work is cancelled, or ends.  It may do so with the awaiter on
\* the list, when it expired before the awaiter was put there; it never does
\* between a claim of its own and the callback.
TimerPuts(c) ==
  /\ "timer" \in refs[c]
  /\ phase[c] # "timedout"
  /\ Drops(c, {"timer"})
  /\ UNCHANGED <<phase, canc>>

\* gcip_mailbox_cancel_awaiter: the timeout work is cancelled if it is still
\* scheduled, the awaiter is claimed, or its handler is waited for.
Cancels(c) ==
  /\ canc[c] = "no"
  /\ "driver" \in refs[c]
  /\ canc' = [canc EXCEPT ![c] = "del"]
  /\ UNCHANGED refs \/ Drops(c, {"timer"})
  /\ UNCHANGED phase

CancelRemoves(c) ==
  /\ canc[c] = "del"
  /\ canc' = [canc EXCEPT ![c] = "done"]
  /\ Becomes(c, "listed", "removed")
  /\ Drops(c, {"list"})

\* Mutation: the handler that came first is not waited for.
CancelDoesNotWait(c) ==
  /\ canc[c] = "del"
  /\ phase[c] # "listed"
  /\ canc' = [canc EXCEPT ![c] = "done"]
  /\ UNCHANGED <<phase, refs>>

CancelMisses(c) ==
  /\ canc[c] = "del"
  /\ phase[c] # "listed"
  /\ canc' = [canc EXCEPT ![c] = "wait"]
  /\ UNCHANGED <<phase, refs>>

CancelWaits(c) ==
  /\ canc[c] = "wait"
  /\ phase[c] = "handled"
  /\ canc' = [canc EXCEPT ![c] = "done"]
  /\ UNCHANGED <<phase, refs>>

\* The driver drops its reference, once the awaiter is claimed and with no
\* cancellation of its own under way.
DriverPuts(c) ==
  /\ phase[c] \in {"arrived", "timedout", "handled", "removed"}
  /\ "driver" \in refs[c]
  /\ canc[c] \in {"no", "done"}
  /\ Drops(c, {"driver"})
  /\ UNCHANGED <<phase, canc>>

\* gcip_mailbox_release claims all that is listed, then flushes one by one.
Release ==
  /\ phase' = [c \in Async |-> IF phase[c] = "listed" THEN "flushed" ELSE phase[c]]
  /\ UNCHANGED <<refs, canc>>

ListPuts(c) ==
  /\ phase[c] = "flushed"
  /\ "list" \in refs[c]
  /\ Drops(c, {"list"})
  /\ UNCHANGED <<phase, canc>>

Flushed(c) ==
  /\ Becomes(c, "flushed", "handled")
  /\ "list" \notin refs[c]
  /\ Drops(c, {"driver", "timer"})
  /\ UNCHANGED canc

AwaiterNext ==
  \/ Release
  \/ \E c \in Async :
       \/ Send(c) \/ SendFails(c) \/ Listed(c)
       \/ Arrives(c) \/ TimesOut(c) \/ Handled(c) \/ HandlerPuts(c) \/ TimerPuts(c)
       \/ Cancels(c) \/ CancelRemoves(c) \/ CancelMisses(c) \/ CancelWaits(c)
       \/ DriverPuts(c) \/ ListPuts(c) \/ Flushed(c)

AwaiterSpec == AwaiterInit /\ [][AwaiterNext]_awaiterVars

=============================================================================
