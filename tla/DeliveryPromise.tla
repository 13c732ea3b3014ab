--------------------------- MODULE DeliveryPromise ---------------------------
(***************************************************************************)
(* What the send-later queue promises of every message, whichever threads  *)
(* work on it and whatever statuses they write over one another's:         *)
(*   - the relay gets a first copy, one more for each failure before it,   *)
(*     and further ones only of a message the user asked for again that    *)
(*     did not come in as a failed immediate send;                         *)
(*   - a message the user withdrew reaches the relay only after the user   *)
(*     asked for it again;                                                 *)
(*   - what is shown as sent was sent, cannot be withdrawn, and stays so   *)
(*     unless the user asked for it again before.                          *)
(* Statuses, attempts, passwords and threads do not show.                  *)
(***************************************************************************)
EXTENDS Naturals

CONSTANT Messages

VARIABLES
  copies,     \* how often the relay has the message
  stored,     \* messages of the queue
  direct,     \* those of them that were to be sent at once
  shown,      \* those shown as sent
  withdrawn,  \* those whose cancellation was confirmed
  repeated,   \* those the user asked for again
  losses      \* answers of the relay and statements that were lost

promiseVars == <<copies, stored, direct, shown, withdrawn, repeated, losses>>

PromiseInit ==
  /\ copies = [m \in Messages |-> 0]
  /\ stored = {} /\ direct = {} /\ shown = {} /\ withdrawn = {} /\ repeated = {}
  /\ losses = 0

(* A copy is owed: there is none so far, or all were paid for by failures. *)
Owed(m) == copies[m] <= losses

(* A message enters the queue, from the scheduler or from a send that      *)
(* failed.                                                                 *)
Keep(m) ==
  /\ m \notin stored /\ Owed(m)
  /\ stored' = stored \cup {m}
  /\ direct' \in {direct, direct \cup {m}}
  /\ UNCHANGED <<copies, shown, withdrawn, repeated, losses>>

(* The relay takes a copy, and its answer may be lost.                     *)
Transmit(m) ==
  /\ Owed(m) \/ m \in repeated \ direct
  /\ m \in withdrawn => m \in repeated
  /\ copies' = [copies EXCEPT ![m] = @ + 1]
  /\ losses' \in {losses, losses + 1}
  /\ UNCHANGED <<stored, direct, shown, withdrawn, repeated>>

Show(m) ==
  /\ m \in stored /\ copies[m] > 0
  /\ shown' = shown \cup {m}
  /\ UNCHANGED <<copies, stored, direct, withdrawn, repeated, losses>>

(* A thread that read the row before it was sent writes over the status.   *)
Unshow(m) ==
  /\ m \in shown \cap repeated
  /\ shown' = shown \ {m}
  /\ UNCHANGED <<copies, stored, direct, withdrawn, repeated, losses>>

Withdraw(m) ==
  /\ m \in stored \ (shown \cup direct)
  /\ withdrawn' = withdrawn \cup {m}
  /\ UNCHANGED <<copies, stored, direct, shown, repeated, losses>>

Repeat(m) ==
  /\ m \in stored \ shown
  /\ repeated' = repeated \cup {m}
  /\ losses' \in {losses, losses + 1}
  /\ UNCHANGED <<copies, stored, direct, shown, withdrawn>>

(* A statement fails, or the relay takes nothing.                          *)
Lose ==
  /\ losses' = losses + 1
  /\ UNCHANGED <<copies, stored, direct, shown, withdrawn, repeated>>

PromiseNext ==
  \/ \E m \in Messages :
       Keep(m) \/ Transmit(m) \/ Show(m) \/ Unshow(m) \/ Withdraw(m) \/ Repeat(m)
  \/ Lose

PromiseSpec == PromiseInit /\ [][PromiseNext]_promiseVars
=============================================================================
