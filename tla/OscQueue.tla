------------------------------ MODULE OscQueue ------------------------------
(***************************************************************************)
(* What core::osc_buffer_t promises: a queue of OSC packets of bounded     *)
(* size.  submit() adds a packet at the end or refuses one that does not   *)
(* fit, fetch() takes the oldest packet or leaves one that is larger than  *)
(* the caller's memory, clear() empties the queue.  A packet is a sequence *)
(* of words and takes one word more for its size.                          *)
(***************************************************************************)
EXTENDS Integers, Sequences

CONSTANTS
  Capacity,   \* how many words the queue can hold
  Packets,    \* the packets callers submit
  Limits      \* the sizes of memory callers fetch into

VARIABLES
  queue,      \* the packets submitted and not yet taken, oldest first
  submitted,  \* status of the last submit()
  fetched     \* status of the last fetch() and the packet it returned

queueVars == <<queue, submitted, fetched>>

(* The words that the packets take. *)
Used == LET upTo[k \in 0..Len(queue)] ==
              IF k = 0 THEN 0 ELSE upTo[k - 1] + Len(queue[k]) + 1
        IN  upTo[Len(queue)]

QueueInit ==
  /\ queue = <<>>
  /\ submitted = "NONE"
  /\ fetched = [status |-> "NONE", data |-> <<>>]

QueueSubmit(p) ==
  /\ submitted' = IF p = <<>> THEN "BAD_ARGUMENTS"
                  ELSE IF Used + Len(p) + 1 <= Capacity THEN "OK"
                  ELSE IF queue = <<>> THEN "TOO_BIG" ELSE "OVERFLOW"
  /\ queue' = IF submitted' = "OK" THEN Append(queue, p) ELSE queue
  /\ UNCHANGED fetched

QueueFetch(limit) ==
  /\ fetched' = IF queue = <<>> THEN [status |-> "NO_DATA", data |-> <<>>]
                ELSE IF Len(Head(queue)) > limit THEN [status |-> "OVERFLOW", data |-> <<>>]
                ELSE [status |-> "OK", data |-> Head(queue)]
  /\ queue' = IF fetched'.status = "OK" THEN Tail(queue) ELSE queue
  /\ UNCHANGED submitted

QueueClear == queue' = <<>> /\ UNCHANGED <<submitted, fetched>>

QueueNext == \/ \E p \in Packets : QueueSubmit(p)
             \/ \E limit \in Limits : QueueFetch(limit)
             \/ QueueClear

QueueSpec == QueueInit /\ [][QueueNext]_queueVars
=============================================================================
