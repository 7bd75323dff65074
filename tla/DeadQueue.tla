------------------------------- MODULE DeadQueue -------------------------------
(***************************************************************************)
(* The dead queue of a web connection (app/platform/web_conn.go): a ring   *)
(* of the last messages written to the socket, from which a client that    *)
(* comes back is sent what it missed.  A message is its sequence number,   *)
(* the connection id it announces (0 but for a hello) and the event it     *)
(* carries; Nil is the empty slot.                                         *)
(***************************************************************************)
EXTENDS Integers

CONSTANT DeadQueueSize    \* deadQueueSize, 128 in the code

ASSUME DeadQueueSizeOK == DeadQueueSize \in Nat \ {0, 1}

Slots == 0..(DeadQueueSize - 1)

Nil == [seq |-> -1, hello |-> 0, ev |-> 0]

ClearedDeadQueue == [i \in Slots |-> Nil]

NextSlot_NoWrap(p) == p + 1   \* mutant: the pointer runs off the ring

NextSlot(p) == IF p + 1 = DeadQueueSize THEN 0 ELSE p + 1

AddToDeadQueue(dq, p, m) == [dq EXCEPT ![p] = m]

\* Whether a sequence number is in the queue, and where: the search stops at
\* the first empty slot.
InDeadQueue(dq, seq, i) ==
    /\ dq[i].seq = seq
    /\ \A j \in Slots : j <= i => dq[j] # Nil

HasMsgLoss_Off(dq, p, seq) ==   \* mutant: the wrapped pointer is not looked back from
    p # 0 /\ dq[p - 1].seq # seq - 1

\* Whether the next sequence wanted is not the one right after the newest.
HasMsgLoss(dq, p, seq) ==
    IF p = 0
    THEN dq[0] # Nil /\ dq[DeadQueueSize - 1].seq # seq - 1
    ELSE dq[p - 1].seq # seq - 1

\* The slots written again, from i on: to the pointer when the ring has not
\* rolled over, else up to the slot after which the sequence falls back.
DrainLength(dq, p, i) ==
    LET At(k) == dq[(i + k) % DeadQueueSize].seq
        Falls(k) == At(k) > At(k + 1)
    IN  IF dq[p] = Nil THEN p - i
        ELSE 1 + CHOOSE k \in Slots : Falls(k) /\ \A j \in Slots : j < k => ~Falls(j)

DrainDeadQueue(dq, p, i) ==
    [k \in 1..DrainLength(dq, p, i) |-> dq[(i + k - 1) % DeadQueueSize]]
=============================================================================
