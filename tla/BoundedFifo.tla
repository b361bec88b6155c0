---------------------------- MODULE BoundedFifo ----------------------------
(***************************************************************************)
(* What mpmc_bounded_queue promises its users: one FIFO of at most Size    *)
(* values.  The values ever accepted form a log; the first `taken' of them *)
(* have been handed out, each to exactly one consumer, in the order in     *)
(* which they were accepted.  An operation may always decline (return      *)
(* false), which is a stuttering step here.                                *)
(***************************************************************************)
EXTENDS Naturals, Sequences

CONSTANTS Consumers, Values, NoValue, Size

VARIABLES log,      \* every value accepted so far, oldest first
          taken,    \* how many of them have been handed out
          received  \* received[c]: the value most recently handed to c

fifoVars == <<log, taken, received>>

FifoInit == /\ log = <<>>
            /\ taken = 0
            /\ received = [c \in Consumers |-> NoValue]

Put(v) == /\ Len(log) - taken < Size
          /\ log' = Append(log, v)
          /\ UNCHANGED <<taken, received>>

Get(c) == /\ taken < Len(log)
          /\ taken' = taken + 1
          /\ received' = [received EXCEPT ![c] = log[taken + 1]]
          /\ UNCHANGED log

FifoNext == \/ \E v \in Values : Put(v)
            \/ \E c \in Consumers : Get(c)

FifoSpec == FifoInit /\ [][FifoNext]_fifoVars
=============================================================================
