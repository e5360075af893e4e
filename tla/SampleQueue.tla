---------------------------- MODULE SampleQueue ----------------------------
(***************************************************************************)
(* What a ring of sample blocks promises to the thread that fills it and   *)
(* to the thread that drains it: a bounded FIFO of blocks which can be     *)
(* closed, after which nothing more enters, and reopened empty.            *)
(* The consumer looks at the oldest block in place (Peek) and only then    *)
(* removes it (Take): what it removes is what it looked at.                *)
(***************************************************************************)
EXTENDS Naturals, Sequences

CONSTANTS
    Data,       \* the possible contents of a block
    NoData,     \* "the consumer is not looking at a block"
    Capacity    \* how many committed blocks fit

VARIABLES
    queue,      \* committed blocks, oldest first
    open,       \* FALSE between Close and Reopen
    look        \* the block the consumer looks at, or NoData

qvars == <<queue, open, look>>

QInit ==
    /\ queue = <<>>
    /\ open = TRUE
    /\ look = NoData

Put ==
    /\ open
    /\ Len(queue) < Capacity
    /\ \E d \in Data : queue' = Append(queue, d)
    /\ UNCHANGED <<open, look>>

Peek ==
    /\ queue # <<>>
    /\ look' = Head(queue)
    /\ UNCHANGED <<queue, open>>

Take ==
    /\ queue # <<>>
    /\ look = Head(queue)
    /\ queue' = Tail(queue)
    /\ look' = NoData
    /\ UNCHANGED open

Close ==
    /\ open' = FALSE
    /\ UNCHANGED <<queue, look>>

Reopen ==
    /\ look = NoData
    /\ queue' = <<>>
    /\ open' = TRUE
    /\ UNCHANGED look

QNext == Put \/ Peek \/ Take \/ Close \/ Reopen

QSpec == QInit /\ [][QNext]_qvars
=============================================================================
