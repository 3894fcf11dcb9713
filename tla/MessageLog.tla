------------------------------ MODULE MessageLog ------------------------------
(***************************************************************************)
(* What two-person conversations promise their participants: each thread is *)
(* a log that only grows at its end, and a request, however often it is     *)
(* sent, is in one log at most, once, with the content it came with.        *)
(***************************************************************************)
EXTENDS Sequences, Naturals

CONSTANTS
    Thread,     \* conversations
    Request,    \* request keys, each of one sender
    Text        \* contents

VARIABLE log    \* per thread: its messages, oldest first

Entry == [request : Request, text : Text]

Init == log = [c \in Thread |-> <<>>]

Posted(r) == \E c \in Thread : \E i \in 1..Len(log[c]) : log[c][i].request = r

Post(c, e) ==
    /\ ~Posted(e.request)
    /\ log' = [log EXCEPT ![c] = Append(@, e)]

Next == \E c \in Thread, e \in Entry : Post(c, e)

Spec == Init /\ [][Next]_log
=============================================================================
