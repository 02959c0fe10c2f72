------------------------------ MODULE JobBoard ------------------------------
(***************************************************************************)
(* What the web UI promises of its buttons, without the job store, its ids *)
(* and locks, the subprocesses and the laptops that use the plane          *)
(* meanwhile: a command runs once at a time, an entry of the board is      *)
(* settled once, and its page is told what became of it and nothing else,  *)
(* unless the daemon restarted in between.  Commands implements it.        *)
(***************************************************************************)
EXTENDS Sequences

CONSTANT Cmds    \* the commands the buttons stand for

VARIABLE board
    \* what was posted, in order: the command, how it stands ("running",
    \* "done", "failed"), what its page was last told, and whether the daemon
    \* restarted under the page

Init == board = <<>>

Runs(c) == \E i \in DOMAIN board : board[i].cmd = c /\ board[i].st = "running"

Post(c) ==
    /\ ~Runs(c)
    /\ board' = Append(board, [cmd |-> c, st |-> "running", told |-> "running",
                               lost |-> FALSE])

Settle(i, st) ==
    /\ board[i].st = "running"
    /\ board' = [board EXCEPT ![i].st = st]

\* A page asks until it is told of an end.  After a restart anything may be
\* the answer: the entry is not known any more, or its id is another's.
Tell(i, word) ==
    /\ board[i].told = "running"
    /\ board[i].lost \/ word = board[i].st
    /\ board' = [board EXCEPT ![i].told = word]

\* What runs is cut off, and who still asks has lost its entry.
Wiped(e) ==
    [cmd |-> e.cmd, st |-> IF e.st = "running" THEN "failed" ELSE e.st,
     told |-> e.told, lost |-> IF e.told = "running" THEN TRUE ELSE e.lost]

Restart == board' = [i \in DOMAIN board |-> Wiped(board[i])]

Next ==
    \/ \E c \in Cmds : Post(c)
    \/ \E i \in DOMAIN board :
           \/ \E st \in {"done", "failed"} : Settle(i, st)
           \/ \E word \in {"done", "failed", "unknown"} : Tell(i, word)
    \/ Restart

Spec == Init /\ [][Next]_board

=============================================================================
