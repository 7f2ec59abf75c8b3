-------------------------------- MODULE Feed ---------------------------------
(***************************************************************************)
(* What the cluster promises, without saying how: there is one sequence of   *)
(* snapshots, each reader shows a position in it that only grows until the   *)
(* reader is restarted, and when the sequence is closed every reader comes   *)
(* to show its end.                                                          *)
(***************************************************************************)
EXTENDS Naturals, Sequences

CONSTANTS
    Readers,      \* those who follow the feed
    Snapshots     \* what may be in it

VARIABLES
    feed,         \* the snapshots, oldest first
    shown,        \* the position each reader shows, 0 for nothing yet
    closed        \* nothing is added and nobody restarts from here on

vars == <<feed, shown, closed>>

Init ==
    /\ feed = << >>
    /\ shown = [r \in Readers |-> 0]
    /\ closed = FALSE

Add ==
    /\ ~closed
    /\ \E x \in Snapshots : feed' = Append(feed, x)
    /\ UNCHANGED <<shown, closed>>

\* A reader may skip snapshots, and need not show the last one yet.
Advance(r) ==
    /\ \E n \in 1 .. Len(feed) : n > shown[r] /\ shown' = [shown EXCEPT ![r] = n]
    /\ UNCHANGED <<feed, closed>>

Restart(r) ==
    /\ ~closed
    /\ shown' = [shown EXCEPT ![r] = 0]
    /\ UNCHANGED <<feed, closed>>

Close ==
    /\ ~closed /\ closed' = TRUE
    /\ UNCHANGED <<feed, shown>>

Next ==
    \/ Add \/ Close
    \/ \E r \in Readers : Advance(r) \/ Restart(r)

Spec == Init /\ [][Next]_vars

\* Of a closed feed a reader never stops short of the end.
FairSpec == Spec /\ \A r \in Readers : WF_vars(closed /\ Advance(r))

=============================================================================
