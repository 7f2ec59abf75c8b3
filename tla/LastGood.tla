------------------------------ MODULE LastGood -------------------------------
(***************************************************************************)
(* What the syncer promises, without saying how: a pod shows, and keeps on   *)
(* disk, the last good answer of every source, each source on its own.       *)
(* Both change only by taking in what has been answered since the start; of  *)
(* a source that has not answered they stay as they were.  Only handles that *)
(* are excluded by now fall away.  What is shown after a start is what was   *)
(* kept, unless it cannot be read.                                           *)
(***************************************************************************)
CONSTANTS
    Sources,     \* the sources
    Good,        \* Good[s]: the answers of s that are good enough to be taken in
    Policies,    \* the sets of excluded handles that a start may find
    NoAnswer     \* not answered since the start

VARIABLES
    running,     \* the pod runs
    excluded,    \* the handles excluded in this run of it
    answer,      \* the last good answer of each source in this run
    served,      \* what is served of each source
    kept         \* what is on disk of each source

vars == <<running, excluded, answer, served, kept>>

Silence == [s \in Sources |-> {}]
Unanswered == [s \in Sources |-> NoAnswer]

Visible(ms) == {m \in ms : m.handle \notin excluded}
TakenIn(old) ==
    [s \in Sources |-> Visible(IF answer[s] = NoAnswer THEN old[s] ELSE answer[s])]

Init ==
    /\ running = FALSE
    /\ excluded = {}
    /\ answer = Unanswered
    /\ served = Silence
    /\ kept = Silence

Start ==
    /\ ~running /\ running' = TRUE
    /\ excluded' \in Policies
    /\ served' \in {kept, Silence}
    /\ UNCHANGED <<answer, kept>>

Hear(s) ==
    /\ running
    /\ \E a \in Good[s] : answer' = [answer EXCEPT ![s] = a]
    /\ UNCHANGED <<running, excluded, served, kept>>

Serve ==
    /\ running
    /\ served' = TakenIn(served)
    /\ UNCHANGED <<running, excluded, answer, kept>>

Keep ==
    /\ running
    /\ kept' = TakenIn(kept)
    /\ UNCHANGED <<running, excluded, answer, served>>

\* The pod dies, perhaps with its disk.
Stop ==
    /\ running /\ running' = FALSE
    /\ excluded' = {}
    /\ answer' = Unanswered
    /\ served' = Silence
    /\ kept' \in {kept, Silence}

Next == Start \/ (\E s \in Sources : Hear(s)) \/ Serve \/ Keep \/ Stop

Spec == Init /\ [][Next]_vars

=============================================================================
