----------------------------- MODULE TaskLibrary -----------------------------
(***************************************************************************)
(* What the download pipeline promises the user of it: a list of picture   *)
(* sets and a shelf with their pictures.  A set gets onto the list only by *)
(* being added; it is shown as finished only when every picture it counts  *)
(* was on the shelf before; whatever is on the shelf stays there as it is. *)
(* A set may be taken up again, or off the list, at any time.              *)
(***************************************************************************)
EXTENDS Naturals

CONSTANTS
    Tasks,      \* the picture sets
    Pics,       \* the numbers a picture of a set may have
    None        \* no picture

VARIABLES
    list,       \* list[t]: what the list says of set t
    goal,       \* goal[t]: the pictures a finished set t counts
    shelf       \* shelf[t][i]: whose picture has the place of picture i of t

libraryVars == <<list, goal, shelf>>

States == {"absent", "waiting", "working", "finished"}

Init ==
    /\ list = [t \in Tasks |-> "absent"]
    /\ goal = [t \in Tasks |-> 0]
    /\ shelf = [t \in Tasks |-> [i \in Pics |-> None]]

Store(t, i) ==
    /\ shelf[t][i] = None
    /\ shelf' = [shelf EXCEPT ![t][i] = t]
    /\ UNCHANGED <<list, goal>>

IsComplete(t, n) == \A i \in 1..n : shelf[t][i] = t

(* What a step may do to the entry of one set.                             *)
Kept(t) == list'[t] = list[t] /\ goal'[t] = goal[t]

Added(t) == list[t] = "absent" /\ list'[t] = "waiting" /\ goal'[t] = 0

Finished(t) ==
    /\ list[t] # "absent"
    /\ list'[t] = "finished"
    /\ IsComplete(t, goal'[t])

TakenUp(t) ==
    /\ list[t] # "absent"
    /\ list'[t] \in {"absent", "waiting", "working"}
    /\ goal'[t] = 0

(* Several entries may change at once: a launch resets and finishes all    *)
(* unfinished sets, and everything may be taken off the list.              *)
Edit ==
    /\ list' \in [Tasks -> States]
    /\ \A t \in Tasks : Kept(t) \/ Added(t) \/ Finished(t) \/ TakenUp(t)
    /\ UNCHANGED shelf

Next == Edit \/ \E t \in Tasks, i \in Pics : Store(t, i)

Spec == Init /\ [][Next]_libraryVars
=============================================================================
