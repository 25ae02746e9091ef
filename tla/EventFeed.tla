------------------------------ MODULE EventFeed ------------------------------
(***************************************************************************)
(* What a subscriber of the workspace events is promised: it follows the   *)
(* committed log from its beginning without skipping or repeating an       *)
(* event, and what it shows of a workspace is never older than the events  *)
(* it has followed and never older than what it has shown already.         *)
(***************************************************************************)
EXTENDS Naturals, Sequences, FiniteSets

CONSTANT Workspaces

VARIABLES
    log,    \* the committed events: the workspace each one is about
    seen,   \* the subscriber has followed the first seen of them
    shown   \* the revision it shows of each workspace, 0 for none

vars == <<log, seen, shown>>

(* Each event raises the revision of its workspace by one, so the revision *)
(* an event carries is the number of events of its workspace up to it.     *)
RevisionAt(n, w) == Cardinality({i \in 1..n : log[i] = w})

Later(x, y) == IF x >= y THEN x ELSE y

(* What is shown of ws after the records as of the n-th event came in.     *)
Refreshed(n, ws) ==
    [w \in Workspaces |-> IF w \in ws THEN Later(shown[w], RevisionAt(n, w)) ELSE shown[w]]

Init ==
    /\ log = <<>>
    /\ seen = 0
    /\ shown = [w \in Workspaces |-> 0]

Commit(w) ==
    /\ log' = Append(log, w)
    /\ UNCHANGED <<seen, shown>>

Follow(n) ==
    /\ n > seen
    /\ seen' = n
    /\ shown' = Refreshed(n, Workspaces)
    /\ UNCHANGED log

(* An answer or a list may be ahead of the events.                         *)
Show(n, ws) ==
    /\ shown' = Refreshed(n, ws)
    /\ UNCHANGED <<log, seen>>

(* Shown before the session ends, forgotten with it.                       *)
Forget ==
    /\ seen' = 0
    /\ shown' = [w \in Workspaces |-> 0]
    /\ UNCHANGED log

Next ==
    \/ \E w \in Workspaces : Commit(w)
    \/ \E n \in 1..Len(log) : Follow(n) \/ \E ws \in SUBSET Workspaces : Show(n, ws)
    \/ Forget

Spec == Init /\ [][Next]_vars
==============================================================================
