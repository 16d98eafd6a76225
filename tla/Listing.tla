------------------------------ MODULE Listing ------------------------------
(***************************************************************************)
(* What ports, connections and interfaces promise of a system that moves    *)
(* under them, with no word of calls, buffers, retries or caches.  A picture*)
(* is taken of each table, at one moment each; something may be found out   *)
(* about the owners of what was seen, at any moments after the last picture;*)
(* the caller gets rows that are made of the pictures and of nothing else,  *)
(* or no rows and an error.                                                 *)
(***************************************************************************)
EXTENDS Naturals, Sequences

CONSTANTS
    Sources,                \* the number of tables
    Owners,                 \* whom their entries may belong to
    Answers(_, _, _, _)     \* Answers(request, pictures, observed, rows)

VARIABLES
    request,    \* what the caller wants to see
    world,      \* the tables as they are now
    facts,      \* what can be found out now about each owner
    pictures,   \* the tables as they were seen
    observed,   \* what could be found out since the last picture was taken
    rows,
    outcome     \* "none", then "listed" or "failed"

vars == <<request, world, facts, pictures, observed, rows, outcome>>

Init ==
    /\ pictures = <<>>
    /\ observed = [o \in Owners |-> {}]
    /\ rows = <<>>
    /\ outcome = "none"

Complete == Len(pictures) = Sources

\* The system moves as it likes.
Move ==
    /\ outcome = "none"
    /\ observed' = IF Complete THEN [o \in Owners |-> observed[o] \cup {facts'[o]}]
                   ELSE observed
    /\ UNCHANGED <<request, pictures, rows, outcome>>

Take ==
    /\ outcome = "none" /\ ~Complete
    /\ pictures' = Append(pictures, world[Len(pictures) + 1])
    /\ observed' = IF Len(pictures) + 1 = Sources THEN [o \in Owners |-> {facts[o]}]
                   ELSE observed
    /\ UNCHANGED <<request, world, facts, rows, outcome>>

Deliver ==
    /\ outcome = "none" /\ Complete
    /\ Answers(request, pictures, observed, rows')
    /\ outcome' = "listed"
    /\ UNCHANGED <<request, world, facts, pictures, observed>>

Refuse ==
    /\ outcome = "none"
    /\ outcome' = "failed"
    /\ UNCHANGED <<request, world, facts, pictures, observed, rows>>

Next == Move \/ Take \/ Deliver \/ Refuse

Safety == Init /\ [][Next]_vars
=============================================================================
