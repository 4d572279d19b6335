---------------------------- MODULE SpendingBooks ----------------------------
(***************************************************************************)
(* What the results directory promises about money, whatever the command,  *)
(* the controller and the model client do in detail.                       *)
(*                                                                         *)
(* Every directory a task has ever had is a book: what the provider        *)
(* charged while the directory was in use, what a scan of the disk shows   *)
(* of it, and how many calls the disk is behind.  A task writes in its     *)
(* last book only; a book that is turned over is never touched again, and  *)
(* a settled task neither charges nor writes any more.                     *)
(***************************************************************************)
EXTENDS Naturals, Sequences

CONSTANTS
    Tasks,
    MaxCallCost,    \* the most one call is charged
    Lag             \* how many calls the disk may be behind

VARIABLES
    books,      \* task -> its books, the last one in use
    settled     \* the tasks with a final result

Blank == [charged |-> 0, shown |-> 0, behind |-> 0]

Init == books = [t \in Tasks |-> <<Blank>>] /\ settled = {}

Current(t) == books[t][Len(books[t])]

Rewrite(t, charged, shown, behind) ==
    books' = [books EXCEPT ![t][Len(books[t])] =
                 [charged |-> charged, shown |-> shown, behind |-> behind]]

\* A paid call; the disk may only be so many calls behind.
Charge(t) ==
    /\ t \notin settled /\ Current(t).behind < Lag
    /\ \E cost \in 1 .. MaxCallCost :
           Rewrite(t, Current(t).charged + cost, Current(t).shown, Current(t).behind + 1)
    /\ UNCHANGED settled

\* The disk catches up, with every call at once.
Show(t) ==
    /\ t \notin settled
    /\ Rewrite(t, Current(t).charged, Current(t).charged, 0)
    /\ UNCHANGED settled

TurnOver(t) ==
    /\ t \notin settled
    /\ books' = [books EXCEPT ![t] = Append(@, Blank)]
    /\ UNCHANGED settled

Settle(t) ==
    /\ t \notin settled /\ settled' = settled \cup {t}
    /\ UNCHANGED books

Next == \E t \in Tasks : Charge(t) \/ Show(t) \/ TurnOver(t) \/ Settle(t)

Spec == Init /\ [][Next]_<<books, settled>>
=============================================================================
