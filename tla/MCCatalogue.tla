---------------------------- MODULE MCCatalogue ----------------------------
(***************************************************************************)
(* Instances of Catalogue, and of the Accounts in it, for TLC.  A budget   *)
(* is one scenario: accounts racing and changing hands; an account the     *)
(* script meets half-made; the script killed and run again beside its      *)
(* owner.                                                                  *)
(***************************************************************************)
EXTENDS Catalogue

CONSTANTS admin, luke, guest, mock, review, own, w1, w2

(* Threads serving requests are alike, and only safety is checked here. *)
Alike == Permutations({w1, w2})

None == [r \in Requests |-> 0]

MCBudgets ==
  { [None EXCEPT !["signups"] = 2, !["guests"] = 1, !["seeds"] = 1, !["switches"] = 3],
    [None EXCEPT !["signups"] = 1, !["catalogues"] = 2, !["kills"] = 1, !["edits"] = 1],
    [None EXCEPT !["catalogues"] = 2, !["kills"] = 1, !["edits"] = 3] }

(* Saturday: 10:00 to 15:00 in quarters of an hour. *)
MCSeeded == [start |-> 600, end |-> 900, step |-> 15]

MCEntries == << [title |-> mock, length |-> 60], [title |-> review, length |-> 45] >>

(* The same hours on the default grid of half-hours, and an hour before. *)
MCOwnerWindows ==
  { [start |-> 600, end |-> 900, step |-> 30], [start |-> 540, end |-> 600, step |-> 30] }
=============================================================================
