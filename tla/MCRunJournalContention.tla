----------------------- MODULE MCRunJournalContention -----------------------
(* Several runs of few tasks that compete for shared resources, without    *)
(* effects: creation, closing, recovery and repeated requests.             *)
EXTENDS RunJournal, TLC

Symmetry == UNION {Permutations(Runs), Permutations(Keys),
                   Permutations(Tasks), Permutations(Requests)}
=============================================================================
