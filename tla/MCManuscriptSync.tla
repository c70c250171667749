-------------------------- MODULE MCManuscriptSync --------------------------
(* ManuscriptSync for TLC: one document, asked for or edited in the tree, *)
(* or two that share the checkout.                                         *)
EXTENDS ManuscriptSync, TLC

OneDocument  == [docs |-> 1, several |-> FALSE, commits |-> 1, quiet |-> {},
                 failures |-> 1, requests |-> 1, edits |-> FALSE]
EditedTree   == [OneDocument EXCEPT !.requests = 0, !.edits = TRUE]
QuietCommit  == [OneDocument EXCEPT !.commits = 2, !.quiet = {2}, !.requests = 0]
TwoDocuments == [OneDocument EXCEPT !.docs = 2, !.several = TRUE, !.failures = 0]
MCSetups == {OneDocument, EditedTree, QuietCommit, TwoDocuments}

(* A second request lets the builds of both pull within one window.        *)
TwoRequests == {[TwoDocuments EXCEPT !.requests = 2]}
=============================================================================
