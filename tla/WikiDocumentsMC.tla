------------------------- MODULE WikiDocumentsMC -------------------------
EXTENDS WikiDocuments, TLC

CONSTANTS ann, kim

OneAdminOneMember == [u \in {ann, kim} |-> IF u = ann THEN "admin" ELSE "club_member"]

(* Rows that name roles the present defaults do not, and a missing row. *)
OldLists ==
  {None,
   [update |-> {"login_user"}, rename |-> {"login_user", "admin"}, move |-> {"login_user"},
    delete |-> {}]}

(* Nothing distinguishes titles, categories or contents among themselves. *)
Symmetry == Permutations(Titles) \cup Permutations(Categories) \cup Permutations(Contents)

===========================================================================
