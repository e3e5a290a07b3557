------------------------- MODULE PermissionPolicy -------------------------
(***************************************************************************)
(* The authorization policy of core/permissions.py, as pure operators.     *)
(*                                                                         *)
(* A role is the string stored in WikiUser.permission; None stands for a   *)
(* request without a user, a missing parent and a missing row.  The        *)
(* category table is a function from names to rows, None where there is no *)
(* row.  A list of roles (a Permissions column) is the set of its members, *)
(* because the policy only looks for its lowest grade.                     *)
(***************************************************************************)
EXTENDS Naturals

CONSTANTS
  Categories,   \* names a category can have
  EmptyName,    \* the empty string: as a parent, falsy in Python, yet not None
  None

ASSUME NoneAssumption == None \notin Categories

---------------------------------------------------------------------------
(* Roles and the minimum role of each action. *)

Grade == [admin |-> 100, club_member |-> 50, login_user |-> 10]

Role == DOMAIN Grade

\* Mutant: the global minimum of an edit is the lowest role.
LoginUsersEdit ==
  [admin            |-> "admin",
   document_create  |-> "login_user",
   document_update  |-> "login_user",
   document_rename  |-> "login_user",
   document_move    |-> "admin",
   document_delete  |-> "admin",
   category_create  |-> "admin"]

MINIMUM_ROLES ==
  [admin            |-> "admin",
   document_create  |-> "login_user",
   document_update  |-> "club_member",
   document_rename  |-> "club_member",
   document_move    |-> "admin",
   document_delete  |-> "admin",
   category_create  |-> "admin"]

DOCUMENT_FIELDS ==
  [document_update |-> "update",
   document_rename |-> "rename",
   document_move   |-> "move",
   document_delete |-> "delete"]

is_admin(role) == role = "admin"

(* Only an administrator reaches a minimum that is admin or unknown. *)
RolesReaching(minimum) ==
  {"admin"} \cup
  IF minimum \in Role \ {"admin"} THEN {r \in Role : Grade[r] >= Grade[minimum]} ELSE {}

has_minimum_role(role, minimum) == role \in RolesReaching(minimum)

can_perform(role, action) == has_minimum_role(role, MINIMUM_ROLES[action])

(* The lowest grade of the list decides: it is enough to meet one of its  *)
(* members, provided that every member is a known role.                   *)
meets_document_roles(role, roles) ==
  \/ is_admin(role)
  \/ /\ roles \subseteq Role
     /\ \E minimum \in roles : has_minimum_role(role, minimum)

---------------------------------------------------------------------------
(* Walks up the category tree. *)

Stored(cats) == {c \in DOMAIN cats : cats[c] # None}

(* Sets closed under "parent of", following only the names in Followed. *)
ClosedUpwards(cats, Followed) ==
  {S \in SUBSET Stored(cats) :
     \A c \in S : cats[c].parent \in Stored(cats) \cap Followed => cats[c].parent \in S}

(* c and every ancestor a walk from c meets. *)
Lineage(cats, c, Followed) ==
  LET closed == {S \in ClosedUpwards(cats, Followed) : c \in S}
  IN  {a \in Stored(cats) : \A S \in closed : a \in S}

(* The loop that looks for a cycle goes on until the parent is None ... *)
Ancestors(cats, c) == Lineage(cats, c, DOMAIN cats)

(* ... the one that collects roles until the parent is falsy. *)
Floors(cats, c) == Lineage(cats, c, DOMAIN cats \ {EmptyName})

\* Mutant: a category does not inherit the floors above it.
OwnRole(cats, c) == cats[c].write_permission

HighestOf(roles) == CHOOSE role \in roles : \A other \in roles : Grade[role] >= Grade[other]

(* A walk that ends does so at a root.  The other outcomes, a missing parent *)
(* and a category met twice, have no role: only administrators may write.    *)
effective_category_role(cats, c) ==
  LET lineage == Floors(cats, c)
  IN  IF c \in Stored(cats) /\ \E r \in lineage : cats[r].parent \in {None, EmptyName}
      THEN HighestOf({cats[a].write_permission : a \in lineage})
      ELSE None

can_write_category(role, cats, c) ==
  has_minimum_role(role, effective_category_role(cats, c))

---------------------------------------------------------------------------
(* Documents.  doc and permissions are rows or None. *)

can_read_document(role, doc) == doc # None /\ (~doc.is_private \/ is_admin(role))

(* What the global minimum, the document's own list and the category grant. *)
Granted(role, action, doc, permissions, cats) ==
  /\ can_perform(role, action)
  /\ permissions # None /\ meets_document_roles(role, permissions[DOCUMENT_FIELDS[action]])
  /\ can_write_category(role, cats, doc.category)

can_perform_document(user, role, action, doc, permissions, cats) ==
  /\ can_read_document(role, doc)
  /\ \/ is_admin(role)
     \/ /\ action = "document_delete"
        /\ has_minimum_role(role, "login_user")
        /\ user = doc.created_by
     \/ /\ action # "document_delete"
        /\ Granted(role, action, doc, permissions, cats)
        /\ action # "document_update" => Granted(role, "document_update", doc, permissions, cats)

===========================================================================
