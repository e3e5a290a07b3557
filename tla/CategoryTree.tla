--------------------------- MODULE CategoryTree ---------------------------
(***************************************************************************)
(* The category table and the three handlers of routers/categories.py that *)
(* write it.  A handler runs from its first check to its commit without    *)
(* giving the event loop away, so it is one action.  The requesting user   *)
(* is represented by its role, None when there is no user.                 *)
(***************************************************************************)
EXTENDS PermissionPolicy

CONSTANTS
  Unset,           \* a field that an update request leaves out
  RequestedRoles   \* bound: the roles that requests to change a permission name

VARIABLE wikicategory   \* name -> [parent, write_permission], or None

CategoryRow == [parent : Categories \cup {None}, write_permission : Role]

ASSUME RequestAssumption ==
  /\ Unset \notin Categories \cup Role \cup {None}
  /\ RequestedRoles \subseteq Role
  /\ None \notin CategoryRow \cup Role

CategoryTypeOK == wikicategory \in [Categories -> CategoryRow \cup {None}]

NoCategory == [c \in Categories |-> None]

\* Mutant: a role that does not exist.
DefaultMisspelt == "member"

(* The column default of write_permission. *)
DefaultWritePermission == "club_member"

(* A category of a release without write_permission: a root, with the      *)
(* default that migrate_legacy_schema fills in.                            *)
LegacyCategory(c) ==
  [NoCategory EXCEPT ![c] = [parent |-> None, write_permission |-> DefaultWritePermission]]

CategoryInit == wikicategory = NoCategory \/ \E c \in Categories : wikicategory = LegacyCategory(c)

---------------------------------------------------------------------------

(* WikiCategoryCreate has no write_permission: the column default applies, *)
(* whatever the parent demands.                                            *)
create_category(role, name, parent) ==
  /\ can_perform(role, "category_create")
  /\ wikicategory[name] = None
  /\ parent \in Stored(wikicategory) \cup {None}
  /\ wikicategory' =
       [wikicategory EXCEPT ![name] = [parent |-> parent, write_permission |-> DefaultWritePermission]]

\* Mutant: looks one step up only.
would_be_own_parent(name, parent) == parent = name

(* Walks up from the new parent until it meets the category or runs out. *)
would_create_cycle(name, parent) == parent # None /\ name \in Ancestors(wikicategory, parent)

\* Mutant: compares with the parent, not with its lineage.
MeetsParentOnly(requested, parent) ==
  Grade[requested] >= Grade[wikicategory[parent].write_permission]

(* A permission may not be stored below what the parent's lineage demands. *)
MeetsFloor(requested, parent) ==
  LET floor == effective_category_role(wikicategory, parent)
  IN  floor # None /\ Grade[requested] >= Grade[floor]

(* The request may set the parent, the permission, or both.  The floor is   *)
(* looked at only when the request sets the permission.                     *)
update_category(role, name, parent, write_permission) ==
  LET row  == wikicategory[name]
      next == IF parent = Unset THEN row.parent ELSE parent
  IN  /\ can_perform(role, "admin")
      /\ row # None
      /\ parent # Unset =>
           /\ parent \in Stored(wikicategory) \cup {None}
           /\ ~would_create_cycle(name, parent)
      /\ write_permission # Unset /\ next \notin {None, EmptyName} =>
           MeetsFloor(write_permission, next)
      /\ wikicategory' =
           [wikicategory EXCEPT ![name] =
              [parent |-> next,
               write_permission |->
                 IF write_permission = Unset THEN row.write_permission ELSE write_permission]]

(* The category and everything below it. *)
descendant_names(name) == {c \in Stored(wikicategory) : name \in Ancestors(wikicategory, c)}

(* Refused while a document uses the category or a descendant; used is the *)
(* set of the categories that documents name.                              *)
delete_category(role, name, used) ==
  /\ can_perform(role, "admin")
  /\ wikicategory[name] # None
  /\ descendant_names(name) \cap used = {}
  /\ wikicategory' =
       [c \in Categories |-> IF c \in descendant_names(name) THEN None ELSE wikicategory[c]]

EditCategory(role) ==
  \E name \in Categories :
    \/ \E parent \in Categories \cup {None} : create_category(role, name, parent)
    \/ \E parent \in Categories \cup {None, Unset}, write_permission \in RequestedRoles \cup {Unset} :
          update_category(role, name, parent, write_permission)

(* On its own, the table meets requests of every role, and any set of names *)
(* may be in use.                                                           *)
CategoryNext ==
  \E role \in Role \cup {None} :
    \/ EditCategory(role)
    \/ \E name \in Categories, used \in SUBSET Categories : delete_category(role, name, used)

CategorySpec == CategoryInit /\ [][CategoryNext]_wikicategory

---------------------------------------------------------------------------

(* Every category hangs below a root: get_categories, which starts at the  *)
(* roots and recurses into the children, shows all of them and terminates. *)
(* It fails with a missing parent or a cycle, which the comment at         *)
(* categories.py:86 fears of create_category, and would lock everyone but  *)
(* administrators out of the category's documents.                         *)
EveryCategoryUnderARoot ==
  \A c \in Stored(wikicategory) :
    \E r \in Ancestors(wikicategory, c) : wikicategory[r].parent = None

(* A step that changes a stored permission leaves it at or above the role  *)
(* that the row's parent, as stored after the step, passes down.           *)
PermissionChangeMeetsNewFloor ==
  [][\A c \in Stored(wikicategory) \cap Stored(wikicategory') :
       LET parent == wikicategory'[c].parent
       IN  wikicategory'[c].write_permission # wikicategory[c].write_permission /\ parent # None
             => Grade[wikicategory'[c].write_permission]
                  >= Grade[effective_category_role(wikicategory', parent)]]_wikicategory

(* The written policy: a setting is not stored below that of the parent    *)
(* (AUTHORIZATION_AUDIT.md:11).  Rows that a later change of the parent     *)
(* leaves below it do not count, the policy provides for them.             *)
NeverStoredBelowParent ==
  [][\A c \in Stored(wikicategory') :
       LET row == wikicategory'[c]
       IN  row # wikicategory[c] /\ row.parent # None =>
             Grade[row.write_permission] >= Grade[wikicategory'[row.parent].write_permission]]_wikicategory

===========================================================================
