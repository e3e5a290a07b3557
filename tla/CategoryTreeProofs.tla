------------------------ MODULE CategoryTreeProofs ------------------------
(***************************************************************************)
(* For every set of category names: the category table keeps its type and  *)
(* stays a forest.                                                         *)
(*                                                                         *)
(* Ancestors are defined by closed sets, so no induction on the length of  *)
(* a walk is needed: a is an ancestor of c when every set of categories    *)
(* that holds c and, with a category, its parent, holds a.  The invariant  *)
(* is inductive as it stands, given the type.                              *)
(***************************************************************************)
EXTENDS CategoryTree, TLAPS

Table == [Categories -> CategoryRow \cup {None}]

(* S is closed under "parent of". *)
Closed(cats, S) ==
  /\ S \subseteq Stored(cats)
  /\ \A c \in S : cats[c].parent \in Stored(cats) => cats[c].parent \in S

UnderARoot(cats) ==
  \A c \in Stored(cats) : \E r \in Ancestors(cats, c) : cats[r].parent = None

---------------------------------------------------------------------------
(* Ancestors. *)

LEMMA StoredRows ==
  ASSUME NEW cats \in Table
  PROVE  /\ Stored(cats) \subseteq Categories
         /\ \A c \in Stored(cats) : cats[c] \in CategoryRow
         /\ \A c \in Categories : c \in Stored(cats) <=> cats[c] # None
BY DEF Table, Stored

LEMMA AncestorsByClosedSets ==
  ASSUME NEW cats \in Table, NEW c, NEW a
  PROVE  a \in Ancestors(cats, c) <=>
           a \in Stored(cats) /\ \A S : Closed(cats, S) /\ c \in S => a \in S
<1>1. \A S : S \in ClosedUpwards(cats, DOMAIN cats) <=> Closed(cats, S)
  BY DEF ClosedUpwards, Closed, Stored
<1>2. QED
  BY <1>1 DEF Ancestors, Lineage

(* An ancestor's ancestors are ancestors. *)
LEMMA AncestorsTransitive ==
  ASSUME NEW cats \in Table, NEW c, NEW b \in Ancestors(cats, c), NEW a \in Ancestors(cats, b)
  PROVE  a \in Ancestors(cats, c)
BY AncestorsByClosedSets

LEMMA OwnAncestor ==
  ASSUME NEW cats \in Table, NEW c \in Stored(cats)
  PROVE  c \in Ancestors(cats, c)
BY AncestorsByClosedSets

LEMMA ParentIsAncestor ==
  ASSUME NEW cats \in Table, NEW c \in Stored(cats), cats[c].parent \in Stored(cats)
  PROVE  cats[c].parent \in Ancestors(cats, c)
BY AncestorsByClosedSets DEF Closed

LEMMA ClosedMeet ==
  ASSUME NEW cats \in Table, NEW S, NEW T, Closed(cats, S), Closed(cats, T)
  PROVE  Closed(cats, S \cap T)
BY DEF Closed

---------------------------------------------------------------------------
(* The three ways a handler changes the table. *)

(* A new category below a stored parent, or a new root. *)
LEMMA CreateKeepsForest ==
  ASSUME NEW cats \in Table, NEW next \in Table, UnderARoot(cats),
         NEW name \in Categories, cats[name] = None,
         NEW row \in CategoryRow, row.parent \in Stored(cats) \cup {None},
         next = [cats EXCEPT ![name] = row]
  PROVE  UnderARoot(next)
<1>1. /\ Stored(next) = Stored(cats) \cup {name}
      /\ name \notin Stored(cats)
      /\ next[name] = row
      /\ \A c \in Stored(cats) : c \in Categories /\ next[c] = cats[c]
  BY RequestAssumption DEF Table, Stored
<1>2. \A S : Closed(next, S) => Closed(cats, S \ {name})
  <2>1. SUFFICES ASSUME NEW S, Closed(next, S), NEW c \in S \ {name},
                        cats[c].parent \in Stored(cats)
                 PROVE  cats[c].parent \in S \ {name}
    BY <1>1 DEF Closed
  <2>2. c \in Stored(cats) /\ next[c] = cats[c]
    BY <1>1, <2>1 DEF Closed
  <2>3. QED
    BY <1>1, <2>1, <2>2 DEF Closed
<1>3. ASSUME NEW c \in Stored(cats)
      PROVE  Ancestors(cats, c) \subseteq Ancestors(next, c)
  <2>1. SUFFICES ASSUME NEW a \in Ancestors(cats, c), NEW S, Closed(next, S), c \in S
                 PROVE  a \in S
    BY <1>1, AncestorsByClosedSets
  <2>2. Closed(cats, S \ {name}) /\ c \in S \ {name}
    BY <1>1, <1>2, <1>3, <2>1
  <2>3. a \in S \ {name}
    BY <2>1, <2>2, AncestorsByClosedSets
  <2>4. QED
    BY <2>3
<1>4. ASSUME NEW c \in Stored(cats)
      PROVE  \E r \in Ancestors(next, c) : next[r].parent = None
  <2>1. PICK r \in Ancestors(cats, c) : cats[r].parent = None
    BY <1>4 DEF UnderARoot
  <2>2. r \in Stored(cats)
    BY AncestorsByClosedSets
  <2>3. QED
    BY <1>1, <1>3, <1>4, <2>1, <2>2
<1>5. \E r \in Ancestors(next, name) : next[r].parent = None
  <2>1. CASE row.parent = None
    BY <1>1, <2>1, OwnAncestor
  <2>2. CASE row.parent \in Stored(cats)
    <3>1. PICK r \in Ancestors(next, row.parent) : next[r].parent = None
      BY <1>4, <2>2
    <3>2. row.parent \in Ancestors(next, name)
      BY <1>1, <2>2, ParentIsAncestor
    <3>3. QED
      BY <3>1, <3>2, AncestorsTransitive
  <2>3. QED
    BY <2>1, <2>2
<1>6. QED
  BY <1>1, <1>4, <1>5 DEF UnderARoot

(* Two tables that differ in the row of name only. *)
SameButFor(name, cats, next) ==
  /\ Stored(next) = Stored(cats)
  /\ \A c \in Stored(cats) \ {name} : next[c] = cats[c]

(* A category that some closed set separates from name keeps its root. *)
LEMMA SeparatedKeepsRoot ==
  ASSUME NEW cats \in Table, NEW next \in Table, UnderARoot(cats),
         NEW name, SameButFor(name, cats, next),
         NEW c, NEW S, Closed(next, S), c \in S, name \notin S
  PROVE  \E r \in Ancestors(next, c) : next[r].parent = None
<1>1. \A T : Closed(next, T) => Closed(cats, S \cap T)
  BY ClosedMeet DEF Closed, SameButFor
<1>2. c \in Stored(cats)
  BY DEF Closed, SameButFor
<1>3. PICK r \in Ancestors(cats, c) : cats[r].parent = None
  BY <1>2 DEF UnderARoot
<1>4. \A T : Closed(next, T) /\ c \in T => r \in S \cap T
  BY <1>1, <1>3, AncestorsByClosedSets
<1>5. r \in S /\ r \in Stored(cats)
  BY <1>3, <1>4, AncestorsByClosedSets
<1>6. next[r].parent = None
  BY <1>3, <1>5 DEF SameButFor
<1>7. r \in Ancestors(next, c)
  BY <1>4, <1>5, AncestorsByClosedSets DEF SameButFor
<1>8. QED
  BY <1>6, <1>7

(* A new parent that is no descendant. *)
LEMMA ReparentKeepsForest ==
  ASSUME NEW cats \in Table, NEW next \in Table, UnderARoot(cats),
         NEW name \in Stored(cats), SameButFor(name, cats, next),
         \/ next[name].parent = None
         \/ /\ next[name].parent \in Stored(cats)
            /\ name \notin Ancestors(cats, next[name].parent)
  PROVE  UnderARoot(next)
<1>1. \E r \in Ancestors(next, name) : next[r].parent = None
  <2>1. CASE next[name].parent = None
    BY <2>1, OwnAncestor DEF SameButFor
  <2>2. CASE /\ next[name].parent \in Stored(cats)
             /\ name \notin Ancestors(cats, next[name].parent)
    <3>1. PICK S : Closed(cats, S) /\ next[name].parent \in S /\ name \notin S
      BY <2>2, AncestorsByClosedSets
    <3>2. Closed(next, S)
      BY <3>1 DEF Closed, SameButFor
    <3>3. PICK r \in Ancestors(next, next[name].parent) : next[r].parent = None
      BY <3>1, <3>2, SeparatedKeepsRoot
    <3>4. next[name].parent \in Ancestors(next, name)
      BY <2>2, ParentIsAncestor DEF SameButFor
    <3>5. QED
      BY <3>3, <3>4, AncestorsTransitive
  <2>3. QED
    BY <2>1, <2>2
<1>2. SUFFICES ASSUME NEW c \in Stored(next)
               PROVE  \E r \in Ancestors(next, c) : next[r].parent = None
  BY DEF UnderARoot
<1>3. CASE name \in Ancestors(next, c)
  BY <1>1, <1>3, AncestorsTransitive
<1>4. CASE name \notin Ancestors(next, c)
  <2>1. PICK S : Closed(next, S) /\ c \in S /\ name \notin S
    BY <1>4, AncestorsByClosedSets DEF SameButFor
  <2>2. QED
    BY <2>1, SeparatedKeepsRoot
<1>5. QED
  BY <1>3, <1>4

(* A new permission. *)
LEMMA SameParentKeepsForest ==
  ASSUME NEW cats \in Table, NEW next \in Table, UnderARoot(cats),
         Stored(next) = Stored(cats),
         \A c \in Stored(cats) : next[c].parent = cats[c].parent
  PROVE  UnderARoot(next)
<1>1. \A S : Closed(next, S) <=> Closed(cats, S)
  BY DEF Closed
<1>2. SUFFICES ASSUME NEW c \in Stored(cats)
               PROVE  \E r \in Ancestors(next, c) : next[r].parent = None
  BY DEF UnderARoot
<1>3. PICK r \in Ancestors(cats, c) : cats[r].parent = None
  BY DEF UnderARoot
<1>4. QED
  BY <1>1, <1>3, AncestorsByClosedSets

(* A category goes with everything below it. *)
LEMMA DeleteKeepsForest ==
  ASSUME NEW cats \in Table, NEW next \in Table, UnderARoot(cats), NEW name,
         next = [c \in Categories |->
                   IF c \in Stored(cats) /\ name \in Ancestors(cats, c) THEN None ELSE cats[c]]
  PROVE  UnderARoot(next)
<1>1. /\ Stored(next) = {c \in Stored(cats) : name \notin Ancestors(cats, c)}
      /\ \A c \in Stored(next) : next[c] = cats[c]
  BY DEF Stored, Table
<1>2. \A S : Closed(next, S) => Closed(cats, S)
  <2>1. SUFFICES ASSUME NEW S, Closed(next, S), NEW c \in S, cats[c].parent \in Stored(cats)
                 PROVE  cats[c].parent \in S
    BY <1>1 DEF Closed
  <2>2. c \in Stored(cats) /\ name \notin Ancestors(cats, c) /\ next[c] = cats[c]
    BY <1>1, <2>1 DEF Closed
  <2>3. name \notin Ancestors(cats, cats[c].parent)
    BY <2>1, <2>2, ParentIsAncestor, AncestorsTransitive
  <2>4. QED
    BY <1>1, <2>1, <2>2, <2>3 DEF Closed
<1>3. SUFFICES ASSUME NEW c \in Stored(next)
               PROVE  \E r \in Ancestors(next, c) : next[r].parent = None
  BY DEF UnderARoot
<1>4. PICK r \in Ancestors(cats, c) : cats[r].parent = None
  BY <1>1 DEF UnderARoot
<1>5. r \in Stored(next)
  BY <1>1, <1>4, AncestorsTransitive, AncestorsByClosedSets
<1>6. QED
  BY <1>1, <1>2, <1>4, <1>5, AncestorsByClosedSets

---------------------------------------------------------------------------
(* The specification. *)

LEMMA DefaultRole == DefaultWritePermission \in Role
BY DEF DefaultWritePermission, Role, Grade

(* Every step of the category handlers keeps the type and the forest; the  *)
(* documents' module reuses this step by step.                             *)
LEMMA CategoryStep ==
  ASSUME CategoryTypeOK, EveryCategoryUnderARoot, [CategoryNext]_wikicategory
  PROVE  CategoryTypeOK' /\ EveryCategoryUnderARoot'
<1>1. wikicategory \in Table /\ UnderARoot(wikicategory)
  BY DEF CategoryTypeOK, EveryCategoryUnderARoot, Table, UnderARoot
<1>2. SUFFICES wikicategory' \in Table /\ UnderARoot(wikicategory')
  BY DEF CategoryTypeOK, EveryCategoryUnderARoot, Table, UnderARoot, Stored, Ancestors, Lineage,
         ClosedUpwards
<1>3. ASSUME NEW r, NEW name \in Categories, NEW parent \in Categories \cup {None},
             create_category(r, name, parent)
      PROVE  wikicategory' \in Table /\ UnderARoot(wikicategory')
  <2> DEFINE row == [parent |-> parent, write_permission |-> DefaultWritePermission]
  <2>1. row \in CategoryRow
    BY DefaultRole DEF CategoryRow
  <2>2. /\ wikicategory[name] = None
        /\ row.parent \in Stored(wikicategory) \cup {None}
        /\ wikicategory' = [wikicategory EXCEPT ![name] = row]
    BY <1>3 DEF create_category
  <2>3. wikicategory' \in Table
    BY <1>1, <2>1, <2>2 DEF Table
  <2> HIDE DEF row
  <2>4. QED
    BY <1>1, <2>1, <2>2, <2>3, CreateKeepsForest
<1>4. ASSUME NEW r, NEW name \in Categories, NEW parent \in Categories \cup {None, Unset},
             NEW write_permission \in RequestedRoles \cup {Unset},
             update_category(r, name, parent, write_permission)
      PROVE  wikicategory' \in Table /\ UnderARoot(wikicategory')
  <2> DEFINE row    == wikicategory[name]
             above  == IF parent = Unset THEN row.parent ELSE parent
             needed == IF write_permission = Unset THEN row.write_permission ELSE write_permission
             new    == [parent |-> above, write_permission |-> needed]
  <2>1. /\ row # None
        /\ parent # Unset => /\ parent \in Stored(wikicategory) \cup {None}
                             /\ ~would_create_cycle(name, parent)
        /\ wikicategory' = [wikicategory EXCEPT ![name] = new]
    BY <1>4 DEF update_category
  <2>2. name \in Stored(wikicategory) /\ row \in CategoryRow
    BY <1>1, <2>1, StoredRows
  <2>3. new \in CategoryRow
    BY <1>4, <2>2, RequestAssumption DEF CategoryRow
  <2>4. wikicategory' \in Table /\ wikicategory'[name] = new
    BY <1>1, <2>1, <2>3 DEF Table
  <2>5. SameButFor(name, wikicategory, wikicategory')
    BY <1>1, <2>1, <2>2, <2>3, RequestAssumption DEF SameButFor, Stored, Table
  <2>6. CASE parent = Unset
    <3>1. \A c \in Stored(wikicategory) : wikicategory'[c].parent = wikicategory[c].parent
      BY <2>4, <2>5, <2>6 DEF SameButFor
    <3>2. QED
      BY <1>1, <2>4, <2>5, <3>1, SameParentKeepsForest DEF SameButFor
  <2>7. CASE parent # Unset
    <3>1. \/ wikicategory'[name].parent = None
          \/ /\ wikicategory'[name].parent \in Stored(wikicategory)
             /\ name \notin Ancestors(wikicategory, wikicategory'[name].parent)
      BY <2>1, <2>4, <2>7 DEF would_create_cycle
    <3>2. QED
      BY <1>1, <2>2, <2>4, <2>5, <3>1, ReparentKeepsForest
  <2>8. QED
    BY <2>6, <2>7
<1>5. ASSUME NEW r, NEW name \in Categories, NEW used, delete_category(r, name, used)
      PROVE  wikicategory' \in Table /\ UnderARoot(wikicategory')
  <2>1. wikicategory' = [c \in Categories |->
           IF c \in Stored(wikicategory) /\ name \in Ancestors(wikicategory, c)
           THEN None ELSE wikicategory[c]]
    BY <1>5 DEF delete_category, descendant_names
  <2>2. wikicategory' \in Table
    BY <1>1, <2>1 DEF Table
  <2>3. QED
    BY <1>1, <2>1, <2>2, DeleteKeepsForest
<1>6. CASE CategoryNext
  BY <1>3, <1>4, <1>5, <1>6 DEF CategoryNext, EditCategory
<1>7. CASE UNCHANGED wikicategory
  BY <1>1, <1>7
<1>8. QED
  BY <1>6, <1>7

LEMMA CategoryStart == CategoryInit => CategoryTypeOK /\ EveryCategoryUnderARoot
<1>1. CASE wikicategory = NoCategory
  BY <1>1 DEF NoCategory, CategoryTypeOK, EveryCategoryUnderARoot, Stored
<1>2. ASSUME NEW c \in Categories, wikicategory = LegacyCategory(c)
      PROVE  CategoryTypeOK /\ EveryCategoryUnderARoot
  <2> DEFINE root == [parent |-> None, write_permission |-> DefaultWritePermission]
  <2>1. root \in CategoryRow
    BY DefaultRole DEF CategoryRow
  <2>2. wikicategory \in Table /\ Stored(wikicategory) = {c} /\ wikicategory[c].parent = None
    BY <1>2, <2>1, RequestAssumption DEF LegacyCategory, Table, NoCategory, Stored
  <2>3. QED
    BY <2>2, OwnAncestor DEF CategoryTypeOK, EveryCategoryUnderARoot, Table
<1>3. QED
  BY <1>1, <1>2 DEF CategoryInit

(* create_category, update_category and delete_category store well-formed  *)
(* rows only, whatever names there are.                                    *)
THEOREM CategoryTypeCorrect == CategorySpec => []CategoryTypeOK
<1>1. CategoryInit => CategoryTypeOK /\ EveryCategoryUnderARoot
  BY CategoryStart
<1>2. CategoryTypeOK /\ EveryCategoryUnderARoot /\ [CategoryNext]_wikicategory
        => CategoryTypeOK' /\ EveryCategoryUnderARoot'
  BY CategoryStep
<1>3. QED
  BY <1>1, <1>2, PTL DEF CategorySpec

(* The categories always form a forest: no sequence of creations, moves    *)
(* and deletions leaves a category on a cycle or below a missing parent,   *)
(* so the recursion of get_categories ends and shows every category.       *)
THEOREM CategoriesFormAForest == CategorySpec => []EveryCategoryUnderARoot
<1>1. CategoryInit => CategoryTypeOK /\ EveryCategoryUnderARoot
  BY CategoryStart
<1>2. CategoryTypeOK /\ EveryCategoryUnderARoot /\ [CategoryNext]_wikicategory
        => CategoryTypeOK' /\ EveryCategoryUnderARoot'
  BY CategoryStep
<1>3. QED
  BY <1>1, <1>2, PTL DEF CategorySpec

---------------------------------------------------------------------------
(* Decisions of the policy. *)

LEMMA HighestIsAbove ==
  ASSUME NEW roles \in SUBSET Role, NEW some \in roles
  PROVE  /\ HighestOf(roles) \in roles
         /\ \A other \in roles : Grade[HighestOf(roles)] >= Grade[other]
<1>1. \E highest \in roles : \A other \in roles : Grade[highest] >= Grade[other]
  <2>1. Role = {"admin", "club_member", "login_user"}
    BY DEF Role, Grade
  <2>2. \A r \in Role : Grade[r] = IF r = "admin" THEN 100 ELSE IF r = "club_member" THEN 50 ELSE 10
    BY DEF Role, Grade
  <2>3. CASE "admin" \in roles
    <3>1. \A other \in roles : Grade["admin"] >= Grade[other]
      BY <2>1, <2>2
    <3>2. QED
      BY <2>3, <3>1
  <2>4. CASE "admin" \notin roles /\ "club_member" \in roles
    <3>1. \A other \in roles : Grade["club_member"] >= Grade[other]
      BY <2>1, <2>2, <2>4
    <3>2. QED
      BY <2>4, <3>1
  <2>5. CASE "admin" \notin roles /\ "club_member" \notin roles
    <3>1. \A other \in roles : other = "login_user"
      BY <2>1, <2>5
    <3>2. QED
      BY <3>1, <2>2, <2>1
  <2>6. QED
    BY <2>3, <2>4, <2>5
<1>2. QED
  BY <1>1 DEF HighestOf

LEMMA ReachingFloor ==
  ASSUME NEW minimum \in Role, NEW r \in RolesReaching(minimum)
  PROVE  is_admin(r) \/ Grade[r] >= Grade[minimum]
BY DEF RolesReaching, is_admin

LEMMA Reaching ==
  ASSUME NEW minimum
  PROVE  RolesReaching(minimum) \subseteq Role
BY DEF RolesReaching, Role, Grade

(* The role of a category is the highest of its lineage, so who may write  *)
(* to it reaches the grade of every ancestor.                              *)
LEMMA WritersReachEveryFloor ==
  ASSUME EmptyName \notin Categories, NEW cats \in Table, NEW c \in Categories, NEW r,
         can_write_category(r, cats, c), ~is_admin(r), NEW a \in Ancestors(cats, c)
  PROVE  Grade[r] >= Grade[cats[a].write_permission]
<1> DEFINE lineage == Ancestors(cats, c)
           roles   == {cats[b].write_permission : b \in lineage}
<1>1. Floors(cats, c) = lineage
  <2>1. DOMAIN cats = Categories
    BY DEF Table
  <2>2. DOMAIN cats \ {EmptyName} = DOMAIN cats
    BY <2>1
  <2>3. QED
    BY <2>2 DEF Floors, Ancestors
<1>2. roles \in SUBSET Role /\ cats[a].write_permission \in roles
  BY StoredRows, AncestorsByClosedSets DEF CategoryRow
<1>3. HighestOf(roles) \in Role /\ Grade[HighestOf(roles)] >= Grade[cats[a].write_permission]
  BY <1>2, HighestIsAbove
<1>4. r \in RolesReaching(effective_category_role(cats, c))
  BY DEF can_write_category, has_minimum_role
<1>5. effective_category_role(cats, c) \in {HighestOf(roles), None}
  BY <1>1 DEF effective_category_role
<1> HIDE DEF roles
<1>6. effective_category_role(cats, c) = HighestOf(roles)
  BY <1>4, <1>5, RequestAssumption DEF RolesReaching, is_admin
<1>7. r \in Role /\ Grade[r] >= Grade[HighestOf(roles)]
  BY <1>3, <1>4, <1>6, ReachingFloor, Reaching
<1>8. \A x \in Role : Grade[x] \in Nat
  BY DEF Role, Grade
<1>9. cats[a].write_permission \in Role
  BY <1>2
<1>10. QED
  BY <1>3, <1>7, <1>8, <1>9

LEMMA GradesAreOrdered ==
  /\ \A r \in Role : Grade[r] \in Nat /\ Grade[r] <= Grade["admin"]
  /\ \A r \in Role : Grade[r] >= Grade["admin"] => is_admin(r)
BY DEF Role, Grade, is_admin

(* A higher role reaches what a lower one reaches. *)
LEMMA ReachingUpwards ==
  ASSUME NEW low \in Role, NEW high \in Role, Grade[high] >= Grade[low]
  PROVE  /\ is_admin(low) => is_admin(high)
         /\ \A minimum : has_minimum_role(low, minimum) => has_minimum_role(high, minimum)
<1>1. is_admin(low) => is_admin(high)
  BY GradesAreOrdered DEF is_admin
<1>2. ASSUME NEW minimum, has_minimum_role(low, minimum)
      PROVE  has_minimum_role(high, minimum)
  <2>1. CASE is_admin(low)
    BY <1>1, <2>1 DEF is_admin, has_minimum_role, RolesReaching
  <2>2. CASE ~is_admin(low)
    <3>1. minimum \in Role \ {"admin"} /\ Grade[low] >= Grade[minimum]
      BY <1>2, <2>2 DEF is_admin, has_minimum_role, RolesReaching
    <3>2. Grade[high] >= Grade[minimum]
      BY <3>1, GradesAreOrdered
    <3>3. QED
      BY <3>1, <3>2 DEF has_minimum_role, RolesReaching
  <2>3. QED
    BY <2>1, <2>2
<1>3. QED
  BY <1>1, <1>2

(* Who may write to a category of a forest, in full: those whose role      *)
(* meets the setting of the category and of every category above it        *)
(* (effective_category_role, permissions.py:103).                          *)
THEOREM WritingNeedsEveryFloor ==
  ASSUME EmptyName \notin Categories, NEW cats \in Table, UnderARoot(cats),
         NEW c \in Stored(cats), NEW r \in Role
  PROVE  can_write_category(r, cats, c)
           <=> \A a \in Ancestors(cats, c) : Grade[r] >= Grade[cats[a].write_permission]
<1> DEFINE lineage == Ancestors(cats, c)
           roles   == {cats[b].write_permission : b \in lineage}
<1>1. c \in Categories /\ roles \in SUBSET Role /\ cats[c].write_permission \in roles
  BY StoredRows, AncestorsByClosedSets, OwnAncestor DEF CategoryRow
<1>2. ASSUME can_write_category(r, cats, c), NEW a \in lineage
      PROVE  Grade[r] >= Grade[cats[a].write_permission]
  <2>1. cats[a].write_permission \in Role
    BY <1>1
  <2>2. CASE is_admin(r)
    BY <2>1, <2>2, GradesAreOrdered DEF is_admin
  <2>3. CASE ~is_admin(r)
    BY <1>1, <1>2, <2>3, WritersReachEveryFloor
  <2>4. QED
    BY <2>2, <2>3
<1>3. ASSUME \A a \in lineage : Grade[r] >= Grade[cats[a].write_permission]
      PROVE  can_write_category(r, cats, c)
  <2>1. Floors(cats, c) = lineage
    <3>1. DOMAIN cats \ {EmptyName} = DOMAIN cats
      BY DEF Table
    <3>2. QED
      BY <3>1 DEF Floors, Ancestors
  <2>2. \E b \in lineage : cats[b].parent \in {None, EmptyName}
    BY DEF UnderARoot
  <2>3. effective_category_role(cats, c) = HighestOf(roles)
    BY <2>1, <2>2 DEF effective_category_role
  <2>4. HighestOf(roles) \in roles
    BY <1>1, HighestIsAbove
  <2>5. Grade[r] >= Grade[HighestOf(roles)]
    BY <1>3, <2>4
  <2>6. HighestOf(roles) \in Role
    BY <1>1, <2>4
  <2> HIDE DEF roles
  <2>7. CASE HighestOf(roles) = "admin"
    <3>1. is_admin(r)
      BY <2>5, <2>7, GradesAreOrdered
    <3>2. QED
      BY <3>1 DEF is_admin, can_write_category, has_minimum_role, RolesReaching
  <2>8. CASE HighestOf(roles) # "admin"
    BY <2>3, <2>5, <2>6, <2>8 DEF can_write_category, has_minimum_role, RolesReaching
  <2>9. QED
    BY <2>7, <2>8
<1>4. QED
  BY <1>2, <1>3

(* Who may write to a category may write to all above it: no part of the   *)
(* tree opens what lies over it (can_write_category).                      *)
THEOREM WritersMayWriteAbove ==
  ASSUME EmptyName \notin Categories, NEW cats \in Table, UnderARoot(cats),
         NEW c \in Stored(cats), NEW a \in Ancestors(cats, c), NEW r \in Role,
         can_write_category(r, cats, c)
  PROVE  can_write_category(r, cats, a)
<1>1. a \in Stored(cats) /\ Ancestors(cats, a) \subseteq Ancestors(cats, c)
  BY AncestorsByClosedSets, AncestorsTransitive
<1>2. \A b \in Ancestors(cats, c) : Grade[r] >= Grade[cats[b].write_permission]
  BY WritingNeedsEveryFloor
<1>3. QED
  BY <1>1, <1>2, WritingNeedsEveryFloor

(* A higher role loses nothing: what the policy lets a user do to a        *)
(* document it lets the same user do with a higher role, whatever lists    *)
(* and categories are in the way (can_perform_document).                   *)
THEOREM HigherRolesMayDoMore ==
  ASSUME NEW low \in Role, NEW high \in Role, Grade[high] >= Grade[low],
         NEW user, NEW action, NEW doc, NEW permissions, NEW cats,
         can_perform_document(user, low, action, doc, permissions, cats)
  PROVE  can_perform_document(user, high, action, doc, permissions, cats)
<1>1. is_admin(low) => is_admin(high)
  BY ReachingUpwards
<1>2. \A minimum : has_minimum_role(low, minimum) => has_minimum_role(high, minimum)
  BY ReachingUpwards
<1>3. can_read_document(low, doc) => can_read_document(high, doc)
  BY <1>1 DEF can_read_document
<1>4. \A roles : meets_document_roles(low, roles) => meets_document_roles(high, roles)
  BY <1>1, <1>2 DEF meets_document_roles
<1>5. \A a : Granted(low, a, doc, permissions, cats) => Granted(high, a, doc, permissions, cats)
  BY <1>2, <1>4 DEF Granted, can_perform, can_write_category
<1>6. QED
  BY <1>1, <1>2, <1>3, <1>5 DEF can_perform_document

---------------------------------------------------------------------------
(* Changes of a permission. *)

(* What lies above c is c and what lies above its parent. *)
LEMMA AncestorsStep ==
  ASSUME NEW cats \in Table, NEW c \in Stored(cats), NEW a \in Ancestors(cats, c), a # c
  PROVE  cats[c].parent \in Stored(cats) /\ a \in Ancestors(cats, cats[c].parent)
<1>1. ASSUME NEW S, Closed(cats, S), cats[c].parent \in Stored(cats) => cats[c].parent \in S
      PROVE  a \in S
  <2>1. Closed(cats, S \cup {c}) /\ c \in S \cup {c}
    BY <1>1 DEF Closed
  <2>2. a \in S \cup {c}
    BY <2>1, AncestorsByClosedSets
  <2>3. QED
    BY <2>2
<1>2. cats[c].parent \in Stored(cats)
  <2>1. Closed(cats, {})
    BY DEF Closed
  <2>2. QED
    BY <1>1, <2>1
<1>3. a \in Stored(cats)
  BY AncestorsByClosedSets
<1>4. QED
  BY <1>1, <1>2, <1>3, AncestorsByClosedSets

(* In a forest nothing is its own ancestor by way of its parent. *)
LEMMA ForestHasNoCycle ==
  ASSUME NEW cats \in Table, UnderARoot(cats), NEW c \in Stored(cats), cats[c].parent # None
  PROVE  c \notin Ancestors(cats, cats[c].parent)
<1>1. SUFFICES ASSUME c \in Ancestors(cats, cats[c].parent)
               PROVE  FALSE
  OBVIOUS
<1> DEFINE Below == {d \in Stored(cats) : c \in Ancestors(cats, d)}
<1>2. Closed(cats, Below)
  <2>1. SUFFICES ASSUME NEW d \in Below, cats[d].parent \in Stored(cats)
                 PROVE  c \in Ancestors(cats, cats[d].parent)
    BY DEF Closed
  <2>2. CASE d = c
    BY <1>1, <2>2
  <2>3. CASE d # c
    BY <2>3, AncestorsStep
  <2>4. QED
    BY <2>2, <2>3
<1>3. PICK r \in Ancestors(cats, c) : cats[r].parent = None
  BY DEF UnderARoot
<1>4. c \in Below
  BY OwnAncestor
<1>5. r \in Below
  BY <1>2, <1>3, <1>4, AncestorsByClosedSets
<1>6. None \notin Stored(cats)
  BY StoredRows, NoneAssumption
<1>7. r # c
  BY <1>3
<1>8. QED
  BY <1>3, <1>5, <1>6, <1>7, AncestorsStep

(* The role that c passes down does not depend on rows that are not above. *)
LEMMA RoleFromAbove ==
  ASSUME NEW cats \in Table, NEW next \in Table, EmptyName \notin Categories,
         NEW name \in Stored(cats), SameButFor(name, cats, next),
         NEW c \in Stored(cats), name \notin Ancestors(cats, c)
  PROVE  effective_category_role(next, c) = effective_category_role(cats, c)
<1>1. PICK S : Closed(cats, S) /\ c \in S /\ name \notin S
  BY AncestorsByClosedSets
<1>2. \A T : Closed(next, S \cap T) <=> Closed(cats, S \cap T)
  BY <1>1 DEF Closed, SameButFor
<1>3. Closed(next, S)
  BY <1>1 DEF Closed, SameButFor
<1>4. Ancestors(next, c) = Ancestors(cats, c)
  <2>1. ASSUME NEW a \in Ancestors(next, c)
        PROVE  a \in Ancestors(cats, c)
    <3>1. ASSUME NEW T, Closed(cats, T), c \in T
          PROVE  a \in T
      <4>1. Closed(next, S \cap T) /\ c \in S \cap T
        BY <1>1, <1>2, <3>1, ClosedMeet
      <4>2. a \in S \cap T
        BY <2>1, <4>1, AncestorsByClosedSets
      <4>3. QED
        BY <4>2
    <3>2. a \in Stored(cats)
      BY <2>1, AncestorsByClosedSets DEF SameButFor
    <3>3. QED
      BY <3>1, <3>2, AncestorsByClosedSets
  <2>2. ASSUME NEW a \in Ancestors(cats, c)
        PROVE  a \in Ancestors(next, c)
    <3>1. ASSUME NEW T, Closed(next, T), c \in T
          PROVE  a \in T
      <4>1. Closed(cats, S \cap T) /\ c \in S \cap T
        BY <1>1, <1>2, <1>3, <3>1, ClosedMeet
      <4>2. a \in S \cap T
        BY <2>2, <4>1, AncestorsByClosedSets
      <4>3. QED
        BY <4>2
    <3>2. a \in Stored(next)
      BY <2>2, AncestorsByClosedSets DEF SameButFor
    <3>3. QED
      BY <3>1, <3>2, AncestorsByClosedSets
  <2>3. QED
    BY <2>1, <2>2
<1>5. Floors(cats, c) = Ancestors(cats, c) /\ Floors(next, c) = Ancestors(next, c)
  <2>1. DOMAIN cats = Categories /\ DOMAIN next = Categories
    BY DEF Table
  <2>2. Categories \ {EmptyName} = Categories
    OBVIOUS
  <2>3. QED
    BY <2>1, <2>2 DEF Floors, Ancestors
<1>6. \A a \in Ancestors(cats, c) : next[a] = cats[a]
  BY AncestorsByClosedSets DEF SameButFor
<1>7. {next[a].write_permission : a \in Ancestors(cats, c)}
        = {cats[a].write_permission : a \in Ancestors(cats, c)}
  BY <1>6
<1>8. (\E r \in Ancestors(cats, c) : next[r].parent \in {None, EmptyName})
        <=> (\E r \in Ancestors(cats, c) : cats[r].parent \in {None, EmptyName})
  BY <1>6
<1> DEFINE roles(table) == {table[a].write_permission : a \in Ancestors(cats, c)}
           rooted(table) == \E r \in Ancestors(cats, c) : table[r].parent \in {None, EmptyName}
           passed(table) == IF rooted(table) THEN HighestOf(roles(table)) ELSE None
<1>9. effective_category_role(cats, c) = passed(cats)
  BY <1>5 DEF effective_category_role
<1>10. effective_category_role(next, c) = passed(next)
  BY <1>4, <1>5 DEF effective_category_role, SameButFor
<1>11. passed(next) = passed(cats)
  BY <1>7, <1>8
<1>12. QED
  BY <1>9, <1>10, <1>11

(* Unless a category bears the empty name, update_category stores no       *)
(* permission below the role that the row's new lineage passes down: the   *)
(* floor it compares with is that of the table after the change.           *)
THEOREM PermissionChangesMeetTheFloor ==
  ASSUME EmptyName \notin Categories
  PROVE  CategorySpec => PermissionChangeMeetsNewFloor
<1> DEFINE Meets ==
      \A c \in Stored(wikicategory) \cap Stored(wikicategory') :
        LET parent == wikicategory'[c].parent
        IN  wikicategory'[c].write_permission # wikicategory[c].write_permission /\ parent # None
              => Grade[wikicategory'[c].write_permission]
                   >= Grade[effective_category_role(wikicategory', parent)]
<1>1. ASSUME CategoryTypeOK, EveryCategoryUnderARoot, [CategoryNext]_wikicategory
      PROVE  [Meets]_wikicategory
  <2>1. /\ wikicategory \in Table /\ UnderARoot(wikicategory)
        /\ wikicategory' \in Table /\ UnderARoot(wikicategory')
    <3>1. CategoryTypeOK' /\ EveryCategoryUnderARoot'
      BY <1>1, CategoryStep
    <3>2. QED
      BY <1>1, <3>1 DEF CategoryTypeOK, EveryCategoryUnderARoot, Table, UnderARoot, Stored, Ancestors,
                        Lineage, ClosedUpwards
  <2>2. SUFFICES ASSUME CategoryNext PROVE Meets
    BY <1>1
  <2>3. SUFFICES ASSUME NEW c \in Stored(wikicategory) \cap Stored(wikicategory'),
                        wikicategory'[c].write_permission # wikicategory[c].write_permission,
                        wikicategory'[c].parent # None
                 PROVE  Grade[wikicategory'[c].write_permission]
                          >= Grade[effective_category_role(wikicategory', wikicategory'[c].parent)]
    OBVIOUS
  <2>4. c \in Categories /\ wikicategory[c] # None /\ wikicategory'[c] # None
    BY <2>1, <2>3, StoredRows
  <2>5. ASSUME NEW r, NEW name \in Categories, NEW parent \in Categories \cup {None},
               create_category(r, name, parent)
        PROVE  FALSE
    BY <2>1, <2>3, <2>4, <2>5 DEF create_category, Table
  <2>6. ASSUME NEW r, NEW name \in Categories, NEW used, delete_category(r, name, used)
        PROVE  FALSE
    BY <2>3, <2>4, <2>6 DEF delete_category
  <2>7. ASSUME NEW r, NEW name \in Categories, NEW parent \in Categories \cup {None, Unset},
               NEW write_permission \in RequestedRoles \cup {Unset},
               update_category(r, name, parent, write_permission)
        PROVE  Grade[wikicategory'[c].write_permission]
                 >= Grade[effective_category_role(wikicategory', wikicategory'[c].parent)]
    <3> DEFINE row    == wikicategory[name]
               above  == IF parent = Unset THEN row.parent ELSE parent
               needed == IF write_permission = Unset THEN row.write_permission ELSE write_permission
               new    == [parent |-> above, write_permission |-> needed]
    <3>1. /\ row # None
          /\ parent # Unset => /\ parent \in Stored(wikicategory) \cup {None}
                               /\ ~would_create_cycle(name, parent)
          /\ write_permission # Unset /\ above \notin {None, EmptyName}
               => MeetsFloor(write_permission, above)
          /\ wikicategory' = [wikicategory EXCEPT ![name] = new]
      BY <2>7 DEF update_category
    <3>2. c = name /\ wikicategory'[c] = new
      BY <2>1, <2>3, <2>4, <3>1 DEF Table
    <3>3. write_permission # Unset /\ above # None
      BY <2>3, <3>2
    <3>4. name \in Stored(wikicategory) /\ row \in CategoryRow
      BY <2>1, <3>1, StoredRows
    <3>5. SameButFor(name, wikicategory, wikicategory')
      BY <2>1, <2>4, <3>1, <3>2 DEF SameButFor, Stored, Table
    <3>6. above \in Stored(wikicategory) /\ name \notin Ancestors(wikicategory, above)
      <4>1. CASE parent = Unset
        <5>1. above = row.parent
          BY <4>1
        <5>2. \E r2 \in Ancestors(wikicategory, name) : wikicategory[r2].parent = None
          BY <2>1, <3>4 DEF UnderARoot
        <5>3. above \in Stored(wikicategory)
          BY <2>1, <3>3, <3>4, <5>1, <5>2, AncestorsStep
        <5>4. QED
          BY <2>1, <3>3, <3>4, <5>1, <5>3, ForestHasNoCycle
      <4>2. CASE parent # Unset
        BY <3>1, <3>3, <4>2 DEF would_create_cycle
      <4>3. QED
        BY <4>1, <4>2
    <3>7. above # EmptyName
      BY <2>1, <3>6, StoredRows
    <3>8. Grade[write_permission] >= Grade[effective_category_role(wikicategory, above)]
      BY <3>1, <3>3, <3>7 DEF MeetsFloor
    <3>9. effective_category_role(wikicategory', above) = effective_category_role(wikicategory, above)
      BY <2>1, <3>4, <3>5, <3>6, RoleFromAbove
    <3>10. wikicategory'[c].write_permission = write_permission /\ wikicategory'[c].parent = above
      BY <3>2, <3>3
    <3>11. QED
      BY <3>8, <3>9, <3>10
  <2>8. QED
    BY <2>2, <2>5, <2>6, <2>7 DEF CategoryNext, EditCategory
<1>2. CategoryInit => CategoryTypeOK /\ EveryCategoryUnderARoot
  BY CategoryStart
<1>3. CategoryTypeOK /\ EveryCategoryUnderARoot /\ [CategoryNext]_wikicategory
        => CategoryTypeOK' /\ EveryCategoryUnderARoot'
  BY CategoryStep
<1>4. QED
  BY <1>1, <1>2, <1>3, PTL DEF CategorySpec, PermissionChangeMeetsNewFloor

===========================================================================
