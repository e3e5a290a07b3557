----------------------- MODULE WikiDocumentsProofs -----------------------
(***************************************************************************)
(* For all users, titles, categories, tags and bounds: the tables keep     *)
(* their types, references resolve, rows stay with their document, an      *)
(* administrator remains, and the categories stay a forest.                *)
(*                                                                         *)
(* The tables are finite (so that a count of rows is a number), and no     *)
(* stored document has a number that is still to be given out: these two   *)
(* strengthen the invariants.                                              *)
(***************************************************************************)
EXTENDS WikiDocuments, CategoryTreeProofs, FiniteSetTheorems

TablesAreFinite == IsFiniteSet(wikidocversion) /\ IsFiniteSet(documentevent)

NumbersAreGivenOut == \A t \in Documents : wikidoc[t].doc <= created

TablesInv ==
  /\ TypeOK
  /\ EveryCategoryUnderARoot
  /\ TablesAreFinite

RowsInv == RowsBelongToTheirDocument /\ NumbersAreGivenOut

---------------------------------------------------------------------------
(* What the operators return. *)

LEMMA DocumentRows ==
  ASSUME TypeOK
  PROVE  /\ \A t \in Titles : t \in Documents <=> wikidoc[t] # None
         /\ \A t \in Documents : t \in Titles /\ wikidoc[t] \in DocumentRow
         /\ \A row \in DocumentRow : row # None
BY DocumentAssumptions DEF TypeOK, Documents

LEMMA CountsAreNumbers ==
  ASSUME TablesInv
  PROVE  /\ Cardinality(documentevent) \in Nat
         /\ \A t : /\ IsFiniteSet(VersionsOf(t)) /\ IsFiniteSet(VisibleEvents(t))
                   /\ NextNumber(t) \in Nat \ {0}
<1>1. IsFiniteSet(wikidocversion) /\ IsFiniteSet(documentevent)
  BY DEF TablesInv, TablesAreFinite
<1>2. Cardinality(documentevent) \in Nat
  BY <1>1, FS_CardinalityType
<1>3. ASSUME NEW t
      PROVE  /\ IsFiniteSet(VersionsOf(t)) /\ IsFiniteSet(VisibleEvents(t))
             /\ NextNumber(t) \in Nat \ {0}
  <2>1. VersionsOf(t) \in SUBSET wikidocversion /\ VisibleEvents(t) \in SUBSET documentevent
    BY DEF VersionsOf, VisibleEvents
  <2>2. IsFiniteSet(VersionsOf(t)) /\ IsFiniteSet(VisibleEvents(t))
    BY <1>1, <2>1, FS_Subset
  <2>3. Cardinality(VersionsOf(t)) \in Nat
    BY <2>2, FS_CardinalityType
  <2>4. QED
    BY <2>2, <2>3 DEF NextNumber
<1>4. QED
  BY <1>2, <1>3

LEMMA RetitledFinite ==
  ASSUME NEW rows, IsFiniteSet(rows), NEW title
  PROVE  IsFiniteSet(Retitled(rows, title))
<1> DEFINE f == [row \in rows |-> [row EXCEPT !.title = title]]
<1>1. f \in Surjection(rows, Retitled(rows, title))
  BY DEF Surjection, Retitled
<1>2. QED
  BY <1>1, FS_Surjection

LEMMA UnionFinite ==
  ASSUME NEW S, NEW T, IsFiniteSet(S), IsFiniteSet(T)
  PROVE  IsFiniteSet(S \cup T)
BY FS_Union

(* Someone who may do something is a user, and the document is there. *)
LEMMA PermittedTitles ==
  ASSUME TypeOK, NEW user, NEW action, NEW title \in Permitted(user, action)
  PROVE  title \in Documents
BY DEF Permitted, can_perform_document, can_read_document, Documents

LEMMA ReadableTitles ==
  ASSUME TypeOK, NEW user, NEW title \in Readable(user)
  PROVE  title \in Documents
BY DEF Readable, can_read_document, Documents

LEMMA NobodyMayDoNothing ==
  ASSUME TypeOK, NEW user \in Users \cup {None}, NEW minimum,
         has_minimum_role(RoleOf(user), minimum)
  PROVE  user \in Users
<1>1. RoleOf(user) \in Role
  BY Reaching DEF has_minimum_role
<1>2. QED
  BY <1>1, DocumentAssumptions DEF RoleOf

LEMMA PermittedUsers ==
  ASSUME TypeOK, NEW user \in Users \cup {None}, NEW action, NEW title \in Permitted(user, action)
  PROVE  user \in Users
<1>1. is_admin(RoleOf(user)) => has_minimum_role(RoleOf(user), "admin")
  BY DEF is_admin, has_minimum_role, RolesReaching
<1>2. \E minimum : has_minimum_role(RoleOf(user), minimum)
  BY <1>1 DEF Permitted, can_perform_document, Granted, can_perform
<1>3. QED
  BY <1>2, NobodyMayDoNothing

LEMMA WritableCategories ==
  ASSUME TypeOK, NEW user, NEW c \in Categories, check_category_write_permission(user, c)
  PROVE  c \in Stored(wikicategory)
BY DEF check_category_write_permission, Stored, TypeOK, CategoryTypeOK

LEMMA DefaultPermissionsType == DefaultPermissions \in PermissionsRow
BY DEF DefaultPermissions, PermissionsRow, Role, Grade

LEMMA VersionType ==
  ASSUME NEW row \in DocumentRow, NEW title \in Titles, NEW number \in 1..MaxVersions,
         NEW user \in Users
  PROVE  NewVersion(row, title, number, user) \in VersionRow
BY DEF NewVersion, DocumentRow, VersionRow

LEMMA EventType ==
  ASSUME TablesInv, NEW title \in Documents, NEW type \in {"rename", "delete"},
         NEW new_title \in Titles \cup {None}, NEW user \in Users, NEW deleted \in BOOLEAN,
         Cardinality(documentevent) < MaxEvents
  PROVE  NewEvent(title, type, new_title, user, deleted) \in EventRow
<1>1. wikidoc[title] \in DocumentRow /\ title \in Titles
  BY DocumentRows DEF TablesInv
<1>2. Cardinality(documentevent) + 1 \in 1..MaxEvents
  BY CountsAreNumbers, DocumentAssumptions
<1>3. QED
  BY <1>1, <1>2 DEF NewEvent, EventRow, DocumentRow

---------------------------------------------------------------------------
(* Types. *)

(* The steps that leave the categories alone keep the forest. *)
LEMMA SameForest ==
  ASSUME EveryCategoryUnderARoot, wikicategory' = wikicategory
  PROVE  EveryCategoryUnderARoot'
BY DEF EveryCategoryUnderARoot, Stored, Ancestors, Lineage, ClosedUpwards

NewDocument(user, content, c, tags, is_private) ==
  [doc |-> created + 1, content |-> content, category |-> c, tags |-> tags,
   is_private |-> is_private, view_count |-> 0, created_by |-> user]

LEMMA NewDocumentType ==
  ASSUME TablesInv, NEW user \in Users \cup {None}, NEW title \in Titles, NEW content \in Contents,
         NEW c \in Categories, NEW tags \in SUBSET Tags, NEW is_private \in BOOLEAN,
         create_document(user, title, content, c, tags, is_private)
  PROVE  /\ user \in Users
         /\ created + 1 \in 1..MaxDocuments
         /\ NewDocument(user, content, c, tags, is_private) \in DocumentRow
<1>1. user \in Users
  BY NobodyMayDoNothing DEF create_document, WithMissingTags, can_perform, TablesInv
<1>2. created + 1 \in 1..MaxDocuments
  BY DocumentAssumptions DEF create_document, WithMissingTags, TablesInv, TypeOK
<1>3. QED
  BY <1>1, <1>2, DocumentAssumptions DEF DocumentRow, NewDocument

LEMMA CreateType ==
  ASSUME TablesInv, NEW user \in Users \cup {None}, NEW title \in Titles, NEW content \in Contents,
         NEW c \in Categories, NEW tags \in SUBSET Tags, NEW is_private \in BOOLEAN,
         create_document(user, title, content, c, tags, is_private)
  PROVE  TablesInv'
<1> DEFINE row == NewDocument(user, content, c, tags, is_private)
<1>1. /\ created < MaxDocuments /\ created' = created + 1 /\ wikitag' = wikitag \cup tags
      /\ wikidoc' = [wikidoc EXCEPT ![title] = row]
      /\ permissions' = [permissions EXCEPT ![title] = DefaultPermissions]
      /\ wikidocversion' = wikidocversion \cup {NewVersion(wikidoc'[title], title, 1, user)}
      /\ UNCHANGED <<wikicategory, role, documentlike, documentevent>>
  BY DEF create_document, WithMissingTags, NewDocument
<1>2. user \in Users
  BY NewDocumentType
<1>3. created' \in 0..MaxDocuments
  BY <1>1, NewDocumentType, DocumentAssumptions
<1>4. row \in DocumentRow
  BY NewDocumentType
<1> HIDE DEF row
<1>5. wikidoc' \in [Titles -> DocumentRow \cup {None}] /\ wikidoc'[title] = row
  BY <1>1, <1>4 DEF TablesInv, TypeOK
<1>6. 1 \in 1..MaxVersions
  BY DocumentAssumptions
<1>7. NewVersion(wikidoc'[title], title, 1, user) \in VersionRow
  BY <1>2, <1>4, <1>5, <1>6, VersionType
<1>8. permissions' \in [Titles -> PermissionsRow \cup {None}]
  BY <1>1, DefaultPermissionsType DEF TablesInv, TypeOK
<1>9. TypeOK'
  BY <1>1, <1>3, <1>5, <1>7, <1>8 DEF TablesInv, TypeOK, CategoryTypeOK
<1>10. TablesAreFinite'
  BY <1>1, FS_AddElement DEF TablesInv, TablesAreFinite
<1>11. QED
  BY <1>1, <1>9, <1>10, SameForest DEF TablesInv

LEMMA UpdateType ==
  ASSUME TablesInv, NEW user \in Users \cup {None}, NEW title \in Titles, NEW content \in Contents,
         NEW c \in Categories, NEW tags \in SUBSET Tags, NEW is_private \in BOOLEAN,
         NEW reordered \in BOOLEAN,
         update_document(user, title, content, c, tags, is_private, reordered)
  PROVE  TablesInv'
<1> DEFINE next   == [wikidoc[title] EXCEPT !.content = content, !.category = c, !.tags = tags,
                                            !.is_private = is_private]
           number == NextNumber(title)
<1>1. /\ title \in Permitted(user, "document_update") /\ number <= MaxVersions
      /\ wikitag' = wikitag \cup tags
      /\ wikidoc' = [wikidoc EXCEPT ![title] = next]
      /\ wikidocversion' = wikidocversion \cup {NewVersion(next, title, number, user)}
      /\ UNCHANGED <<wikicategory, role, permissions, documentlike, documentevent, created>>
  BY DEF update_document, WithMissingTags
<1>2. user \in Users /\ title \in Documents
  BY <1>1, PermittedUsers, PermittedTitles DEF TablesInv
<1>3. wikidoc[title] \in DocumentRow
  BY <1>2, DocumentRows DEF TablesInv
<1>4. next \in DocumentRow
  BY <1>3 DEF DocumentRow
<1>5. number \in 1..MaxVersions
  BY <1>1, CountsAreNumbers, DocumentAssumptions
<1> HIDE DEF next, number
<1>6. NewVersion(next, title, number, user) \in VersionRow
  BY <1>2, <1>4, <1>5, VersionType
<1>7. TypeOK'
  BY <1>1, <1>4, <1>6 DEF TablesInv, TypeOK, CategoryTypeOK
<1>8. TablesAreFinite'
  BY <1>1, FS_AddElement DEF TablesInv, TablesAreFinite
<1>9. QED
  BY <1>1, <1>7, <1>8, SameForest DEF TablesInv

LEMMA MoveType ==
  ASSUME TablesInv, NEW user \in Users \cup {None}, NEW title \in Titles, NEW new_title \in Titles,
         move_document(user, title, new_title)
  PROVE  TablesInv'
<1> DEFINE event == NewEvent(title, "rename", new_title, user, FALSE)
<1>1. /\ Cardinality(documentevent) < MaxEvents
      /\ title \in Permitted(user, "document_rename")
      /\ wikidoc' = [wikidoc EXCEPT ![new_title] = MovedRow(wikidoc[title]), ![title] = None]
      /\ wikidocversion' = (wikidocversion \ VersionsOf(title)) \cup Retitled(VersionsOf(title), new_title)
      /\ permissions' = [permissions EXCEPT ![new_title] = permissions[title], ![title] = None]
      /\ documentlike' = (documentlike \ LikesOf(title)) \cup Retitled(LikesOf(title), new_title)
      /\ documentevent' = (documentevent \ VisibleEvents(title))
                            \cup Retitled(VisibleEvents(title), new_title) \cup {event}
      /\ UNCHANGED <<wikicategory, role, wikitag, created>>
  BY DEF move_document, MovedVersions
<1>2. user \in Users /\ title \in Documents
  BY <1>1, PermittedUsers, PermittedTitles DEF TablesInv
<1>3. MovedRow(wikidoc[title]) \in DocumentRow
  BY <1>2, DocumentRows DEF TablesInv, DocumentRow, MovedRow
<1>4. event \in EventRow
  BY <1>1, <1>2, EventType
<1> HIDE DEF event
<1>5. wikidoc' \in [Titles -> DocumentRow \cup {None}]
  BY <1>1, <1>3 DEF TablesInv, TypeOK
<1>6. permissions' \in [Titles -> PermissionsRow \cup {None}]
  BY <1>1 DEF TablesInv, TypeOK
<1>7. /\ Retitled(VersionsOf(title), new_title) \subseteq VersionRow
      /\ Retitled(LikesOf(title), new_title) \subseteq LikeRow
      /\ Retitled(VisibleEvents(title), new_title) \subseteq EventRow
  <2>1. VersionsOf(title) \subseteq VersionRow /\ LikesOf(title) \subseteq LikeRow
        /\ VisibleEvents(title) \subseteq EventRow
    BY DEF TablesInv, TypeOK, VersionsOf, LikesOf, VisibleEvents
  <2>2. \A v \in VersionRow : [v EXCEPT !.title = new_title] \in VersionRow
    BY DEF VersionRow
  <2>3. \A l \in LikeRow : [l EXCEPT !.title = new_title] \in LikeRow
    BY DEF LikeRow
  <2>4. \A e \in EventRow : [e EXCEPT !.title = new_title] \in EventRow
    BY DEF EventRow
  <2>5. QED
    BY <2>1, <2>2, <2>3, <2>4 DEF Retitled
<1>8. TypeOK'
  BY <1>1, <1>4, <1>5, <1>6, <1>7 DEF TablesInv, TypeOK, CategoryTypeOK
<1>9. TablesAreFinite'
  <2>1. /\ IsFiniteSet(wikidocversion \ VersionsOf(title))
        /\ IsFiniteSet(documentevent \ VisibleEvents(title))
    BY FS_Difference DEF TablesInv, TablesAreFinite
  <2>2. /\ IsFiniteSet(Retitled(VersionsOf(title), new_title))
        /\ IsFiniteSet(Retitled(VisibleEvents(title), new_title))
    BY CountsAreNumbers, RetitledFinite
  <2>3. /\ IsFiniteSet(wikidocversion')
        /\ IsFiniteSet((documentevent \ VisibleEvents(title)) \cup Retitled(VisibleEvents(title), new_title))
    BY <1>1, <2>1, <2>2, UnionFinite
  <2>4. QED
    BY <1>1, <2>3, FS_AddElement DEF TablesAreFinite
<1>10. QED
  BY <1>1, <1>8, <1>9, SameForest DEF TablesInv

LEMMA DeleteType ==
  ASSUME TablesInv, NEW user \in Users \cup {None}, NEW title \in Titles, delete_document(user, title)
  PROVE  TablesInv'
<1> DEFINE event   == NewEvent(title, "delete", None, user, TRUE)
           flagged == {[e EXCEPT !.deleted = TRUE] : e \in VisibleEvents(title)}
<1>1. /\ Cardinality(documentevent) < MaxEvents
      /\ title \in Permitted(user, "document_delete")
      /\ wikidoc' = [wikidoc EXCEPT ![title] = None]
      /\ wikidocversion' = wikidocversion \ VersionsOf(title)
      /\ permissions' = [permissions EXCEPT ![title] = None]
      /\ documentlike' = documentlike \ LikesOf(title)
      /\ documentevent' = (documentevent \ VisibleEvents(title)) \cup flagged \cup {event}
      /\ UNCHANGED <<wikicategory, role, wikitag, created>>
  BY DEF delete_document
<1>2. user \in Users /\ title \in Documents
  BY <1>1, PermittedUsers, PermittedTitles DEF TablesInv
<1>3. event \in EventRow
  BY <1>1, <1>2, EventType
<1> HIDE DEF event
<1>4. flagged \subseteq EventRow
  <2>1. VisibleEvents(title) \subseteq EventRow
    BY DEF TablesInv, TypeOK, VisibleEvents
  <2>2. \A e \in EventRow : [e EXCEPT !.deleted = TRUE] \in EventRow
    BY DEF EventRow
  <2>3. QED
    BY <2>1, <2>2
<1>5. IsFiniteSet(flagged)
  <2> DEFINE f == [e \in VisibleEvents(title) |-> [e EXCEPT !.deleted = TRUE]]
  <2>1. f \in Surjection(VisibleEvents(title), flagged)
    BY DEF Surjection
  <2>2. QED
    BY <2>1, FS_Surjection, CountsAreNumbers
<1> HIDE DEF flagged
<1>6. TypeOK'
  BY <1>1, <1>3, <1>4 DEF TablesInv, TypeOK, CategoryTypeOK
<1>7. TablesAreFinite'
  <2>1. IsFiniteSet(wikidocversion') /\ IsFiniteSet(documentevent \ VisibleEvents(title))
    BY <1>1, FS_Difference DEF TablesInv, TablesAreFinite
  <2>2. IsFiniteSet((documentevent \ VisibleEvents(title)) \cup flagged)
    BY <1>5, <2>1, UnionFinite
  <2>3. QED
    BY <1>1, <2>1, <2>2, FS_AddElement DEF TablesAreFinite
<1>8. QED
  BY <1>1, <1>6, <1>7, SameForest DEF TablesInv

LEMMA ViewType ==
  ASSUME TablesInv, NEW user \in Users \cup {None}, NEW title \in Titles, get_document(user, title)
  PROVE  TablesInv'
<1>1. /\ title \in Documents /\ wikidoc[title].view_count < MaxViews
      /\ wikidoc' = [wikidoc EXCEPT ![title].view_count = @ + 1]
      /\ UNCHANGED <<wikicategory, role, wikitag, permissions, wikidocversion, documentlike,
                     documentevent, created>>
  BY ReadableTitles DEF get_document, TablesInv
<1> DEFINE row == [wikidoc[title] EXCEPT !.view_count = @ + 1]
<1>2. wikidoc[title] \in DocumentRow
  BY <1>1, DocumentRows DEF TablesInv
<1>3. wikidoc[title].view_count + 1 \in 0..MaxViews
  BY <1>1, <1>2, DocumentAssumptions DEF DocumentRow
<1>4. row \in DocumentRow
  BY <1>2, <1>3 DEF DocumentRow
<1>5. wikidoc' = [wikidoc EXCEPT ![title] = row]
  BY <1>1
<1> HIDE DEF row
<1>6. TypeOK'
  BY <1>1, <1>4, <1>5 DEF TablesInv, TypeOK, CategoryTypeOK
<1>7. QED
  BY <1>1, <1>6, SameForest DEF TablesInv, TablesAreFinite

LEMMA LikeType ==
  ASSUME TablesInv, NEW user \in Users \cup {None}, NEW title \in Titles,
         like_document(user, title) \/ unlike_document(user, title)
  PROVE  TablesInv'
<1> DEFINE like == [doc |-> wikidoc[title].doc, title |-> title, username |-> user]
<1>1. /\ user # None /\ title \in Documents
      /\ documentlike' \subseteq documentlike \cup {like}
      /\ UNCHANGED <<wikicategory, role, wikitag, wikidoc, permissions, wikidocversion,
                     documentevent, created>>
  BY ReadableTitles DEF like_document, unlike_document, TablesInv
<1>2. wikidoc[title] \in DocumentRow
  BY <1>1, DocumentRows DEF TablesInv
<1>3. like \in LikeRow
  BY <1>1, <1>2 DEF LikeRow, DocumentRow
<1> HIDE DEF like
<1>4. TypeOK'
  BY <1>1, <1>3 DEF TablesInv, TypeOK, CategoryTypeOK
<1>5. QED
  BY <1>1, <1>4, SameForest DEF TablesInv, TablesAreFinite

LEMMA TagType ==
  ASSUME TablesInv, NEW user, NEW name \in Tags, delete_tag(user, name)
  PROVE  TablesInv'
<1>1. /\ wikitag' = wikitag \ {name}
      /\ wikidoc' = [t \in Titles |-> IF t \in Documents
                                       THEN [wikidoc[t] EXCEPT !.tags = @ \ {name}] ELSE None]
      /\ UNCHANGED <<wikicategory, role, permissions, wikidocversion, documentlike, documentevent,
                     created>>
  BY DEF delete_tag
<1>2. \A t \in Documents : [wikidoc[t] EXCEPT !.tags = @ \ {name}] \in DocumentRow
  <2>1. \A row \in DocumentRow : [row EXCEPT !.tags = @ \ {name}] \in DocumentRow
    BY DEF DocumentRow
  <2>2. QED
    BY <2>1, DocumentRows DEF TablesInv
<1>3. wikidoc' \in [Titles -> DocumentRow \cup {None}]
  BY <1>1, <1>2
<1>4. TypeOK'
  BY <1>1, <1>3 DEF TablesInv, TypeOK, CategoryTypeOK
<1>5. QED
  BY <1>1, <1>4, SameForest DEF TablesInv, TablesAreFinite

LEMMA RoleType ==
  ASSUME TablesInv, NEW user, NEW username \in Users, NEW permission \in RequestedRoles,
         update_user_permission(user, username, permission)
  PROVE  TablesInv'
<1>1. /\ role' = [role EXCEPT ![username] = permission]
      /\ UNCHANGED <<wikicategory, wikitag, wikidoc, permissions, wikidocversion, documentlike,
                     documentevent, created>>
  BY DEF update_user_permission
<1>2. permission \in Role
  BY RequestAssumption
<1>3. TypeOK'
  BY <1>1, <1>2 DEF TablesInv, TypeOK, CategoryTypeOK
<1>4. QED
  BY <1>1, <1>3, SameForest DEF TablesInv, TablesAreFinite

(* The steps of the category handlers are steps of CategoryTree. *)
LEMMA CategoryStepOfWiki ==
  ASSUME TablesInv, NEW user \in Users \cup {None},
         \/ EditCategory(RoleOf(user))
         \/ \E name \in Categories : delete_category(RoleOf(user), name, UsedCategories)
  PROVE  CategoryNext
<1>1. RoleOf(user) \in Role \cup {None}
  BY DEF RoleOf, TablesInv, TypeOK
<1>2. UsedCategories \in SUBSET Categories
  BY DocumentRows DEF UsedCategories, TablesInv, DocumentRow
<1>3. QED
  BY <1>1, <1>2 DEF CategoryNext

LEMMA CategoryType ==
  ASSUME TablesInv, NEW user \in Users \cup {None}, UNCHANGED docVars,
         \/ EditCategory(RoleOf(user))
         \/ \E name \in Categories : delete_category(RoleOf(user), name, UsedCategories)
  PROVE  TablesInv'
<1>1. CategoryTypeOK' /\ EveryCategoryUnderARoot'
  BY CategoryStepOfWiki, CategoryStep DEF TablesInv, TypeOK
<1>2. TypeOK' /\ TablesAreFinite'
  BY <1>1 DEF TablesInv, TypeOK, docVars, TablesAreFinite
<1>3. QED
  BY <1>1, <1>2 DEF TablesInv

LEMMA TablesStart == Init => TablesInv
<1> SUFFICES ASSUME Init PROVE TablesInv
  OBVIOUS
<1>1. IsFiniteSet({}) /\ \A v : IsFiniteSet({v})
  BY FS_EmptySet, FS_Singleton
<1>2. CASE EmptyDatabase
  <2>1. CategoryTypeOK /\ EveryCategoryUnderARoot
    BY <1>2, CategoryStart DEF EmptyDatabase, CategoryInit
  <2>2. TypeOK
    BY <1>2, <2>1, DocumentAssumptions DEF Init, EmptyDatabase, TypeOK
  <2>3. QED
    BY <1>1, <1>2, <2>1, <2>2 DEF Init, EmptyDatabase, TablesInv, TablesAreFinite
<1>3. ASSUME NEW title \in Titles, NEW content \in Contents, NEW c \in Categories,
             NEW lists \in LegacyPermissions, NEW author \in Users,
             LegacyDatabase(title, content, c, lists, author)
      PROVE  TablesInv
  <2>1. CategoryInit
    BY <1>3 DEF LegacyDatabase, CategoryInit
  <2>2. CategoryTypeOK /\ EveryCategoryUnderARoot
    BY <2>1, CategoryStart
  <2>3. 1 \in 1..MaxDocuments /\ 1 \in 1..MaxVersions /\ 0 \in 0..MaxViews /\ 1 \in 0..MaxDocuments
    BY DocumentAssumptions
  <2>4. [doc |-> 1, content |-> content, category |-> c, tags |-> {}, is_private |-> FALSE,
         view_count |-> 0, created_by |-> author] \in DocumentRow
    BY <1>3, <2>3 DEF DocumentRow
  <2>5. [doc |-> 1, title |-> title, number |-> 1, content |-> content, category |-> c,
         tags |-> {}, updated_by |-> author] \in VersionRow
    BY <1>3, <2>3 DEF VersionRow
  <2>6. wikidoc \in [Titles -> DocumentRow \cup {None}]
    BY <1>3, <2>4 DEF LegacyDatabase
  <2>7. permissions \in [Titles -> PermissionsRow \cup {None}]
    BY <1>3, DocumentAssumptions DEF LegacyDatabase
  <2>8. wikidocversion \subseteq VersionRow
    BY <1>3, <2>5 DEF LegacyDatabase
  <2>9. TypeOK
    BY <1>3, <2>2, <2>3, <2>6, <2>7, <2>8, DocumentAssumptions DEF Init, LegacyDatabase, TypeOK
  <2>10. QED
    BY <1>1, <1>3, <2>2, <2>9 DEF Init, LegacyDatabase, TablesInv, TablesAreFinite
<1>4. QED
  BY <1>2, <1>3 DEF Init

LEMMA TablesStep == TablesInv /\ [Next]_vars => TablesInv'
<1> SUFFICES ASSUME TablesInv, [Next]_vars PROVE TablesInv'
  OBVIOUS
<1>1. ASSUME NEW user \in Users \cup {None}, DocumentStep(user)
      PROVE  TablesInv'
  BY <1>1, CreateType, UpdateType, MoveType, DeleteType, ViewType, LikeType DEF DocumentStep
<1>2. ASSUME NEW user \in Users \cup {None}, AdminStep(user)
      PROVE  TablesInv'
  BY <1>2, TagType, RoleType, CategoryType DEF AdminStep
<1>3. CASE UNCHANGED vars
  BY <1>3, SameForest DEF vars, docVars, TablesInv, TypeOK, CategoryTypeOK, TablesAreFinite
<1>4. QED
  BY <1>1, <1>2, <1>3 DEF Next

(* The handlers store well-formed rows only, in every table.               *)
THEOREM WikiTypeCorrect == Spec => []TypeOK
<1>1. TablesInv => TypeOK
  BY DEF TablesInv
<1>2. QED
  BY <1>1, TablesStart, TablesStep, PTL DEF Spec

(* With documents in them, too, the categories form a forest: the document *)
(* handlers leave them alone, and the category handlers' checks suffice.   *)
THEOREM WikiCategoriesFormAForest == Spec => []EveryCategoryUnderARoot
<1>1. TablesInv => EveryCategoryUnderARoot
  BY DEF TablesInv
<1>2. QED
  BY <1>1, TablesStart, TablesStep, PTL DEF Spec

(* The wiki as a whole implements the specification of the category table: *)
(* whatever its other handlers do, and whatever documents use, the table   *)
(* changes only as the three handlers of categories.py change it.          *)
THEOREM WikiImplementsCategoryTree == Spec => CategorySpec
<1>1. Init => CategoryInit
  BY DEF Init, EmptyDatabase, LegacyDatabase, CategoryInit
<1>2. TablesInv /\ [Next]_vars => [CategoryNext]_wikicategory
  <2>1. SUFFICES ASSUME TablesInv, [Next]_vars
                 PROVE  CategoryNext \/ UNCHANGED wikicategory
    OBVIOUS
  <2>2. ASSUME NEW user \in Users \cup {None}, DocumentStep(user)
        PROVE  UNCHANGED wikicategory
    <3>1. ASSUME NEW title, NEW content, NEW c, NEW tags, NEW is_private,
                 create_document(user, title, content, c, tags, is_private)
          PROVE  UNCHANGED wikicategory
      BY <3>1 DEF create_document
    <3>2. ASSUME NEW title, NEW content, NEW c, NEW tags, NEW is_private, NEW reordered,
                 update_document(user, title, content, c, tags, is_private, reordered)
          PROVE  UNCHANGED wikicategory
      BY <3>2 DEF update_document
    <3>3. ASSUME NEW title, NEW new_title, move_document(user, title, new_title)
          PROVE  UNCHANGED wikicategory
      BY <3>3 DEF move_document
    <3>4. ASSUME NEW title, delete_document(user, title)
          PROVE  UNCHANGED wikicategory
      BY <3>4 DEF delete_document
    <3>5. ASSUME NEW title, \/ get_document(user, title) \/ like_document(user, title)
                            \/ unlike_document(user, title)
          PROVE  UNCHANGED wikicategory
      BY <3>5 DEF get_document, like_document, unlike_document
    <3>6. QED
      BY <2>2, <3>1, <3>2, <3>3, <3>4, <3>5 DEF DocumentStep
  <2>3. ASSUME NEW user \in Users \cup {None}, AdminStep(user)
        PROVE  CategoryNext \/ UNCHANGED wikicategory
    <3>1. CASE \/ EditCategory(RoleOf(user))
               \/ \E name \in Categories : delete_category(RoleOf(user), name, UsedCategories)
      BY <2>1, <3>1, CategoryStepOfWiki
    <3>2. QED
      BY <2>3, <3>1 DEF AdminStep, delete_tag, update_user_permission
  <2>4. QED
    BY <2>1, <2>2, <2>3 DEF Next, vars
<1>3. QED
  BY <1>1, <1>2, TablesStart, TablesStep, PTL DEF Spec, CategorySpec

(* So what holds of the category table on its own holds in the wiki: no    *)
(* request, of whatever user, stores a permission below the role that the  *)
(* row's parent passes down (update_category).                             *)
THEOREM WikiPermissionChangesMeetTheFloor ==
  ASSUME EmptyName \notin Categories
  PROVE  Spec => PermissionChangeMeetsNewFloor
BY WikiImplementsCategoryTree, PermissionChangesMeetTheFloor

---------------------------------------------------------------------------
(* An administrator. *)

LEMMA AdminStays ==
  ASSUME TablesInv, AnAdministratorRemains, [Next]_vars
  PROVE  AnAdministratorRemains'
<1>1. CASE UNCHANGED role
  BY <1>1 DEF AnAdministratorRemains
<1>2. ASSUME NEW user \in Users \cup {None}, NEW username \in Users, NEW permission \in RequestedRoles,
             update_user_permission(user, username, permission)
      PROVE  AnAdministratorRemains'
  <2>1. /\ has_minimum_role(RoleOf(user), "admin") /\ username # user
        /\ role' = [role EXCEPT ![username] = permission]
    BY <1>2 DEF update_user_permission, can_perform, MINIMUM_ROLES
  <2>2. user \in Users
    BY <2>1, NobodyMayDoNothing DEF TablesInv
  <2>3. role[user] = "admin"
    BY <2>1, <2>2, DocumentAssumptions DEF has_minimum_role, RolesReaching, RoleOf
  <2>4. role'[user] = role[user]
    BY <2>1, <2>2 DEF TablesInv, TypeOK
  <2>5. QED
    BY <2>2, <2>3, <2>4 DEF AnAdministratorRemains, is_admin
<1>3. ASSUME NEW user, DocumentStep(user)
      PROVE  UNCHANGED role
  <2>1. ASSUME NEW title, NEW content, NEW c, NEW tags, NEW is_private,
               create_document(user, title, content, c, tags, is_private)
        PROVE  UNCHANGED role
    BY <2>1 DEF create_document, WithMissingTags
  <2>2. ASSUME NEW title, NEW content, NEW c, NEW tags, NEW is_private, NEW reordered,
               update_document(user, title, content, c, tags, is_private, reordered)
        PROVE  UNCHANGED role
    BY <2>2 DEF update_document, WithMissingTags
  <2>3. ASSUME NEW title, NEW new_title, move_document(user, title, new_title)
        PROVE  UNCHANGED role
    BY <2>3 DEF move_document
  <2>4. ASSUME NEW title, delete_document(user, title) \/ get_document(user, title)
                            \/ like_document(user, title) \/ unlike_document(user, title)
        PROVE  UNCHANGED role
    BY <2>4 DEF delete_document, get_document, like_document, unlike_document
  <2>5. QED
    BY <1>3, <2>1, <2>2, <2>3, <2>4 DEF DocumentStep
<1>4. ASSUME NEW user \in Users \cup {None}, AdminStep(user)
      PROVE  AnAdministratorRemains'
  BY <1>1, <1>2, <1>4 DEF AdminStep, delete_tag, docVars
<1>5. QED
  BY <1>1, <1>3, <1>4 DEF Next, vars, docVars

(* As long as the wiki starts with an administrator (bootstrap_admin makes *)
(* one), it always has one: the administrator who changes a role cannot    *)
(* change her own.                                                         *)
THEOREM SomebodyAdministers ==
  ASSUME \E u \in Users : is_admin(InitialRole[u])
  PROVE  Spec => []AnAdministratorRemains
<1>1. Init => AnAdministratorRemains
  BY DEF Init, AnAdministratorRemains
<1>2. TablesInv /\ AnAdministratorRemains /\ [Next]_vars => AnAdministratorRemains'
  BY AdminStays
<1>3. QED
  BY <1>1, <1>2, TablesStart, TablesStep, PTL DEF Spec

---------------------------------------------------------------------------
(* References. *)

LEMMA EditedRow ==
  ASSUME CategoryTypeOK, NEW r, EditCategory(r)
  PROVE  \E name \in Categories, row \in CategoryRow : wikicategory' = [wikicategory EXCEPT ![name] = row]
<1>1. ASSUME NEW name \in Categories, NEW parent \in Categories \cup {None},
             create_category(r, name, parent)
      PROVE  \E row \in CategoryRow : wikicategory' = [wikicategory EXCEPT ![name] = row]
  <2>1. [parent |-> parent, write_permission |-> DefaultWritePermission] \in CategoryRow
    BY DefaultRole DEF CategoryRow
  <2>2. QED
    BY <1>1, <2>1 DEF create_category
<1>2. ASSUME NEW name \in Categories, NEW parent \in Categories \cup {None, Unset},
             NEW write_permission \in RequestedRoles \cup {Unset},
             update_category(r, name, parent, write_permission)
      PROVE  \E row \in CategoryRow : wikicategory' = [wikicategory EXCEPT ![name] = row]
  <2> DEFINE row == [parent |-> IF parent = Unset THEN wikicategory[name].parent ELSE parent,
                     write_permission |-> IF write_permission = Unset
                                          THEN wikicategory[name].write_permission
                                          ELSE write_permission]
  <2>1. wikicategory[name] \in CategoryRow /\ wikicategory' = [wikicategory EXCEPT ![name] = row]
    BY <1>2 DEF update_category, CategoryTypeOK
  <2>2. row \in CategoryRow
    BY <1>2, <2>1, RequestAssumption DEF CategoryRow
  <2>3. QED
    BY <2>1, <2>2
<1>3. QED
  BY <1>1, <1>2 DEF EditCategory

LEMMA ReferencesStep ==
  ASSUME TablesInv, TablesInv', ReferencesResolve, [Next]_vars
  PROVE  ReferencesResolve'
<1> SUFFICES ASSUME NEW t \in Documents'
             PROVE  wikidoc'[t].category \in Stored(wikicategory') /\ wikidoc'[t].tags \subseteq wikitag'
  BY DEF ReferencesResolve, Stored
<1>1. /\ t \in Titles
      /\ wikidoc'[t] # None
      /\ wikidoc \in [Titles -> DocumentRow \cup {None}]
      /\ \A s \in Documents : /\ wikidoc[s].category \in Stored(wikicategory)
                              /\ wikidoc[s].tags \subseteq wikitag
  BY DEF Documents, TablesInv, TypeOK, ReferencesResolve
<1>2. CASE /\ t \in Documents
           /\ wikidoc'[t].category = wikidoc[t].category /\ wikidoc'[t].tags = wikidoc[t].tags
           /\ wikicategory' = wikicategory /\ wikitag \subseteq wikitag'
  BY <1>1, <1>2
<1>3. ASSUME NEW user \in Users \cup {None}, NEW title \in Titles, NEW content \in Contents,
             NEW c \in Categories, NEW tags \in SUBSET Tags, NEW is_private \in BOOLEAN,
             create_document(user, title, content, c, tags, is_private)
      PROVE  wikidoc'[t].category \in Stored(wikicategory') /\ wikidoc'[t].tags \subseteq wikitag'
  <2>1. /\ c \in Stored(wikicategory) /\ wikicategory' = wikicategory /\ wikitag' = wikitag \cup tags
        /\ wikidoc'[title].category = c /\ wikidoc'[title].tags = tags
        /\ t # title => wikidoc'[t] = wikidoc[t]
    BY <1>1, <1>3, WritableCategories DEF create_document, WithMissingTags, TablesInv
  <2>2. t # title => t \in Documents
    BY <1>1, <2>1 DEF Documents
  <2>3. QED
    BY <1>1, <2>1, <2>2
<1>4. ASSUME NEW user \in Users \cup {None}, NEW title \in Titles, NEW content \in Contents,
             NEW c \in Categories, NEW tags \in SUBSET Tags, NEW is_private \in BOOLEAN,
             NEW reordered \in BOOLEAN,
             update_document(user, title, content, c, tags, is_private, reordered)
      PROVE  wikidoc'[t].category \in Stored(wikicategory') /\ wikidoc'[t].tags \subseteq wikitag'
  <2> DEFINE next == [wikidoc[title] EXCEPT !.content = content, !.category = c, !.tags = tags,
                                            !.is_private = is_private]
  <2>1. /\ c \in Stored(wikicategory) /\ wikicategory' = wikicategory /\ wikitag' = wikitag \cup tags
        /\ title \in Documents
        /\ wikidoc' = [wikidoc EXCEPT ![title] = next]
    BY <1>4, WritableCategories, PermittedTitles DEF update_document, WithMissingTags, TablesInv
  <2>2. next.category = c /\ next.tags = tags
    BY <2>1, DocumentRows DEF DocumentRow, TablesInv
  <2> HIDE DEF next
  <2>3. t # title => wikidoc'[t] = wikidoc[t] /\ t \in Documents
    BY <1>1, <2>1 DEF Documents
  <2>4. t = title => wikidoc'[t] = next
    BY <1>1, <2>1
  <2>5. QED
    BY <1>1, <2>1, <2>2, <2>3, <2>4
<1>5. ASSUME NEW user \in Users \cup {None}, NEW title \in Titles, NEW new_title \in Titles,
             move_document(user, title, new_title)
      PROVE  wikidoc'[t].category \in Stored(wikicategory') /\ wikidoc'[t].tags \subseteq wikitag'
  <2>1. /\ title \in Documents /\ wikicategory' = wikicategory /\ wikitag' = wikitag
        /\ new_title # title
        /\ wikidoc' = [wikidoc EXCEPT ![new_title] = MovedRow(wikidoc[title]), ![title] = None]
    BY <1>5, PermittedTitles DEF move_document, TablesInv
  <2>2. CASE t = new_title
    <3>1. wikidoc'[t].category = wikidoc[title].category /\ wikidoc'[t].tags = wikidoc[title].tags
      BY <1>1, <2>1, <2>2 DEF MovedRow
    <3>2. QED
      BY <1>1, <2>1, <3>1
  <2>3. CASE t # new_title
    <3>1. t # title /\ wikidoc'[t] = wikidoc[t]
      BY <1>1, <2>1, <2>3
    <3>2. QED
      BY <1>1, <1>2, <2>1, <3>1 DEF Documents
  <2>4. QED
    BY <2>2, <2>3
<1>6. ASSUME NEW user \in Users \cup {None}, NEW title \in Titles,
             \/ delete_document(user, title) \/ get_document(user, title)
             \/ like_document(user, title) \/ unlike_document(user, title)
      PROVE  wikidoc'[t].category \in Stored(wikicategory') /\ wikidoc'[t].tags \subseteq wikitag'
  <2>1. CASE delete_document(user, title)
    <3>1. /\ wikicategory' = wikicategory /\ wikitag' = wikitag
          /\ wikidoc' = [wikidoc EXCEPT ![title] = None]
      BY <2>1 DEF delete_document
    <3>2. wikidoc'[t] = wikidoc[t] /\ t \in Documents
      BY <1>1, <3>1 DEF Documents
    <3>3. QED
      BY <1>1, <3>1, <3>2
  <2>2. CASE get_document(user, title)
    <3>1. /\ wikicategory' = wikicategory /\ wikitag' = wikitag /\ title \in Documents
          /\ wikidoc' = [wikidoc EXCEPT ![title].view_count = @ + 1]
      BY <2>2, ReadableTitles DEF get_document, TablesInv
    <3>2. wikidoc[title] \in DocumentRow
      BY <3>1, DocumentRows DEF TablesInv
    <3>3. /\ t \in Documents
          /\ wikidoc'[t].category = wikidoc[t].category /\ wikidoc'[t].tags = wikidoc[t].tags
      BY <1>1, <3>1, <3>2 DEF Documents, DocumentRow
    <3>4. QED
      BY <1>1, <3>1, <3>3
  <2>3. CASE like_document(user, title) \/ unlike_document(user, title)
    BY <1>1, <2>3 DEF like_document, unlike_document, Documents
  <2>4. QED
    BY <1>6, <2>1, <2>2, <2>3
<1>7. ASSUME NEW user \in Users \cup {None}, NEW name \in Tags, delete_tag(user, name)
      PROVE  wikidoc'[t].category \in Stored(wikicategory') /\ wikidoc'[t].tags \subseteq wikitag'
  <2>1. /\ wikicategory' = wikicategory /\ wikitag' = wikitag \ {name}
        /\ wikidoc' = [s \in Titles |-> IF s \in Documents
                                         THEN [wikidoc[s] EXCEPT !.tags = @ \ {name}] ELSE None]
    BY <1>7 DEF delete_tag
  <2>2. t \in Documents
    BY <1>1, <2>1
  <2>3. wikidoc[t] \in DocumentRow
    BY <2>2, DocumentRows DEF TablesInv
  <2>4. /\ wikidoc'[t].category = wikidoc[t].category
        /\ wikidoc'[t].tags = wikidoc[t].tags \ {name}
    BY <1>1, <2>1, <2>2, <2>3 DEF DocumentRow
  <2>5. QED
    BY <1>1, <2>1, <2>2, <2>4
<1>8. ASSUME NEW user, NEW name \in Categories, delete_category(RoleOf(user), name, UsedCategories),
             UNCHANGED docVars
      PROVE  wikidoc'[t].category \in Stored(wikicategory') /\ wikidoc'[t].tags \subseteq wikitag'
  <2>1. /\ t \in Documents /\ wikidoc' = wikidoc /\ wikitag' = wikitag
        /\ descendant_names(name) \cap UsedCategories = {}
        /\ wikicategory' = [c \in Categories |->
                              IF c \in descendant_names(name) THEN None ELSE wikicategory[c]]
    BY <1>1, <1>8 DEF delete_category, docVars, Documents
  <2>2. wikidoc[t].category \in UsedCategories
    BY <2>1 DEF UsedCategories
  <2>3. wikidoc[t].category \in Stored(wikicategory) /\ wikidoc[t].category \in Categories
    BY <1>1, <2>1 DEF Stored, TablesInv, TypeOK, CategoryTypeOK
  <2>4. wikidoc[t].category \in Stored(wikicategory')
    BY <2>1, <2>2, <2>3 DEF Stored
  <2>5. QED
    BY <1>1, <2>1, <2>4
<1>9. ASSUME NEW user, EditCategory(RoleOf(user)), UNCHANGED docVars
      PROVE  wikidoc'[t].category \in Stored(wikicategory') /\ wikidoc'[t].tags \subseteq wikitag'
  <2>1. t \in Documents /\ wikidoc' = wikidoc /\ wikitag' = wikitag
    BY <1>1, <1>9 DEF docVars, Documents
  <2>2. PICK name \in Categories, row \in CategoryRow : wikicategory' = [wikicategory EXCEPT ![name] = row]
    BY <1>9, EditedRow DEF TablesInv, TypeOK
  <2>3. Stored(wikicategory) \subseteq Stored(wikicategory')
    BY <2>2, RequestAssumption DEF Stored, TablesInv, TypeOK, CategoryTypeOK
  <2>4. QED
    BY <1>1, <2>1, <2>3
<1>10. CASE UNCHANGED <<wikidoc, wikicategory, wikitag>>
  BY <1>1, <1>10 DEF Documents
<1>11. QED
  BY <1>3, <1>4, <1>5, <1>6, <1>7, <1>8, <1>9, <1>10 DEF Next, DocumentStep, AdminStep,
       update_user_permission, vars, docVars

(* No deletion of a tag or a category, and no edit, move or deletion of a  *)
(* document leaves a document that names a tag or a category that is not   *)
(* stored.                                                                 *)
THEOREM NoBrokenReference == Spec => []ReferencesResolve
<1>1. Init => ReferencesResolve
  <2>1. EmptyDatabase => ReferencesResolve
    BY DEF EmptyDatabase, ReferencesResolve, Documents
  <2>2. ASSUME NEW title \in Titles, NEW content \in Contents, NEW c \in Categories,
               NEW lists \in LegacyPermissions, NEW author \in Users,
               LegacyDatabase(title, content, c, lists, author)
        PROVE  ReferencesResolve
    <3>1. [parent |-> None, write_permission |-> DefaultWritePermission] \in CategoryRow
      BY DefaultRole DEF CategoryRow
    <3>2. c \in Stored(wikicategory)
      BY <2>2, <3>1, RequestAssumption DEF LegacyDatabase, LegacyCategory, NoCategory, Stored
    <3>3. \A t \in Documents : wikidoc[t].category = c /\ wikidoc[t].tags = {}
      BY <2>2 DEF LegacyDatabase, Documents
    <3>4. QED
      BY <3>2, <3>3 DEF ReferencesResolve
  <2>3. QED
    BY <2>1, <2>2 DEF Init
<1>2. TablesInv /\ TablesInv' /\ ReferencesResolve /\ [Next]_vars => ReferencesResolve'
  BY ReferencesStep
<1>3. QED
  BY <1>1, <1>2, TablesStart, TablesStep, PTL DEF Spec

---------------------------------------------------------------------------
(* Rows and their documents. *)

(* A row that a step leaves where it was, or puts beside the others. *)
RowOf(row) == row.title \in Documents /\ row.doc = wikidoc[row.title].doc

LEMMA RowsAreTyped ==
  ASSUME TypeOK
  PROVE  /\ \A v \in wikidocversion : v \in VersionRow /\ v.title \in Titles
         /\ \A l \in documentlike : l \in LikeRow /\ l.title \in Titles
         /\ \A e \in documentevent : e \in EventRow /\ e.title \in Titles
BY DEF TypeOK, VersionRow, LikeRow, EventRow

LEMMA RowsOfDocuments ==
  ASSUME TypeOK, RowsInv
  PROVE  /\ \A v \in wikidocversion : RowOf(v)
         /\ \A l \in documentlike : RowOf(l)
         /\ \A e \in documentevent : ~e.deleted => RowOf(e)
BY RowsAreTyped DEF RowsInv, RowsBelongToTheirDocument, BelongsHere, RowOf, Documents

(* The steps that neither make, move nor delete a document. *)
SameNumbers ==
  \A t \in Titles : /\ wikidoc'[t] = None <=> wikidoc[t] = None
                    /\ wikidoc[t] # None => wikidoc'[t].doc = wikidoc[t].doc

LEMMA SameDocuments ==
  ASSUME TypeOK, RowsInv, SameNumbers,
         UNCHANGED <<permissions, documentevent, created>>,
         \A v \in wikidocversion' : v \in wikidocversion \/ RowOf(v),
         \A l \in documentlike' : l \in documentlike \/ RowOf(l)
  PROVE  RowsInv'
<1>1. Documents' = Documents /\ \A t \in Documents : wikidoc'[t].doc = wikidoc[t].doc
  BY DEF Documents, SameNumbers
<1>2. \A row : RowOf(row) => wikidoc'[row.title] # None /\ wikidoc'[row.title].doc = row.doc
  BY <1>1 DEF RowOf, Documents
<1>3. RowsBelongToTheirDocument'
  BY <1>1, <1>2, RowsOfDocuments DEF RowsInv, RowsBelongToTheirDocument, OneTitlePerDocument, BelongsHere
<1>4. NumbersAreGivenOut'
  BY <1>1 DEF RowsInv, NumbersAreGivenOut
<1>5. QED
  BY <1>3, <1>4 DEF RowsInv

LEMMA CreateRows ==
  ASSUME TablesInv, RowsInv, NEW user \in Users \cup {None}, NEW title \in Titles,
         NEW content \in Contents, NEW c \in Categories, NEW tags \in SUBSET Tags,
         NEW is_private \in BOOLEAN,
         create_document(user, title, content, c, tags, is_private)
  PROVE  RowsInv'
<1> DEFINE row == NewDocument(user, content, c, tags, is_private)
<1>1. /\ wikidoc[title] = None /\ created' = created + 1
      /\ wikidoc' = [wikidoc EXCEPT ![title] = row]
      /\ permissions' = [permissions EXCEPT ![title] = DefaultPermissions]
      /\ wikidocversion' = wikidocversion \cup {NewVersion(wikidoc'[title], title, 1, user)}
      /\ UNCHANGED <<documentlike, documentevent>>
  BY DEF create_document, WithMissingTags, NewDocument
<1>2. row # None /\ row.doc = created + 1
  BY NewDocumentType, DocumentAssumptions DEF NewDocument
<1> HIDE DEF row
<1>3. created \in Nat /\ \A t \in Documents : wikidoc[t].doc \in Nat /\ wikidoc[t].doc <= created
  BY DocumentRows DEF TablesInv, TypeOK, RowsInv, NumbersAreGivenOut, DocumentRow
<1>4. /\ Documents' = Documents \cup {title} /\ title \notin Documents
      /\ wikidoc'[title] = row
      /\ \A t \in Documents : wikidoc'[t] = wikidoc[t]
  BY <1>1, <1>2 DEF Documents, TablesInv, TypeOK
<1>5. OneTitlePerDocument'
  BY <1>2, <1>3, <1>4 DEF RowsInv, RowsBelongToTheirDocument, OneTitlePerDocument
<1>6. \A r : RowOf(r) => BelongsHere(r)'
  BY <1>4 DEF RowOf, BelongsHere, Documents
<1>7. \A r : r.title = title /\ r.doc = row.doc => BelongsHere(r)'
  BY <1>2, <1>4 DEF BelongsHere
<1>8. /\ \A v \in wikidocversion' : BelongsHere(v)'
      /\ \A l \in documentlike' : BelongsHere(l)'
      /\ \A e \in documentevent' : ~e.deleted => BelongsHere(e)'
  <2>1. NewVersion(wikidoc'[title], title, 1, user).title = title
        /\ NewVersion(wikidoc'[title], title, 1, user).doc = row.doc
    BY <1>4 DEF NewVersion
  <2>2. /\ \A v \in wikidocversion : BelongsHere(v)'
        /\ \A l \in documentlike : BelongsHere(l)'
        /\ \A e \in documentevent : ~e.deleted => BelongsHere(e)'
    BY <1>6, RowsOfDocuments DEF TablesInv
  <2>3. QED
    BY <1>1, <1>7, <2>1, <2>2
<1>9. \A t \in Titles \ Documents' : permissions'[t] = None
  BY <1>1, <1>4 DEF RowsInv, RowsBelongToTheirDocument, TablesInv, TypeOK
<1>10. NumbersAreGivenOut'
  BY <1>1, <1>2, <1>3, <1>4 DEF NumbersAreGivenOut
<1>11. QED
  BY <1>5, <1>8, <1>9, <1>10 DEF RowsInv, RowsBelongToTheirDocument

LEMMA MoveRows ==
  ASSUME TablesInv, RowsInv, NEW user \in Users \cup {None}, NEW title \in Titles,
         NEW new_title \in Titles, move_document(user, title, new_title)
  PROVE  RowsInv'
<1> DEFINE event == NewEvent(title, "rename", new_title, user, FALSE)
           row   == MovedRow(wikidoc[title])
<1>1. /\ new_title # title
      /\ wikidoc[new_title] = None
      /\ wikidoc' = [wikidoc EXCEPT ![new_title] = row, ![title] = None]
      /\ wikidocversion' = (wikidocversion \ VersionsOf(title)) \cup Retitled(VersionsOf(title), new_title)
      /\ permissions' = [permissions EXCEPT ![new_title] = permissions[title], ![title] = None]
      /\ documentlike' = (documentlike \ LikesOf(title)) \cup Retitled(LikesOf(title), new_title)
      /\ documentevent' = (documentevent \ VisibleEvents(title))
                            \cup Retitled(VisibleEvents(title), new_title) \cup {event}
      /\ created' = created
  BY DEF move_document, MovedVersions
<1>2. title \in Documents /\ wikidoc[title] \in DocumentRow
  BY PermittedTitles, DocumentRows DEF move_document, TablesInv
<1>3. row # None /\ row.doc = wikidoc[title].doc
  <2>1. row \in DocumentRow
    BY <1>2 DEF DocumentRow, MovedRow
  <2>2. QED
    BY <2>1, DocumentAssumptions DEF MovedRow
<1>4. event.title = new_title /\ event.doc = wikidoc[title].doc
  BY DocumentAssumptions DEF NewEvent
<1> HIDE DEF event, row
<1>5. /\ Documents' = (Documents \ {title}) \cup {new_title} /\ new_title \notin Documents
      /\ wikidoc'[new_title] = row
      /\ \A t \in Documents \ {title} : wikidoc'[t] = wikidoc[t]
  BY <1>1, <1>3 DEF Documents, TablesInv, TypeOK
<1>6. OneTitlePerDocument'
  BY <1>2, <1>3, <1>5 DEF RowsInv, RowsBelongToTheirDocument, OneTitlePerDocument
<1>7. \A r : RowOf(r) /\ r.title # title => BelongsHere(r)'
  BY <1>5 DEF RowOf, BelongsHere, Documents
<1>8. \A r : r.title = new_title /\ r.doc = wikidoc[title].doc => BelongsHere(r)'
  BY <1>3, <1>5 DEF BelongsHere
<1>9. \A v \in wikidocversion' : BelongsHere(v)'
  <2>1. SUFFICES ASSUME NEW v \in wikidocversion' PROVE BelongsHere(v)'
    OBVIOUS
  <2>2. CASE v \in wikidocversion \ VersionsOf(title)
    BY <1>7, <2>2, RowsOfDocuments DEF VersionsOf, TablesInv
  <2>3. ASSUME NEW w \in VersionsOf(title), v = [w EXCEPT !.title = new_title]
        PROVE  BelongsHere(v)'
    <3>1. RowOf(w) /\ w.title = title /\ w \in VersionRow
      BY RowsOfDocuments, RowsAreTyped DEF VersionsOf, TablesInv
    <3>2. v.title = new_title /\ v.doc = w.doc
      BY <2>3, <3>1 DEF VersionRow
    <3>3. QED
      BY <1>8, <3>1, <3>2 DEF RowOf
  <2>4. QED
    BY <1>1, <2>2, <2>3 DEF Retitled
<1>10. \A l \in documentlike' : BelongsHere(l)'
  <2>1. SUFFICES ASSUME NEW l \in documentlike' PROVE BelongsHere(l)'
    OBVIOUS
  <2>2. CASE l \in documentlike \ LikesOf(title)
    BY <1>7, <2>2, RowsOfDocuments DEF LikesOf, TablesInv
  <2>3. ASSUME NEW k \in LikesOf(title), l = [k EXCEPT !.title = new_title]
        PROVE  BelongsHere(l)'
    <3>1. RowOf(k) /\ k.title = title /\ k \in LikeRow
      BY RowsOfDocuments, RowsAreTyped DEF LikesOf, TablesInv
    <3>2. l.title = new_title /\ l.doc = k.doc
      BY <2>3, <3>1 DEF LikeRow
    <3>3. QED
      BY <1>8, <3>1, <3>2 DEF RowOf
  <2>4. QED
    BY <1>1, <2>2, <2>3 DEF Retitled
<1>11. \A e \in documentevent' : ~e.deleted => BelongsHere(e)'
  <2>1. SUFFICES ASSUME NEW e \in documentevent', ~e.deleted PROVE BelongsHere(e)'
    OBVIOUS
  <2>2. CASE e \in documentevent \ VisibleEvents(title)
    BY <1>7, <2>1, <2>2, RowsOfDocuments DEF VisibleEvents, TablesInv
  <2>3. ASSUME NEW f \in VisibleEvents(title), e = [f EXCEPT !.title = new_title]
        PROVE  BelongsHere(e)'
    <3>1. RowOf(f) /\ f.title = title /\ f \in EventRow
      BY RowsOfDocuments, RowsAreTyped DEF VisibleEvents, TablesInv
    <3>2. e.title = new_title /\ e.doc = f.doc
      BY <2>3, <3>1 DEF EventRow
    <3>3. QED
      BY <1>8, <3>1, <3>2 DEF RowOf
  <2>4. CASE e = event
    BY <1>4, <1>8, <2>4
  <2>5. QED
    BY <1>1, <2>2, <2>3, <2>4 DEF Retitled
<1>12. \A t \in Titles \ Documents' : permissions'[t] = None
  BY <1>1, <1>5 DEF RowsInv, RowsBelongToTheirDocument, TablesInv, TypeOK
<1>13. NumbersAreGivenOut'
  BY <1>1, <1>2, <1>3, <1>5 DEF RowsInv, NumbersAreGivenOut
<1>14. QED
  BY <1>6, <1>9, <1>10, <1>11, <1>12, <1>13 DEF RowsInv, RowsBelongToTheirDocument

LEMMA DeleteRows ==
  ASSUME TablesInv, RowsInv, NEW user \in Users \cup {None}, NEW title \in Titles,
         delete_document(user, title)
  PROVE  RowsInv'
<1> DEFINE event == NewEvent(title, "delete", None, user, TRUE)
<1>1. /\ wikidoc' = [wikidoc EXCEPT ![title] = None]
      /\ wikidocversion' = wikidocversion \ VersionsOf(title)
      /\ permissions' = [permissions EXCEPT ![title] = None]
      /\ documentlike' = documentlike \ LikesOf(title)
      /\ documentevent' = (documentevent \ VisibleEvents(title))
                            \cup {[e EXCEPT !.deleted = TRUE] : e \in VisibleEvents(title)}
                            \cup {event}
      /\ created' = created
  BY DEF delete_document
<1>2. event.deleted
  BY DEF NewEvent
<1> HIDE DEF event
<1>3. /\ Documents' = Documents \ {title}
      /\ \A t \in Documents \ {title} : wikidoc'[t] = wikidoc[t]
  BY <1>1 DEF Documents, TablesInv, TypeOK
<1>4. OneTitlePerDocument'
  BY <1>3 DEF RowsInv, RowsBelongToTheirDocument, OneTitlePerDocument
<1>5. \A r : RowOf(r) /\ r.title # title => BelongsHere(r)'
  BY <1>3 DEF RowOf, BelongsHere, Documents
<1>6. \A v \in wikidocversion' : BelongsHere(v)'
  BY <1>1, <1>5, RowsOfDocuments DEF VersionsOf, TablesInv
<1>7. \A l \in documentlike' : BelongsHere(l)'
  BY <1>1, <1>5, RowsOfDocuments DEF LikesOf, TablesInv
<1>8. \A e \in documentevent' : ~e.deleted => BelongsHere(e)'
  <2>1. SUFFICES ASSUME NEW e \in documentevent', ~e.deleted PROVE BelongsHere(e)'
    OBVIOUS
  <2>2. \A f \in VisibleEvents(title) : [f EXCEPT !.deleted = TRUE].deleted
    BY RowsAreTyped DEF VisibleEvents, EventRow, TablesInv
  <2>3. e \in documentevent \ VisibleEvents(title)
    BY <1>1, <1>2, <2>1, <2>2
  <2>4. QED
    BY <1>5, <2>1, <2>3, RowsOfDocuments DEF VisibleEvents, TablesInv
<1>9. \A t \in Titles \ Documents' : permissions'[t] = None
  BY <1>1, <1>3 DEF RowsInv, RowsBelongToTheirDocument, TablesInv, TypeOK
<1>10. NumbersAreGivenOut'
  BY <1>1, <1>3 DEF RowsInv, NumbersAreGivenOut
<1>11. QED
  BY <1>4, <1>6, <1>7, <1>8, <1>9, <1>10 DEF RowsInv, RowsBelongToTheirDocument

LEMMA UpdateRows ==
  ASSUME TablesInv, RowsInv, NEW user \in Users \cup {None}, NEW title \in Titles,
         NEW content \in Contents, NEW c \in Categories, NEW tags \in SUBSET Tags,
         NEW is_private \in BOOLEAN, NEW reordered \in BOOLEAN,
         update_document(user, title, content, c, tags, is_private, reordered)
  PROVE  RowsInv'
<1> DEFINE next == [wikidoc[title] EXCEPT !.content = content, !.category = c, !.tags = tags,
                                          !.is_private = is_private]
           version == NewVersion(next, title, NextNumber(title), user)
<1>1. /\ wikidoc' = [wikidoc EXCEPT ![title] = next]
      /\ wikidocversion' = wikidocversion \cup {version}
      /\ UNCHANGED <<permissions, documentlike, documentevent, created>>
  BY DEF update_document, WithMissingTags
<1>2. title \in Documents /\ wikidoc[title] \in DocumentRow
  BY PermittedTitles, DocumentRows DEF update_document, WithMissingTags, TablesInv
<1>3. next \in DocumentRow /\ next.doc = wikidoc[title].doc
  BY <1>2 DEF DocumentRow
<1>4. version.title = title /\ version.doc = next.doc
  BY DEF NewVersion
<1> HIDE DEF next, version
<1>5. SameNumbers
  BY <1>1, <1>2, <1>3, DocumentAssumptions DEF TablesInv, TypeOK, SameNumbers
<1>6. RowOf(version)
  BY <1>2, <1>3, <1>4 DEF RowOf
<1>7. /\ \A v \in wikidocversion' : v \in wikidocversion \/ RowOf(v)
      /\ \A l \in documentlike' : l \in documentlike \/ RowOf(l)
      /\ UNCHANGED <<permissions, documentevent, created>>
  BY <1>1, <1>6
<1>8. TypeOK
  BY DEF TablesInv
<1>9. QED
  BY <1>5, <1>7, <1>8, SameDocuments

LEMMA QuietRows ==
  ASSUME TablesInv, RowsInv, NEW user \in Users \cup {None}, NEW title \in Titles,
         get_document(user, title) \/ like_document(user, title) \/ unlike_document(user, title)
  PROVE  RowsInv'
<1>1. CASE get_document(user, title)
  <2>1. /\ title \in Documents
        /\ wikidoc' = [wikidoc EXCEPT ![title].view_count = @ + 1]
        /\ UNCHANGED <<permissions, wikidocversion, documentlike, documentevent, created>>
    BY <1>1, ReadableTitles DEF get_document, TablesInv
  <2> DEFINE next == [wikidoc[title] EXCEPT !.view_count = @ + 1]
  <2>2. next.doc = wikidoc[title].doc /\ wikidoc' = [wikidoc EXCEPT ![title] = next]
    BY <2>1, DocumentRows DEF DocumentRow, TablesInv
  <2>3. next # None
    <3>1. wikidoc[title] \in DocumentRow /\ wikidoc[title].view_count < MaxViews
      BY <1>1, <2>1, DocumentRows DEF get_document, TablesInv
    <3>2. wikidoc[title].view_count + 1 \in 0..MaxViews
      BY <3>1, DocumentAssumptions DEF DocumentRow
    <3>3. next \in DocumentRow
      BY <3>1, <3>2 DEF DocumentRow
    <3>4. QED
      BY <3>3, DocumentAssumptions
  <2> HIDE DEF next
  <2>4. SameNumbers
    BY <2>1, <2>2, <2>3 DEF TablesInv, TypeOK, Documents, SameNumbers
  <2>5. /\ \A v \in wikidocversion' : v \in wikidocversion \/ RowOf(v)
        /\ \A l \in documentlike' : l \in documentlike \/ RowOf(l)
        /\ UNCHANGED <<permissions, documentevent, created>>
    BY <2>1
  <2>6. TypeOK
    BY DEF TablesInv
  <2>7. QED
    BY <2>4, <2>5, <2>6, SameDocuments
<1>2. CASE like_document(user, title) \/ unlike_document(user, title)
  <2> DEFINE like == [doc |-> wikidoc[title].doc, title |-> title, username |-> user]
  <2>1. /\ title \in Documents /\ documentlike' \subseteq documentlike \cup {like}
        /\ UNCHANGED <<wikidoc, permissions, wikidocversion, documentevent, created>>
    BY <1>2, ReadableTitles DEF like_document, unlike_document, TablesInv
  <2>2. RowOf(like)
    BY <2>1 DEF RowOf
  <2> HIDE DEF like
  <2>3. QED
    BY <2>1, <2>2, SameDocuments DEF TablesInv, SameNumbers
<1>3. QED
  BY <1>1, <1>2

LEMMA AdminRows ==
  ASSUME TablesInv, RowsInv, NEW user, AdminStep(user)
  PROVE  RowsInv'
<1>1. ASSUME NEW name \in Tags, delete_tag(user, name)
      PROVE  RowsInv'
  <2>1. /\ wikidoc' = [t \in Titles |-> IF t \in Documents
                                         THEN [wikidoc[t] EXCEPT !.tags = @ \ {name}] ELSE None]
        /\ UNCHANGED <<permissions, wikidocversion, documentlike, documentevent, created>>
    BY <1>1 DEF delete_tag
  <2>2. \A row \in DocumentRow : LET next == [row EXCEPT !.tags = @ \ {name}]
                                 IN  next \in DocumentRow /\ next.doc = row.doc
    BY DEF DocumentRow
  <2>3. SameNumbers
    BY <2>1, <2>2, DocumentRows DEF TablesInv, SameNumbers
  <2>4. /\ \A v \in wikidocversion' : v \in wikidocversion \/ RowOf(v)
        /\ \A l \in documentlike' : l \in documentlike \/ RowOf(l)
        /\ UNCHANGED <<permissions, documentevent, created>>
    BY <2>1
  <2>5. TypeOK
    BY DEF TablesInv
  <2>6. QED
    BY <2>3, <2>4, <2>5, SameDocuments
<1>2. CASE UNCHANGED <<wikidoc, permissions, wikidocversion, documentlike, documentevent, created>>
  BY <1>2, SameDocuments DEF TablesInv, SameNumbers
<1>3. QED
  BY <1>1, <1>2 DEF AdminStep, update_user_permission, docVars

LEMMA RowsStart == Init => RowsInv
<1>1. EmptyDatabase /\ documentlike = {} /\ documentevent = {} => RowsInv
  BY DEF EmptyDatabase, RowsInv, NumbersAreGivenOut, RowsBelongToTheirDocument, OneTitlePerDocument,
         Documents
<1>2. ASSUME NEW title \in Titles, NEW content \in Contents, NEW c \in Categories,
             NEW lists \in LegacyPermissions, NEW author \in Users,
             LegacyDatabase(title, content, c, lists, author), documentlike = {}, documentevent = {}
      PROVE  RowsInv
  <2>1. 1 \in 1..MaxDocuments /\ 0 \in 0..MaxViews
    BY DocumentAssumptions
  <2>2. [doc |-> 1, content |-> content, category |-> c, tags |-> {}, is_private |-> FALSE,
         view_count |-> 0, created_by |-> author] \in DocumentRow
    BY <2>1 DEF DocumentRow
  <2>3. Documents = {title} /\ wikidoc[title].doc = 1
    BY <1>2, <2>2, DocumentAssumptions DEF LegacyDatabase, Documents
  <2>4. \A v \in wikidocversion : v.title = title /\ v.doc = 1
    BY <1>2 DEF LegacyDatabase
  <2>5. \A t \in Titles \ {title} : permissions[t] = None
    BY <1>2 DEF LegacyDatabase
  <2>6. created = 1
    BY <1>2 DEF LegacyDatabase
  <2>7. QED
    BY <1>2, <2>3, <2>4, <2>5, <2>6 DEF RowsInv, NumbersAreGivenOut, RowsBelongToTheirDocument,
       OneTitlePerDocument, BelongsHere, Documents
<1>3. QED
  BY <1>1, <1>2 DEF Init

LEMMA RowsStep ==
  ASSUME TablesInv, RowsInv, [Next]_vars
  PROVE  RowsInv'
<1>1. ASSUME NEW user \in Users \cup {None}, DocumentStep(user)
      PROVE  RowsInv'
  BY <1>1, CreateRows, UpdateRows, MoveRows, DeleteRows, QuietRows DEF DocumentStep
<1>2. CASE UNCHANGED vars
  BY <1>2, SameDocuments DEF vars, docVars, TablesInv, SameNumbers
<1>3. QED
  BY <1>1, <1>2, AdminRows DEF Next

(* Titles are reused, rows never are: whatever sequence of creations,      *)
(* renames and deletions came before, the versions, likes, permissions and *)
(* visible events found under a title were written for the document that   *)
(* has the title.                                                          *)
THEOREM RowsStayWithTheirDocument == Spec => []RowsBelongToTheirDocument
<1>1. RowsInv => RowsBelongToTheirDocument
  BY DEF RowsInv
<1>2. TablesInv /\ RowsInv /\ [Next]_vars => RowsInv'
  BY RowsStep
<1>3. QED
  BY <1>1, <1>2, RowsStart, TablesStart, TablesStep, PTL DEF Spec

===========================================================================
