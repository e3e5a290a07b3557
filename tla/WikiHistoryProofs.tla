------------------------ MODULE WikiHistoryProofs ------------------------
(***************************************************************************)
(* For all users, titles, categories, tags and bounds: the versions of a   *)
(* document are numbered without gaps, the newest one is what the document *)
(* shows, history only grows, likes come from readers, and the renames of  *)
(* a document form one trail.                                              *)
(*                                                                         *)
(* Unless a category bears the empty name: whatever order roles,           *)
(* categories and documents are changed in, an edit, a rename or a         *)
(* deletion is signed by a user who may make it at that moment.  And only  *)
(* administrators' requests change what anybody may do.                    *)
(***************************************************************************)
EXTENDS WikiDocumentsProofs

Numbered(t) ==
  /\ VersionsOf(t) # {}
  /\ {v.number : v \in VersionsOf(t)} = 1..Cardinality(VersionsOf(t))

Newest(t) == {v \in VersionsOf(t) : v.number = Cardinality(VersionsOf(t))}

Shows(row, v) ==
  /\ v.content = row.content
  /\ v.category = row.category
  /\ row.tags \subseteq v.tags

(* What the two properties say of one title. *)
WellVersioned(t) == Numbered(t) /\ \A v \in Newest(t) : Shows(wikidoc[t], v)

VersionsInv == \A t \in Documents : WellVersioned(t)

LEMMA VersionsInvSays ==
  /\ VersionsInv => VersionsNumberedWithoutGaps
  /\ VersionsInv => HeadIsNewestVersion
<1>1. VersionsInv => VersionsNumberedWithoutGaps
  BY DEF VersionsInv, WellVersioned, Numbered, VersionsNumberedWithoutGaps
<1>2. VersionsInv => HeadIsNewestVersion
  BY DEF VersionsInv, WellVersioned, Newest, Shows, HeadIsNewestVersion
<1>3. QED
  BY <1>1, <1>2

---------------------------------------------------------------------------
(* Rows under titles. *)

(* A title without a document is free: nothing is found under it. *)
LEMMA FreeTitle ==
  ASSUME TypeOK, RowsInv, NEW t \in Titles \ Documents
  PROVE  VersionsOf(t) = {} /\ LikesOf(t) = {} /\ VisibleEvents(t) = {}
BY RowsOfDocuments DEF VersionsOf, LikesOf, VisibleEvents, RowOf

LEMMA VersionsFinite ==
  ASSUME TablesInv, NEW t
  PROVE  IsFiniteSet(VersionsOf(t)) /\ Cardinality(VersionsOf(t)) \in Nat
BY CountsAreNumbers, FS_CardinalityType

CopyOf(w, v, new_title) ==
  /\ w.title = new_title /\ w.doc = v.doc /\ w.number = v.number
  /\ w.content = v.content /\ w.category = v.category /\ w.tags = v.tags
  /\ w.updated_by = v.updated_by

(* Copies under another title are as many as the rows. *)
LEMMA RetitledVersions ==
  ASSUME TypeOK, NEW t, NEW new_title, IsFiniteSet(VersionsOf(t))
  PROVE  /\ Cardinality(Retitled(VersionsOf(t), new_title)) = Cardinality(VersionsOf(t))
         /\ \A w \in Retitled(VersionsOf(t), new_title) :
              \E v \in VersionsOf(t) : CopyOf(w, v, new_title)
         /\ \A v \in VersionsOf(t) :
              \E w \in Retitled(VersionsOf(t), new_title) : CopyOf(w, v, new_title)
<1> DEFINE Moved == Retitled(VersionsOf(t), new_title)
           f == [v \in VersionsOf(t) |-> [v EXCEPT !.title = new_title]]
<1>1. \A v \in VersionsOf(t) : v \in VersionRow /\ v.title = t
  BY RowsAreTyped DEF VersionsOf
<1>2. f \in Surjection(VersionsOf(t), Moved)
  BY DEF Surjection, Retitled
<1>3. \A v, w \in VersionsOf(t) : f[v] = f[w] => v = w
  <2>1. SUFFICES ASSUME NEW v \in VersionsOf(t), NEW w \in VersionsOf(t), f[v] = f[w]
                 PROVE  v = w
    OBVIOUS
  <2>2. [v EXCEPT !.title = new_title] = [w EXCEPT !.title = new_title]
    BY <2>1
  <2>3. v \in VersionRow /\ w \in VersionRow /\ v.title = w.title
    BY <1>1
  <2>4. /\ v.doc = w.doc /\ v.number = w.number /\ v.content = w.content
        /\ v.category = w.category /\ v.tags = w.tags /\ v.updated_by = w.updated_by
    BY <2>2, <2>3 DEF VersionRow
  <2>5. QED
    BY <2>3, <2>4 DEF VersionRow
<1>4. f \in Injection(VersionsOf(t), Moved)
  BY <1>2, <1>3 DEF Injection, IsInjective, Surjection
<1>5. Cardinality(Moved) = Cardinality(VersionsOf(t))
  BY <1>2, <1>4, FS_Surjection
<1>6. \A v \in VersionsOf(t) :
        LET w == [v EXCEPT !.title = new_title]
        IN  /\ w \in Moved
            /\ CopyOf(w, v, new_title)
  BY <1>1 DEF VersionRow, Retitled, CopyOf
<1>7. \A w \in Moved : \E v \in VersionsOf(t) : w = [v EXCEPT !.title = new_title]
  BY DEF Retitled
<1>8. /\ \A w \in Moved : \E v \in VersionsOf(t) : CopyOf(w, v, new_title)
      /\ \A v \in VersionsOf(t) : \E w \in Moved : CopyOf(w, v, new_title)
  BY <1>6, <1>7
<1>9. QED
  BY <1>5, <1>8

---------------------------------------------------------------------------
(* Numbers and newest versions. *)

(* A title whose versions and whose document the step leaves alone, but    *)
(* for tags that it takes away.                                            *)
LEMMA SameVersions ==
  ASSUME NEW t, WellVersioned(t), VersionsOf(t)' = VersionsOf(t),
         wikidoc'[t].content = wikidoc[t].content, wikidoc'[t].category = wikidoc[t].category,
         wikidoc'[t].tags \subseteq wikidoc[t].tags
  PROVE  WellVersioned(t)'
BY DEF WellVersioned, Numbered, Newest, Shows

LEMMA CreateVersions ==
  ASSUME TablesInv, RowsInv, VersionsInv, NEW user \in Users \cup {None}, NEW title \in Titles,
         NEW content \in Contents, NEW c \in Categories, NEW tags \in SUBSET Tags,
         NEW is_private \in BOOLEAN,
         create_document(user, title, content, c, tags, is_private)
  PROVE  VersionsInv'
<1> DEFINE row == NewDocument(user, content, c, tags, is_private)
           version == NewVersion(row, title, 1, user)
<1>1. /\ wikidoc[title] = None
      /\ wikidoc' = [wikidoc EXCEPT ![title] = row]
      /\ wikidocversion' = wikidocversion \cup {NewVersion(wikidoc'[title], title, 1, user)}
  BY DEF create_document, NewDocument
<1>2. wikidoc'[title] = row /\ \A t \in Titles \ {title} : wikidoc'[t] = wikidoc[t]
  BY <1>1 DEF TablesInv, TypeOK
<1>3. version.title = title /\ version.number = 1 /\ Shows(row, version)
  BY DEF NewVersion, NewDocument, Shows
<1>4. VersionsOf(title)' = {version}
  <2>1. VersionsOf(title) = {}
    BY <1>1, FreeTitle DEF TablesInv, Documents
  <2>2. QED
    BY <1>1, <1>2, <1>3, <2>1 DEF VersionsOf
<1>5. \A t \in Titles \ {title} : VersionsOf(t)' = VersionsOf(t)
  BY <1>1, <1>2, <1>3 DEF VersionsOf
<1> HIDE DEF row, version
<1>6. WellVersioned(title)'
  <2>1. Cardinality(VersionsOf(title)') = 1
    BY <1>4, FS_Singleton
  <2>2. {v.number : v \in VersionsOf(title)'} = {1} /\ 1..1 = {1}
    BY <1>3, <1>4
  <2>3. Numbered(title)'
    BY <1>4, <2>1, <2>2 DEF Numbered
  <2>4. QED
    BY <1>2, <1>3, <1>4, <2>3 DEF WellVersioned, Newest
<1>7. ASSUME NEW t \in Documents', t # title PROVE WellVersioned(t)'
  <2>1. t \in Documents /\ wikidoc'[t] = wikidoc[t] /\ VersionsOf(t)' = VersionsOf(t)
    BY <1>2, <1>5, <1>7 DEF Documents
  <2>2. QED
    BY <2>1, SameVersions DEF VersionsInv
<1>8. QED
  BY <1>6, <1>7 DEF VersionsInv

LEMMA UpdateVersions ==
  ASSUME TablesInv, RowsInv, VersionsInv, NEW user \in Users \cup {None}, NEW title \in Titles,
         NEW content \in Contents, NEW c \in Categories, NEW tags \in SUBSET Tags,
         NEW is_private \in BOOLEAN, NEW reordered \in BOOLEAN,
         update_document(user, title, content, c, tags, is_private, reordered)
  PROVE  VersionsInv'
<1> DEFINE next == [wikidoc[title] EXCEPT !.content = content, !.category = c, !.tags = tags,
                                          !.is_private = is_private]
           n == Cardinality(VersionsOf(title))
           version == NewVersion(next, title, n + 1, user)
<1>1. /\ wikidoc' = [wikidoc EXCEPT ![title] = next]
      /\ wikidocversion' = wikidocversion \cup {version}
  BY DEF update_document, NextNumber
<1>2. title \in Documents
  BY PermittedTitles DEF update_document, TablesInv
<1>3. wikidoc'[title] = next /\ \A t \in Titles \ {title} : wikidoc'[t] = wikidoc[t]
  BY <1>1 DEF TablesInv, TypeOK
<1>4. version.title = title /\ version.number = n + 1 /\ Shows(next, version)
  BY DEF NewVersion, Shows
<1> HIDE DEF version, next
<1>5. VersionsOf(title)' = VersionsOf(title) \cup {version}
  BY <1>1, <1>4 DEF VersionsOf
<1>6. \A t \in Titles \ {title} : VersionsOf(t)' = VersionsOf(t)
  BY <1>1, <1>4 DEF VersionsOf
<1>7. WellVersioned(title)'
  <2>1. n \in Nat /\ IsFiniteSet(VersionsOf(title))
    BY VersionsFinite
  <2>2. {v.number : v \in VersionsOf(title)} = 1..n
    BY <1>2 DEF VersionsInv, WellVersioned, Numbered
  <2> HIDE DEF n
  <2>3. \A v \in VersionsOf(title) : v.number # n + 1
    BY <2>1, <2>2
  <2>4. version \notin VersionsOf(title)
    BY <1>4, <2>3
  <2>5. Cardinality(VersionsOf(title)') = n + 1
    BY <1>5, <2>1, <2>4, FS_AddElement DEF n
  <2>6. {v.number : v \in VersionsOf(title)'} = 1..(n + 1)
    <3>1. {v.number : v \in VersionsOf(title)'} = (1..n) \cup {n + 1}
      BY <1>4, <1>5, <2>2
    <3>2. QED
      BY <2>1, <3>1
  <2>7. Numbered(title)'
    BY <1>5, <2>5, <2>6 DEF Numbered
  <2>8. Newest(title)' = {version}
    BY <1>4, <1>5, <2>3, <2>5 DEF Newest
  <2>9. QED
    BY <1>3, <1>4, <2>7, <2>8 DEF WellVersioned
<1>8. ASSUME NEW t \in Documents', t # title PROVE WellVersioned(t)'
  <2>1. t \in Documents /\ wikidoc'[t] = wikidoc[t] /\ VersionsOf(t)' = VersionsOf(t)
    BY <1>3, <1>6, <1>8 DEF Documents
  <2>2. QED
    BY <2>1, SameVersions DEF VersionsInv
<1>9. QED
  BY <1>7, <1>8 DEF VersionsInv

(* What a rename does to the tables. *)
LEMMA MoveFacts ==
  ASSUME TablesInv, RowsInv, NEW user \in Users \cup {None}, NEW title \in Titles,
         NEW new_title \in Titles, move_document(user, title, new_title)
  PROVE  /\ title \in Documents /\ new_title # title /\ new_title \notin Documents
         /\ Documents' = (Documents \ {title}) \cup {new_title}
         /\ wikidoc'[new_title] = wikidoc[title]
         /\ \A t \in Documents \ {title} : wikidoc'[t] = wikidoc[t]
         /\ wikidocversion' = (wikidocversion \ VersionsOf(title))
                                 \cup Retitled(VersionsOf(title), new_title)
<1>1. /\ new_title # title /\ wikidoc[new_title] = None
      /\ wikidoc' = [wikidoc EXCEPT ![new_title] = MovedRow(wikidoc[title]), ![title] = None]
      /\ wikidocversion' = (wikidocversion \ VersionsOf(title)) \cup Retitled(VersionsOf(title), new_title)
  BY DEF move_document, MovedVersions
<1>2. title \in Documents /\ wikidoc[title] \in DocumentRow
  BY PermittedTitles, DocumentRows DEF move_document, TablesInv
<1>3. MovedRow(wikidoc[title]) = wikidoc[title]
  BY <1>2 DEF MovedRow, DocumentRow
<1>4. wikidoc[title] # None
  BY <1>2 DEF Documents
<1>5. QED
  BY <1>1, <1>2, <1>3, <1>4 DEF Documents, TablesInv, TypeOK

LEMMA MoveVersions ==
  ASSUME TablesInv, RowsInv, VersionsInv, NEW user \in Users \cup {None}, NEW title \in Titles,
         NEW new_title \in Titles, move_document(user, title, new_title)
  PROVE  VersionsInv'
<1> DEFINE Moved == Retitled(VersionsOf(title), new_title)
<1>1. /\ title \in Documents /\ new_title # title /\ new_title \notin Documents
      /\ Documents' = (Documents \ {title}) \cup {new_title}
      /\ wikidoc'[new_title] = wikidoc[title]
      /\ \A t \in Documents \ {title} : wikidoc'[t] = wikidoc[t]
      /\ wikidocversion' = (wikidocversion \ VersionsOf(title)) \cup Moved
  BY MoveFacts
<1>2. /\ Cardinality(Moved) = Cardinality(VersionsOf(title))
      /\ \A w \in Moved : \E v \in VersionsOf(title) : CopyOf(w, v, new_title)
      /\ \A v \in VersionsOf(title) : \E w \in Moved : CopyOf(w, v, new_title)
  BY RetitledVersions, VersionsFinite DEF TablesInv
<1> HIDE DEF Moved
<1>3. VersionsOf(new_title)' = Moved
  <2>1. VersionsOf(new_title) = {}
    BY <1>1, FreeTitle DEF TablesInv
  <2>2. QED
    BY <1>1, <1>2, <2>1 DEF VersionsOf, CopyOf
<1>4. \A t \in Documents \ {title} : VersionsOf(t)' = VersionsOf(t)
  BY <1>1, <1>2 DEF VersionsOf, CopyOf
<1>5. WellVersioned(new_title)'
  <2>1. WellVersioned(title)
    BY <1>1 DEF VersionsInv
  <2>2. Moved # {}
    BY <1>2, <2>1 DEF WellVersioned, Numbered
  <2>3. {w.number : w \in Moved} = {v.number : v \in VersionsOf(title)}
    BY <1>2 DEF CopyOf
  <2>4. Numbered(new_title)'
    BY <1>2, <1>3, <2>1, <2>2, <2>3 DEF WellVersioned, Numbered
  <2>5. ASSUME NEW w \in Newest(new_title)' PROVE Shows(wikidoc'[new_title], w)
    <3>1. w \in Moved /\ w.number = Cardinality(VersionsOf(title))
      BY <1>2, <1>3, <2>5 DEF Newest
    <3>2. PICK v \in VersionsOf(title) : CopyOf(w, v, new_title)
      BY <1>2, <3>1
    <3>3. Shows(wikidoc[title], v)
      BY <2>1, <3>1, <3>2 DEF WellVersioned, Newest, CopyOf
    <3>4. QED
      BY <1>1, <3>2, <3>3 DEF Shows, CopyOf
  <2>6. QED
    BY <2>4, <2>5 DEF WellVersioned
<1>6. ASSUME NEW t \in Documents \ {title} PROVE WellVersioned(t)'
  <2>1. WellVersioned(t) /\ wikidoc'[t] = wikidoc[t] /\ VersionsOf(t)' = VersionsOf(t)
    BY <1>1, <1>4 DEF VersionsInv
  <2>2. QED
    BY <2>1, SameVersions
<1>7. QED
  BY <1>1, <1>5, <1>6 DEF VersionsInv

LEMMA DeleteVersions ==
  ASSUME TablesInv, VersionsInv, NEW user \in Users \cup {None}, NEW title \in Titles,
         delete_document(user, title)
  PROVE  VersionsInv'
<1>1. /\ wikidoc' = [wikidoc EXCEPT ![title] = None]
      /\ wikidocversion' = wikidocversion \ VersionsOf(title)
  BY DEF delete_document
<1>2. ASSUME NEW t \in Documents' PROVE WellVersioned(t)'
  <2>1. t \in Documents /\ t # title /\ wikidoc'[t] = wikidoc[t]
    BY <1>1 DEF Documents, TablesInv, TypeOK
  <2>2. VersionsOf(t)' = VersionsOf(t)
    BY <1>1, <2>1 DEF VersionsOf
  <2>3. QED
    BY <2>1, <2>2, SameVersions DEF VersionsInv
<1>3. QED
  BY <1>2 DEF VersionsInv

(* The steps that write no version and change a document in its tags and   *)
(* its counter at most.                                                    *)
LEMMA QuietVersions ==
  ASSUME VersionsInv, wikidocversion' = wikidocversion,
         \A t \in Documents' :
           /\ t \in Documents
           /\ wikidoc'[t].content = wikidoc[t].content
           /\ wikidoc'[t].category = wikidoc[t].category
           /\ wikidoc'[t].tags \subseteq wikidoc[t].tags
  PROVE  VersionsInv'
<1>1. \A t : VersionsOf(t)' = VersionsOf(t)
  BY DEF VersionsOf
<1>2. ASSUME NEW t \in Documents' PROVE WellVersioned(t)'
  <2>1. WellVersioned(t) /\ VersionsOf(t)' = VersionsOf(t)
    BY <1>1, <1>2 DEF VersionsInv
  <2>2. QED
    BY <1>2, <2>1, SameVersions
<1>3. QED
  BY <1>2 DEF VersionsInv

(* The steps that leave all documents alone. *)
LEMMA SameDocumentRows ==
  ASSUME VersionsInv, UNCHANGED <<wikidoc, wikidocversion>>
  PROVE  VersionsInv'
BY QuietVersions DEF Documents

LEMMA ViewedRow ==
  ASSUME TablesInv, NEW user \in Users \cup {None}, NEW title \in Titles, get_document(user, title)
  PROVE  \A t \in Documents' :
           /\ t \in Documents
           /\ \A field \in {"doc", "content", "category", "tags", "is_private", "created_by"} :
                wikidoc'[t][field] = wikidoc[t][field]
<1>1. /\ title \in Documents
      /\ wikidoc' = [wikidoc EXCEPT ![title].view_count = @ + 1]
  BY ReadableTitles DEF get_document, TablesInv
<1>2. wikidoc[title] \in DocumentRow
  BY <1>1, DocumentRows DEF TablesInv
<1>3. \A t \in Documents' \ {title} : t \in Documents /\ wikidoc'[t] = wikidoc[t]
  BY <1>1 DEF Documents, TablesInv, TypeOK
<1>4. \A field \in {"doc", "content", "category", "tags", "is_private", "created_by"} :
         wikidoc'[title][field] = wikidoc[title][field]
  BY <1>1, <1>2 DEF DocumentRow, TablesInv, TypeOK
<1>5. QED
  BY <1>1, <1>3, <1>4

LEMMA UntaggedRow ==
  ASSUME TablesInv, NEW user, NEW name, delete_tag(user, name)
  PROVE  \A t \in Documents' :
           /\ t \in Documents
           /\ \A field \in {"doc", "content", "category", "is_private", "created_by"} :
                wikidoc'[t][field] = wikidoc[t][field]
           /\ wikidoc'[t].tags \subseteq wikidoc[t].tags
<1>1. wikidoc' = [t \in Titles |-> IF t \in Documents
                                   THEN [wikidoc[t] EXCEPT !.tags = @ \ {name}] ELSE None]
  BY DEF delete_tag
<1>2. \A t \in Documents' : t \in Documents /\ wikidoc'[t] = [wikidoc[t] EXCEPT !.tags = @ \ {name}]
  BY <1>1 DEF Documents
<1>3. \A row \in DocumentRow :
        LET next == [row EXCEPT !.tags = @ \ {name}]
        IN  /\ \A field \in {"doc", "content", "category", "is_private", "created_by"} :
                 next[field] = row[field]
            /\ next.tags \subseteq row.tags
  BY DEF DocumentRow
<1>4. QED
  BY <1>2, <1>3, DocumentRows DEF TablesInv

LEMMA VersionsStart == Init => VersionsInv
<1>1. EmptyDatabase => VersionsInv
  BY DEF EmptyDatabase, VersionsInv, Documents
<1>2. ASSUME NEW title \in Titles, NEW content \in Contents, NEW c \in Categories,
             NEW lists \in LegacyPermissions, NEW author \in Users,
             LegacyDatabase(title, content, c, lists, author)
      PROVE  VersionsInv
  <2> DEFINE row == [doc |-> 1, content |-> content, category |-> c, tags |-> {},
                     is_private |-> FALSE, view_count |-> 0, created_by |-> author]
             version == [doc |-> 1, title |-> title, number |-> 1, content |-> content,
                         category |-> c, tags |-> {}, updated_by |-> author]
  <2>1. wikidoc[title] = row /\ \A t \in Titles \ {title} : wikidoc[t] = None
    BY <1>2 DEF LegacyDatabase
  <2>2. VersionsOf(title) = {version}
    BY <1>2 DEF LegacyDatabase, VersionsOf
  <2>3. Cardinality({version}) = 1
    BY FS_Singleton
  <2>4. Numbered(title)
    <3>1. {v.number : v \in VersionsOf(title)} = {1} /\ 1..1 = {1}
      BY <2>2
    <3>2. QED
      BY <2>2, <2>3, <3>1 DEF Numbered
  <2>5. Shows(row, version)
    BY DEF Shows
  <2>6. WellVersioned(title)
    BY <2>1, <2>2, <2>4, <2>5 DEF WellVersioned, Newest
  <2>7. QED
    BY <2>1, <2>6 DEF VersionsInv, Documents
<1>3. QED
  BY <1>1, <1>2 DEF Init

LEMMA VersionsStep ==
  ASSUME TablesInv, RowsInv, VersionsInv, [Next]_vars
  PROVE  VersionsInv'
<1>1. ASSUME NEW user \in Users \cup {None}, NEW title \in Titles, get_document(user, title)
      PROVE  VersionsInv'
  <2>1. wikidocversion' = wikidocversion
    BY <1>1 DEF get_document
  <2>2. QED
    BY <1>1, <2>1, ViewedRow, QuietVersions
<1>2. ASSUME NEW user \in Users \cup {None}, NEW title \in Titles,
             like_document(user, title) \/ unlike_document(user, title)
      PROVE  VersionsInv'
  BY <1>2, SameDocumentRows DEF like_document, unlike_document
<1>3. ASSUME NEW user \in Users \cup {None}, DocumentStep(user)
      PROVE  VersionsInv'
  BY <1>1, <1>2, <1>3, CreateVersions, UpdateVersions, MoveVersions, DeleteVersions DEF DocumentStep
<1>4. ASSUME NEW user, NEW name, delete_tag(user, name)
      PROVE  VersionsInv'
  <2>1. wikidocversion' = wikidocversion
    BY <1>4 DEF delete_tag
  <2>2. QED
    BY <1>4, <2>1, UntaggedRow, QuietVersions
<1>5. ASSUME NEW user, AdminStep(user)
      PROVE  VersionsInv'
  BY <1>4, <1>5, SameDocumentRows DEF AdminStep, update_user_permission, docVars
<1>6. CASE UNCHANGED vars
  BY <1>6, SameDocumentRows DEF vars, docVars
<1>7. QED
  BY <1>3, <1>5, <1>6 DEF Next

(* Counting the rows gives the next free number, always: whatever was       *)
(* renamed, deleted and created again before, the versions of a document    *)
(* are numbered 1 to n (update_document, documents.py:393).                 *)
THEOREM VersionsAreNumbered == Spec => []VersionsNumberedWithoutGaps
<1>1. TablesInv /\ RowsInv /\ VersionsInv /\ [Next]_vars => VersionsInv'
  BY VersionsStep
<1>2. TablesInv /\ RowsInv /\ [Next]_vars => RowsInv'
  BY RowsStep
<1>3. QED
  BY <1>1, <1>2, VersionsInvSays, VersionsStart, RowsStart, TablesStart, TablesStep, PTL DEF Spec

(* What a document shows is what its newest version recorded, but for tags *)
(* deleted since (update_document, move_document, delete_tag).             *)
THEOREM DocumentsShowTheirNewestVersion == Spec => []HeadIsNewestVersion
<1>1. TablesInv /\ RowsInv /\ VersionsInv /\ [Next]_vars => VersionsInv'
  BY VersionsStep
<1>2. TablesInv /\ RowsInv /\ [Next]_vars => RowsInv'
  BY RowsStep
<1>3. QED
  BY <1>1, <1>2, VersionsInvSays, VersionsStart, RowsStart, TablesStart, TablesStep, PTL DEF Spec

---------------------------------------------------------------------------
(* History. *)

Record(v) ==
  [number |-> v.number, content |-> v.content, category |-> v.category, tags |-> v.tags,
   updated_by |-> v.updated_by]

LEMMA HistoryByRecords ==
  \A d : History(d) = {Record(v) : v \in {w \in wikidocversion : w.doc = d}}
BY DEF History, Record

(* Steps that only add versions. *)
LEMMA MoreVersions ==
  ASSUME wikidocversion \subseteq wikidocversion', NEW d
  PROVE  History(d) \subseteq History(d)'
BY DEF History

LEMMA SameLikers ==
  ASSUME documentlike' = documentlike, NEW d
  PROVE  Likers(d)' = Likers(d)
BY DEF Likers

(* A rename copies what is recorded, for whatever document. *)
LEMMA MoveKeepsHistory ==
  ASSUME TablesInv, RowsInv, NEW user \in Users \cup {None}, NEW title \in Titles,
         NEW new_title \in Titles, move_document(user, title, new_title), NEW d
  PROVE  History(d)' = History(d)
<1> DEFINE Moved == Retitled(VersionsOf(title), new_title)
<1>1. wikidocversion' = (wikidocversion \ VersionsOf(title)) \cup Moved
  BY MoveFacts
<1>2. /\ \A w \in Moved : \E v \in VersionsOf(title) : CopyOf(w, v, new_title)
      /\ \A v \in VersionsOf(title) : \E w \in Moved : CopyOf(w, v, new_title)
  BY RetitledVersions, VersionsFinite DEF TablesInv
<1> HIDE DEF Moved
<1>3. \A w, v : CopyOf(w, v, new_title) => Record(w) = Record(v) /\ w.doc = v.doc
  BY DEF CopyOf, Record
<1>4. VersionsOf(title) \subseteq wikidocversion
  BY DEF VersionsOf
<1>5. \A w \in wikidocversion' : \E v \in wikidocversion : Record(w) = Record(v) /\ w.doc = v.doc
  BY <1>1, <1>2, <1>3, <1>4
<1>6. \A v \in wikidocversion : \E w \in wikidocversion' : Record(w) = Record(v) /\ w.doc = v.doc
  BY <1>1, <1>2, <1>3, <1>4
<1>7. {Record(v) : v \in {w \in wikidocversion' : w.doc = d}}
        = {Record(v) : v \in {w \in wikidocversion : w.doc = d}}
  BY <1>5, <1>6
<1>8. QED
  BY <1>7, HistoryByRecords DEF History, Record

LEMMA MoveKeepsLikers ==
  ASSUME TablesInv, NEW user, NEW title, NEW new_title, move_document(user, title, new_title), NEW d
  PROVE  Likers(d)' = Likers(d)
<1>1. documentlike' = (documentlike \ LikesOf(title)) \cup Retitled(LikesOf(title), new_title)
  BY DEF move_document
<1>2. \A l \in LikesOf(title) :
        LET k == [l EXCEPT !.title = new_title]
        IN  k \in Retitled(LikesOf(title), new_title) /\ k.doc = l.doc /\ k.username = l.username
  BY RowsAreTyped DEF LikesOf, LikeRow, Retitled, TablesInv
<1>3. \A k \in Retitled(LikesOf(title), new_title) :
        \E l \in LikesOf(title) : k.doc = l.doc /\ k.username = l.username
  BY <1>2 DEF Retitled
<1>4. LikesOf(title) \subseteq documentlike
  BY DEF LikesOf
<1>5. /\ \A k \in documentlike' : \E l \in documentlike : k.doc = l.doc /\ k.username = l.username
      /\ \A l \in documentlike : \E k \in documentlike' : k.doc = l.doc /\ k.username = l.username
  BY <1>1, <1>2, <1>3, <1>4
<1>6. QED
  BY <1>5 DEF Likers

(* What HistoryIsAppendOnly says of a document with title s before and t   *)
(* after the step.                                                         *)
Kept(d, s, t) ==
  /\ History(d) \subseteq History(d)'
  /\ wikidoc'[t].created_by = wikidoc[s].created_by
  /\ s # t => /\ wikidoc'[t] = wikidoc[s]
              /\ permissions'[t] = permissions[s]
              /\ History(d)' = History(d)
              /\ Likers(d)' = Likers(d)

AllKept ==
  \A d \in 1..created, s \in Documents, t \in Documents' :
    wikidoc[s].doc = d /\ wikidoc'[t].doc = d => Kept(d, s, t)

(* A document that stays under its title. *)
LEMMA KeptInPlace ==
  ASSUME RowsInv, wikidocversion \subseteq wikidocversion',
         NEW d, NEW s \in Documents, NEW t \in Documents,
         wikidoc[s].doc = d, wikidoc'[t].doc = d,
         wikidoc'[t].doc = wikidoc[t].doc, wikidoc'[t].created_by = wikidoc[t].created_by
  PROVE  Kept(d, s, t)
<1>1. s = t
  BY DEF RowsInv, RowsBelongToTheirDocument, OneTitlePerDocument
<1>2. QED
  BY <1>1, MoreVersions DEF Kept

(* The steps that make, move and delete no document. *)
LEMMA AllKeptInPlace ==
  ASSUME RowsInv, wikidocversion \subseteq wikidocversion',
         \A t \in Documents' :
           /\ t \in Documents
           /\ wikidoc'[t].doc = wikidoc[t].doc
           /\ wikidoc'[t].created_by = wikidoc[t].created_by
  PROVE  AllKept
BY KeptInPlace DEF AllKept

LEMMA CreateKeeps ==
  ASSUME TablesInv, RowsInv, NEW user \in Users \cup {None}, NEW title \in Titles,
         NEW content \in Contents, NEW c \in Categories, NEW tags \in SUBSET Tags,
         NEW is_private \in BOOLEAN,
         create_document(user, title, content, c, tags, is_private)
  PROVE  AllKept
<1> DEFINE row == NewDocument(user, content, c, tags, is_private)
<1>1. /\ wikidoc' = [wikidoc EXCEPT ![title] = row]
      /\ wikidocversion \subseteq wikidocversion'
  BY DEF create_document, NewDocument
<1>2. wikidoc'[title] = row /\ \A t \in Titles \ {title} : wikidoc'[t] = wikidoc[t]
  BY <1>1 DEF TablesInv, TypeOK
<1>3. \A t \in Documents' \ {title} : t \in Documents /\ wikidoc'[t] = wikidoc[t]
  BY <1>2 DEF Documents
<1>4. created \in Nat /\ wikidoc'[title].doc = created + 1
  BY <1>2, DocumentAssumptions DEF NewDocument, TablesInv, TypeOK
<1>5. SUFFICES ASSUME NEW d \in 1..created, NEW s \in Documents, NEW t \in Documents',
                      wikidoc[s].doc = d, wikidoc'[t].doc = d
               PROVE  Kept(d, s, t)
  BY DEF AllKept
<1>6. t # title
  BY <1>4, <1>5
<1>7. QED
  BY <1>1, <1>3, <1>5, <1>6, KeptInPlace

LEMMA UpdateKeeps ==
  ASSUME TablesInv, RowsInv, NEW user \in Users \cup {None}, NEW title \in Titles,
         NEW content \in Contents, NEW c \in Categories, NEW tags \in SUBSET Tags,
         NEW is_private \in BOOLEAN, NEW reordered \in BOOLEAN,
         update_document(user, title, content, c, tags, is_private, reordered)
  PROVE  AllKept
<1> DEFINE next == [wikidoc[title] EXCEPT !.content = content, !.category = c, !.tags = tags,
                                          !.is_private = is_private]
<1>1. /\ wikidoc' = [wikidoc EXCEPT ![title] = next]
      /\ wikidocversion \subseteq wikidocversion'
  BY DEF update_document
<1>2. title \in Documents /\ wikidoc[title] \in DocumentRow
  BY PermittedTitles, DocumentRows DEF update_document, TablesInv
<1>3. next.doc = wikidoc[title].doc /\ next.created_by = wikidoc[title].created_by
  BY <1>2 DEF DocumentRow
<1> HIDE DEF next
<1>4. \A t \in Documents' : /\ t \in Documents
                            /\ wikidoc'[t].doc = wikidoc[t].doc
                            /\ wikidoc'[t].created_by = wikidoc[t].created_by
  BY <1>1, <1>2, <1>3 DEF Documents, TablesInv, TypeOK
<1>5. QED
  BY <1>1, <1>4, AllKeptInPlace

LEMMA MoveKeeps ==
  ASSUME TablesInv, RowsInv, NEW user \in Users \cup {None}, NEW title \in Titles,
         NEW new_title \in Titles, move_document(user, title, new_title)
  PROVE  AllKept
<1>1. /\ title \in Documents /\ new_title # title /\ new_title \notin Documents
      /\ Documents' = (Documents \ {title}) \cup {new_title}
      /\ wikidoc'[new_title] = wikidoc[title]
      /\ \A t \in Documents \ {title} : wikidoc'[t] = wikidoc[t]
  BY MoveFacts
<1>2. permissions'[new_title] = permissions[title]
  BY <1>1 DEF move_document, TablesInv, TypeOK
<1>3. \A d : History(d)' = History(d) /\ Likers(d)' = Likers(d)
  BY MoveKeepsHistory, MoveKeepsLikers
<1>4. SUFFICES ASSUME NEW d \in 1..created, NEW s \in Documents, NEW t \in Documents',
                      wikidoc[s].doc = d, wikidoc'[t].doc = d
               PROVE  Kept(d, s, t)
  BY DEF AllKept
<1>5. IF t = new_title THEN s = title ELSE s = t
  BY <1>1, <1>4 DEF RowsInv, RowsBelongToTheirDocument, OneTitlePerDocument
<1>6. QED
  BY <1>1, <1>2, <1>3, <1>4, <1>5 DEF Kept

LEMMA DeleteKeeps ==
  ASSUME TablesInv, RowsInv, NEW user \in Users \cup {None}, NEW title \in Titles,
         delete_document(user, title)
  PROVE  AllKept
<1>1. /\ wikidoc' = [wikidoc EXCEPT ![title] = None]
      /\ wikidocversion' = wikidocversion \ VersionsOf(title)
  BY DEF delete_document
<1>2. \A t \in Documents' : t \in Documents /\ t # title /\ wikidoc'[t] = wikidoc[t]
  BY <1>1 DEF Documents, TablesInv, TypeOK
<1>3. SUFFICES ASSUME NEW d \in 1..created, NEW s \in Documents, NEW t \in Documents',
                      wikidoc[s].doc = d, wikidoc'[t].doc = d
               PROVE  Kept(d, s, t)
  BY DEF AllKept
<1>4. s = t
  BY <1>2, <1>3 DEF RowsInv, RowsBelongToTheirDocument, OneTitlePerDocument
<1>5. \A v \in wikidocversion : v.doc = d => v.title = t
  BY <1>3, <1>4, RowsOfDocuments DEF RowOf, RowsInv, RowsBelongToTheirDocument, OneTitlePerDocument,
     TablesInv
<1>6. \A v \in wikidocversion : v.doc = d => v \in wikidocversion'
  BY <1>1, <1>2, <1>5 DEF VersionsOf
<1>7. History(d) \subseteq History(d)'
  BY <1>6 DEF History
<1>8. QED
  BY <1>2, <1>4, <1>7 DEF Kept

LEMMA NextKeeps ==
  ASSUME TablesInv, RowsInv, Next
  PROVE  AllKept
<1>1. ASSUME NEW user \in Users \cup {None}, NEW title \in Titles, get_document(user, title)
      PROVE  AllKept
  <2>1. wikidocversion' = wikidocversion
    BY <1>1 DEF get_document
  <2>2. QED
    BY <1>1, <2>1, ViewedRow, AllKeptInPlace
<1>2. CASE UNCHANGED <<wikidoc, wikidocversion>>
  BY <1>2, AllKeptInPlace DEF Documents
<1>3. ASSUME NEW user \in Users \cup {None}, NEW title \in Titles,
             like_document(user, title) \/ unlike_document(user, title)
      PROVE  AllKept
  BY <1>2, <1>3 DEF like_document, unlike_document
<1>4. ASSUME NEW user \in Users \cup {None}, DocumentStep(user)
      PROVE  AllKept
  BY <1>1, <1>3, <1>4, CreateKeeps, UpdateKeeps, MoveKeeps, DeleteKeeps DEF DocumentStep
<1>5. ASSUME NEW user, NEW name, delete_tag(user, name)
      PROVE  AllKept
  <2>1. wikidocversion' = wikidocversion
    BY <1>5 DEF delete_tag
  <2>2. QED
    BY <1>5, <2>1, UntaggedRow, AllKeptInPlace
<1>6. ASSUME NEW user, AdminStep(user)
      PROVE  AllKept
  BY <1>2, <1>5, <1>6 DEF AdminStep, update_user_permission, docVars
<1>7. QED
  BY <1>4, <1>6 DEF Next

(* Nothing that was recorded of a document is lost or changed as long as   *)
(* the document exists, and a rename, which copies every row, changes      *)
(* nothing but the title (move_document, documents.py:453).                *)
THEOREM HistoryOnlyGrows == Spec => HistoryIsAppendOnly
<1>1. TablesInv /\ RowsInv /\ [Next]_vars => [AllKept]_vars
  BY NextKeeps
<1>2. TablesInv /\ RowsInv /\ [Next]_vars => RowsInv'
  BY RowsStep
<1>3. Spec => [][AllKept]_vars
  BY <1>1, <1>2, RowsStart, TablesStart, TablesStep, PTL DEF Spec
<1>4. [][AllKept]_vars => HistoryIsAppendOnly
  BY PTL DEF AllKept, Kept, HistoryIsAppendOnly
<1>5. QED
  BY <1>3, <1>4

---------------------------------------------------------------------------
(* Likes. *)

NewLikesAreAllowed ==
  \A l \in documentlike' : l.username \notin Likers(l.doc) =>
    \E t \in Documents : wikidoc[t].doc = l.doc /\ can_read_document(role[l.username], wikidoc[t])

LEMMA OldLikes ==
  ASSUME \A l \in documentlike' : \E k \in documentlike : k.doc = l.doc /\ k.username = l.username
  PROVE  NewLikesAreAllowed
BY DEF NewLikesAreAllowed, Likers

LEMMA NextLikes ==
  ASSUME TablesInv, Next
  PROVE  NewLikesAreAllowed
<1>1. ASSUME NEW user \in Users \cup {None}, NEW title \in Titles, like_document(user, title)
      PROVE  NewLikesAreAllowed
  <2> DEFINE like == [doc |-> wikidoc[title].doc, title |-> title, username |-> user]
  <2>1. documentlike' = documentlike \cup {like}
    BY <1>1 DEF like_document
  <2>2. title \in Documents /\ can_read_document(role[user], wikidoc[title])
    BY <1>1, ReadableTitles DEF like_document, Readable, RoleOf, TablesInv
  <2>3. QED
    BY <2>1, <2>2 DEF NewLikesAreAllowed, Likers
<1>2. ASSUME NEW user, NEW title, NEW new_title, move_document(user, title, new_title)
      PROVE  NewLikesAreAllowed
  <2>1. documentlike' = (documentlike \ LikesOf(title)) \cup Retitled(LikesOf(title), new_title)
    BY <1>2 DEF move_document
  <2>2. \A l \in LikesOf(title) :
          LET k == [l EXCEPT !.title = new_title] IN k.doc = l.doc /\ k.username = l.username
    BY RowsAreTyped DEF LikesOf, LikeRow, TablesInv
  <2>3. ASSUME NEW l \in documentlike'
        PROVE  \E k \in documentlike : k.doc = l.doc /\ k.username = l.username
    <3>1. CASE l \in documentlike
      BY <3>1
    <3>2. CASE l \in Retitled(LikesOf(title), new_title)
      <4>1. PICK k \in LikesOf(title) : l = [k EXCEPT !.title = new_title]
        BY <3>2 DEF Retitled
      <4>2. QED
        BY <2>2, <4>1 DEF LikesOf
    <3>3. QED
      BY <2>1, <3>1, <3>2
  <2>4. QED
    BY <2>3, OldLikes
<1>3. CASE documentlike' \subseteq documentlike
  BY <1>3, OldLikes
<1>4. ASSUME NEW user \in Users \cup {None}, DocumentStep(user)
      PROVE  NewLikesAreAllowed
  <2>1. \A title, content, c, tags, is_private :
          create_document(user, title, content, c, tags, is_private) => NewLikesAreAllowed
    BY <1>3 DEF create_document
  <2>2. \A title, content, c, tags, is_private, reordered :
          update_document(user, title, content, c, tags, is_private, reordered) => NewLikesAreAllowed
    BY <1>3 DEF update_document
  <2>3. \A title : delete_document(user, title) \/ get_document(user, title) => NewLikesAreAllowed
    BY <1>3 DEF delete_document, get_document
  <2>4. \A title : unlike_document(user, title) => NewLikesAreAllowed
    BY <1>3 DEF unlike_document
  <2>5. QED
    BY <1>1, <1>2, <1>4, <2>1, <2>2, <2>3, <2>4 DEF DocumentStep
<1>5. ASSUME NEW user, AdminStep(user)
      PROVE  NewLikesAreAllowed
  BY <1>3, <1>5 DEF AdminStep, delete_tag, update_user_permission, docVars
<1>6. QED
  BY <1>4, <1>5 DEF Next

(* Nobody gains a like on a document that they cannot read, under whatever *)
(* titles the document and its likes have been (like_document,             *)
(* documents.py:194).                                                      *)
THEOREM ReadersLike == Spec => LikesComeFromReaders
<1>1. TablesInv /\ [Next]_vars => [NewLikesAreAllowed]_vars
  BY NextLikes
<1>2. Spec => [][NewLikesAreAllowed]_vars
  BY <1>1, TablesStart, TablesStep, PTL DEF Spec
<1>3. [][NewLikesAreAllowed]_vars => LikesComeFromReaders
  BY PTL DEF NewLikesAreAllowed, LikesComeFromReaders
<1>4. QED
  BY <1>2, <1>3

---------------------------------------------------------------------------
(* The trail of renames. *)

(* The events E lead to the title t. *)
Trail(E, t) ==
  \A e \in E :
    LET later == {f \in E : f.id > e.id}
    IN  /\ e.event_type = "rename"
        /\ IF later = {} THEN e.new_title = t
           ELSE \E f \in later : f.old_title = e.new_title /\ \A g \in later : g.id >= f.id

(* Ids are given out in turn, each once. *)
IdsAreCounted ==
  /\ \A e \in documentevent : e.id <= Cardinality(documentevent)
  /\ \A e, f \in documentevent : e.id = f.id => e = f

TrailInv == IdsAreCounted /\ RenameTrailIsUnbroken

LEMMA TrailByTitle ==
  RenameTrailIsUnbroken <=> \A t \in Documents : Trail(VisibleEvents(t), t)
BY DEF RenameTrailIsUnbroken, Trail

SameEvent(x, e) ==
  /\ x.id = e.id /\ x.event_type = e.event_type
  /\ x.old_title = e.old_title /\ x.new_title = e.new_title

(* A trail to t, copied and continued from t to u. *)
LEMMA LongerTrail ==
  ASSUME NEW E, NEW t, Trail(E, t), \A e \in E : e.id \in Nat,
         NEW F, \A x \in F : \E e \in E : SameEvent(x, e), \A e \in E : \E x \in F : SameEvent(x, e),
         NEW new, new.id \in Nat, \A e \in E : e.id < new.id,
         new.event_type = "rename", new.old_title = t
  PROVE  Trail(F \cup {new}, new.new_title)
<1> DEFINE later(x) == {f \in F \cup {new} : f.id > x.id}
<1>1. \A x \in F : x.id \in Nat /\ x.id < new.id
  BY DEF SameEvent
<1>2. later(new) = {}
  BY <1>1
<1>3. ASSUME NEW x \in F
      PROVE  /\ x.event_type = "rename"
             /\ new \in later(x)
             /\ \E f \in later(x) : f.old_title = x.new_title /\ \A g \in later(x) : g.id >= f.id
  <2>1. PICK e \in E : SameEvent(x, e)
    OBVIOUS
  <2> DEFINE laterE == {f \in E : f.id > e.id}
  <2>2. /\ e.event_type = "rename"
        /\ IF laterE = {} THEN e.new_title = t
           ELSE \E f \in laterE : f.old_title = e.new_title /\ \A g \in laterE : g.id >= f.id
    BY DEF Trail
  <2>3. new \in later(x)
    BY <1>1
  <2>4. \A g \in later(x) : g = new \/ \E h \in laterE : g.id = h.id
    BY <2>1 DEF SameEvent
  <2>5. CASE laterE = {}
    <3>1. later(x) = {new}
      BY <2>3, <2>4, <2>5
    <3>2. new.old_title = x.new_title
      BY <2>1, <2>2, <2>5 DEF SameEvent
    <3>3. QED
      BY <2>1, <2>2, <2>3, <3>1, <3>2 DEF SameEvent
  <2>6. CASE laterE # {}
    <3>1. PICK f \in laterE : f.old_title = e.new_title /\ \A g \in laterE : g.id >= f.id
      BY <2>2, <2>6
    <3>2. PICK y \in F : SameEvent(y, f)
      BY <3>1
    <3>3. y \in later(x) /\ y.old_title = x.new_title /\ y.id = f.id
      BY <2>1, <3>1, <3>2 DEF SameEvent
    <3>4. \A g \in later(x) : g.id >= y.id
      BY <1>1, <2>4, <3>1, <3>3
    <3>5. QED
      BY <2>1, <2>2, <2>3, <3>3, <3>4 DEF SameEvent
  <2>7. QED
    BY <2>5, <2>6
<1>4. ASSUME NEW x \in F \cup {new}
      PROVE  /\ x.event_type = "rename"
             /\ IF later(x) = {} THEN x.new_title = new.new_title
                ELSE \E f \in later(x) : f.old_title = x.new_title /\ \A g \in later(x) : g.id >= f.id
  BY <1>2, <1>3
<1>5. QED
  BY <1>4 DEF Trail

LEMMA NextIdIsCounted ==
  ASSUME TablesInv, IdsAreCounted, NEW g \in [documentevent -> EventRow],
         \A e \in documentevent : g[e].id = e.id,
         NEW event, event.id = Cardinality(documentevent) + 1,
         documentevent' = {g[e] : e \in documentevent} \cup {event}
  PROVE  IdsAreCounted'
<1> DEFINE old == {g[e] : e \in documentevent}
<1>1. Cardinality(documentevent) \in Nat /\ IsFiniteSet(documentevent)
  BY CountsAreNumbers DEF TablesInv, TablesAreFinite
<1>2. \A e \in documentevent : e.id \in Nat
  BY DEF TablesInv, TypeOK, EventRow
<1>3. g \in Surjection(documentevent, old)
  BY DEF Surjection
<1>4. \A e, f \in documentevent : g[e] = g[f] => e = f
  BY DEF IdsAreCounted
<1>5. g \in Injection(documentevent, old)
  BY <1>3, <1>4 DEF Injection, IsInjective, Surjection
<1>6. IsFiniteSet(old) /\ Cardinality(old) = Cardinality(documentevent)
  BY <1>1, <1>3, <1>5, FS_Surjection
<1>7. \A x \in old : x.id <= Cardinality(documentevent) /\ x.id \in Nat
  BY <1>2 DEF IdsAreCounted
<1>8. event \notin old
  BY <1>1, <1>7
<1>9. \A x, y \in old : x.id = y.id => x = y
  BY DEF IdsAreCounted
<1> HIDE DEF old
<1>10. documentevent' = old \cup {event}
  BY DEF old
<1>11. Cardinality(documentevent') = Cardinality(documentevent) + 1
  BY <1>6, <1>8, <1>10, FS_AddElement
<1>12. \A x \in documentevent' : x.id <= Cardinality(documentevent')
  BY <1>1, <1>7, <1>10, <1>11
<1>13. \A x, y \in documentevent' : x.id = y.id => x = y
  BY <1>1, <1>7, <1>9, <1>10
<1>14. QED
  BY <1>12, <1>13 DEF IdsAreCounted

LEMMA MoveTrail ==
  ASSUME TablesInv, RowsInv, TrailInv, NEW user \in Users \cup {None}, NEW title \in Titles,
         NEW new_title \in Titles, move_document(user, title, new_title)
  PROVE  TrailInv'
<1> DEFINE event == NewEvent(title, "rename", new_title, user, FALSE)
           moved == Retitled(VisibleEvents(title), new_title)
<1>1. /\ title \in Documents /\ new_title # title /\ new_title \notin Documents
      /\ Documents' = (Documents \ {title}) \cup {new_title}
  BY MoveFacts
<1>2. documentevent' = (documentevent \ VisibleEvents(title)) \cup moved \cup {event}
  BY DEF move_document
<1>3. /\ event.id = Cardinality(documentevent) + 1 /\ event.event_type = "rename"
      /\ event.old_title = title /\ event.new_title = new_title /\ event.title = new_title
      /\ ~event.deleted
  BY DocumentAssumptions DEF NewEvent
<1>4. Cardinality(documentevent) \in Nat
  BY CountsAreNumbers
<1>5. \A e \in documentevent : e \in EventRow /\ e.id \in Nat /\ e.id <= Cardinality(documentevent)
  BY DEF TablesInv, TypeOK, EventRow, TrailInv, IdsAreCounted
<1>6. \A e \in VisibleEvents(title) :
        LET x == [e EXCEPT !.title = new_title]
        IN  x \in EventRow /\ SameEvent(x, e) /\ x.title = new_title /\ ~x.deleted
  BY <1>5 DEF VisibleEvents, EventRow, SameEvent
<1> HIDE DEF event
<1>7. IdsAreCounted'
  <2> DEFINE g == [e \in documentevent |->
                     IF e \in VisibleEvents(title) THEN [e EXCEPT !.title = new_title] ELSE e]
  <2>1. g \in [documentevent -> EventRow] /\ \A e \in documentevent : g[e].id = e.id
    BY <1>5, <1>6 DEF SameEvent
  <2>2. VisibleEvents(title) \subseteq documentevent
    BY DEF VisibleEvents
  <2>3. documentevent' = {g[e] : e \in documentevent} \cup {event}
    BY <1>2, <2>2 DEF Retitled
  <2> HIDE DEF g
  <2>4. QED
    BY <1>3, <2>1, <2>3, NextIdIsCounted DEF TrailInv
<1>8. VisibleEvents(new_title)' = moved \cup {event}
  <2>1. VisibleEvents(new_title) = {}
    BY <1>1, FreeTitle DEF TablesInv
  <2>2. \A x \in moved : x.title = new_title /\ ~x.deleted
    BY <1>6 DEF Retitled
  <2> HIDE DEF moved
  <2>3. QED
    BY <1>1, <1>2, <1>3, <2>1, <2>2 DEF VisibleEvents
<1>9. ASSUME NEW t \in Documents \ {title} PROVE VisibleEvents(t)' = VisibleEvents(t)
  <2>1. t # new_title
    BY <1>1
  <2>2. \A x \in moved : x.title = new_title
    BY <1>6 DEF Retitled
  <2> HIDE DEF moved
  <2>3. QED
    BY <1>2, <1>3, <2>1, <2>2 DEF VisibleEvents
<1>10. Trail(VisibleEvents(new_title)', new_title)
  <2>1. Trail(VisibleEvents(title), title)
    BY <1>1, TrailByTitle DEF TrailInv
  <2>2. /\ \A x \in moved : \E e \in VisibleEvents(title) : SameEvent(x, e)
        /\ \A e \in VisibleEvents(title) : \E x \in moved : SameEvent(x, e)
    BY <1>6 DEF Retitled
  <2>3. \A e \in VisibleEvents(title) : e.id \in Nat /\ e.id < event.id
    BY <1>3, <1>4, <1>5 DEF VisibleEvents
  <2>4. event.id \in Nat
    BY <1>3, <1>4
  <2> HIDE DEF moved
  <2>5. Trail(moved \cup {event}, event.new_title)
    BY <1>3, <2>1, <2>2, <2>3, <2>4, LongerTrail
  <2>6. QED
    BY <1>3, <1>8, <2>5
<1>11. \A t \in Documents \ {title} : Trail(VisibleEvents(t)', t)
  BY <1>9, TrailByTitle DEF TrailInv
<1>12. RenameTrailIsUnbroken'
  BY <1>1, <1>10, <1>11 DEF RenameTrailIsUnbroken, Trail
<1>13. QED
  BY <1>7, <1>12 DEF TrailInv

LEMMA DeleteTrail ==
  ASSUME TablesInv, TrailInv, NEW user \in Users \cup {None}, NEW title \in Titles,
         delete_document(user, title)
  PROVE  TrailInv'
<1> DEFINE event   == NewEvent(title, "delete", None, user, TRUE)
           flagged == {[e EXCEPT !.deleted = TRUE] : e \in VisibleEvents(title)}
<1>1. /\ wikidoc' = [wikidoc EXCEPT ![title] = None]
      /\ documentevent' = (documentevent \ VisibleEvents(title)) \cup flagged \cup {event}
  BY DEF delete_document
<1>2. Documents' \subseteq Documents \ {title}
  BY <1>1 DEF Documents, TablesInv, TypeOK
<1>3. event.id = Cardinality(documentevent) + 1 /\ event.deleted
  BY DEF NewEvent
<1>4. \A e \in documentevent : e \in EventRow
  BY DEF TablesInv, TypeOK
<1>5. \A e \in VisibleEvents(title) :
        LET x == [e EXCEPT !.deleted = TRUE] IN x \in EventRow /\ x.id = e.id /\ x.deleted
  BY <1>4 DEF VisibleEvents, EventRow
<1> HIDE DEF event
<1>6. IdsAreCounted'
  <2> DEFINE g == [e \in documentevent |->
                     IF e \in VisibleEvents(title) THEN [e EXCEPT !.deleted = TRUE] ELSE e]
  <2>1. g \in [documentevent -> EventRow] /\ \A e \in documentevent : g[e].id = e.id
    BY <1>4, <1>5
  <2>2. VisibleEvents(title) \subseteq documentevent
    BY DEF VisibleEvents
  <2>3. documentevent' = {g[e] : e \in documentevent} \cup {event}
    BY <1>1, <2>2
  <2> HIDE DEF g
  <2>4. QED
    BY <1>3, <2>1, <2>3, NextIdIsCounted DEF TrailInv
<1>7. ASSUME NEW t \in Documents' PROVE t \in Documents /\ VisibleEvents(t)' = VisibleEvents(t)
  <2>1. \A x \in flagged : x.deleted
    BY <1>5
  <2> HIDE DEF flagged
  <2>2. QED
    BY <1>1, <1>2, <1>3, <2>1 DEF VisibleEvents
<1>8. \A t \in Documents' : Trail(VisibleEvents(t)', t)
  BY <1>7, TrailByTitle DEF TrailInv
<1>9. RenameTrailIsUnbroken'
  BY <1>8 DEF RenameTrailIsUnbroken, Trail
<1>10. QED
  BY <1>6, <1>9 DEF TrailInv

(* The steps that record no event; a new document finds none. *)
LEMMA QuietTrail ==
  ASSUME TypeOK, RowsInv, TrailInv, documentevent' = documentevent, Documents' \subseteq Titles
  PROVE  TrailInv'
<1>1. IdsAreCounted'
  BY DEF TrailInv, IdsAreCounted
<1>2. \A t : VisibleEvents(t)' = VisibleEvents(t)
  BY DEF VisibleEvents
<1>3. ASSUME NEW t \in Documents' PROVE Trail(VisibleEvents(t)', t)
  <2>1. CASE t \in Documents
    BY <1>2, <2>1, TrailByTitle DEF TrailInv
  <2>2. CASE t \notin Documents
    <3>1. VisibleEvents(t)' = {}
      BY <1>2, <2>2, FreeTitle
    <3>2. QED
      BY <3>1 DEF Trail
  <2>3. QED
    BY <2>1, <2>2
<1>4. RenameTrailIsUnbroken'
  BY <1>3 DEF RenameTrailIsUnbroken, Trail
<1>5. QED
  BY <1>1, <1>4 DEF TrailInv

LEMMA TrailStep ==
  ASSUME TablesInv, RowsInv, TrailInv, [Next]_vars
  PROVE  TrailInv'
<1>1. CASE documentevent' = documentevent
  BY <1>1, QuietTrail DEF TablesInv, Documents
<1>2. ASSUME NEW user \in Users \cup {None}, DocumentStep(user)
      PROVE  TrailInv'
  <2>1. \A title, content, c, tags, is_private :
          create_document(user, title, content, c, tags, is_private) => TrailInv'
    BY <1>1 DEF create_document
  <2>2. \A title, content, c, tags, is_private, reordered :
          update_document(user, title, content, c, tags, is_private, reordered) => TrailInv'
    BY <1>1 DEF update_document
  <2>3. \A title : get_document(user, title) \/ like_document(user, title) => TrailInv'
    BY <1>1 DEF get_document, like_document
  <2>4. \A title : unlike_document(user, title) => TrailInv'
    BY <1>1 DEF unlike_document
  <2>5. QED
    BY <1>2, <2>1, <2>2, <2>3, <2>4, MoveTrail, DeleteTrail DEF DocumentStep
<1>3. ASSUME NEW user, AdminStep(user)
      PROVE  TrailInv'
  BY <1>1, <1>3 DEF AdminStep, delete_tag, update_user_permission, docVars
<1>4. CASE UNCHANGED vars
  BY <1>1, <1>4 DEF vars, docVars
<1>5. QED
  BY <1>2, <1>3, <1>4 DEF Next

LEMMA TrailStart == Init => TrailInv
BY DEF Init, TrailInv, IdsAreCounted, RenameTrailIsUnbroken, VisibleEvents

(* However often a document was renamed, back and forth or to the title of *)
(* a document that is gone, the renames that its history shows lead from   *)
(* one title to the next and to the present one (move_document,            *)
(* documents.py:491).                                                      *)
THEOREM RenamesFormATrail == Spec => []RenameTrailIsUnbroken
<1>1. TrailInv => RenameTrailIsUnbroken
  BY DEF TrailInv
<1>2. TablesInv /\ RowsInv /\ TrailInv /\ [Next]_vars => TrailInv'
  BY TrailStep
<1>3. TablesInv /\ RowsInv /\ [Next]_vars => RowsInv'
  BY RowsStep
<1>4. QED
  BY <1>1, <1>2, <1>3, TrailStart, RowsStart, TablesStart, TablesStep, PTL DEF Spec

---------------------------------------------------------------------------
(* Decisions about documents. *)

LEMMA PermittedEditor ==
  ASSUME EmptyName \notin Categories, TypeOK, NEW user \in Users \cup {None},
         NEW action \in {"document_update", "document_rename"},
         NEW title \in Permitted(user, action)
  PROVE  Editor(user, title)
<1>1. user \in Users /\ RoleOf(user) = role[user]
  BY PermittedUsers, DocumentAssumptions DEF RoleOf
<1>2. title \in Documents /\ wikidoc[title].category \in Categories
  BY PermittedTitles, DocumentRows DEF DocumentRow
<1>3. can_perform_document(user, role[user], action, wikidoc[title], permissions[title],
                         wikicategory)
  BY <1>1 DEF Permitted
<1>4. CASE is_admin(role[user])
  BY <1>4 DEF Editor
<1>5. CASE ~is_admin(role[user])
  <2>1. /\ ~wikidoc[title].is_private
        /\ Granted(role[user], "document_update", wikidoc[title], permissions[title], wikicategory)
    BY <1>3, <1>5 DEF can_perform_document, can_read_document
  <2>2. Grade[role[user]] >= Grade["club_member"]
    <3>1. role[user] \in RolesReaching("club_member")
      BY <2>1 DEF Granted, can_perform, has_minimum_role, MINIMUM_ROLES
    <3>2. "club_member" \in Role
      BY DEF Role, Grade
    <3>3. QED
      BY <1>5, <3>1, <3>2, ReachingFloor
  <2>3. can_write_category(role[user], wikicategory, wikidoc[title].category)
    BY <2>1 DEF Granted
  <2>4. wikicategory \in Table
    BY DEF TypeOK, CategoryTypeOK, Table
  <2>5. ReachesEveryFloor(user, wikidoc[title].category)
    BY <1>2, <1>5, <2>3, <2>4, WritersReachEveryFloor DEF ReachesEveryFloor
  <2>6. QED
    BY <2>1, <2>2, <2>5 DEF Editor
<1>6. QED
  BY <1>4, <1>5

(* Whatever a document's list names, only administrators move it. *)
LEMMA MoversAreAdmins ==
  ASSUME TypeOK, NEW user \in Users \cup {None}, NEW title \in Permitted(user, "document_move")
  PROVE  user \in Users /\ is_admin(role[user])
<1>1. user \in Users /\ RoleOf(user) = role[user]
  BY PermittedUsers, DocumentAssumptions DEF RoleOf
<1>2. can_perform(RoleOf(user), "document_move") => is_admin(RoleOf(user))
  BY DEF can_perform, has_minimum_role, MINIMUM_ROLES, RolesReaching, is_admin
<1>3. QED
  BY <1>1, <1>2 DEF Permitted, can_perform_document, Granted

LEMMA PermittedDeletion ==
  ASSUME TypeOK, NEW user \in Users \cup {None}, NEW title \in Permitted(user, "document_delete")
  PROVE  is_admin(role[user]) \/ (~wikidoc[title].is_private /\ user = wikidoc[title].created_by)
<1>1. user \in Users /\ RoleOf(user) = role[user]
  BY PermittedUsers, DocumentAssumptions DEF RoleOf
<1>2. QED
  BY <1>1 DEF Permitted, can_perform_document, can_read_document

---------------------------------------------------------------------------
(* Edits. *)

OldTitles(t) == {s \in Documents : wikidoc[s].doc = wikidoc'[t].doc}

Signers(t) == {v.updated_by : v \in VersionsOf(t)' \ wikidocversion}

ChangedFields(s, t) ==
  {field \in {"content", "category", "is_private"} : wikidoc[s][field] # wikidoc'[t][field]}

AdminSigns(t) == \E u \in Signers(t) : is_admin(role[u])

(* What EditsAreSignedAndAllowed says of one title. *)
EditAllowed(t) ==
  /\ wikidoc'[t].doc > created =>
       /\ Signers(t) # {}
       /\ \A u \in Signers(t) : is_admin(role[u]) \/ ReachesEveryFloor(u, wikidoc'[t].category)
       /\ wikidoc'[t].is_private => AdminSigns(t)
  /\ wikidoc'[t].doc <= created =>
       \A s \in OldTitles(t) \cap {t} :
         /\ ChangedFields(s, t) # {} => Signers(t) # {}
         /\ \A u \in Signers(t) : Editor(u, s)
         /\ ChangedFields(s, t) \ {"content"} # {} => AdminSigns(t)

EditsAllowed == \A t \in Documents' : EditAllowed(t)

LEMMA NumbersOfDocuments ==
  ASSUME TablesInv, RowsInv, NEW t \in Documents
  PROVE  wikidoc[t].doc \in Nat /\ created \in Nat /\ wikidoc[t].doc <= created
<1>1. wikidoc[t].doc \in Nat
  BY DocumentRows, DocumentAssumptions DEF DocumentRow, TablesInv
<1>2. QED
  BY <1>1 DEF TablesInv, TypeOK, RowsInv, NumbersAreGivenOut

(* A title under which the step writes no version and changes no field     *)
(* that matters.                                                           *)
LEMMA NoEdit ==
  ASSUME TablesInv, RowsInv, NEW t \in Documents, VersionsOf(t)' \subseteq wikidocversion,
         wikidoc'[t].doc = wikidoc[t].doc, wikidoc'[t].content = wikidoc[t].content,
         wikidoc'[t].category = wikidoc[t].category, wikidoc'[t].is_private = wikidoc[t].is_private
  PROVE  EditAllowed(t)
<1>1. Signers(t) = {}
  BY DEF Signers
<1>2. ChangedFields(t, t) = {}
  BY DEF ChangedFields
<1>3. ~(wikidoc'[t].doc > created)
  BY NumbersOfDocuments
<1>4. QED
  BY <1>1, <1>2, <1>3 DEF EditAllowed, OldTitles

LEMMA QuietEdits ==
  ASSUME TablesInv, RowsInv, wikidocversion' \subseteq wikidocversion,
         \A t \in Documents' :
           /\ t \in Documents
           /\ \A field \in {"doc", "content", "category", "is_private"} :
                wikidoc'[t][field] = wikidoc[t][field]
  PROVE  EditsAllowed
<1>1. \A t : VersionsOf(t)' \subseteq wikidocversion
  BY DEF VersionsOf
<1>2. QED
  BY <1>1, NoEdit DEF EditsAllowed

LEMMA CreateAllowed ==
  ASSUME EmptyName \notin Categories, TablesInv, RowsInv, NEW user \in Users \cup {None},
         NEW title \in Titles, NEW content \in Contents, NEW c \in Categories,
         NEW tags \in SUBSET Tags, NEW is_private \in BOOLEAN,
         create_document(user, title, content, c, tags, is_private)
  PROVE  EditsAllowed
<1> DEFINE row == NewDocument(user, content, c, tags, is_private)
           version == NewVersion(row, title, 1, user)
<1>1. /\ wikidoc[title] = None
      /\ is_private => is_admin(RoleOf(user))
      /\ can_write_category(RoleOf(user), wikicategory, c)
      /\ wikidoc' = [wikidoc EXCEPT ![title] = row]
      /\ wikidocversion' = wikidocversion \cup {NewVersion(wikidoc'[title], title, 1, user)}
  BY DEF create_document, NewDocument, check_category_write_permission
<1>2. wikidoc'[title] = row /\ \A t \in Titles \ {title} : wikidoc'[t] = wikidoc[t]
  BY <1>1 DEF TablesInv, TypeOK
<1>3. row.doc = created + 1 /\ row.category = c /\ row.is_private = is_private
  BY DEF NewDocument
<1>4. version.title = title /\ version.updated_by = user
  BY DEF NewVersion
<1> HIDE DEF row, version
<1>5. wikidocversion' = wikidocversion \cup {version}
  BY <1>1, <1>2 DEF version
<1>6. Signers(title) = {user}
  <2>1. VersionsOf(title) = {}
    BY <1>1, FreeTitle DEF TablesInv, Documents
  <2>2. VersionsOf(title)' = {version} /\ version \notin wikidocversion
    BY <1>4, <1>5, <2>1 DEF VersionsOf
  <2>3. QED
    BY <1>4, <2>2 DEF Signers
<1>7. user \in Users /\ RoleOf(user) = role[user]
  BY NewDocumentType, DocumentAssumptions DEF RoleOf
<1>8. is_admin(role[user]) \/ ReachesEveryFloor(user, c)
  <2>1. wikicategory \in Table
    BY DEF TablesInv, TypeOK, CategoryTypeOK, Table
  <2>2. QED
    BY <1>1, <1>7, <2>1, WritersReachEveryFloor DEF ReachesEveryFloor
<1>9. EditAllowed(title)
  <2>1. ~(wikidoc'[title].doc <= created)
    BY <1>2, <1>3 DEF TablesInv, TypeOK
  <2>2. QED
    BY <1>1, <1>2, <1>3, <1>6, <1>7, <1>8, <2>1 DEF EditAllowed, AdminSigns
<1>10. ASSUME NEW t \in Documents', t # title PROVE EditAllowed(t)
  <2>1. t \in Documents /\ wikidoc'[t] = wikidoc[t]
    BY <1>2, <1>10 DEF Documents
  <2>2. VersionsOf(t)' \subseteq wikidocversion
    BY <1>4, <1>5, <1>10 DEF VersionsOf
  <2>3. QED
    BY <2>1, <2>2, NoEdit
<1>11. QED
  BY <1>9, <1>10 DEF EditsAllowed

LEMMA UpdateAllowed ==
  ASSUME EmptyName \notin Categories, TablesInv, RowsInv, NEW user \in Users \cup {None},
         NEW title \in Titles, NEW content \in Contents, NEW c \in Categories,
         NEW tags \in SUBSET Tags, NEW is_private \in BOOLEAN, NEW reordered \in BOOLEAN,
         update_document(user, title, content, c, tags, is_private, reordered)
  PROVE  EditsAllowed
<1> DEFINE next == [wikidoc[title] EXCEPT !.content = content, !.category = c, !.tags = tags,
                                          !.is_private = is_private]
           version == NewVersion(next, title, NextNumber(title), user)
<1>1. /\ title \in Permitted(user, "document_update")
      /\ is_private # wikidoc[title].is_private => is_admin(RoleOf(user))
      /\ c # wikidoc[title].category => title \in Permitted(user, "document_move")
      /\ \A v \in VersionsOf(title) : v.number # NextNumber(title)
      /\ wikidoc' = [wikidoc EXCEPT ![title] = next]
      /\ wikidocversion' = wikidocversion \cup {version}
  BY DEF update_document
<1>2. title \in Documents /\ user \in Users /\ RoleOf(user) = role[user]
  BY <1>1, PermittedTitles, PermittedUsers, DocumentAssumptions DEF TablesInv, RoleOf
<1>3. wikidoc'[title] = next /\ \A t \in Titles \ {title} : wikidoc'[t] = wikidoc[t]
  BY <1>1 DEF TablesInv, TypeOK
<1>4. next.doc = wikidoc[title].doc /\ next.category = c /\ next.is_private = is_private
  BY <1>2, DocumentRows DEF DocumentRow, TablesInv
<1>5. version.title = title /\ version.updated_by = user /\ version.number = NextNumber(title)
  BY DEF NewVersion
<1> HIDE DEF next, version
<1>6. Signers(title) = {user}
  <2>1. version \in VersionsOf(title)' \ wikidocversion
    BY <1>1, <1>5 DEF VersionsOf
  <2>2. VersionsOf(title)' \ wikidocversion \subseteq {version}
    BY <1>1 DEF VersionsOf
  <2>3. VersionsOf(title)' \ wikidocversion = {version}
    BY <2>1, <2>2
  <2>4. QED
    BY <1>5, <2>3 DEF Signers
<1>7. Editor(user, title)
  BY <1>1, PermittedEditor DEF TablesInv
<1>8. ChangedFields(title, title) \ {"content"} # {} => is_admin(role[user])
  <2>1. c # wikidoc[title].category => is_admin(role[user])
    BY <1>1, MoversAreAdmins DEF TablesInv
  <2>2. QED
    BY <1>1, <1>2, <1>3, <1>4, <2>1 DEF ChangedFields
<1>9. EditAllowed(title)
  <2>1. ~(wikidoc'[title].doc > created)
    BY <1>2, <1>3, <1>4, NumbersOfDocuments
  <2>2. QED
    BY <1>6, <1>7, <1>8, <2>1 DEF EditAllowed, OldTitles, AdminSigns
<1>10. ASSUME NEW t \in Documents', t # title PROVE EditAllowed(t)
  <2>1. t \in Documents /\ wikidoc'[t] = wikidoc[t]
    BY <1>3, <1>10 DEF Documents
  <2>2. VersionsOf(t)' \subseteq wikidocversion
    BY <1>1, <1>5, <1>10 DEF VersionsOf
  <2>3. QED
    BY <2>1, <2>2, NoEdit
<1>11. QED
  BY <1>9, <1>10 DEF EditsAllowed

(* A document under a new title is no edit: nothing of it changes. *)
LEMMA MoveAllowed ==
  ASSUME TablesInv, RowsInv, NEW user \in Users \cup {None}, NEW title \in Titles,
         NEW new_title \in Titles, move_document(user, title, new_title)
  PROVE  EditsAllowed
<1>1. /\ title \in Documents /\ new_title \notin Documents
      /\ Documents' = (Documents \ {title}) \cup {new_title}
      /\ wikidoc'[new_title] = wikidoc[title]
      /\ \A t \in Documents \ {title} : wikidoc'[t] = wikidoc[t]
      /\ wikidocversion' = (wikidocversion \ VersionsOf(title))
                              \cup Retitled(VersionsOf(title), new_title)
  BY MoveFacts
<1>2. EditAllowed(new_title)
  <2>1. ~(wikidoc'[new_title].doc > created)
    BY <1>1, NumbersOfDocuments
  <2>2. QED
    BY <1>1, <2>1 DEF EditAllowed, OldTitles
<1>3. ASSUME NEW t \in Documents \ {title} PROVE EditAllowed(t)
  <2>1. t # new_title
    BY <1>1
  <2>2. \A v \in Retitled(VersionsOf(title), new_title) : v.title = new_title
    BY RowsAreTyped DEF VersionsOf, VersionRow, Retitled, TablesInv
  <2>3. VersionsOf(t)' \subseteq wikidocversion
    BY <1>1, <2>1, <2>2 DEF VersionsOf
  <2>4. QED
    BY <1>1, <2>3, NoEdit
<1>4. QED
  BY <1>1, <1>2, <1>3 DEF EditsAllowed

LEMMA DeleteAllowed ==
  ASSUME TablesInv, RowsInv, NEW user, NEW title, delete_document(user, title)
  PROVE  EditsAllowed
<1>1. /\ wikidoc' = [wikidoc EXCEPT ![title] = None]
      /\ wikidocversion' \subseteq wikidocversion
  BY DEF delete_document
<1>2. \A t \in Documents' : t \in Documents /\ wikidoc'[t] = wikidoc[t]
  BY <1>1 DEF Documents, TablesInv, TypeOK
<1>3. QED
  BY <1>1, <1>2, QuietEdits

LEMMA NextAllowsEdits ==
  ASSUME EmptyName \notin Categories, TablesInv, RowsInv, Next
  PROVE  EditsAllowed
<1>1. ASSUME NEW user \in Users \cup {None}, NEW title \in Titles, get_document(user, title)
      PROVE  EditsAllowed
  <2>1. wikidocversion' = wikidocversion
    BY <1>1 DEF get_document
  <2>2. QED
    BY <1>1, <2>1, ViewedRow, QuietEdits
<1>2. CASE UNCHANGED <<wikidoc, wikidocversion>>
  BY <1>2, QuietEdits DEF Documents
<1>3. ASSUME NEW user \in Users \cup {None}, NEW title \in Titles,
             like_document(user, title) \/ unlike_document(user, title)
      PROVE  EditsAllowed
  BY <1>2, <1>3 DEF like_document, unlike_document
<1>4. ASSUME NEW user \in Users \cup {None}, DocumentStep(user)
      PROVE  EditsAllowed
  BY <1>1, <1>3, <1>4, CreateAllowed, UpdateAllowed, MoveAllowed, DeleteAllowed DEF DocumentStep
<1>5. ASSUME NEW user, NEW name, delete_tag(user, name)
      PROVE  EditsAllowed
  <2>1. wikidocversion' = wikidocversion
    BY <1>5 DEF delete_tag
  <2>2. QED
    BY <1>5, <2>1, UntaggedRow, QuietEdits
<1>6. ASSUME NEW user, AdminStep(user)
      PROVE  EditsAllowed
  BY <1>2, <1>5, <1>6 DEF AdminStep, update_user_permission, docVars
<1>7. QED
  BY <1>4, <1>6 DEF Next

(* Unless a category bears the empty name, every new document and every    *)
(* change of a document's text, category or privacy leaves a version that  *)
(* is signed by a user who, at that step, may make it (create_document and *)
(* update_document, documents.py:314).                                     *)
THEOREM EditsAreAllowed ==
  ASSUME EmptyName \notin Categories
  PROVE  Spec => EditsAreSignedAndAllowed
<1>1. TablesInv /\ RowsInv /\ [Next]_vars => [EditsAllowed]_vars
  BY NextAllowsEdits
<1>2. TablesInv /\ RowsInv /\ [Next]_vars => RowsInv'
  BY RowsStep
<1>3. Spec => [][EditsAllowed]_vars
  BY <1>1, <1>2, RowsStart, TablesStart, TablesStep, PTL DEF Spec
<1>4. [][EditsAllowed]_vars => EditsAreSignedAndAllowed
  BY PTL DEF EditsAllowed, EditAllowed, OldTitles, ChangedFields, AdminSigns, Signers,
            EditsAreSignedAndAllowed
<1>5. QED
  BY <1>3, <1>4

---------------------------------------------------------------------------
(* Renames and deletions. *)

Gone(s) == wikidoc'[s] = None \/ wikidoc'[s].doc # wikidoc[s].doc

(* The event e accounts for a document that no longer has the title s. *)
AccountsFor(e, s) ==
  LET u == e.updated_by
  IN  /\ e.old_title = s /\ e.doc = wikidoc[s].doc
      /\ e.id \notin {f.id : f \in documentevent}
      /\ e.is_private = wikidoc[s].is_private
      /\ \/ e.event_type = "rename" /\ Editor(u, s)
         \/ /\ e.event_type = "delete"
            /\ is_admin(role[u]) \/ (~wikidoc[s].is_private /\ u = wikidoc[s].created_by)

AllAccountedFor ==
  \A s \in Documents : Gone(s) => \E e \in documentevent' \ documentevent : AccountsFor(e, s)

(* The id of a new event is above all. *)
LEMMA NextEventIsNew ==
  ASSUME TablesInv, TrailInv, NEW event, event.id = Cardinality(documentevent) + 1
  PROVE  event.id \notin {f.id : f \in documentevent} /\ event \notin documentevent
<1>1. \A f \in documentevent : f.id \in Nat /\ f.id <= Cardinality(documentevent)
  BY DEF TablesInv, TypeOK, EventRow, TrailInv, IdsAreCounted
<1>2. Cardinality(documentevent) \in Nat
  BY CountsAreNumbers
<1>3. \A f \in documentevent : f.id # event.id
  BY <1>1, <1>2
<1>4. QED
  BY <1>3

LEMMA MoveAccounted ==
  ASSUME EmptyName \notin Categories, TablesInv, RowsInv, TrailInv, NEW user \in Users \cup {None},
         NEW title \in Titles, NEW new_title \in Titles, move_document(user, title, new_title)
  PROVE  AllAccountedFor
<1> DEFINE event == NewEvent(title, "rename", new_title, user, FALSE)
<1>1. \A s \in Documents \ {title} : wikidoc'[s] = wikidoc[s]
  BY MoveFacts
<1>2. event \in documentevent' /\ title \in Permitted(user, "document_rename")
  BY DEF move_document
<1>3. /\ event.id = Cardinality(documentevent) + 1 /\ event.event_type = "rename"
      /\ event.old_title = title /\ event.doc = wikidoc[title].doc
      /\ event.is_private = wikidoc[title].is_private /\ event.updated_by = user
  BY DEF NewEvent
<1> HIDE DEF event
<1>4. Editor(user, title)
  BY <1>2, PermittedEditor DEF TablesInv
<1>5. event \in documentevent' \ documentevent /\ AccountsFor(event, title)
  BY <1>2, <1>3, <1>4, NextEventIsNew DEF AccountsFor
<1>6. \A s \in Documents \ {title} : ~Gone(s)
  BY <1>1 DEF Gone, Documents
<1>7. QED
  BY <1>5, <1>6 DEF AllAccountedFor

LEMMA DeleteAccounted ==
  ASSUME TablesInv, TrailInv, NEW user \in Users \cup {None}, NEW title \in Titles,
         delete_document(user, title)
  PROVE  AllAccountedFor
<1> DEFINE event == NewEvent(title, "delete", None, user, TRUE)
<1>1. wikidoc' = [wikidoc EXCEPT ![title] = None]
  BY DEF delete_document
<1>2. event \in documentevent' /\ title \in Permitted(user, "document_delete")
  BY DEF delete_document
<1>3. /\ event.id = Cardinality(documentevent) + 1 /\ event.event_type = "delete"
      /\ event.old_title = title /\ event.doc = wikidoc[title].doc
      /\ event.is_private = wikidoc[title].is_private /\ event.updated_by = user
  BY DEF NewEvent
<1> HIDE DEF event
<1>4. is_admin(role[user]) \/ (~wikidoc[title].is_private /\ user = wikidoc[title].created_by)
  BY <1>2, PermittedDeletion DEF TablesInv
<1>5. event \in documentevent' \ documentevent /\ AccountsFor(event, title)
  BY <1>2, <1>3, <1>4, NextEventIsNew DEF AccountsFor
<1>6. \A s \in Documents \ {title} : ~Gone(s)
  BY <1>1 DEF Gone, Documents, TablesInv, TypeOK
<1>7. QED
  BY <1>5, <1>6 DEF AllAccountedFor

(* No other step takes a document from its title. *)
LEMMA StillThere ==
  ASSUME \A s \in Documents : wikidoc'[s] # None /\ wikidoc'[s].doc = wikidoc[s].doc
  PROVE  AllAccountedFor
BY DEF AllAccountedFor, Gone

LEMMA SameNumbersAccounted ==
  ASSUME SameNumbers
  PROVE  AllAccountedFor
BY StillThere DEF SameNumbers, Documents

LEMMA NextAccounts ==
  ASSUME EmptyName \notin Categories, TablesInv, RowsInv, TrailInv, Next
  PROVE  AllAccountedFor
<1>1. ASSUME NEW user \in Users \cup {None}, NEW title \in Titles, NEW content \in Contents,
             NEW c \in Categories, NEW tags \in SUBSET Tags, NEW is_private \in BOOLEAN,
             create_document(user, title, content, c, tags, is_private)
      PROVE  AllAccountedFor
  <2> DEFINE row == NewDocument(user, content, c, tags, is_private)
  <2>1. wikidoc[title] = None /\ wikidoc' = [wikidoc EXCEPT ![title] = row]
    BY <1>1 DEF create_document, NewDocument
  <2> HIDE DEF row
  <2>2. QED
    BY <2>1, StillThere DEF Documents, TablesInv, TypeOK
<1>2. ASSUME NEW user \in Users \cup {None}, NEW title \in Titles, NEW content \in Contents,
             NEW c \in Categories, NEW tags \in SUBSET Tags, NEW is_private \in BOOLEAN,
             NEW reordered \in BOOLEAN,
             update_document(user, title, content, c, tags, is_private, reordered)
      PROVE  AllAccountedFor
  <2> DEFINE next == [wikidoc[title] EXCEPT !.content = content, !.category = c, !.tags = tags,
                                            !.is_private = is_private]
  <2>1. title \in Documents /\ wikidoc' = [wikidoc EXCEPT ![title] = next]
    BY <1>2, PermittedTitles DEF update_document, TablesInv
  <2>2. next \in DocumentRow /\ next.doc = wikidoc[title].doc
    BY <2>1, DocumentRows DEF DocumentRow, TablesInv
  <2> HIDE DEF next
  <2>3. next # None
    BY <2>2, DocumentAssumptions
  <2>4. QED
    BY <2>1, <2>2, <2>3, StillThere DEF Documents, TablesInv, TypeOK
<1>3. ASSUME NEW user \in Users \cup {None}, NEW title \in Titles, get_document(user, title)
      PROVE  AllAccountedFor
  <2> DEFINE next == [wikidoc[title] EXCEPT !.view_count = @ + 1]
  <2>1. /\ title \in Documents /\ wikidoc[title].view_count < MaxViews
        /\ wikidoc' = [wikidoc EXCEPT ![title] = next]
    BY <1>3, ReadableTitles DEF get_document, TablesInv
  <2>2. wikidoc[title] \in DocumentRow
    BY <2>1, DocumentRows DEF TablesInv
  <2>3. wikidoc[title].view_count + 1 \in 0..MaxViews
    BY <2>1, <2>2, DocumentAssumptions DEF DocumentRow
  <2>4. next \in DocumentRow /\ next.doc = wikidoc[title].doc
    BY <2>2, <2>3 DEF DocumentRow
  <2> HIDE DEF next
  <2>5. next # None
    BY <2>4, DocumentAssumptions
  <2>6. QED
    BY <2>1, <2>4, <2>5, StillThere DEF Documents, TablesInv, TypeOK
<1>4. CASE UNCHANGED wikidoc
  BY <1>4, SameNumbersAccounted DEF SameNumbers
<1>5. ASSUME NEW user \in Users \cup {None}, NEW title \in Titles,
             like_document(user, title) \/ unlike_document(user, title)
      PROVE  AllAccountedFor
  BY <1>4, <1>5 DEF like_document, unlike_document
<1>6. ASSUME NEW user \in Users \cup {None}, DocumentStep(user)
      PROVE  AllAccountedFor
  BY <1>1, <1>2, <1>3, <1>5, <1>6, MoveAccounted, DeleteAccounted DEF DocumentStep
<1>7. ASSUME NEW user, NEW name, delete_tag(user, name)
      PROVE  AllAccountedFor
  <2>1. wikidoc' = [t \in Titles |-> IF t \in Documents
                                     THEN [wikidoc[t] EXCEPT !.tags = @ \ {name}] ELSE None]
    BY <1>7 DEF delete_tag
  <2>2. \A row \in DocumentRow : LET next == [row EXCEPT !.tags = @ \ {name}]
                                 IN  next \in DocumentRow /\ next.doc = row.doc
    BY DEF DocumentRow
  <2>3. QED
    BY <2>1, <2>2, DocumentRows, StillThere DEF TablesInv
<1>8. ASSUME NEW user, AdminStep(user)
      PROVE  AllAccountedFor
  BY <1>4, <1>7, <1>8 DEF AdminStep, update_user_permission, docVars
<1>9. QED
  BY <1>6, <1>8 DEF Next

(* Unless a category bears the empty name, a document leaves its title     *)
(* only with an event of its own, whose id no event had before and which   *)
(* names a user who, at that step, may rename it, or delete it             *)
(* (move_document and delete_document, documents.py:418 and 514).          *)
THEOREM RenamesAndDeletionsAreAllowed ==
  ASSUME EmptyName \notin Categories
  PROVE  Spec => RenamesAndDeletionsAreSignedAndAllowed
<1>1. TablesInv /\ RowsInv /\ TrailInv /\ [Next]_vars => [AllAccountedFor]_vars
  BY NextAccounts
<1>2. TablesInv /\ RowsInv /\ TrailInv /\ [Next]_vars => TrailInv'
  BY TrailStep
<1>3. TablesInv /\ RowsInv /\ [Next]_vars => RowsInv'
  BY RowsStep
<1>4. Spec => [][AllAccountedFor]_vars
  BY <1>1, <1>2, <1>3, TrailStart, RowsStart, TablesStart, TablesStep, PTL DEF Spec
<1>5. [][AllAccountedFor]_vars => RenamesAndDeletionsAreSignedAndAllowed
  BY PTL DEF AllAccountedFor, Gone, AccountsFor, RenamesAndDeletionsAreSignedAndAllowed
<1>6. QED
  BY <1>4, <1>5

---------------------------------------------------------------------------
(* Rights. *)

(* The step takes the document from title s to title t with all that the   *)
(* policy looks at: its owner, its privacy, its category and its lists.    *)
SameToThePolicy(s, t) ==
  /\ \A field \in {"is_private", "category", "created_by"} : wikidoc'[t][field] = wikidoc[s][field]
  /\ permissions'[t] = permissions[s]

LEMMA SameRights ==
  ASSUME UNCHANGED <<role, wikicategory>>, NEW s \in Documents, NEW t \in Documents',
         SameToThePolicy(s, t), NEW u \in Users, NEW action
  PROVE  Allows(u, action, t)' <=> Allows(u, action, s)
<1>1. /\ wikidoc[s] # None /\ wikidoc'[t] # None
      /\ wikidoc'[t].is_private = wikidoc[s].is_private
      /\ wikidoc'[t].category = wikidoc[s].category
      /\ wikidoc'[t].created_by = wikidoc[s].created_by
      /\ permissions'[t] = permissions[s]
  BY DEF SameToThePolicy, Documents
<1>2. RoleOf(u)' = RoleOf(u)
  BY DEF RoleOf
<1>3. can_read_document(RoleOf(u), wikidoc[t])' <=> can_read_document(RoleOf(u), wikidoc[s])
  BY <1>1, <1>2 DEF can_read_document
<1>4. \A a : Granted(RoleOf(u), a, wikidoc[t], permissions[t], wikicategory)'
             <=> Granted(RoleOf(u), a, wikidoc[s], permissions[s], wikicategory)
  BY <1>1, <1>2 DEF Granted
<1>5. can_perform_document(u, RoleOf(u), action, wikidoc[t], permissions[t], wikicategory)'
        <=> can_perform_document(u, RoleOf(u), action, wikidoc[s], permissions[s], wikicategory)
  BY <1>1, <1>2, <1>3, <1>4 DEF can_perform_document
<1>6. QED
  BY <1>3, <1>5 DEF Allows

(* Every document is, after the step, what it was to the policy. *)
LEMMA NoRightsChange ==
  ASSUME UNCHANGED <<role, wikicategory>>,
         \A s \in Documents, t \in Documents' :
           wikidoc'[t].doc = wikidoc[s].doc => SameToThePolicy(s, t)
  PROVE  ~RightsChange
BY SameRights DEF RightsChange

LEMMA AdministratorsAct ==
  ASSUME NEW user, ~is_admin(RoleOf(user))
  PROVE  ~AdminStep(user)
<1>1. /\ ~can_perform(RoleOf(user), "admin")
      /\ ~can_perform(RoleOf(user), "category_create")
  BY DEF can_perform, has_minimum_role, MINIMUM_ROLES, RolesReaching, is_admin
<1>2. QED
  BY <1>1 DEF AdminStep, delete_tag, update_user_permission, EditCategory, create_category,
              update_category, delete_category

LEMMA CreateLeavesRights ==
  ASSUME TablesInv, RowsInv, NEW user \in Users \cup {None}, NEW title \in Titles,
         NEW content \in Contents, NEW c \in Categories, NEW tags \in SUBSET Tags,
         NEW is_private \in BOOLEAN,
         create_document(user, title, content, c, tags, is_private)
  PROVE  ~RightsChange
<1> DEFINE row == NewDocument(user, content, c, tags, is_private)
<1>1. /\ wikidoc[title] = None /\ UNCHANGED <<role, wikicategory>>
      /\ wikidoc' = [wikidoc EXCEPT ![title] = row]
      /\ permissions' = [permissions EXCEPT ![title] = DefaultPermissions]
  BY DEF create_document, NewDocument
<1>2. row.doc = created + 1
  BY DEF NewDocument
<1> HIDE DEF row
<1>3. ASSUME NEW s \in Documents, NEW t \in Documents', wikidoc'[t].doc = wikidoc[s].doc
      PROVE  SameToThePolicy(s, t)
  <2>1. t # title
    <3>1. wikidoc[s].doc \in Nat /\ created \in Nat /\ wikidoc[s].doc <= created
      BY NumbersOfDocuments
    <3>2. wikidoc'[title] = row
      BY <1>1 DEF TablesInv, TypeOK
    <3>3. QED
      BY <1>2, <1>3, <3>1, <3>2
  <2>2. /\ t \in Documents /\ wikidoc'[t] = wikidoc[t] /\ permissions'[t] = permissions[t]
    BY <1>1, <2>1 DEF Documents, TablesInv, TypeOK
  <2>3. s = t
    BY <1>3, <2>2 DEF RowsInv, RowsBelongToTheirDocument, OneTitlePerDocument
  <2>4. QED
    BY <2>2, <2>3 DEF SameToThePolicy
<1>4. QED
  BY <1>1, <1>3, NoRightsChange

(* An update by somebody else than an administrator can change neither     *)
(* category nor privacy.                                                   *)
LEMMA UpdateLeavesRights ==
  ASSUME TablesInv, RowsInv, NEW user \in Users \cup {None}, ~is_admin(RoleOf(user)),
         NEW title \in Titles, NEW content, NEW c, NEW tags, NEW is_private, NEW reordered,
         update_document(user, title, content, c, tags, is_private, reordered)
  PROVE  ~RightsChange
<1> DEFINE next == [wikidoc[title] EXCEPT !.content = content, !.category = c, !.tags = tags,
                                          !.is_private = is_private]
<1>1. /\ wikidoc[title] # None /\ wikidoc' = [wikidoc EXCEPT ![title] = next]
      /\ UNCHANGED <<role, wikicategory, permissions>>
      /\ is_private = wikidoc[title].is_private
      /\ c # wikidoc[title].category => title \in Permitted(user, "document_move")
  BY DEF update_document
<1>2. c = wikidoc[title].category
  <2>1. ASSUME title \in Permitted(user, "document_move")
        PROVE  user \in Users /\ is_admin(role[user])
    BY <2>1, MoversAreAdmins DEF TablesInv
  <2>2. QED
    BY <1>1, <2>1, DocumentAssumptions DEF RoleOf
<1>3. wikidoc[title] \in DocumentRow
  BY <1>1, DocumentRows DEF TablesInv
<1>4. \A field \in {"doc", "is_private", "category", "created_by"} :
        next[field] = wikidoc[title][field]
  BY <1>1, <1>2, <1>3 DEF DocumentRow
<1> HIDE DEF next
<1>5. ASSUME NEW s \in Documents, NEW t \in Documents', wikidoc'[t].doc = wikidoc[s].doc
      PROVE  SameToThePolicy(s, t)
  <2>1. /\ t \in Documents
        /\ \A field \in {"doc", "is_private", "category", "created_by"} :
             wikidoc'[t][field] = wikidoc[t][field]
    BY <1>1, <1>4 DEF Documents, TablesInv, TypeOK
  <2>2. s = t
    BY <1>5, <2>1 DEF RowsInv, RowsBelongToTheirDocument, OneTitlePerDocument
  <2>3. QED
    BY <1>1, <2>1, <2>2 DEF SameToThePolicy
<1>6. QED
  BY <1>1, <1>5, NoRightsChange

LEMMA MoveLeavesRights ==
  ASSUME TablesInv, RowsInv, NEW user \in Users \cup {None}, NEW title \in Titles,
         NEW new_title \in Titles, move_document(user, title, new_title)
  PROVE  ~RightsChange
<1>1. /\ title \in Documents /\ new_title # title /\ new_title \notin Documents
      /\ Documents' = (Documents \ {title}) \cup {new_title}
      /\ wikidoc'[new_title] = wikidoc[title]
      /\ \A t \in Documents \ {title} : wikidoc'[t] = wikidoc[t]
  BY MoveFacts
<1>2. /\ permissions'[new_title] = permissions[title]
      /\ \A t \in Documents \ {title} : permissions'[t] = permissions[t]
      /\ UNCHANGED <<role, wikicategory>>
  BY <1>1 DEF move_document, TablesInv, TypeOK, Documents
<1>3. ASSUME NEW s \in Documents, NEW t \in Documents', wikidoc'[t].doc = wikidoc[s].doc
      PROVE  SameToThePolicy(s, t)
  <2>1. IF t = new_title THEN s = title ELSE s = t
    BY <1>1, <1>3 DEF RowsInv, RowsBelongToTheirDocument, OneTitlePerDocument
  <2>2. QED
    BY <1>1, <1>2, <2>1 DEF SameToThePolicy
<1>4. QED
  BY <1>2, <1>3, NoRightsChange

LEMMA DeleteLeavesRights ==
  ASSUME TablesInv, RowsInv, NEW user \in Users \cup {None}, NEW title \in Titles,
         delete_document(user, title)
  PROVE  ~RightsChange
<1>1. /\ wikidoc' = [wikidoc EXCEPT ![title] = None]
      /\ permissions' = [permissions EXCEPT ![title] = None]
      /\ UNCHANGED <<role, wikicategory>>
  BY DEF delete_document
<1>2. ASSUME NEW s \in Documents, NEW t \in Documents', wikidoc'[t].doc = wikidoc[s].doc
      PROVE  SameToThePolicy(s, t)
  <2>1. /\ t \in Documents /\ wikidoc'[t] = wikidoc[t] /\ permissions'[t] = permissions[t]
    BY <1>1 DEF Documents, TablesInv, TypeOK
  <2>2. s = t
    BY <1>2, <2>1 DEF RowsInv, RowsBelongToTheirDocument, OneTitlePerDocument
  <2>3. QED
    BY <2>1, <2>2 DEF SameToThePolicy
<1>3. QED
  BY <1>1, <1>2, NoRightsChange

LEMMA ReadersLeaveRights ==
  ASSUME TablesInv, RowsInv, NEW user \in Users \cup {None}, NEW title \in Titles,
         \/ get_document(user, title)
         \/ like_document(user, title)
         \/ unlike_document(user, title)
  PROVE  ~RightsChange
<1>1. UNCHANGED <<role, wikicategory, permissions>>
  BY DEF get_document, like_document, unlike_document
<1>2. \A t \in Documents' :
        /\ t \in Documents
        /\ \A field \in {"doc", "is_private", "category", "created_by"} :
             wikidoc'[t][field] = wikidoc[t][field]
  <2>1. CASE get_document(user, title)
    BY <2>1, ViewedRow
  <2>2. CASE like_document(user, title) \/ unlike_document(user, title)
    BY <2>2 DEF like_document, unlike_document, Documents
  <2>3. QED
    BY <2>1, <2>2
<1>3. ASSUME NEW s \in Documents, NEW t \in Documents', wikidoc'[t].doc = wikidoc[s].doc
      PROVE  SameToThePolicy(s, t)
  <2>1. s = t
    BY <1>2, <1>3 DEF RowsInv, RowsBelongToTheirDocument, OneTitlePerDocument
  <2>2. QED
    BY <1>1, <1>2, <2>1 DEF SameToThePolicy
<1>4. QED
  BY <1>1, <1>3, NoRightsChange

RightsAreAdministered ==
  RightsChange =>
    \A user \in Users \cup {None} :
      is_admin(RoleOf(user)) \/ ~(DocumentStep(user) \/ AdminStep(user))

LEMMA NextAdministersRights ==
  ASSUME TablesInv, RowsInv
  PROVE  RightsAreAdministered
<1>1. ASSUME NEW user \in Users \cup {None}, ~is_admin(RoleOf(user)), DocumentStep(user)
      PROVE  ~RightsChange
  BY <1>1, CreateLeavesRights, UpdateLeavesRights, MoveLeavesRights, DeleteLeavesRights,
     ReadersLeaveRights DEF DocumentStep
<1>2. QED
  BY <1>1, AdministratorsAct DEF RightsAreAdministered

(* What anybody may do with a document changes only when an administrator  *)
(* acts: no edit, rename or deletion by others, of this document or of     *)
(* another, gives or takes a right (permissions.py:145, documents.py:453). *)
THEOREM AdministratorsDecideRights == Spec => OnlyAdministratorsChangeRights
<1>1. TablesInv /\ RowsInv /\ [Next]_vars => [RightsAreAdministered]_vars
  BY NextAdministersRights
<1>2. TablesInv /\ RowsInv /\ [Next]_vars => RowsInv'
  BY RowsStep
<1>3. Spec => [][RightsAreAdministered]_vars
  BY <1>1, <1>2, RowsStart, TablesStart, TablesStep, PTL DEF Spec
<1>4. [][RightsAreAdministered]_vars => OnlyAdministratorsChangeRights
  BY PTL DEF RightsAreAdministered, OnlyAdministratorsChangeRights
<1>5. QED
  BY <1>3, <1>4

===========================================================================
