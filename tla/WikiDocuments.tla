-------------------------- MODULE WikiDocuments --------------------------
(***************************************************************************)
(* Documents, their versions, permissions, likes and events, and the tags  *)
(* and categories they refer to: the handlers of routers/documents.py,     *)
(* routers/tags.py and routers/categories.py and the change of a user's    *)
(* role in routers/users.py.                                               *)
(*                                                                         *)
(* Handlers are coroutines that never await between their first read and   *)
(* their commit, and the server is one process, so a handler is one        *)
(* action.  A request that is refused changes nothing and is no step.      *)
(*                                                                         *)
(* SQLite does not enforce the foreign keys and a title is a primary key   *)
(* that renames reuse, so nothing but these handlers keeps the tables      *)
(* consistent.  To say which document a row was written for, rows carry a  *)
(* field doc that the tables do not have: the number of the document, in   *)
(* order of creation, which no rename changes.                             *)
(***************************************************************************)
EXTENDS CategoryTree, FiniteSets

CONSTANTS
  Titles,            \* non-empty document titles
  Users,             \* registered users
  Contents,          \* document bodies
  Tags,              \* tag names
  InitialRole,       \* role of each user at the start
  LegacyPermissions, \* Permissions rows an older release may have stored, or None
  MaxDocuments,      \* bound: documents ever created
  MaxVersions,       \* bound: versions of one document
  MaxEvents,         \* bound: rename and delete events ever recorded
  MaxViews           \* bound: counted views of one document

VARIABLES
  role,             \* WikiUser.permission of each user
  wikitag,          \* names of the stored tags
  wikidoc,          \* title -> row, or None
  permissions,      \* title -> Permissions row, or None
  wikidocversion,   \* set of version rows, key (title, number)
  documentlike,     \* set of like rows, key (title, user)
  documentevent,    \* set of event rows, key id
  created           \* number of documents ever created

docVars == <<role, wikitag, wikidoc, permissions, wikidocversion, documentlike,
             documentevent, created>>
vars == <<wikicategory, docVars>>

---------------------------------------------------------------------------

PermissionsRow == [{"update", "rename", "move", "delete"} -> SUBSET Role]

\* Mutant: names a role that does not exist.
DefaultPermissionsMisspelt ==
  [update |-> {"member"}, rename |-> {"member"}, move |-> {"admin"}, delete |-> {"admin"}]

DefaultPermissions ==
  [update |-> {"club_member"}, rename |-> {"club_member"}, move |-> {"admin"}, delete |-> {"admin"}]

DocumentRow ==
  [doc : 1..MaxDocuments, content : Contents, category : Categories, tags : SUBSET Tags,
   is_private : BOOLEAN, view_count : 0..MaxViews, created_by : Users]

VersionRow ==
  [doc : 1..MaxDocuments, title : Titles, number : 1..MaxVersions, content : Contents,
   category : Categories, tags : SUBSET Tags, updated_by : Users]

LikeRow == [doc : 1..MaxDocuments, title : Titles, username : Users]

EventRow ==
  [doc : 1..MaxDocuments, id : 1..MaxEvents, title : Titles, event_type : {"rename", "delete"},
   old_title : Titles, new_title : Titles \cup {None}, updated_by : Users,
   is_private : BOOLEAN, deleted : BOOLEAN]

ASSUME DocumentAssumptions ==
  /\ None \notin Users \cup Titles \cup Contents \cup Role \cup DocumentRow \cup PermissionsRow
  /\ InitialRole \in [Users -> Role]
  /\ LegacyPermissions \subseteq PermissionsRow \cup {None}
  /\ {MaxDocuments, MaxVersions} \subseteq Nat \ {0}
  /\ {MaxEvents, MaxViews} \subseteq Nat

TypeOK ==
  /\ CategoryTypeOK
  /\ role \in [Users -> Role]
  /\ wikitag \subseteq Tags
  /\ wikidoc \in [Titles -> DocumentRow \cup {None}]
  /\ permissions \in [Titles -> PermissionsRow \cup {None}]
  /\ wikidocversion \subseteq VersionRow
  /\ documentlike \subseteq LikeRow
  /\ documentevent \subseteq EventRow
  /\ created \in 0..MaxDocuments

(* The stored documents, and the rows that a query by title finds. *)
Documents      == {t \in Titles : wikidoc[t] # None}
VersionsOf(t)  == {v \in wikidocversion : v.title = t}
LikesOf(t)     == {l \in documentlike : l.title = t}
VisibleEvents(t) == {e \in documentevent : e.title = t /\ ~e.deleted}

EmptyDatabase ==
  /\ wikicategory = NoCategory
  /\ wikidoc = [t \in Titles |-> None]
  /\ permissions = [t \in Titles |-> None]
  /\ wikidocversion = {}
  /\ created = 0

(* A database with a document of an older release, with the permission     *)
(* lists of that time.                                                     *)
LegacyDatabase(title, content, c, lists, author) ==
  /\ wikicategory = LegacyCategory(c)
  /\ wikidoc = [t \in Titles |-> IF t # title THEN None ELSE
                  [doc |-> 1, content |-> content, category |-> c, tags |-> {},
                   is_private |-> FALSE, view_count |-> 0, created_by |-> author]]
  /\ permissions = [t \in Titles |-> IF t = title THEN lists ELSE None]
  /\ wikidocversion = {[doc |-> 1, title |-> title, number |-> 1, content |-> content,
                        category |-> c, tags |-> {}, updated_by |-> author]}
  /\ created = 1

Init ==
  /\ role = InitialRole
  /\ wikitag = {}
  /\ documentlike = {}
  /\ documentevent = {}
  /\ \/ EmptyDatabase
     \/ \E title \in Titles, content \in Contents, c \in Categories, lists \in LegacyPermissions,
           author \in Users : LegacyDatabase(title, content, c, lists, author)

---------------------------------------------------------------------------
(* Handlers.  user is the user that the token names, None without a token. *)

RoleOf(user) == IF user = None THEN None ELSE role[user]

Readable(user) == {t \in Titles : can_read_document(RoleOf(user), wikidoc[t])}

(* The titles of the documents on which the user may perform the action. *)
Permitted(user, action) ==
  {t \in Titles : can_perform_document(user, RoleOf(user), action, wikidoc[t], permissions[t],
                                       wikicategory)}

(* A document may only be put into, or edited in, a category that exists    *)
(* and that the user may write to.                                          *)
check_category_write_permission(user, c) ==
  /\ c # EmptyName /\ wikicategory[c] # None
  /\ can_write_category(RoleOf(user), wikicategory, c)

(* Tags that do not exist yet are stored with the document that names them. *)
WithMissingTags(tags) == wikitag \cup tags

\* Mutant: the snapshot forgets the tags.
NewVersionWithoutTags(row, title, number, user) ==
  [doc |-> row.doc, title |-> title, number |-> number, content |-> row.content,
   category |-> row.category, tags |-> {}, updated_by |-> user]

(* A version records what the document now holds. *)
NewVersion(row, title, number, user) ==
  [doc |-> row.doc, title |-> title, number |-> number, content |-> row.content,
   category |-> row.category, tags |-> row.tags, updated_by |-> user]

(* One transaction stores the document, its first version and its default  *)
(* permissions; the tags it names come into being with it.                 *)
create_document(user, title, content, c, tags, is_private) ==
  /\ created < MaxDocuments
  /\ can_perform(RoleOf(user), "document_create")
  /\ is_private => is_admin(RoleOf(user))
  /\ wikidoc[title] = None
  /\ check_category_write_permission(user, c)
  /\ created' = created + 1
  /\ wikitag' = WithMissingTags(tags)
  /\ wikidoc' = [wikidoc EXCEPT ![title] =
        [doc |-> created', content |-> content, category |-> c, tags |-> tags,
         is_private |-> is_private, view_count |-> 0, created_by |-> user]]
  /\ permissions' = [permissions EXCEPT ![title] = DefaultPermissions]
  /\ wikidocversion' = wikidocversion \cup {NewVersion(wikidoc'[title], title, 1, user)}
  /\ UNCHANGED <<wikicategory, role, documentlike, documentevent>>

(* len(doc.versions) counts the rows there are before the new one is made. *)
NextNumber(title) == Cardinality(VersionsOf(title)) + 1

(* The arguments are the values that the document will have: leaving a      *)
(* field out of the request is the same as sending its current value, which *)
(* passes every check that the document passes without it.  A list of tags  *)
(* in another order, or a category with another parent field, is a change   *)
(* that the model's names do not show: reordered.  A request that changes   *)
(* nothing writes nothing.                                                  *)
update_document(user, title, content, c, tags, is_private, reordered) ==
  LET doc    == wikidoc[title]
      next   == [doc EXCEPT !.content = content, !.category = c, !.tags = tags,
                            !.is_private = is_private]
      number == NextNumber(title)
  IN  /\ doc # None
      /\ number <= MaxVersions
      /\ IF reordered THEN next = doc ELSE next # doc
      /\ title \in Permitted(user, "document_update")
      /\ is_private # doc.is_private => is_admin(RoleOf(user))
      /\ check_category_write_permission(user, doc.category)
      /\ check_category_write_permission(user, c)
      /\ c # doc.category => title \in Permitted(user, "document_move")
      /\ \A v \in VersionsOf(title) : v.number # number
      /\ wikitag' = WithMissingTags(tags)
      /\ wikidoc' = [wikidoc EXCEPT ![title] = next]
      /\ wikidocversion' = wikidocversion \cup {NewVersion(next, title, number, user)}
      /\ UNCHANGED <<wikicategory, role, permissions, documentlike, documentevent, created>>

\* Mutant: the old and the new title are swapped.
NewEventReversed(title, type, new_title, user, deleted) ==
  [doc |-> wikidoc[title].doc, id |-> Cardinality(documentevent) + 1,
   title |-> IF new_title = None THEN title ELSE new_title, event_type |-> type,
   old_title |-> IF new_title = None THEN title ELSE new_title,
   new_title |-> IF new_title = None THEN None ELSE title, updated_by |-> user,
   is_private |-> wikidoc[title].is_private, deleted |-> deleted]

\* Mutant: the event of a deletion is stored as visible.
NewEventNotFlagged(title, type, new_title, user, deleted) ==
  [doc |-> wikidoc[title].doc, id |-> Cardinality(documentevent) + 1,
   title |-> IF new_title = None THEN title ELSE new_title, event_type |-> type,
   old_title |-> title, new_title |-> new_title, updated_by |-> user,
   is_private |-> wikidoc[title].is_private, deleted |-> FALSE]

(* A new event takes the next id. *)
NewEvent(title, type, new_title, user, deleted) ==
  [doc |-> wikidoc[title].doc, id |-> Cardinality(documentevent) + 1,
   title |-> IF new_title = None THEN title ELSE new_title, event_type |-> type, old_title |-> title,
   new_title |-> new_title, updated_by |-> user, is_private |-> wikidoc[title].is_private,
   deleted |-> deleted]

Retitled(rows, title) == {[row EXCEPT !.title = title] : row \in rows}

\* Mutant: the counter of views starts again.
MovedRowUncounted(row) ==
  [doc |-> row.doc, content |-> row.content, category |-> row.category, tags |-> row.tags,
   is_private |-> row.is_private, view_count |-> 0, created_by |-> row.created_by]

\* Mutant: the copy forgets who created the document.
MovedRowUnowned(row) ==
  [doc |-> row.doc, content |-> row.content, category |-> row.category, tags |-> row.tags,
   is_private |-> row.is_private, view_count |-> row.view_count, created_by |-> None]

(* The new row copies the old one field by field. *)
MovedRow(row) ==
  [doc |-> row.doc, content |-> row.content, category |-> row.category, tags |-> row.tags,
   is_private |-> row.is_private, view_count |-> row.view_count, created_by |-> row.created_by]

\* Mutant: only the newest version is copied.
MovedNewestVersion(title, new_title) ==
  Retitled({v \in VersionsOf(title) : v.number = Cardinality(VersionsOf(title))}, new_title)

(* Every version is copied, with its number. *)
MovedVersions(title, new_title) == Retitled(VersionsOf(title), new_title)

(* The title is the primary key, so a rename copies the document and every *)
(* row that belongs to it to the new title and deletes the old ones.       *)
move_document(user, title, new_title) ==
  /\ Cardinality(documentevent) < MaxEvents
  /\ new_title # title
  /\ title \in Permitted(user, "document_rename")
  /\ wikidoc[new_title] = None
  /\ wikidoc' = [wikidoc EXCEPT ![new_title] = MovedRow(wikidoc[title]), ![title] = None]
  /\ wikidocversion' = (wikidocversion \ VersionsOf(title)) \cup MovedVersions(title, new_title)
  /\ permissions' = [permissions EXCEPT ![new_title] = permissions[title], ![title] = None]
  /\ documentlike' = (documentlike \ LikesOf(title)) \cup Retitled(LikesOf(title), new_title)
  /\ documentevent' = (documentevent \ VisibleEvents(title))
                         \cup Retitled(VisibleEvents(title), new_title)
                         \cup {NewEvent(title, "rename", new_title, user, FALSE)}
  /\ UNCHANGED <<wikicategory, role, wikitag, created>>

(* The document goes with its versions, permissions and likes; its events  *)
(* stay, flagged so that a later document of that title does not show them. *)
delete_document(user, title) ==
  /\ Cardinality(documentevent) < MaxEvents
  /\ title \in Permitted(user, "document_delete")
  /\ wikidoc' = [wikidoc EXCEPT ![title] = None]
  /\ wikidocversion' = wikidocversion \ VersionsOf(title)
  /\ permissions' = [permissions EXCEPT ![title] = None]
  /\ documentlike' = documentlike \ LikesOf(title)
  /\ documentevent' = (documentevent \ VisibleEvents(title))
                         \cup {[e EXCEPT !.deleted = TRUE] : e \in VisibleEvents(title)}
                         \cup {NewEvent(title, "delete", None, user, TRUE)}
  /\ UNCHANGED <<wikicategory, role, wikitag, created>>

(* Opening a document counts a view. *)
get_document(user, title) ==
  /\ title \in Readable(user)
  /\ wikidoc[title].view_count < MaxViews
  /\ wikidoc' = [wikidoc EXCEPT ![title].view_count = @ + 1]
  /\ UNCHANGED <<wikicategory, role, wikitag, permissions, wikidocversion, documentlike,
                 documentevent, created>>

Liked(user, title) == \E l \in LikesOf(title) : l.username = user

like_document(user, title) ==
  /\ user # None
  /\ title \in Readable(user)
  /\ ~Liked(user, title)
  /\ documentlike' = documentlike \cup
        {[doc |-> wikidoc[title].doc, title |-> title, username |-> user]}
  /\ UNCHANGED <<wikicategory, role, wikitag, wikidoc, permissions, wikidocversion,
                 documentevent, created>>

unlike_document(user, title) ==
  /\ user # None
  /\ title \in Readable(user)
  /\ Liked(user, title)
  /\ documentlike' = {l \in documentlike : l.title # title \/ l.username # user}
  /\ UNCHANGED <<wikicategory, role, wikitag, wikidoc, permissions, wikidocversion,
                 documentevent, created>>

(* Deleting a tag takes it off every document, without writing a version. *)
delete_tag(user, name) ==
  /\ can_perform(RoleOf(user), "admin")
  /\ name \in wikitag
  /\ wikitag' = wikitag \ {name}
  /\ wikidoc' = [t \in Titles |-> IF t \in Documents
                                   THEN [wikidoc[t] EXCEPT !.tags = @ \ {name}] ELSE None]
  /\ UNCHANGED <<wikicategory, role, permissions, wikidocversion, documentlike, documentevent,
                 created>>

\* Mutant: administrators can change their own role.
UpdateAnyPermission(user, username, permission) ==
  /\ can_perform(RoleOf(user), "admin")
  /\ role' = [role EXCEPT ![username] = permission]
  /\ UNCHANGED <<wikicategory, wikitag, wikidoc, permissions, wikidocversion, documentlike,
                 documentevent, created>>

(* Administrators set the role of anyone but themselves. *)
update_user_permission(user, username, permission) ==
  /\ can_perform(RoleOf(user), "admin")
  /\ username # user
  /\ role' = [role EXCEPT ![username] = permission]
  /\ UNCHANGED <<wikicategory, wikitag, wikidoc, permissions, wikidocversion, documentlike,
                 documentevent, created>>

\* Mutant: documents that a list query hides are not counted.
PublicCategories == {wikidoc[t].category : t \in {d \in Documents : ~wikidoc[d].is_private}}

(* The categories that delete_category must not delete. *)
UsedCategories == {wikidoc[t].category : t \in Documents}

DocumentStep(user) ==
  \E title \in Titles :
    \/ \E content \in Contents, c \in Categories, tags \in SUBSET Tags, is_private \in BOOLEAN :
          \/ create_document(user, title, content, c, tags, is_private)
          \/ \E reordered \in BOOLEAN :
               update_document(user, title, content, c, tags, is_private, reordered)
    \/ \E new_title \in Titles : move_document(user, title, new_title)
    \/ delete_document(user, title)
    \/ get_document(user, title)
    \/ like_document(user, title)
    \/ unlike_document(user, title)

AdminStep(user) ==
  \/ \E name \in Tags : delete_tag(user, name)
  \/ \E username \in Users, permission \in RequestedRoles : update_user_permission(user, username, permission)
  \/ EditCategory(RoleOf(user)) /\ UNCHANGED docVars
  \/ \E name \in Categories :
       delete_category(RoleOf(user), name, UsedCategories) /\ UNCHANGED docVars

Next == \E user \in Users \cup {None} : DocumentStep(user) \/ AdminStep(user)

Spec == Init /\ [][Next]_vars

---------------------------------------------------------------------------
(* Safety: how the tables relate. *)

BelongsHere(row) == wikidoc[row.title] # None /\ wikidoc[row.title].doc = row.doc

OneTitlePerDocument ==
  \A s, t \in Documents : wikidoc[s].doc = wikidoc[t].doc => s = t

(* A document has one title, and every row that a query by title can find  *)
(* was written for the document that has the title now: neither a rename   *)
(* nor a deletion followed by a new document of the same title hands over  *)
(* versions, likes, permissions or visible events of another document.     *)
RowsBelongToTheirDocument ==
  /\ OneTitlePerDocument
  /\ \A v \in wikidocversion : BelongsHere(v)
  /\ \A l \in documentlike : BelongsHere(l)
  /\ \A e \in documentevent : ~e.deleted => BelongsHere(e)
  /\ \A t \in Titles \ Documents : permissions[t] = None

(* The versions of a document are numbered 1 to n, each number once: what  *)
(* len(doc.versions) + 1 relies on to find the next number, and the diff   *)
(* of a version to find its predecessor.                                   *)
VersionsNumberedWithoutGaps ==
  \A t \in Documents :
    /\ VersionsOf(t) # {}
    /\ {v.number : v \in VersionsOf(t)} = 1..Cardinality(VersionsOf(t))

(* The document shows what its newest version recorded, but for the tags   *)
(* deleted since.                                                          *)
HeadIsNewestVersion ==
  \A t \in Documents : \A v \in VersionsOf(t) :
    v.number = Cardinality(VersionsOf(t)) =>
      /\ v.content = wikidoc[t].content
      /\ v.category = wikidoc[t].category
      /\ wikidoc[t].tags \subseteq v.tags

(* The categories and tags that documents name are stored, whatever is     *)
(* deleted: "so that no broken reference remains" (tags.py:65), 409 for a  *)
(* category in use (categories.py:227).                                    *)
ReferencesResolve ==
  \A t \in Documents :
    /\ wikidoc[t].category \in Stored(wikicategory)
    /\ wikidoc[t].tags \subseteq wikitag

(* The renames that a document's history shows form one trail: each starts *)
(* at the title where the one before ended, and the last ends at the title *)
(* the document has.                                                       *)
RenameTrailIsUnbroken ==
  \A t \in Documents : \A e \in VisibleEvents(t) :
    LET later == {f \in VisibleEvents(t) : f.id > e.id}
    IN  /\ e.event_type = "rename"
        /\ IF later = {} THEN e.new_title = t
           ELSE \E f \in later : f.old_title = e.new_title /\ \A g \in later : g.id >= f.id

(* Somebody can always administer the wiki: administrators cannot demote   *)
(* themselves, so the one who acts remains.                                *)
AnAdministratorRemains == \E u \in Users : is_admin(role[u])

---------------------------------------------------------------------------
(* Safety: what a step may do. *)

(* What the versions of document d say, under whatever title. *)
History(d) ==
  {[number |-> v.number, content |-> v.content, category |-> v.category, tags |-> v.tags,
    updated_by |-> v.updated_by] : v \in {w \in wikidocversion : w.doc = d}}

Likers(d) == {l.username : l \in {k \in documentlike : k.doc = d}}

(* As long as a document exists, no recorded version of it changes or      *)
(* disappears and its creator stays; and a rename changes nothing of it    *)
(* but the title.                                                          *)
HistoryIsAppendOnly ==
  [][\A d \in 1..created, s \in Documents, t \in Documents' :
       wikidoc[s].doc = d /\ wikidoc'[t].doc = d =>
         /\ History(d) \subseteq History(d)'
         /\ wikidoc'[t].created_by = wikidoc[s].created_by
         /\ s # t => /\ wikidoc'[t] = wikidoc[s]
                     /\ permissions'[t] = permissions[s]
                     /\ History(d)' = History(d)
                     /\ Likers(d)' = Likers(d)]_vars

(* The user reaches the grade of the category and of all above it. *)
ReachesEveryFloor(u, c) ==
  \A a \in Ancestors(wikicategory, c) : Grade[role[u]] >= Grade[wikicategory[a].write_permission]

(* u may edit the document that has the title: it is public, u is a club   *)
(* member at least, whatever the document's list says, and reaches every   *)
(* floor of its category.                                                  *)
Editor(u, t) ==
  \/ is_admin(role[u])
  \/ /\ ~wikidoc[t].is_private
     /\ Grade[role[u]] >= Grade["club_member"]
     /\ ReachesEveryFloor(u, wikidoc[t].category)

(* Every new document and every change of a document's text, category or   *)
(* privacy leaves a new version.  Whoever signs a version could edit the   *)
(* document, or write to the category of the new one; and only an          *)
(* administrator moves a document to another category, or makes it or      *)
(* leaves it private.                                                      *)
EditsAreSignedAndAllowed ==
  [][\A t \in Documents' :
       LET old     == {s \in Documents : wikidoc[s].doc = wikidoc'[t].doc}
           signers == {v.updated_by : v \in VersionsOf(t)' \ wikidocversion}
           AdminSigns == \E u \in signers : is_admin(role[u])
       IN  /\ wikidoc'[t].doc > created =>
                /\ signers # {}
                /\ \A u \in signers : is_admin(role[u]) \/ ReachesEveryFloor(u, wikidoc'[t].category)
                /\ wikidoc'[t].is_private => AdminSigns
           /\ wikidoc'[t].doc <= created => \A s \in old \cap {t} :
                LET changed == {field \in {"content", "category", "is_private"} :
                                  wikidoc[s][field] # wikidoc'[t][field]}
                IN  /\ changed # {} => signers # {}
                    /\ \A u \in signers : Editor(u, s)
                    /\ changed \ {"content"} # {} => AdminSigns]_vars

(* A document changes its title or goes only with a new event, signed by a *)
(* user who may do so: for a rename an editor of the document, for a       *)
(* deletion an administrator, or the creator while it is public.           *)
RenamesAndDeletionsAreSignedAndAllowed ==
  [][\A s \in Documents : (wikidoc'[s] = None \/ wikidoc'[s].doc # wikidoc[s].doc) =>
       \E e \in documentevent' \ documentevent :
         LET u == e.updated_by
         IN  /\ e.old_title = s /\ e.doc = wikidoc[s].doc
             /\ e.id \notin {f.id : f \in documentevent}
             /\ e.is_private = wikidoc[s].is_private
             /\ \/ e.event_type = "rename" /\ Editor(u, s)
                \/ /\ e.event_type = "delete"
                   /\ is_admin(role[u]) \/ (~wikidoc[s].is_private /\ u = wikidoc[s].created_by)]_vars

(* What the user may do with the document that has the title. *)
Allows(user, action, t) ==
  IF action = "read" THEN can_read_document(RoleOf(user), wikidoc[t])
  ELSE can_perform_document(user, RoleOf(user), action, wikidoc[t], permissions[t], wikicategory)

RightsChange ==
  \E s \in Documents, t \in Documents' :
    /\ wikidoc'[t].doc = wikidoc[s].doc
    /\ \E u \in Users, action \in {"read"} \cup DOMAIN DOCUMENT_FIELDS :
         ~(Allows(u, action, t)' <=> Allows(u, action, s))

(* Only an administrator's request changes what anybody may do with a      *)
(* document, under whatever title it is found afterwards: edits do not,    *)
(* nor the copies that a rename makes of owner, lists and privacy          *)
(* (documents.py:453), nor titles that are given away and taken again.     *)
OnlyAdministratorsChangeRights ==
  [][RightsChange =>
       \A user \in Users \cup {None} :
         is_admin(RoleOf(user)) \/ ~(DocumentStep(user) \/ AdminStep(user))]_vars

(* Likes: nobody gains a like on a document that they cannot read. *)
LikesComeFromReaders ==
  [][\A l \in documentlike' : l.username \notin Likers(l.doc) =>
       \E t \in Documents : wikidoc[t].doc = l.doc /\ can_read_document(role[l.username], wikidoc[t])]_vars

===========================================================================
