-------------------------- MODULE SplitModulestore --------------------------
(***************************************************************************)
(* One course in the split modulestore: structures that are never changed, *)
(* an index with the head of the branches draft and published, editors who *)
(* read, check and write in separate steps, and publishing, which copies   *)
(* subtrees of the draft into the published structure.                     *)
(*                                                                         *)
(* A structure is a forest of blocks.  The content of a block is told by   *)
(* the version in which it was last updated.  Moving a block is two edits, *)
(* first out of its parent, then into another one.                         *)
(*                                                                         *)
(* Source: common/lib/xmodule/xmodule/modulestore/split_mongo/split.py,    *)
(* mongo_connection.py, caching_descriptor_system.py.                      *)
(***************************************************************************)
EXTENDS Integers, FiniteSets, Sequences, SequencesExt

CONSTANTS
  Blocks,           \* block ids
  Root,             \* the id of the course block
  Leaves,           \* ids of the categories without children
  Withheld,         \* ids that publishers put on a blacklist
  InitialChildren,  \* the course as it was created: children of the blocks it has
  Handlers,         \* web workers
  MaxVersions,      \* bound: structures of the course
  OverlapVersions   \* bound: structures of the course while requests overlap

ASSUME BlockAssumption ==
  /\ IsFiniteSet(Blocks) /\ Root \in Blocks \ Leaves
  /\ Leaves \subseteq Blocks /\ Withheld \subseteq Blocks \ {Root} /\ "none" \notin Blocks
ASSUME CourseAssumption ==
  /\ Root \in DOMAIN InitialChildren /\ DOMAIN InitialChildren \subseteq Blocks
  /\ \A b \in DOMAIN InitialChildren :
       /\ InitialChildren[b] \in Seq(DOMAIN InitialChildren \ {Root})
       /\ b \in Leaves => InitialChildren[b] = <<>>
ASSUME BoundAssumption == MaxVersions \in Nat \ {0} /\ OverlapVersions \in Nat

VARIABLES
  structures,  \* the structures: previous version, branch, blocks, and what was published
               \* into it: the version of the draft, the root of the subtree, the blacklist
  index,       \* the head of each branch, 0 for a branch that does not exist
  req,         \* the request each handler is serving, with what it has read
  seen         \* history: "raced", "blacklist", "stale", "shared"

vars == <<structures, index, req, seen>>

Branches == {"draft", "published"}
Versions == 1..Len(structures)
Idle     == [op |-> "idle"]
NotPublished == [source |-> 0, root |-> Root, blacklist |-> {}]

-----------------------------------------------------------------------------
(* Structures.                                                             *)

\* listed: fields has the key "children", which a block lacks that never had any.
Block(children, listed, version) == [children |-> children, listed |-> listed, update |-> version]

ChildrenIn(blocks, b) == ToSet(blocks[b].children)

\* _get_parents_from_structure
ParentsIn(blocks, b) == {p \in DOMAIN blocks : b \in ChildrenIn(blocks, p)}

\* The blocks of the subtree of b, by the edges of the relation Child: the smallest
\* set with b that is closed under it.
Subtree(S, Child(_, _), b) ==
  LET Closed(T) == b \in T /\ \A x \in T : \A c \in S \ T : ~Child(x, c)
  IN {c \in S \cup {b} : \A T \in SUBSET (S \cup {b}) : Closed(T) => c \in T}

SubtreeIn(blocks, b) == Subtree(DOMAIN blocks, LAMBDA x, y : y \in ChildrenIn(blocks, x), b)

Without(blocks, S) == [b \in DOMAIN blocks \ S |-> blocks[b]]

\* The members of seq that are in S, in their order.
Kept(seq, S) ==
  LET kept[i \in 0..Len(seq)] ==
        IF i = 0 THEN <<>>
        ELSE kept[i - 1] \o (IF seq[i] \in S THEN <<seq[i]>> ELSE <<>>)
  IN kept[Len(seq)]

\* create_course, from a structure there is: for the draft, or for both branches.
Init ==
  /\ structures = <<[previous |-> 0, branch |-> "draft", published |-> NotPublished,
                     blocks |-> [b \in DOMAIN InitialChildren |->
                                   Block(InitialChildren[b], InitialChildren[b] # <<>>, 1)]]>>
  /\ index \in [draft : {1}, published : {0, 1}]
  /\ req = [h \in Handlers |-> Idle]
  /\ seen = {}

-----------------------------------------------------------------------------
(* Locators: a branch, and a version or 0 for whatever is its head.        *)

\* _lookup_course: 0 for a VersionConflictError or a missing branch.
LookupCourse(branch, guid) == IF guid \in {0, index[branch]} THEN index[branch] ELSE 0

\* Mutant: the index entry, whatever version the locator names.
AnyIndex(branch, guid) == branch \in Branches

\* _get_index_if_valid
IndexIfValid(branch, guid) == guid \in {0, index[branch]}

\* The versions a locator of the branch may name.
Guids(branch) == {0} \cup {v \in Versions : structures[v].branch = branch}

\* The handlers that may take a request.
Free ==
  IF \/ Len(structures) = MaxVersions
     \/ Len(structures) > OverlapVersions /\ \E h \in Handlers : req[h] # Idle
    THEN {}
    ELSE {h \in Handlers : req[h] = Idle}

\* Request r once it has read a value into a variable more.
Noted(r, name, value) ==
  [field \in DOMAIN r \cup {name} |-> IF field = name THEN value ELSE r[field]]

Begin(h, r) ==
  /\ req' = [req EXCEPT ![h] = r]
  /\ UNCHANGED <<structures, index, seen>>

\* _version_structure, insert_structure, _update_head: the whole index document
\* is written as it was read, with the new head of one branch.
Commit(h, blocks, published, mark) ==
  LET r == req[h]
      new == Len(structures) + 1
      behind == index # r.entry \/ (r.guid = 0 /\ r.base # r.entry[r.branch])
  IN
  /\ Len(structures) < MaxVersions
  /\ structures' = Append(structures, [previous |-> r.base, branch |-> r.branch,
                                       published |-> published, blocks |-> blocks])
  /\ index' = [r.entry EXCEPT ![r.branch] = new]
  /\ seen' = seen \cup mark \cup (IF behind THEN {"raced"} ELSE {})
  /\ req' = [req EXCEPT ![h] = Idle]

\* A locator that no longer names the head, or an index that moved on.
Raises(h) ==
  /\ req' = [req EXCEPT ![h] = Idle]
  /\ UNCHANGED <<structures, index, seen>>

-----------------------------------------------------------------------------
(* create_item                                                             *)

\* parent is Root, a block with children, or "none" for a block of the course itself.
BeginCreate(h, guid, b, parent) ==
  /\ IndexIfValid("draft", guid)
  /\ Begin(h, [op |-> "create", branch |-> "draft", guid |-> guid, block |-> b,
               parent |-> parent, entry |-> index, base |-> 0])

LookupToCreate(h) ==
  LET r == req[h]  base == LookupCourse(r.branch, r.guid) IN
  /\ r.op = "create" /\ r.base = 0
  /\ IF \/ base = 0
        \/ r.block \in DOMAIN structures[base].blocks
        \/ r.parent # "none" /\ r.parent \notin DOMAIN structures[base].blocks
       THEN Raises(h)
       ELSE /\ req' = [req EXCEPT ![h].base = base]
            /\ UNCHANGED <<structures, index, seen>>

CommitCreate(h) ==
  LET r == req[h]
      old == structures[r.base].blocks
      new == Len(structures) + 1
  IN
  /\ r.op = "create" /\ r.base # 0
  /\ Commit(h, [b \in DOMAIN old \cup {r.block} |->
                  CASE b = r.block -> Block(<<>>, FALSE, new)
                    [] b = r.parent -> Block(Append(old[b].children, r.block), TRUE, new)
                    [] OTHER -> old[b]], NotPublished, {})

-----------------------------------------------------------------------------
(* update_item: saves a block of which the editor has a descriptor, loaded *)
(* from the version of its location.                                       *)

\* What an editor makes of the children: drop one, turn them round, or take in a leaf.
Edited(blocks, b) ==
  LET children == blocks[b].children
      others == (Leaves \cap DOMAIN blocks) \ ToSet(children)
  IN
  {children} \cup {RemoveAt(children, i) : i \in DOMAIN children}
             \cup {Reverse(children)}
             \cup {Append(children, c) : c \in IF b \in Leaves THEN {} ELSE others}

\* The locator of a descriptor always names a version.
BeginUpdate(h, guid, b, children) ==
  LET base == LookupCourse("draft", guid) IN
  /\ guid # 0 /\ base # 0
  /\ Begin(h, [op |-> "update", branch |-> "draft", guid |-> guid, block |-> b,
               children |-> children, base |-> base])

\* The second read of the index, in update_item and delete_item.
ReadIndex(h) ==
  LET r == req[h] IN
  /\ r.op \in {"update", "delete"}
  /\ "entry" \notin DOMAIN r
  /\ IF IndexIfValid(r.branch, r.guid)
       THEN /\ req' = [req EXCEPT ![h] = Noted(r, "entry", index)]
            /\ UNCHANGED <<structures, index, seen>>
       ELSE Raises(h)

CommitUpdate(h) ==
  LET r == req[h] IN
  /\ r.op = "update" /\ "entry" \in DOMAIN r
  /\ Commit(h, [structures[r.base].blocks EXCEPT ![r.block] =
                  Block(r.children, r.block \notin Leaves, Len(structures) + 1)], NotPublished, {})

\* Comparing the children of a container that never had any raises KeyError, unless
\* its definition changed.
UpdateFails(h) ==
  LET r == req[h] IN
  /\ r.op = "update" /\ "entry" \in DOMAIN r
  /\ r.block \notin Leaves /\ ~structures[r.base].blocks[r.block].listed
  /\ Raises(h)

-----------------------------------------------------------------------------
(* delete_item, on either branch: what unpublishes a block too.            *)

BeginDelete(h, branch, guid, b, deleteChildren) ==
  LET base == LookupCourse(branch, guid) IN
  /\ base # 0 /\ b # Root
  /\ Begin(h, [op |-> "delete", branch |-> branch, guid |-> guid, block |-> b,
               base |-> base, whole |-> deleteChildren])

\* get_parent_locations: the parents in the structure that is the head by now.
ReadParents(h) ==
  LET r == req[h]  head == LookupCourse(r.branch, r.guid) IN
  /\ r.op = "delete" /\ "entry" \in DOMAIN r /\ "parents" \notin DOMAIN r
  /\ IF head = 0
       THEN Raises(h)
       ELSE /\ req' = [req EXCEPT ![h] = Noted(r, "parents", ParentsIn(structures[head].blocks, r.block))]
            /\ UNCHANGED <<structures, index, seen>>

\* remove_subtree meets every block of the subtree, and each of them once.
Removable(blocks, T, b) ==
  /\ \A c \in T : ChildrenIn(blocks, c) \subseteq DOMAIN blocks
  /\ \A c \in T \ {b} : Cardinality(ParentsIn(blocks, c) \cap T) = 1

CommitDelete(h) ==
  LET r == req[h]
      old == structures[r.base].blocks
      gone == IF r.whole THEN SubtreeIn(old, r.block) ELSE {r.block}
      new == Len(structures) + 1
      shared == \E c \in gone \ {r.block} : ~(ParentsIn(old, c) \subseteq gone)
  IN
  /\ r.op = "delete" /\ "parents" \in DOMAIN r
  /\ IF /\ r.block \in DOMAIN old
        /\ r.parents \subseteq ParentsIn(old, r.block)
        /\ r.whole => Removable(old, gone, r.block)
       THEN Commit(h, [b \in DOMAIN old \ gone |->
                         IF b \in r.parents
                           THEN Block(Kept(old[b].children, Blocks \ {r.block}), TRUE, new)
                           ELSE old[b]],
                   NotPublished, IF shared THEN {"shared"} ELSE {})
       ELSE Raises(h)

-----------------------------------------------------------------------------
(* xblock_publish: the subtree of root, without the blocks of blacklist,   *)
(* from the draft into the head of the branch published.                   *)

BeginPublish(h, guid, root, blacklist) ==
  LET source == LookupCourse("draft", guid) IN
  /\ source # 0
  /\ Begin(h, [op |-> "publish", branch |-> "published", guid |-> 0,
               published |-> [source |-> source, root |-> root, blacklist |-> blacklist]])

ReadDestinationIndex(h) ==
  LET r == req[h] IN
  /\ r.op = "publish" /\ "entry" \notin DOMAIN r
  /\ IF index.published = 0 /\ r.published.root # Root
       THEN Raises(h)
       ELSE /\ req' = [req EXCEPT ![h] = Noted(r, "entry", index)]
            /\ UNCHANGED <<structures, index, seen>>

\* The destination is looked up if the entry has the branch; 0 is a new structure.
ReadDestination(h) ==
  LET r == req[h]
      base == IF r.entry.published = 0 THEN 0 ELSE LookupCourse("published", 0)
  IN
  /\ r.op = "publish" /\ "entry" \in DOMAIN r /\ "base" \notin DOMAIN r
  /\ IF base = 0 /\ r.entry.published # 0
       THEN Raises(h)
       ELSE /\ req' = [req EXCEPT ![h] = Noted(r, "base", base)]
            /\ UNCHANGED <<structures, index, seen>>

\* _sync_children, for every parent of root in the draft.
Synced(source, destination, root) ==
  [b \in DOMAIN destination |->
     IF b \in ParentsIn(source, root)
       THEN [destination[b] EXCEPT !.children =
               Kept(source[b].children, ChildrenIn(destination, b) \cup {root})]
       ELSE destination[b]]

\* Mutant: a block that is published already keeps what was published.
KeptWhenPublished(source, destination, blacklist, b) ==
  IF b \in DOMAIN destination
    THEN destination[b]
    ELSE Block(Kept(source[b].children, Blocks \ blacklist), TRUE, source[b].update)

\* _publish_subdag, what it makes of one block.
PublishedBlock(source, destination, blacklist, b) ==
  IF b \in DOMAIN destination /\ destination[b].update = source[b].update
    THEN destination[b]
    ELSE Block(Kept(source[b].children, Blocks \ blacklist), TRUE, source[b].update)

\* The blocks _publish_subdag comes to.
Visited(source, destination, root, blacklist) ==
  Subtree(DOMAIN source,
          LAMBDA x, y : y \in ToSet(PublishedBlock(source, destination, blacklist, x).children) \ blacklist,
          root)

\* What no longer is a child of one of the blocks of S.
Orphans(source, destination, S) ==
  UNION {ChildrenIn(destination, b) \ ChildrenIn(source, b) : b \in S \cap DOMAIN destination}

\* Mutant: deletes the orphans that were moved, too.
AllOrphans(blocks, orphans) == {orphans \cap DOMAIN blocks}

\* _delete_if_true_orphan, for the orphans in any order: the children of an orphan
\* still have their parent when they are looked at, so only orphans are deleted.
Deletions(blocks, orphans) ==
  {D \in SUBSET orphans :
     /\ {o \in orphans : ParentsIn(blocks, o) = {}} \subseteq D
     /\ \A o \in D : ParentsIn(blocks, o) \subseteq D}

CommitPublish(h) ==
  LET r == req[h]
      root == r.published.root
      blacklist == r.published.blacklist
      source == structures[r.published.source].blocks
      old == IF r.base = 0 THEN <<>> ELSE structures[r.base].blocks
      parents == ParentsIn(source, root)
      synced == Synced(source, old, root)
      visited == Visited(source, synced, root, blacklist)
      changed == {b \in visited : b \in DOMAIN old => old[b].update # source[b].update}
      blocks == [b \in DOMAIN old \cup visited |->
                   IF b \in visited THEN PublishedBlock(source, synced, blacklist, b) ELSE synced[b]]
      orphans == Orphans(source, old, parents) \cup Orphans(source, old, changed)
  IN
  /\ r.op = "publish" /\ "base" \in DOMAIN r
  /\ IF /\ \A b \in parents : b \in DOMAIN old /\ old[b].listed
        /\ \A b \in changed \cap DOMAIN old : source[b].listed /\ old[b].listed
        /\ \A b \in visited : ChildrenIn(blocks, b) \ blacklist \subseteq DOMAIN source
        /\ orphans \subseteq DOMAIN blocks
       THEN \E D \in Deletions(blocks, orphans) :
              Commit(h, Without(blocks, D), r.published,
                     {m \in {"blacklist", "stale"} :
                        IF m = "blacklist" THEN blacklist # {} ELSE r.published.source # index.draft})
       ELSE Raises(h)

-----------------------------------------------------------------------------
Create ==
  \E h \in Free, guid \in Guids("draft") :
    LET there == DOMAIN structures[index.draft].blocks IN
    \E b \in Blocks \ there, parent \in (there \ Leaves) \cup {"none"} : BeginCreate(h, guid, b, parent)
Update ==
  \E h \in Free, guid \in Guids("draft") \ {0} :
    \E b \in DOMAIN structures[guid].blocks :
      \E children \in Edited(structures[guid].blocks, b) : BeginUpdate(h, guid, b, children)
Delete ==
  \E h \in Free, branch \in {br \in Branches : index[br] # 0} :
    \E guid \in Guids(branch) :
      \E b \in DOMAIN structures[IF guid = 0 THEN index[branch] ELSE guid].blocks :
        \E deleteChildren \in IF b \in Leaves THEN {FALSE} ELSE BOOLEAN :
          BeginDelete(h, branch, guid, b, deleteChildren)
Publish ==
  \E h \in Free, guid \in Guids("draft") :
    LET blocks == structures[IF guid = 0 THEN index.draft ELSE guid].blocks IN
    \E root \in DOMAIN blocks :
      \E blacklist \in {{}} \cup {{k} : k \in (Withheld \cap SubtreeIn(blocks, root)) \ {root}} :
        BeginPublish(h, guid, root, blacklist)

Next ==
  \/ Create \/ Update \/ Delete \/ Publish
  \/ \E h \in Handlers :
       \/ LookupToCreate(h) \/ CommitCreate(h)
       \/ ReadIndex(h) \/ CommitUpdate(h) \/ UpdateFails(h) \/ ReadParents(h) \/ CommitDelete(h)
       \/ ReadDestinationIndex(h) \/ ReadDestination(h) \/ CommitPublish(h)

Spec == Init /\ [][Next]_vars

-----------------------------------------------------------------------------
(* Properties.                                                             *)

Drafts    == {v \in Versions : structures[v].branch = "draft"}
Published == {v \in Versions : structures[v].published.source # 0}

\* The structures that led to version v.
History(v) == Subtree(Versions, LAMBDA w, u : u = structures[w].previous, v)

\* Every structure stands by itself: its course block is there and every child a block
\* lists exists.  It takes a deletion that looks the parents up in a newer head than the
\* structure it edits, or one of the whole subtree of a block that shares a child with
\* another block, to leave a child behind that nothing can load
\* (split.py:1231-1260).
WellFormed ==
  /\ \A v \in Versions :
       LET blocks == structures[v].blocks IN
       /\ structures[v].previous \in 0..(v - 1)
       /\ Root \in DOMAIN blocks
       /\ \A b \in DOMAIN blocks :
            /\ blocks[b].update \in 1..v
            /\ ~blocks[b].listed => blocks[b].children = <<>>
            /\ seen \cap {"raced", "shared"} = {} => ChildrenIn(blocks, b) \subseteq DOMAIN blocks
  /\ index.draft \in Drafts
  /\ index.published \in {0, 1} \cup (Versions \ Drafts)
  /\ \A h \in Handlers : req[h].op \in {"idle", "create", "update", "delete", "publish"}
  /\ seen \subseteq {"raced", "blacklist", "stale", "shared"}

\* An editor who names the version edited never loses the edit of another one: every
\* structure a branch ever had is in the history of the head, unless an index document
\* was written that changed after it was read (split.py:1455-1463, 1486-1495).
EditsKept ==
  "raced" \notin seen =>
    \A branch \in Branches :
      {v \in Versions : structures[v].branch = branch} \subseteq
        (IF index[branch] = 0 THEN {} ELSE History(index[branch]))

\* What was published is what the draft had: under the root of the subtree each block is
\* of the version of the draft; its children are those of the draft in their order, all
\* of them if nothing was ever blacklisted, unless an old draft was published, whose
\* blocks pass for unchanged when only their children are newer; and the parents of the
\* root that are still published list it where the draft does.  A root that no published
\* parent lists may be deleted with the orphans (split.py:1138-1146, 1195-1198, 1597).
PublishedAsInSource ==
  \A v \in Published :
    LET p == structures[v].published
        blocks == structures[v].blocks
        source == structures[p.source].blocks
        subtree == Subtree(DOMAIN blocks, LAMBDA x, y : y \in ChildrenIn(blocks, x) \ p.blacklist, p.root)
    IN
    /\ p.root \in DOMAIN blocks =>
         \A b \in subtree :
           /\ b \in DOMAIN blocks \cap DOMAIN source
           /\ blocks[b].update = source[b].update
           /\ seen \cap {"stale", "raced"} = {} =>
                /\ blocks[b].children = Kept(source[b].children, ChildrenIn(blocks, b))
                /\ "blacklist" \notin seen => ChildrenIn(blocks, b) = ChildrenIn(source, b)
    /\ p.root \notin DOMAIN blocks => ParentsIn(source, p.root) \cap DOMAIN blocks = {}
    /\ \A b \in ParentsIn(source, p.root) \cap DOMAIN blocks :
         /\ p.root \in ChildrenIn(blocks, b)
         /\ blocks[b].children = Kept(source[b].children, ChildrenIn(blocks, b))
=============================================================================
