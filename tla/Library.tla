------------------------------ MODULE Library ------------------------------
(***************************************************************************)
(* The shelves a user sorts documents on, and the flags of a document.     *)
(*                                                                         *)
(* A collection and a tag are two tables worked the same way (names unique *)
(* for a user, rows that join them to documents, cascading deletes), so    *)
(* one table of shelves stands for both. A request reads, decides, and     *)
(* writes in one transaction at the end: another request may commit in     *)
(* between, and only the table's unique constraints and foreign keys see   *)
(* it. The flags of a document are the case with no constraint: the row is *)
(* looked for and then inserted, and an UPDATE names only the columns      *)
(* whose value differs from the one that was loaded.                       *)
(***************************************************************************)
EXTENDS Naturals, Sequences

CONSTANTS Patrons,          \* requests in flight
          Users, Books,     \* users and documents
          OwnerOf,          \* the user a document belongs to
          Shelves, Names,   \* ids of shelves, names of shelves
          ShelfRequests     \* bound: requests begun in a run

VARIABLES shelves,    \* shelf id -> NoShelf, GoneShelf or its row
          shelved,    \* collection_items, item_tags: {<<shelf, document>>}
          flagRows,   \* document_flags: document -> Seq(row)
          patron,     \* what each request has read and is about to write
          answeredFlags,      \* history: the value last answered for a flag
          racedFlags,      \* history: flags two overlapping requests both set
          begun       \* requests begun

libraryVars == <<shelves, shelved, flagRows, patron, answeredFlags, racedFlags, begun>>

Flags == {"starred", "archived"}
NoShelf == [owner |-> <<>>, name |-> <<>>]
GoneShelf == [owner |-> <<>>, name |-> <<"gone">>]
ShelfRow(u, n) == [owner |-> <<u>>, name |-> <<n>>]
NoFlags == [f \in Flags |-> FALSE]
NoRequest == [op |-> "rest"]

Standing == {s \in Shelves : shelves[s].owner # <<>>}
OwnedShelf(u) == {s \in Standing : shelves[s].owner = <<u>>}
OwnedDocument(u) == {d \in Books : OwnerOf[d] = u}

\* _ensure_name_free looks at every row; the shelf's own row is no rival, as a
\* rename to the name it has is not checked.
NameFree(u, n, own) == \A o \in OwnedShelf(u) \ own : shelves[o].name # <<n>>

LibraryInit ==
    /\ shelves = [s \in Shelves |-> NoShelf]
    /\ shelved = {}
    /\ flagRows = [d \in Books |-> <<>>]
    /\ patron = [p \in Patrons |-> NoRequest]
    /\ answeredFlags = [d \in Books |-> NoFlags]
    /\ racedFlags = [d \in Books |-> {}]
    /\ begun = 0

Begin(p, request) ==
    /\ begun < ShelfRequests
    /\ begun' = begun + 1
    /\ patron[p] = NoRequest
    /\ patron' = [patron EXCEPT ![p] = request]

Rest(p) == patron' = [patron EXCEPT ![p] = NoRequest]

-----------------------------------------------------------------------------
(* Shelves. *)

\* create_collection, create_tag: the name is free; the row is not yet there.
LookUpName(p) ==
    /\ \E u \in Users, n \in Names :
          /\ NameFree(u, n, {})
          /\ Begin(p, [op |-> "name", user |-> u, name |-> n])
    /\ UNCHANGED <<shelves, shelved, flagRows, answeredFlags, racedFlags>>

\* update_collection: of the owner's, to a name that is free.
LookUpRename(p) ==
    /\ \E u \in Users, n \in Names : \E s \in OwnedShelf(u) :
          /\ NameFree(u, n, {s})
          /\ Begin(p, [op |-> "rename", shelf |-> s, user |-> u, name |-> n])
    /\ UNCHANGED <<shelves, shelved, flagRows, answeredFlags, racedFlags>>

\* The commits. uq_collections_name and uq_tags_name refuse a second row of the
\* name, a rename of a row that is gone matches none: the request fails then.
WriteName(p) ==
    /\ patron[p].op = "name"
    /\ LET r == patron[p] IN
       \E s \in Shelves :
          /\ shelves[s] = NoShelf
          /\ shelves' = IF NameFree(r.user, r.name, {})
                        THEN [shelves EXCEPT ![s] = ShelfRow(r.user, r.name)] ELSE shelves
    /\ Rest(p)
    /\ UNCHANGED <<shelved, flagRows, answeredFlags, racedFlags, begun>>

WriteRename(p) ==
    /\ patron[p].op = "rename"
    /\ LET r == patron[p] IN
       shelves' = IF r.shelf \in Standing /\ NameFree(r.user, r.name, {r.shelf})
                  THEN [shelves EXCEPT ![r.shelf] = ShelfRow(r.user, r.name)] ELSE shelves
    /\ Rest(p)
    /\ UNCHANGED <<shelved, flagRows, answeredFlags, racedFlags, begun>>

\* delete_collection, delete_tag: the joining rows cascade, the documents stay.
DeleteShelf(p) ==
    /\ \E u \in Users : \E s \in OwnedShelf(u) :
          /\ Begin(p, NoRequest)
          /\ shelves' = [shelves EXCEPT ![s] = GoneShelf]
          /\ shelved' = {b \in shelved : b[1] # s}
    /\ UNCHANGED <<flagRows, answeredFlags, racedFlags>>

\* add_to_collection, attach_tag: both of the caller's own, and not joined yet.
MayShelve(u, s, d) == s \in OwnedShelf(u) /\ d \in OwnedDocument(u)

LookUpPair(p) ==
    /\ \E u \in Users, s \in Shelves, d \in Books :
          /\ MayShelve(u, s, d)
          /\ <<s, d>> \notin shelved
          /\ Begin(p, [op |-> "pair", shelf |-> s, doc |-> d])
    /\ UNCHANGED <<shelves, shelved, flagRows, answeredFlags, racedFlags>>

\* The foreign key refuses a shelf deleted meanwhile, the unique constraint a
\* second row of the pair: nothing is stored then.
WritePair(p) ==
    /\ patron[p].op = "pair"
    /\ shelved' = IF patron[p].shelf \in Standing
                  THEN shelved \cup {<<patron[p].shelf, patron[p].doc>>} ELSE shelved
    /\ Rest(p)
    /\ UNCHANGED <<shelves, flagRows, answeredFlags, racedFlags, begun>>

\* remove_from_collection, detach_tag: one DELETE.
RemovePair(p) ==
    /\ \E u \in Users, s \in Shelves, d \in Books :
          /\ MayShelve(u, s, d)
          /\ Begin(p, NoRequest)
          /\ shelved' = shelved \ {<<s, d>>}
    /\ UNCHANGED <<shelves, flagRows, answeredFlags, racedFlags>>

-----------------------------------------------------------------------------
(* Flags. *)

\* get_or_create_flags reads a row, any of them when there are several. `sets`
\* is what the caller sent: a value for one flag or both.
LookUpFlags(p) ==
    /\ \E d \in Books, sent \in (SUBSET Flags) \ {{}}, v \in BOOLEAN :
       \E i \in IF flagRows[d] = <<>> THEN {0} ELSE DOMAIN flagRows[d] :
          Begin(p, [op |-> "flags", doc |-> d, row |-> i, sent |-> sent, value |-> v,
                    loaded |-> IF i = 0 THEN NoFlags ELSE flagRows[d][i]])
    /\ UNCHANGED <<shelves, shelved, flagRows, answeredFlags, racedFlags>>

\* What the flush writes over the row as it now is: the columns the request
\* changed from what it loaded, and no other.
ChangedColumns(row, r) ==
    [f \in Flags |-> IF f \in r.sent /\ r.value # r.loaded[f] THEN r.value ELSE row[f]]
WholeRow(row, r) == [f \in Flags |-> IF f \in r.sent THEN r.value ELSE r.loaded[f]]
WrittenRow(row, r) == ChangedColumns(row, r)

\* The other requests that are between their read and their write of the flags
\* of d.
Overlapping(p, d) ==
    {o \in Patrons \ {p} : patron[o].op = "flags" /\ patron[o].doc = d}

WriteFlags(p) ==
    /\ patron[p].op = "flags"
    /\ LET r == patron[p]
           rivals == Overlapping(p, r.doc)
       IN /\ flagRows' = [flagRows EXCEPT ![r.doc] =
                 IF r.row = 0 THEN Append(@, WrittenRow(NoFlags, r))
                 ELSE [flagRows[r.doc] EXCEPT ![r.row] = WrittenRow(@, r)]]
          /\ answeredFlags' = [answeredFlags EXCEPT ![r.doc] =
                 [f \in Flags |-> IF f \in r.sent THEN r.value ELSE @[f]]]
          /\ racedFlags' = [racedFlags EXCEPT ![r.doc] = @ \cup
                 IF r.row = 0 /\ rivals # {} THEN Flags
                 ELSE r.sent \cap UNION {patron[o].sent : o \in rivals}]
    /\ Rest(p)
    /\ UNCHANGED <<shelves, shelved, begun>>

\* A process that dies before the commit leaves nothing.
LosePatron(p) ==
    /\ patron[p] # NoRequest
    /\ Rest(p)
    /\ UNCHANGED <<shelves, shelved, flagRows, answeredFlags, racedFlags, begun>>

LibraryNext ==
    \E p \in Patrons :
        \/ LookUpName(p) \/ LookUpRename(p) \/ WriteName(p) \/ WriteRename(p) \/ DeleteShelf(p)
        \/ LookUpPair(p) \/ WritePair(p) \/ RemovePair(p)
        \/ LookUpFlags(p) \/ WriteFlags(p) \/ LosePatron(p)

LibrarySpec == LibraryInit /\ [][LibraryNext]_libraryVars

-----------------------------------------------------------------------------
\* get_document reads the first row the query returns, get_documents any row
\* where the flag is set.
InDetail(d, f) ==
    IF flagRows[d] = <<>> THEN {FALSE} ELSE {flagRows[d][i][f] : i \in DOMAIN flagRows[d]}
InList(d, f) == \E i \in DOMAIN flagRows[d] : flagRows[d][i][f]

\* A flag no two requests set at once is what was last answered for it, on the
\* document's own page and in the list: setting the other flag never undoes it,
\* however the two requests overlapped (set_document_flags, get_or_create_flags).
FlagsStand ==
    \A d \in Books : \A f \in Flags \ racedFlags[d] :
        InDetail(d, f) = {answeredFlags[d][f]} /\ InList(d, f) = answeredFlags[d][f]

\* No shelf holds another user's document, and no two shelves of a user have one
\* name, whatever was deleted or renamed between a request's checks and its write.
ShelvesApart ==
    /\ \A b \in shelved : shelves[b[1]].owner = <<OwnerOf[b[2]]>>
    /\ \A s, t \in Standing : shelves[s] = shelves[t] => s = t

LibraryTells == FlagsStand /\ ShelvesApart
=============================================================================
