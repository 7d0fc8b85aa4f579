--------------------------- MODULE KnowledgeScreen ---------------------------
(***************************************************************************)
(* The console screen of the knowledge libraries (apps/web/src/app/        *)
(* internal/knowledge): choosing a client, its entries and the versions of *)
(* one of them; creating, importing, saving, publishing, reviewing and     *)
(* restoring.  Every request carries the client, filter and entry of the   *)
(* moment it was started, and every answer is shown when it arrives.       *)
(***************************************************************************)
EXTENDS Naturals, FiniteSets

CONSTANTS
    Libraries,    \* the clients with a library
    Items,        \* entries, existing and to be created
    Fetches,      \* loads of the screen that may be under way at once
    Saving, Importing, UrlImporting, \* the locks: each disables the buttons that set it
    Filters,      \* the status filters used
    MaxWrites,    \* bound: commands the screen sends
    NoItem        \* no entry, no client

ASSUME LibraryAssumption ==
    /\ MaxWrites \in Nat /\ NoItem \notin Items
    /\ "all" \in Filters /\ Filters \subseteq {"all", "draft", "active"}

VARIABLES
    item,        \* the server's entries: their client, NoItem before they exist, and status
    lastWrite,   \* the last command on an entry: the client and the version it named
    library,     \* selectedClientId
    filter,      \* the status filter
    shelf,       \* the entries as loaded
    chosenItem,  \* selectedEntry
    versionsOf,  \* the entry whose versions are shown
    fetch,       \* loads under way
    write,       \* commands under way
    sentWrites,  \* commands sent so far
    mixed        \* answers may have crossed, or one is missing, since the screen was last loaded alone

libVars == <<item, lastWrite, library, filter, shelf, chosenItem, versionsOf, fetch, write,
             sentWrites, mixed>>

Writes == {Saving, Importing, UrlImporting}
LibraryIdle == [pc |-> "idle"]
AskedWrite == [pc : {"sent"}, kind : {"create"}, at : Libraries, what : Items]
              \cup [pc : {"sent"}, kind : {"draft", "active", "review"}, at : Libraries, under : Filters,
                    what : Items]
              \cup [pc : {"sent"}, kind : {"restore"}, at : Libraries, under : Filters,
                    what : Items, version : Items]
Listing == [pc : {"list"}, at : Libraries, under : Filters, want : Items \cup {NoItem}]
Reading == [pc : {"versions"}, at : Libraries, of : Items]

LibraryTypeOK ==
    /\ item \in [Items -> [owner : Libraries \cup {NoItem}, status : {"draft", "active"}]]
    /\ lastWrite \in [Items -> [at : Libraries \cup {NoItem}, version : Items \cup {NoItem}]]
    /\ library \in Libraries /\ filter \in Filters /\ shelf \subseteq Items
    /\ chosenItem \in Items \cup {NoItem} /\ versionsOf \in Items \cup {NoItem}
    /\ fetch \in [Fetches -> {LibraryIdle} \cup Listing \cup Reading]
    /\ write \in [Writes -> {LibraryIdle} \cup AskedWrite \cup Listing \cup Reading
                            \cup [pc : {"stored"}, what : Items]]
    /\ sentWrites \in 0..MaxWrites /\ mixed \in BOOLEAN

LibraryInit ==
    /\ item \in [Items -> [owner : Libraries \cup {NoItem}, status : {"active"}]]
    /\ lastWrite = [i \in Items |-> [at |-> NoItem, version |-> NoItem]]
    /\ library \in Libraries /\ filter = "all" /\ shelf = {}
    /\ chosenItem = NoItem /\ versionsOf = NoItem
    /\ \E f \in Fetches : fetch = [g \in Fetches |->
            IF g = f THEN [pc |-> "list", at |-> library, under |-> "all", want |-> NoItem]
            ELSE LibraryIdle]
    /\ write = [w \in Writes |-> LibraryIdle] /\ sentWrites = 0
    /\ mixed = FALSE

Settled == (\A f \in Fetches : fetch[f] = LibraryIdle) /\ (\A w \in Writes : write[w] = LibraryIdle)

Begin(load) == /\ \E f \in Fetches : fetch[f] = LibraryIdle /\ fetch' = [fetch EXCEPT ![f] = load]
               /\ mixed' = IF Settled THEN mixed /\ load.pc # "list" ELSE TRUE
               /\ UNCHANGED <<item, lastWrite, write, sentWrites>>

\* Refresh, or another status filter: the entries are loaded again and the
\* chosen one is kept where the answer has it.
Reshelve(f) == /\ filter' = f
               /\ Begin([pc |-> "list", at |-> library, under |-> f, want |-> chosenItem])
               /\ UNCHANGED <<library, shelf, chosenItem, versionsOf>>

\* Another client: nothing is chosen until its entries arrive; the entries of
\* the earlier client stay listed that long.
ChooseLibrary(c) ==
    /\ c # library /\ library' = c /\ chosenItem' = NoItem /\ versionsOf' = NoItem
    /\ Begin([pc |-> "list", at |-> c, under |-> filter, want |-> chosenItem])
    /\ UNCHANGED <<filter, shelf>>

\* An entry is shown at once; the versions of the earlier one stay until the
\* answer comes.
ChooseItem(i) == /\ i \in shelf /\ i # chosenItem /\ chosenItem' = i
                 /\ Begin([pc |-> "versions", at |-> library, of |-> i])
                 /\ UNCHANGED <<library, filter, shelf, versionsOf>>

\* The entries of a client under a status filter.
Listed(load) == {i \in Items : /\ item[i].owner = load.at
                               /\ load.under \in {"all", item[i].status}}

\* When the entries arrive, the wanted one is chosen, otherwise the first, and
\* its versions are asked for; without entries the load ends.
Following(load) ==
    LET found == Listed(load) IN
    IF found = {} THEN {LibraryIdle}
    ELSE {[pc |-> "versions", at |-> load.at, of |-> i] :
             i \in IF load.want \in found THEN {load.want} ELSE found}

Shelve(load, next) ==
    /\ shelf' = Listed(load)
    /\ chosenItem' = IF next = LibraryIdle THEN NoItem ELSE next.of
    /\ versionsOf' = IF next = LibraryIdle THEN NoItem ELSE versionsOf
    /\ UNCHANGED <<item, lastWrite, library, filter, sentWrites, mixed>>

ShelfArrives(f) == /\ fetch[f].pc = "list"
                   /\ \E next \in Following(fetch[f]) :
                         fetch' = [fetch EXCEPT ![f] = next] /\ Shelve(fetch[f], next)
                   /\ UNCHANGED write
ShelfFollows(w) == /\ write[w].pc = "list"
                   /\ \E next \in Following(write[w]) :
                         write' = [write EXCEPT ![w] = next] /\ Shelve(write[w], next)
                   /\ UNCHANGED fetch

\* Versions are served for an entry of the named client only; otherwise, and
\* when the request is lost, those shown stay.
Unroll(load) == /\ \/ item[load.of].owner = load.at /\ versionsOf' = load.of /\ UNCHANGED mixed
                   \/ mixed' = TRUE /\ UNCHANGED versionsOf
                /\ UNCHANGED <<item, lastWrite, library, filter, shelf, chosenItem, sentWrites>>

VersionsArrive(f) == /\ fetch[f].pc = "versions" /\ Unroll(fetch[f])
                     /\ fetch' = [fetch EXCEPT ![f] = LibraryIdle] /\ UNCHANGED write
VersionsFollow(w) == /\ write[w].pc = "versions" /\ Unroll(write[w])
                     /\ write' = [write EXCEPT ![w] = LibraryIdle] /\ UNCHANGED fetch

LibraryLoadFails(f) == /\ fetch[f].pc = "list" /\ fetch' = [fetch EXCEPT ![f] = LibraryIdle] /\ mixed' = TRUE
                /\ UNCHANGED <<item, lastWrite, library, filter, shelf, chosenItem, versionsOf,
                               write, sentWrites>>

\* A command of one of the buttons, while the buttons that share its lock are on.
Command(w, asked) ==
    /\ write[w] = LibraryIdle /\ sentWrites < MaxWrites /\ sentWrites' = sentWrites + 1
    /\ write' = [write EXCEPT ![w] = asked]
    /\ mixed' = (mixed \/ ~Settled)
    /\ UNCHANGED <<item, lastWrite, library, filter, shelf, chosenItem, versionsOf, fetch>>

Create(w) == \E i \in Items :
    /\ item[i].owner = NoItem
    /\ \A v \in Writes : write[v].pc = "sent" => write[v].what # i
    /\ Command(w, [pc |-> "sent", kind |-> "create", at |-> library, what |-> i])

\* A new draft, an import of files, an import of a page: for the client selected.
PressCreate == Create(Saving)
PressImport == Create(Importing)
PressUrlImport == Create(UrlImporting)

OnChosen(kind) == /\ chosenItem # NoItem
                  /\ Command(Saving, [pc |-> "sent", kind |-> kind, at |-> library,
                                      under |-> filter, what |-> chosenItem])

\* Saving makes a draft of the entry chosen; publishing and archiving set its
\* status; marking it reviewed, offered where it was loaded as live, leaves
\* whatever status it has by then.
PressSave == OnChosen("draft")
PressStatus == OnChosen("active")
PressReview == OnChosen("review")

\* Restore: a version of those shown, on the entry chosen.
PressRestore ==
    /\ chosenItem # NoItem /\ versionsOf # NoItem
    /\ Command(Saving, [pc |-> "sent", kind |-> "restore", at |-> library, under |-> filter,
                        what |-> chosenItem, version |-> versionsOf])

\* The server stores a new entry as a draft of the named client.
CreateIsStored(w) ==
    /\ write[w].pc = "sent" /\ write[w].kind = "create"
    /\ item' = [item EXCEPT ![write[w].what] = [owner |-> write[w].at, status |-> "draft"]]
    /\ lastWrite' = [lastWrite EXCEPT ![write[w].what].at = write[w].at]
    /\ write' = [write EXCEPT ![w] = [pc |-> "stored", what |-> write[w].what]]
    /\ UNCHANGED <<library, filter, shelf, chosenItem, versionsOf, fetch, sentWrites, mixed>>

\* The answer: the handler empties the form first, through the event's
\* currentTarget, which is gone after the await; so it ends in its error branch,
\* says the creation failed and loads nothing.
CreateIsReported(w) ==
    /\ write[w].pc = "stored"
    /\ write' = [write EXCEPT ![w] = LibraryIdle]
    /\ UNCHANGED <<item, lastWrite, library, filter, shelf, chosenItem, versionsOf, fetch,
                   sentWrites, mixed>>

\* Mutant: a version restores any entry.
RestoresAny(asked) == item[asked.what].owner = asked.at
\* A change is taken for an entry of the named client, a version for its own entry.
Accepts(asked) == /\ item[asked.what].owner = asked.at
                  /\ asked.kind = "restore" => asked.version = asked.what

\* The status of an entry after a change: a restored version is a draft.
StatusAfter(asked) == CASE asked.kind = "review" -> item[asked.what].status
                        [] asked.kind = "active" -> "active"
                        [] OTHER -> "draft"

\* The server takes the change; the screen loads the entries again with the
\* client and filter of the press, its buttons off until then.
ChangeIsStored(w) ==
    /\ write[w].pc = "sent" /\ write[w].kind # "create" /\ Accepts(write[w])
    /\ LET done == write[w] IN
       /\ item' = [item EXCEPT ![done.what].status = StatusAfter(done)]
       /\ lastWrite' = [lastWrite EXCEPT ![done.what] =
              [at |-> done.at, version |-> IF done.kind = "restore" THEN done.version ELSE @.version]]
       /\ write' = [write EXCEPT ![w] = [pc |-> "list", at |-> done.at, under |-> done.under,
                                         want |-> done.what]]
    /\ UNCHANGED <<library, filter, shelf, chosenItem, versionsOf, fetch, sentWrites, mixed>>

\* The server refuses, or the request is lost on its way.
WriteFails(w) ==
    /\ write[w].pc = "sent" /\ write' = [write EXCEPT ![w] = LibraryIdle]
    /\ UNCHANGED <<item, lastWrite, library, filter, shelf, chosenItem, versionsOf, fetch,
                   sentWrites, mixed>>

LibraryNext ==
    \/ \E f \in Filters : Reshelve(f)
    \/ \E c \in Libraries : ChooseLibrary(c)
    \/ \E i \in Items : ChooseItem(i)
    \/ \E f \in Fetches : ShelfArrives(f) \/ VersionsArrive(f) \/ LibraryLoadFails(f)
    \/ PressCreate \/ PressImport \/ PressUrlImport
    \/ PressSave \/ PressStatus \/ PressReview \/ PressRestore
    \/ \E w \in Writes : \/ ShelfFollows(w) \/ VersionsFollow(w) \/ WriteFails(w)
                         \/ CreateIsStored(w) \/ CreateIsReported(w) \/ ChangeIsStored(w)

LibrarySpec == LibraryInit /\ [][LibraryNext]_libVars

-----------------------------------------------------------------------------
\* Commands carry the client, the entry and the version the screen happens to
\* show, from answers of different moments: what the server takes is always of
\* one piece, the client's own entry and the entry's own version.
WritesAreOfOnePiece ==
    \A i \in Items : /\ lastWrite[i].at \in {item[i].owner, NoItem}
                     /\ lastWrite[i].version \in {i, NoItem}

\* After a load no other request overlapped with, the screen shows one client,
\* one of its entries and the versions of that entry.
OneEntryIsShown ==
    Settled /\ ~mixed
      => /\ \A i \in shelf : item[i].owner = library
         /\ chosenItem = NoItem <=> shelf = {}
         /\ versionsOf = chosenItem
         /\ chosenItem # NoItem => item[chosenItem].owner = library

=============================================================================
