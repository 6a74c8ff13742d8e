---------------------------- MODULE MemoryStore ----------------------------
(***************************************************************************)
(* The long-term memory: put of memory/writer.py, and list_records, which  *)
(* pages by offset over records ordered by their last update, newest       *)
(* first.  A namespace is a memory kind and a learner; records are never   *)
(* deleted.  The search is LangGraph's PostgresStore's: one statement.     *)
(***************************************************************************)
EXTENDS Integers, FiniteSets

CONSTANTS
    Readers,        \* callers that list records
    Namespaces,
    Keys,
    Values,
    PAGE_SIZE,      \* _PAGE_SIZE
    InitialRecords  \* of each namespace, what earlier sessions may have left

ASSUME NamespacesAssumption == Namespaces # {}
ASSUME PageAssumption == PAGE_SIZE \in Nat \ {0}

VARIABLES
    records,  \* of each namespace: the records by key, each with its place in the order
    listing   \* each reader's call of list_records

memory_vars == <<records, listing>>

\* A record's place is the number of records updated after it.
Record == [place : Nat, value : Values]

\* Every place down to the newest is taken, once.
IsFile(r) ==
    /\ DOMAIN r \subseteq Keys
    /\ r \in [DOMAIN r -> Record]
    /\ \A k \in DOMAIN r : \A p \in 0 .. r[k].place : \E j \in DOMAIN r : r[j].place = p
    /\ \A j, k \in DOMAIN r : r[j].place = r[k].place => j = k

ASSUME RecordsAssumption == \A r \in InitialRecords :
    DOMAIN r = Namespaces /\ \A n \in Namespaces : IsFile(r[n])

\* read is len(records), found the value last read of each key.  Two fields are the
\* model's own: held, the values there were when the call began, and moved, the keys
\* put since.
Known == UNION {[K -> Values] : K \in SUBSET Keys}

Listing ==
    [phase : {"idle", "reading", "read"}, namespace : Namespaces, read : Nat,
     found : Known, held : Known, moved : SUBSET Keys]

-----------------------------------------------------------------------------

NoValues == [k \in {} |-> 0]

NewListing(phase, n, held) ==
    [phase |-> phase, namespace |-> n, read |-> 0, found |-> NoValues, held |-> held,
     moved |-> {}]

NoListing == NewListing("idle", CHOOSE n \in Namespaces : TRUE, NoValues)

MemoryInit ==
    /\ records \in InitialRecords
    /\ listing = [c \in Readers |-> NoListing]

\* Mutant: the oldest first.
UpdatedLast(r, k, v) ==
    LET files == DOMAIN r \cup {k} IN
    [j \in files |->
        IF j = k THEN [place |-> Cardinality(files) - 1, value |-> v]
        ELSE IF k \in DOMAIN r /\ r[j].place > r[k].place THEN [r[j] EXCEPT !.place = @ - 1]
        ELSE r[j]]

\* put_raw: an upsert that makes the record the newest of its namespace.
Updated(r, k, v) ==
    [j \in DOMAIN r \cup {k} |->
        IF j = k THEN [place |-> 0, value |-> v]
        ELSE IF k \in DOMAIN r /\ r[j].place > r[k].place THEN r[j]
        ELSE [r[j] EXCEPT !.place = @ + 1]]

PutRecord(n, k, v) ==
    /\ records' = [records EXCEPT ![n] = Updated(@, k, v)]
    /\ listing' = [c \in Readers |->
         IF listing[c].phase = "reading" /\ listing[c].namespace = n
         THEN [listing[c] EXCEPT !.moved = @ \cup {k}] ELSE listing[c]]

StartListing(c, n) ==
    /\ listing[c].phase # "reading"
    /\ listing' = [listing EXCEPT ![c] =
         NewListing("reading", n, [k \in DOMAIN records[n] |-> records[n][k].value])]
    /\ UNCHANGED records

\* search(namespace, limit=PAGE_SIZE, offset=len(records))
Page(r, read) == {k \in DOMAIN r : r[k].place \in read .. read + PAGE_SIZE - 1}
Short(r, read) == \E p \in read .. read + PAGE_SIZE - 1 : \A k \in DOMAIN r : r[k].place # p

\* What is read again replaces what was read: router.py keeps themes and masteries by key.
Found(known, r, read) ==
    [k \in DOMAIN known \cup Page(r, read) |->
        IF k \in Page(r, read) THEN r[k].value ELSE known[k]]

\* Mutant: the offset stays.
ReadPageAgain(c) ==
    LET l == listing[c]
        r == records[l.namespace]
    IN
    /\ l.phase = "reading"
    /\ listing' = [listing EXCEPT ![c] =
         [l EXCEPT !.found = Found(l.found, r, 0),
                   !.phase = IF Short(r, 0) THEN "read" ELSE @]]
    /\ UNCHANGED records

ReadPage(c) ==
    LET l == listing[c]
        r == records[l.namespace]
    IN
    /\ l.phase = "reading"
    /\ listing' = [listing EXCEPT ![c] =
         [l EXCEPT !.found = Found(l.found, r, l.read),
                   !.read = @ + PAGE_SIZE,
                   !.phase = IF Short(r, l.read) THEN "read" ELSE @]]
    /\ UNCHANGED records

-----------------------------------------------------------------------------

MemoryTypeOK ==
    /\ DOMAIN records = Namespaces /\ \A n \in Namespaces : IsFile(records[n])
    /\ listing \in [Readers -> Listing]

\* Pages are read while other calls put, and a put shifts every newer record down by
\* one: a listing may return a record twice, and may miss one that moved to a page
\* already read, but never one that nobody touched, nor another value of it.
ListingMissesOnlyWhatMoved ==
    \A c \in Readers : listing[c].phase = "read" =>
        \A k \in DOMAIN listing[c].held \ listing[c].moved :
            /\ k \in DOMAIN listing[c].found
            /\ listing[c].found[k] = listing[c].held[k]

\* The inductive invariant: a record that nobody touched is in the table as it was, and
\* was read if it is above the offset.
Untouched(l) == DOMAIN l.held \ l.moved
Seen(l, k) == k \in DOMAIN l.found /\ l.found[k] = l.held[k]

ListingOk(l, r) ==
    /\ l.phase = "reading" => \A k \in Untouched(l) :
         /\ k \in DOMAIN r
         /\ r[k].value = l.held[k]
         /\ r[k].place < l.read => Seen(l, k)
    /\ l.phase = "read" => \A k \in Untouched(l) : Seen(l, k)

MInv ==
    /\ MemoryTypeOK
    /\ \A c \in Readers : ListingOk(listing[c], records[listing[c].namespace])
=============================================================================
