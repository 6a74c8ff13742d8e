------------------------- MODULE LearnerData_proofs -------------------------
(***************************************************************************)
(* Safety of LearnerData for any number of threads, records, pages,        *)
(* quizzes and puts: the singletons first, then the pages of the memory,   *)
(* the router over them, the log of answers, then all of it under the      *)
(* steps of the process.                                                   *)
(***************************************************************************)
EXTENDS LearnerData, FiniteSetTheorems, SequenceTheorems, WellFoundedInduction, TLAPS

-----------------------------------------------------------------------------
(* Singletons *)

\* The pool is there when anything over it is.
LEMMA PoolThere == "store" \in Singles \/ "saver" \in Singles => "pool" \in Singles
BY PoolAssumption DEF OverPool

LEMMA RestingOk == Resting \in Getter /\ Resting.phase = "idle" /\ Resting.at = Resting.wanted
                   /\ Resting.there = {}
<1>1. PICK s \in Singles : Resting = [phase |-> "idle", wanted |-> s, at |-> s, there |-> {}]
  BY SinglesAssumption DEF Resting
<1> QED BY <1>1 DEF Getter

LEMMA SingleInitOk == SingleInit => SIInv
BY RestingOk DEF SingleInit, SIInv, SinglesTypeOK, CallOk

\* A step that only moves one call, to a place that is fine.
LEMMA CallMoves ==
    ASSUME SIInv, NEW c \in Callers, NEW g \in Getter,
           getter' = [getter EXCEPT ![c] = g], UNCHANGED single,
           tables \subseteq tables', tables' \subseteq OverPool \cap Singles, CallOk(c)'
    PROVE  SIInv'
BY DEF SIInv, SinglesTypeOK, CallOk

LEMMA GetKeeps ==
    ASSUME SIInv, NEW c \in Callers, NEW s \in Singles, Get(c, s)
    PROVE  SIInv'
<1> DEFINE g == [phase |-> "look", wanted |-> s, at |-> s,
                 there |-> {t \in Singles : single[t] # Nobody}]
<1>1. g \in Getter /\ getter'[c] = g
  BY DEF Get, SIInv, SinglesTypeOK, Getter
<1>2. CallOk(c)'
  BY <1>1 DEF Get, CallOk
<1> QED BY <1>1, <1>2, CallMoves DEF Get, SIInv, SinglesTypeOK

LEMMA LookKeeps ==
    ASSUME SIInv, NEW c \in Callers, Look(c)
    PROVE  SIInv'
<1>0. getter[c] \in Getter /\ CallOk(c) BY DEF SIInv, SinglesTypeOK
<1> DEFINE s == getter[c].at
<1>1. CASE single[s] # Nobody
  <2> DEFINE g == [getter[c] EXCEPT !.phase = "return", !.at = s]
  <2>1. g \in Getter /\ getter' = [getter EXCEPT ![c] = g] /\ getter'[c] = g
    BY <1>0, <1>1 DEF Look, To, SIInv, SinglesTypeOK, Getter
  <2>2. CallOk(c)'
    BY <1>0, <1>1, <2>1 DEF Look, CallOk, Getter
  <2> QED BY <2>1, <2>2, CallMoves DEF Look, SIInv, SinglesTypeOK
<1>2. CASE single[s] = Nobody /\ s \in OverPool
  <2> DEFINE g == [getter[c] EXCEPT !.phase = "look", !.at = "pool"]
  <2>0. s \in Singles /\ "pool" \in Singles /\ s # "pool"
    BY <1>0, <1>2, PoolThere DEF OverPool, Getter
  <2>1. g \in Getter /\ getter' = [getter EXCEPT ![c] = g] /\ getter'[c] = g
    BY <1>0, <1>2, <2>0 DEF Look, To, SIInv, SinglesTypeOK, Getter
  <2>2. CallOk(c)'
    BY <1>0, <1>2, <2>0, <2>1 DEF Look, CallOk, Getter, OverPool
  <2> QED BY <2>1, <2>2, CallMoves DEF Look, SIInv, SinglesTypeOK
<1>3. CASE single[s] = Nobody /\ s \notin OverPool
  <2> DEFINE g == [getter[c] EXCEPT !.phase = "make", !.at = s]
  <2>1. g \in Getter /\ getter' = [getter EXCEPT ![c] = g] /\ getter'[c] = g
    BY <1>0, <1>3 DEF Look, To, SIInv, SinglesTypeOK, Getter
  <2>2. CallOk(c)'
    BY <1>0, <1>3, <2>1 DEF Look, CallOk, Getter, OverPool
  <2> QED BY <2>1, <2>2, CallMoves DEF Look, SIInv, SinglesTypeOK
<1> QED BY <1>1, <1>2, <1>3

LEMMA MakeKeeps ==
    ASSUME SIInv, NEW c \in Callers, Make(c)
    PROVE  SIInv'
<1>0. getter[c] \in Getter /\ CallOk(c) BY DEF SIInv, SinglesTypeOK
<1> DEFINE s == getter[c].at
           g == [getter[c] EXCEPT !.phase = "return", !.at = s]
<1>1. g \in Getter /\ getter' = [getter EXCEPT ![c] = g] /\ getter'[c] = g
  BY <1>0 DEF Make, To, SIInv, SinglesTypeOK, Getter
<1>2. s \in Singles /\ single' = [single EXCEPT ![s] = c] /\ tables' = tables /\ c # Nobody
  BY <1>0, NobodyAssumption DEF Make, Getter
<1>3. \A t \in Singles : single[t] # Nobody => single'[t] # Nobody
  BY <1>2 DEF SIInv, SinglesTypeOK
<1>4. SinglesTypeOK'
  BY <1>1, <1>2 DEF SIInv, SinglesTypeOK
<1>5. \A t \in Singles \cap OverPool : single'[t] # Nobody => t \in tables /\ single'["pool"] # Nobody
  <2> SUFFICES ASSUME NEW t \in Singles \cap OverPool, single'[t] # Nobody
               PROVE  t \in tables /\ single'["pool"] # Nobody
    OBVIOUS
  <2>1. "pool" \in Singles BY PoolThere DEF OverPool
  <2>2. CASE t # s BY <1>2, <1>3, <2>1, <2>2 DEF SIInv, SinglesTypeOK
  <2>3. CASE t = s
    <3>1. s = getter[c].wanted /\ getter[c].phase = "make"
      BY <1>0, <2>3 DEF CallOk, Make, OverPool
    <3> QED BY <1>0, <1>3, <2>1, <2>3, <3>1 DEF CallOk
  <2> QED BY <2>2, <2>3
<1>6. ASSUME NEW d \in Callers PROVE CallOk(d)'
  <2>1. "store" \in Singles \/ "saver" \in Singles => "pool" \in Singles BY PoolThere
  <2>2. CASE d = c
    BY <1>0, <1>1, <1>2, <1>3, <2>1, <2>2 DEF CallOk, Make, Getter, OverPool, SIInv, SinglesTypeOK
  <2>3. CASE d # c
    <3>1. getter'[d] = getter[d] /\ getter[d] \in Getter /\ CallOk(d)
      BY <1>1, <2>3 DEF SIInv, SinglesTypeOK
    <3> QED BY <1>2, <1>3, <2>1, <3>1 DEF CallOk, Getter, OverPool
  <2> QED BY <2>2, <2>3
<1> QED BY <1>2, <1>4, <1>5, <1>6 DEF SIInv

LEMMA SetupKeeps ==
    ASSUME SIInv, NEW c \in Callers, Setup(c)
    PROVE  SIInv'
<1>0. getter[c] \in Getter /\ CallOk(c) BY DEF SIInv, SinglesTypeOK
<1> DEFINE g == [getter[c] EXCEPT !.phase = "make", !.at = getter[c].wanted]
<1>1. g \in Getter /\ getter' = [getter EXCEPT ![c] = g] /\ getter'[c] = g
  BY <1>0 DEF Setup, To, SIInv, SinglesTypeOK, Getter
<1>2. CallOk(c)'
  BY <1>0, <1>1 DEF Setup, CallOk, Getter
<1> QED BY <1>0, <1>1, <1>2, CallMoves DEF Setup, SIInv, SinglesTypeOK, CallOk, Getter

LEMMA ReturnKeeps ==
    ASSUME SIInv, NEW c \in Callers, Return(c)
    PROVE  SIInv'
<1>0. getter[c] \in Getter /\ CallOk(c) BY DEF SIInv, SinglesTypeOK
<1> DEFINE g == [getter[c] EXCEPT
                   !.phase = IF getter[c].at = getter[c].wanted THEN "got" ELSE "setup",
                   !.at = getter[c].wanted]
<1>1. g \in Getter /\ getter' = [getter EXCEPT ![c] = g] /\ getter'[c] = g
  BY <1>0 DEF Return, To, SIInv, SinglesTypeOK, Getter
<1>2. CallOk(c)'
  BY <1>0, <1>1 DEF Return, CallOk, Getter
<1> QED BY <1>1, <1>2, CallMoves DEF Return, SIInv, SinglesTypeOK

\* GetRaises and Release.
LEMMA RestKeeps ==
    ASSUME SIInv, NEW c \in Callers, getter' = [getter EXCEPT ![c] = Resting],
           UNCHANGED <<single, tables>>
    PROVE  SIInv'
<1>1. getter'[c] = Resting BY DEF SIInv, SinglesTypeOK
<1>2. CallOk(c)' BY <1>1, RestingOk DEF CallOk
<1> QED BY <1>2, RestingOk, CallMoves DEF SIInv, SinglesTypeOK

LEMMA GettingKeeps ==
    ASSUME SIInv, NEW c \in Callers, Getting(c)
    PROVE  SIInv'
BY LookKeeps, MakeKeeps, SetupKeeps, ReturnKeeps, RestKeeps DEF Getting, GetRaises

LEMMA SinglesUnchanged == SIInv /\ UNCHANGED single_vars => SIInv'
BY DEF SIInv, SinglesTypeOK, CallOk, single_vars

LEMMA Ready == SIInv => GotIsReady
BY DEF SIInv, GotIsReady, CallOk, SinglesTypeOK, Getter

\* A step of a getter changes a single only by making it, and nobody makes one that was
\* there when the call began.
LEMMA Settled ==
    ASSUME SIInv, NEW s \in Singles, single[s] # Nobody,
           \A c \in Callers : getter[c].phase = "idle" \/ s \in getter[c].there,
           NEW c \in Callers, Getting(c)
    PROVE  single'[s] = single[s]
<1>1. CASE Make(c)
  BY <1>1 DEF Make, SIInv, SinglesTypeOK, CallOk
<1>2. CASE ~Make(c)
  BY <1>2 DEF Getting, Look, Setup, Return, GetRaises
<1> QED BY <1>1, <1>2

-----------------------------------------------------------------------------
(* The memory *)

LEMMA KnownDef ==
    ASSUME NEW f
    PROVE  f \in Known <=> DOMAIN f \subseteq Keys /\ f \in [DOMAIN f -> Values]
<1>1. ASSUME f \in Known
      PROVE  DOMAIN f \subseteq Keys /\ f \in [DOMAIN f -> Values]
  <2>1. PICK K \in SUBSET Keys : f \in [K -> Values]
    BY <1>1 DEF Known
  <2> QED BY <2>1
<1>2. ASSUME DOMAIN f \subseteq Keys, f \in [DOMAIN f -> Values]
      PROVE  f \in Known
  BY <1>2 DEF Known
<1> QED BY <1>1, <1>2

LEMMA NoValuesKnown == NoValues \in Known /\ DOMAIN NoValues = {}
BY KnownDef DEF NoValues

LEMMA NewListingOk ==
    ASSUME NEW phase \in {"idle", "reading"}, NEW n \in Namespaces, NEW held \in Known
    PROVE  NewListing(phase, n, held) \in Listing
BY NoValuesKnown DEF NewListing, Listing

LEMMA NoListingOk == NoListing \in Listing /\ NoListing.phase = "idle"
<1>1. PICK n \in Namespaces : NoListing = NewListing("idle", n, NoValues)
  BY NamespacesAssumption DEF NoListing
<1> QED BY <1>1, NewListingOk, NoValuesKnown DEF NewListing

\* A put leaves a file: the records newer than the old place of its record move down by
\* one, and no others.
LEMMA UpdatedFile ==
    ASSUME NEW r, IsFile(r), NEW k \in Keys, NEW v \in Values
    PROVE  IsFile(Updated(r, k, v))
<1> DEFINE u == Updated(r, k, v)
<1>0. DOMAIN u = DOMAIN r \cup {k} /\ u[k] = [place |-> 0, value |-> v]
  BY DEF Updated
<1>1. ASSUME NEW j \in DOMAIN r, j # k, k \in DOMAIN r, r[j].place > r[k].place
      PROVE  u[j] = r[j]
  BY <1>1 DEF Updated
<1>2. ASSUME NEW j \in DOMAIN r, j # k, k \notin DOMAIN r \/ ~(r[j].place > r[k].place)
      PROVE  u[j] \in Record /\ u[j].place = r[j].place + 1 /\ u[j].value = r[j].value
  <2>1. u[j] = [r[j] EXCEPT !.place = @ + 1]
    BY <1>2 DEF Updated
  <2> QED BY <2>1 DEF IsFile, Record
<1>3. \A j \in DOMAIN u : u[j] \in Record
  BY <1>0, <1>1, <1>2 DEF IsFile, Record
<1>4. \A i, j \in DOMAIN u : u[i].place = u[j].place => i = j
  BY <1>0, <1>1, <1>2 DEF IsFile, Record
<1>5. ASSUME NEW j \in DOMAIN u, NEW p \in 0 .. u[j].place
      PROVE  \E i \in DOMAIN u : u[i].place = p
  <2>1. CASE p = 0
    BY <1>0, <2>1
  <2>2. CASE p > 0 /\ (k \notin DOMAIN r \/ p <= r[k].place)
    <3>1. j = k => k \in DOMAIN r
      BY <1>0, <2>2
    <3>2. PICK h \in DOMAIN r : p - 1 \in 0 .. r[h].place /\ p \in Nat
      BY <1>0, <1>1, <1>2, <1>3, <2>2, <3>1 DEF IsFile, Record
    <3>3. PICK i \in DOMAIN r : r[i].place = p - 1
      BY <3>2 DEF IsFile
    <3>4. i # k
      BY <2>2, <3>2, <3>3 DEF IsFile, Record
    <3>5. u[i].place = p
      BY <1>2, <2>2, <3>2, <3>3, <3>4 DEF IsFile, Record
    <3> QED BY <1>0, <3>5
  <2>3. CASE k \in DOMAIN r /\ p > r[k].place
    <3>1. j # k /\ j \in DOMAIN r
      BY <1>0, <2>3 DEF IsFile, Record
    <3>2. r[j].place > r[k].place
      BY <1>2, <2>3, <3>1 DEF IsFile, Record
    <3>3. PICK i \in DOMAIN r : r[i].place = p
      BY <1>1, <2>3, <3>1, <3>2 DEF IsFile, Record
    <3>4. i # k
      BY <2>3, <3>3 DEF IsFile, Record
    <3> QED BY <1>0, <1>1, <2>3, <3>3, <3>4
  <2>4. p \in Nat /\ (k \in DOMAIN r => r[k].place \in Nat)
    BY <1>3 DEF IsFile, Record
  <2> QED BY <2>1, <2>2, <2>3, <2>4
<1>6. u \in [DOMAIN u -> Record] /\ DOMAIN u \subseteq Keys
  <2>1. u = [j \in DOMAIN u |-> u[j]]
    BY <1>0 DEF Updated
  <2> QED BY <1>0, <1>3, <2>1 DEF IsFile
<1>7. ASSUME NEW w, w = u PROVE IsFile(w)
  <2> HIDE DEF u
  <2> QED BY <1>3, <1>4, <1>5, <1>6, <1>7 DEF IsFile
<1> QED BY <1>7

\* A record that is not put keeps its value and does not move up.
LEMMA UpdatedKeeps ==
    ASSUME NEW r, IsFile(r), NEW k \in Keys, NEW v \in Values, NEW j \in DOMAIN r, j # k
    PROVE  /\ j \in DOMAIN Updated(r, k, v)
           /\ Updated(r, k, v)[j].value = r[j].value
           /\ Updated(r, k, v)[j].place \in {r[j].place, r[j].place + 1}
<1> DEFINE u == Updated(r, k, v)
<1>1. j \in DOMAIN u /\ (u[j] = r[j] \/ u[j] = [r[j] EXCEPT !.place = @ + 1])
  BY DEF Updated
<1> QED BY <1>1 DEF IsFile, Record

LEMMA MemoryInitOk == MemoryInit => MInv
BY NoListingOk, RecordsAssumption DEF MemoryInit, MInv, MemoryTypeOK, ListingOk

LEMMA PutKeeps ==
    ASSUME MInv, NEW n \in Namespaces, NEW k \in Keys, NEW v \in Values, PutRecord(n, k, v)
    PROVE  MInv'
<1>0. DOMAIN records = Namespaces /\ \A m \in Namespaces : IsFile(records[m])
  BY DEF MInv, MemoryTypeOK
<1>1. DOMAIN records' = Namespaces /\ records'[n] = Updated(records[n], k, v)
      /\ \A m \in Namespaces \ {n} : records'[m] = records[m]
  BY <1>0 DEF PutRecord
<1>2. \A m \in Namespaces : IsFile(records'[m])
  BY <1>0, <1>1, UpdatedFile
<1>3. ASSUME NEW c \in Readers
      PROVE  listing'[c] \in Listing /\ ListingOk(listing'[c], records'[listing'[c].namespace])
  <2> DEFINE l == listing[c]
  <2>0. l \in Listing /\ ListingOk(l, records[l.namespace]) /\ l.namespace \in Namespaces
    BY DEF MInv, MemoryTypeOK, Listing
  <2>1. CASE l.phase = "reading" /\ l.namespace = n
    <3>1. listing'[c] = [l EXCEPT !.moved = @ \cup {k}]
      BY <2>1 DEF PutRecord
    <3>2. listing'[c] \in Listing
      BY <2>0, <3>1 DEF Listing
    <3> DEFINE m == listing'[c]
    <3>3. m.phase = "reading" /\ m.namespace = n /\ m.held = l.held /\ m.found = l.found
          /\ m.read = l.read /\ m.moved = l.moved \cup {k} /\ l.read \in Nat
      BY <2>0, <2>1, <3>1 DEF Listing
    <3>4. ASSUME NEW j \in Untouched(m)
          PROVE  /\ j \in DOMAIN records'[n]
                 /\ records'[n][j].value = m.held[j]
                 /\ records'[n][j].place < m.read => Seen(m, j)
      <4>1. j \in Untouched(l) /\ j # k
        BY <3>3 DEF Untouched
      <4>2. j \in DOMAIN records[n] /\ records[n][j].value = l.held[j]
            /\ (records[n][j].place < l.read => Seen(l, j))
        BY <2>0, <2>1, <4>1 DEF ListingOk
      <4>3. records[n][j].place \in Nat
        BY <1>0, <4>2 DEF IsFile, Record
      <4> QED BY <1>0, <1>1, <3>3, <4>1, <4>2, <4>3, UpdatedKeeps DEF Seen
    <3> QED BY <3>2, <3>3, <3>4 DEF ListingOk
  <2>2. CASE ~(l.phase = "reading" /\ l.namespace = n)
    <3>1. listing'[c] = l
      BY <2>2 DEF PutRecord
    <3>2. l.phase = "reading" => records'[l.namespace] = records[l.namespace]
      BY <1>1, <2>0, <2>2
    <3> QED BY <2>0, <3>1, <3>2 DEF ListingOk
  <2> QED BY <2>1, <2>2
<1>4. listing' \in [Readers -> Listing]
  BY <1>3 DEF PutRecord
<1> QED BY <1>1, <1>2, <1>3, <1>4 DEF MInv, MemoryTypeOK

\* A step that only changes one listing, to one that is fine.
LEMMA ListingMoves ==
    ASSUME MInv, NEW c \in Readers, NEW l \in Listing, listing' = [listing EXCEPT ![c] = l],
           UNCHANGED records, ListingOk(l, records[l.namespace])
    PROVE  MInv'
BY DEF MInv, MemoryTypeOK

LEMMA StartListingKeeps ==
    ASSUME MInv, NEW c \in Readers, NEW n \in Namespaces, StartListing(c, n)
    PROVE  MInv'
<1> DEFINE held == [k \in DOMAIN records[n] |-> records[n][k].value]
           l == NewListing("reading", n, held)
<1>0. IsFile(records[n])
  BY DEF MInv, MemoryTypeOK
<1>1. held \in Known
  <2>1. DOMAIN held \subseteq Keys /\ held \in [DOMAIN held -> Values]
    BY <1>0 DEF IsFile, Record
  <2> QED BY <2>1, KnownDef
<1>2. l.namespace = n /\ l.held = held /\ l.phase = "reading" /\ l.read = 0
  BY DEF NewListing
<1>3. l \in Listing
  BY <1>1, NewListingOk
<1>4. ASSUME NEW k \in DOMAIN records[n] PROVE ~(records[n][k].place < 0)
  BY <1>0 DEF IsFile, Record
<1>5. ListingOk(l, records[l.namespace])
  BY <1>2, <1>4 DEF ListingOk, Untouched
<1>6. listing' = [listing EXCEPT ![c] = l] /\ UNCHANGED records
  BY DEF StartListing
<1> QED BY <1>3, <1>5, <1>6, ListingMoves

LEMMA ReadPageKeeps ==
    ASSUME MInv, NEW c \in Readers, ReadPage(c)
    PROVE  MInv'
<1> DEFINE l == listing[c]
           r == records[l.namespace]
           found == Found(l.found, r, l.read)
           m == [l EXCEPT !.found = found, !.read = @ + PAGE_SIZE,
                          !.phase = IF Short(r, l.read) THEN "read" ELSE @]
<1>0. l \in Listing /\ IsFile(r) /\ ListingOk(l, r) /\ l.phase = "reading"
      /\ l.read \in Nat /\ l.found \in Known
  BY DEF MInv, MemoryTypeOK, ReadPage, Listing
<1>1. found \in Known
  <2>1. DOMAIN l.found \subseteq Keys /\ l.found \in [DOMAIN l.found -> Values]
    BY <1>0, KnownDef
  <2>2. DOMAIN found \subseteq Keys /\ found \in [DOMAIN found -> Values]
    BY <1>0, <2>1 DEF Found, Page, IsFile, Record
  <2> QED BY <2>2, KnownDef
<1>2. m \in Listing
  <2>1. l.read + PAGE_SIZE \in Nat
    BY <1>0, PageAssumption
  <2>2. (IF Short(r, l.read) THEN "read" ELSE l.phase) \in {"idle", "reading", "read"}
    BY <1>0
  <2> HIDE DEF r, found
  <2> QED BY <1>0, <1>1, <2>1, <2>2 DEF Listing
<1>3. /\ m.phase = IF Short(r, l.read) THEN "read" ELSE "reading"
      /\ m.namespace = l.namespace /\ m.held = l.held /\ m.moved = l.moved
      /\ m.found = found /\ m.read = l.read + PAGE_SIZE
  BY <1>0 DEF Listing
<1>4. ASSUME NEW k \in Untouched(l)
      PROVE  /\ k \in DOMAIN r /\ r[k].value = l.held[k] /\ r[k].place \in Nat
             /\ r[k].place < l.read + PAGE_SIZE => Seen(m, k)
  <2>1. k \in DOMAIN r /\ r[k].value = l.held[k] /\ (r[k].place < l.read => Seen(l, k))
    BY <1>0 DEF ListingOk
  <2>2. r[k].place \in Nat
    BY <1>0, <2>1 DEF IsFile, Record
  <2>3. CASE k \in Page(r, l.read)
    <3>1. k \in DOMAIN found /\ found[k] = r[k].value
      BY <2>3 DEF Found
    <3> QED BY <1>3, <2>1, <2>2, <3>1 DEF Seen
  <2>4. CASE k \notin Page(r, l.read)
    <3>1. r[k].place < l.read + PAGE_SIZE => r[k].place < l.read
      BY <1>0, <2>1, <2>2, <2>4, PageAssumption DEF Page
    <3>2. k \in DOMAIN l.found => k \in DOMAIN found /\ found[k] = l.found[k]
      BY <2>4 DEF Found
    <3> QED BY <1>3, <2>1, <2>2, <3>1, <3>2 DEF Seen
  <2> QED BY <2>3, <2>4
<1>5. ASSUME Short(r, l.read), NEW k \in DOMAIN r
      PROVE  r[k].place < l.read + PAGE_SIZE
  <2>1. PICK p \in l.read .. l.read + PAGE_SIZE - 1 : \A j \in DOMAIN r : r[j].place # p
    BY <1>5 DEF Short
  <2>2. r[k].place \in Nat /\ p \in Nat
    BY <1>0, <2>1, PageAssumption DEF IsFile, Record
  <2>3. p \notin 0 .. r[k].place
    BY <1>0, <2>1 DEF IsFile
  <2> QED BY <1>0, <2>1, <2>2, <2>3, PageAssumption
<1>6. ListingOk(m, records[m.namespace])
  <2>1. Untouched(m) = Untouched(l)
    BY <1>3 DEF Untouched
  <2> HIDE DEF m
  <2> QED BY <1>3, <1>4, <1>5, <2>1 DEF ListingOk
<1>7. listing' = [listing EXCEPT ![c] = m] /\ UNCHANGED records
  BY DEF ReadPage
<1> HIDE DEF m
<1> QED BY <1>2, <1>6, <1>7, ListingMoves

LEMMA ForgetKeeps ==
    ASSUME MInv, NEW c \in Readers, listing' = [listing EXCEPT ![c] = NoListing],
           UNCHANGED records
    PROVE  MInv'
BY NoListingOk, ListingMoves DEF ListingOk

LEMMA MemoryUnchanged == MInv /\ UNCHANGED memory_vars => MInv'
BY DEF MInv, MemoryTypeOK, memory_vars

LEMMA Complete == MInv => ListingMissesOnlyWhatMoved
BY DEF MInv, ListingMissesOnlyWhatMoved, ListingOk, Untouched, Seen

-----------------------------------------------------------------------------
(* The review router *)

\* Themes is the range of Exam, each at one place.
LEMMA Places ==
    /\ Len(Exam) \in Nat \ {0} /\ DOMAIN Exam = 1 .. Len(Exam)
    /\ \A t \in Themes : Place(t) \in DOMAIN Exam /\ Exam[Place(t)] = t
    /\ \A i \in DOMAIN Exam : Exam[i] \in Themes /\ Place(Exam[i]) = i
<1>1. Len(Exam) \in Nat \ {0} /\ DOMAIN Exam = 1 .. Len(Exam)
  BY ExamAssumption
<1>2. ASSUME NEW t \in Themes
      PROVE  Place(t) \in DOMAIN Exam /\ Exam[Place(t)] = t
  <2>1. \E i \in DOMAIN Exam : Exam[i] = t
    BY DEF Themes
  <2> QED
    BY <2>1 DEF Place
<1>3. ASSUME NEW i \in DOMAIN Exam
      PROVE  Exam[i] \in Themes /\ Place(Exam[i]) = i
  <2>1. Exam[i] \in Themes
    BY DEF Themes
  <2> QED
    BY <2>1, <1>2, ExamAssumption
<1> QED
  BY <1>1, <1>2, <1>3

\* Larger is a strict order by priority, then up, then mistakes.
LEMMA LargerOrder ==
    ASSUME NEW found, \A t \in Themes : Priority(found, t) \in Int,
           NEW slugs, NEW up, NEW x \in Themes, NEW y \in Themes, NEW z \in Themes
    PROVE  /\ ~Larger(found, slugs, up, x, x)
           /\ Larger(found, slugs, up, x, y) => ~Larger(found, slugs, up, y, x)
           /\ Larger(found, slugs, up, x, y) /\ ~Larger(found, slugs, up, z, y)
                => Larger(found, slugs, up, x, z)
BY DEF Larger

\* max finds a theme: among the first n of the exam there is a first of the largest.
LEMMA BestExists ==
    ASSUME NEW found, \A t \in Themes : Priority(found, t) \in Int, NEW slugs, NEW up
    PROVE  \E t \in Themes : \A u \in Themes :
               /\ ~Larger(found, slugs, up, u, t)
               /\ u # t /\ Place(u) < Place(t) => Larger(found, slugs, up, t, u)
<1> DEFINE L(t, u) == Larger(found, slugs, up, t, u)
           FirstOf(n, i) == /\ i \in 1 .. n
                            /\ \A j \in 1 .. n : ~L(Exam[j], Exam[i])
                            /\ \A j \in 1 .. i - 1 : L(Exam[i], Exam[j])
           Without == {n \in Nat : n \in 1 .. Len(Exam) /\ \A i \in 1 .. n : ~FirstOf(n, i)}
<1>1. \A i \in 1 .. Len(Exam) : Exam[i] \in Themes
  BY Places
<1>2. \A x, y, z \in Themes : /\ ~L(x, x)
                              /\ L(x, y) => ~L(y, x)
                              /\ L(x, y) /\ ~L(z, y) => L(x, z)
  BY LargerOrder
<1> HIDE DEF L
<1>3. Without = {}
  <2> SUFFICES ASSUME Without # {} PROVE FALSE
    OBVIOUS
  <2>1. PICK n \in Without : \A m \in Without : ~(<<m, n>> \in OpToRel(<, Nat))
    BY NatLessThanWellFounded, WFMin
  <2>2. n \in Nat /\ n \in 1 .. Len(Exam) /\ \A i \in 1 .. n : ~FirstOf(n, i)
    OBVIOUS
  <2>3. \A m \in Without : ~(m < n)
    BY <2>1 DEF OpToRel
  <2>4. CASE n = 1
    <3>1. FirstOf(1, 1)
      BY <1>1, <1>2, <2>2, <2>4
    <3> QED
      BY <2>2, <2>4, <3>1
  <2>5. CASE n > 1
    <3>1. n - 1 \in 1 .. Len(Exam) /\ n - 1 \in Nat /\ n - 1 < n
      BY <2>2, <2>5, Places
    <3>2. PICK i \in 1 .. n - 1 : FirstOf(n - 1, i)
      BY <2>3, <3>1
    <3>3. Exam[i] \in Themes /\ Exam[n] \in Themes
          /\ \A j \in 1 .. n : Exam[j] \in Themes
      BY <1>1, <2>2, <3>1, Places
    <3>4. CASE L(Exam[n], Exam[i])
      <4>1. ASSUME NEW j \in 1 .. n - 1 PROVE L(Exam[n], Exam[j]) /\ ~L(Exam[j], Exam[n])
        BY <1>2, <3>2, <3>3, <3>4
      <4>2. FirstOf(n, n)
        BY <1>2, <2>2, <3>3, <4>1
      <4> QED
        BY <2>2, <4>2
    <3>5. CASE ~L(Exam[n], Exam[i])
      <4>1. FirstOf(n, i)
        BY <2>2, <3>2, <3>5
      <4> QED
        BY <2>2, <3>2, <4>1
    <3> QED
      BY <3>4, <3>5
  <2> QED
    BY <2>2, <2>4, <2>5
<1>4. PICK i \in 1 .. Len(Exam) : FirstOf(Len(Exam), i)
  BY <1>3, Places
<1>5. ASSUME NEW u \in Themes
      PROVE  /\ ~L(u, Exam[i])
             /\ Place(u) < Place(Exam[i]) => L(Exam[i], u)
  <2>1. Place(u) \in 1 .. Len(Exam) /\ Exam[Place(u)] = u /\ Place(Exam[i]) = i
    BY Places
  <2>2. Place(u) < i => Place(u) \in 1 .. i - 1
    BY <2>1, Places
  <2> QED
    BY <1>4, <2>1, <2>2
<1> QED
  BY <1>1, <1>5 DEF L

LEMMA Priorities ==
    ASSUME NEW found, \A k \in DOMAIN found : found[k] \in 0 .. 100, NEW t \in Themes
    PROVE  Mastery(found, t) \in 0 .. 100 /\ Priority(found, t) \in Int
<1>1. Mastery(found, t) \in 0 .. 100
  BY DEF Mastery
<1>2. 100 - Mastery(found, t) \in Int
  BY <1>1
<1>3. ExamCount \in [Themes -> Nat \ {0}]
  BY ExamAssumption
<1>4. ExamCount[t] * (100 - Mastery(found, t)) \in Int
  BY <1>2, <1>3
<1> QED
  BY <1>1, <1>4 DEF Priority

LEMMA BestIs ==
    ASSUME NEW found, \A k \in DOMAIN found : found[k] \in 0 .. 100, NEW slugs, NEW up
    PROVE  LET t == Best(found, slugs, up) IN
           /\ t \in Themes
           /\ \A u \in Themes :
                /\ ~Larger(found, slugs, up, u, t)
                /\ u # t /\ Place(u) < Place(t) => Larger(found, slugs, up, t, u)
<1>1. \A t \in Themes : Priority(found, t) \in Int
  BY Priorities
<1> QED
  BY <1>1, BestExists DEF Best

\* What each kind of record holds.
LEMMA Kinds ==
    /\ Mistakes \in Namespaces /\ Masteries \in Namespaces
    /\ ValuesOf(Mistakes) = Themes /\ ValuesOf(Masteries) = 0 .. 100
BY ExamAssumption DEF ValuesOf

LEMMA NoSuggestionOk == NoSuggestion \in Suggestion /\ NoSuggestion.phase = "idle"
BY Places DEF NoSuggestion, Suggestion

LEMMA RouterInitOk == RouterInit => RInv
<1> SUFFICES ASSUME RouterInit PROVE RInv
  OBVIOUS
<1>1. Recorded(records)
  BY RecordedAssumption DEF RouterInit, MemoryInit
<1>2. suggestion \in [Readers -> Suggestion]
  BY NoSuggestionOk DEF RouterInit
<1>3. NoListing.found = NoValues /\ NoListing.phase = "idle"
  BY DEF NoListing, NewListing
<1>4. ASSUME NEW c \in Readers
      PROVE  RouterOk(suggestion[c], listing[c], records[listing[c].namespace])
  BY <1>3, NoSuggestionOk, NoValuesKnown DEF RouterInit, MemoryInit, RouterOk
<1> QED
  BY <1>1, <1>2, <1>4 DEF RInv

\* A put of a value of its kind.
LEMMA PutKeepsRouter ==
    ASSUME MInv, RInv, NEW n \in Namespaces, NEW k \in Keys, NEW v \in Values,
           v \in ValuesOf(n), PutRecord(n, k, v), UNCHANGED suggestion
    PROVE  RInv'
<1>0. DOMAIN records = Namespaces /\ listing \in [Readers -> Listing]
      /\ \A m \in Namespaces : IsFile(records[m])
  BY DEF MInv, MemoryTypeOK
<1>1. records'[n] = Updated(records[n], k, v) /\ DOMAIN records' = Namespaces
      /\ \A m \in Namespaces \ {n} : records'[m] = records[m]
  BY <1>0 DEF PutRecord
<1>2. Recorded(records')
  <2>1. ASSUME NEW j \in DOMAIN records'[n] PROVE records'[n][j].value \in ValuesOf(n)
    <3>1. CASE j = k
      BY <1>1, <3>1 DEF Updated
    <3>2. CASE j # k
      <4>1. j \in DOMAIN records[n]
        BY <1>1, <3>2 DEF Updated
      <4> QED
        BY <1>0, <1>1, <3>2, <4>1, UpdatedKeeps DEF RInv, Recorded
    <3> QED
      BY <3>1, <3>2
  <2> QED
    BY <1>1, <2>1 DEF RInv, Recorded
<1>3. ASSUME NEW c \in Readers
      PROVE  RouterOk(suggestion[c], listing'[c], records'[listing'[c].namespace])
  <2> DEFINE l == listing[c]
  <2>0. l \in Listing /\ l.namespace \in Namespaces
        /\ RouterOk(suggestion[c], l, records[l.namespace])
    BY <1>0 DEF RInv, Listing
  <2>1. CASE l.phase = "reading" /\ l.namespace = n
    <3>1. listing'[c] = [l EXCEPT !.moved = @ \cup {k}]
      BY <2>1 DEF PutRecord
    <3> DEFINE m == listing'[c]
    <3>2. m.phase = "reading" /\ m.namespace = n /\ m.found = l.found /\ m.moved # {}
      BY <2>0, <2>1, <3>1 DEF Listing
    <3> QED
      BY <2>0, <2>1, <3>2 DEF RouterOk
  <2>2. CASE ~(l.phase = "reading" /\ l.namespace = n)
    <3>1. listing'[c] = l
      BY <2>2 DEF PutRecord
    <3>2. l.phase = "reading" => records'[l.namespace] = records[l.namespace]
      BY <1>1, <2>0, <2>2
    <3> QED
      BY <2>0, <3>1, <3>2 DEF RouterOk
  <2> QED
    BY <2>1, <2>2
<1> QED
  BY <1>2, <1>3 DEF RInv

\* A step of one reader that leaves the records.
LEMMA RouterMoves ==
    ASSUME RInv, NEW c \in Readers, NEW s \in Suggestion, NEW l,
           listing \in [Readers -> Listing],
           suggestion' = [suggestion EXCEPT ![c] = s], listing' = [listing EXCEPT ![c] = l],
           UNCHANGED records, RouterOk(s, l, records[l.namespace])
    PROVE  RInv'
BY DEF RInv

\* A listing that begins.
LEMMA NewListingRouter ==
    ASSUME NEW n \in Namespaces, NEW s,
           s.phase = "mistakes" => n = Mistakes,
           s.phase = "masteries" => n = Masteries /\ s.sure \subseteq s.slugs,
           NEW l, l = NewListing("reading", n, [k \in DOMAIN records[n] |-> records[n][k].value])
    PROVE  RouterOk(s, l, records[l.namespace])
BY NoValuesKnown DEF NewListing, RouterOk

LEMMA SuggestKeeps ==
    ASSUME MInv, RInv, NEW c \in Readers, Suggest(c)
    PROVE  RInv'
<1> DEFINE s == [NoSuggestion EXCEPT !.phase = "mistakes"]
           held == [k \in DOMAIN records[Mistakes] |-> records[Mistakes][k].value]
           l == NewListing("reading", Mistakes, held)
<1>1. s \in Suggestion /\ s.phase = "mistakes"
  BY NoSuggestionOk DEF Suggestion
<1>2. suggestion' = [suggestion EXCEPT ![c] = s] /\ listing' = [listing EXCEPT ![c] = l]
      /\ UNCHANGED records /\ listing \in [Readers -> Listing]
  BY DEF Suggest, StartListing, MInv, MemoryTypeOK
<1> HIDE DEF s
<1>3. RouterOk(s, l, records[l.namespace])
  BY <1>1, Kinds, NewListingRouter
<1> HIDE DEF l
<1> QED
  BY <1>1, <1>2, <1>3, RouterMoves

LEMMA ReadMistakesKeeps ==
    ASSUME MInv, RInv, NEW c \in Readers, ReadMistakes(c)
    PROVE  RInv'
<1> DEFINE old == suggestion[c]
           now_read == listing[c]
           slugs == ThemesOf(now_read.found, DOMAIN now_read.found)
           sure == ThemesOf(now_read.held, DOMAIN now_read.held \ now_read.moved)
           s == [old EXCEPT !.phase = "masteries", !.slugs = slugs, !.sure = sure]
           held == [k \in DOMAIN records[Masteries] |-> records[Masteries][k].value]
           l == NewListing("reading", Masteries, held)
<1>1. /\ old \in Suggestion /\ old.phase = "mistakes" /\ now_read.phase = "read"
      /\ listing \in [Readers -> Listing]
      /\ ListingOk(now_read, records[now_read.namespace])
      /\ RouterOk(old, now_read, records[now_read.namespace])
  BY DEF ReadMistakes, MInv, MemoryTypeOK, RInv
<1>2. \A k \in DOMAIN now_read.found : now_read.found[k] \in Themes
  BY <1>1, Kinds DEF RouterOk
<1>3. slugs \subseteq Themes
  BY <1>2 DEF ThemesOf
<1>4. sure \subseteq slugs
  BY <1>1 DEF ThemesOf, ListingOk, Untouched, Seen
<1>5. suggestion' = [suggestion EXCEPT ![c] = s] /\ listing' = [listing EXCEPT ![c] = l]
      /\ UNCHANGED records
  BY DEF ReadMistakes, StartListing, RInv
<1> HIDE DEF slugs, sure
<1>6. s \in Suggestion /\ s.phase = "masteries" /\ s.sure = sure /\ s.slugs = slugs
  BY <1>1, <1>3, <1>4 DEF Suggestion
<1> HIDE DEF s
<1>7. RouterOk(s, l, records[l.namespace])
  BY <1>4, <1>6, Kinds, NewListingRouter
<1> HIDE DEF l
<1> QED
  BY <1>1, <1>5, <1>6, <1>7, RouterMoves

\* What a suggestion is made from: the masteries were found as they were, if nobody put one.
LEMMA AnswerFacts ==
    ASSUME MInv, RInv, NEW c \in Readers, Answer(c)
    PROVE  LET l == listing[c] IN
           /\ suggestion[c] \in Suggestion /\ suggestion[c].sure \subseteq suggestion[c].slugs
           /\ \A k \in DOMAIN l.found : l.found[k] \in 0 .. 100
           /\ l.moved = {} => /\ DOMAIN l.found = DOMAIN l.held
                              /\ \A k \in DOMAIN l.held : l.found[k] = l.held[k]
<1>1. /\ suggestion[c] \in Suggestion /\ suggestion[c].phase = "masteries"
      /\ listing[c].phase = "read"
      /\ RouterOk(suggestion[c], listing[c], records[listing[c].namespace])
      /\ ListingOk(listing[c], records[listing[c].namespace])
  BY DEF Answer, RInv, MInv
<1> QED
  BY <1>1, Kinds DEF RouterOk, ListingOk, Untouched, Seen

LEMMA AnswerKeeps ==
    ASSUME MInv, RInv, NEW c \in Readers, Answer(c)
    PROVE  RInv'
<1>1. PICK up \in SUBSET Themes :
          suggestion' = [suggestion EXCEPT ![c].phase = "suggested",
                           ![c].theme = Best(listing[c].found, suggestion[c].slugs, up)]
  BY DEF Answer
<1> DEFINE best == Best(listing[c].found, suggestion[c].slugs, up)
           s == [suggestion[c] EXCEPT !.phase = "suggested", !.theme = best]
<1>2. best \in Themes
  BY AnswerFacts, BestIs
<1>3. suggestion' = [suggestion EXCEPT ![c] = s]
  BY <1>1 DEF RInv
<1> HIDE DEF best
<1>4. s \in Suggestion /\ s.phase = "suggested"
  BY <1>2, AnswerFacts DEF Suggestion
<1>5. listing' = [listing EXCEPT ![c] = NoListing] /\ UNCHANGED records
      /\ listing \in [Readers -> Listing]
  BY DEF Answer, MInv, MemoryTypeOK
<1> HIDE DEF s
<1>6. RouterOk(s, NoListing, records[NoListing.namespace])
  BY <1>4, NoValuesKnown DEF RouterOk, NoListing, NewListing
<1> QED
  BY <1>3, <1>4, <1>5, <1>6, RouterMoves

LEMMA ReadPageKeepsRouter ==
    ASSUME MInv, RInv, NEW c \in Readers, ReadPage(c), UNCHANGED suggestion
    PROVE  RInv'
<1> DEFINE l == listing[c]
           r == records[l.namespace]
           found == Found(l.found, r, l.read)
           m == [l EXCEPT !.found = found, !.read = @ + PAGE_SIZE,
                          !.phase = IF Short(r, l.read) THEN "read" ELSE @]
           s == suggestion[c]
<1>1. l \in Listing /\ l.phase = "reading" /\ l.namespace \in Namespaces
      /\ RouterOk(s, l, r) /\ s \in Suggestion /\ listing \in [Readers -> Listing]
  BY DEF ReadPage, MInv, MemoryTypeOK, RInv, Listing
<1>2. listing' = [listing EXCEPT ![c] = m] /\ UNCHANGED records
  BY DEF ReadPage
<1>3. /\ m.phase \in {"reading", "read"} /\ m.namespace = l.namespace
      /\ m.held = l.held /\ m.moved = l.moved /\ m.found = found
  BY <1>1 DEF Listing
<1>4. DOMAIN found \subseteq DOMAIN l.found \cup DOMAIN r
  BY DEF Found, Page
<1>5. \A k \in DOMAIN found : found[k] \in ValuesOf(l.namespace)
  BY <1>1 DEF Found, Page, RouterOk, RInv, Recorded
<1>6. RouterOk(s, m, records[m.namespace])
  <2> HIDE DEF m, found, s
  <2> QED
    BY <1>1, <1>3, <1>4, <1>5 DEF RouterOk
<1>7. suggestion' = [suggestion EXCEPT ![c] = s]
  BY DEF RInv
<1> HIDE DEF m, s
<1> QED
  BY <1>1, <1>2, <1>6, <1>7, RouterMoves

\* A caller that ends forgets its suggestion.
LEMMA EndKeepsRouter ==
    ASSUME RInv, NEW c \in Readers, UNCHANGED <<records, listing>>,
           suggestion' = [suggestion EXCEPT ![c] = NoSuggestion]
    PROVE  RInv'
<1>1. ASSUME NEW d \in Readers
      PROVE  RouterOk(suggestion'[d], listing[d], records[listing[d].namespace])
  <2>1. CASE d = c
    BY <2>1, NoSuggestionOk DEF RInv, RouterOk
  <2>2. CASE d # c
    BY <2>2 DEF RInv
  <2> QED
    BY <2>1, <2>2
<1> QED
  BY <1>1, NoSuggestionOk DEF RInv

LEMMA RouterUnchanged == RInv /\ UNCHANGED router_vars => RInv'
BY DEF RInv, router_vars, memory_vars

\* No theme has more to lose than the one an answer suggests.
LEMMA AnswerIsWeakest ==
    ASSUME MInv, RInv, NEW c \in Readers, Answer(c), listing[c].moved = {}
    PROVE  Weakest(suggestion[c], listing[c], suggestion'[c].theme)
<1> DEFINE found == listing[c].found
           slugs == suggestion[c].slugs
<1>1. PICK up \in SUBSET Themes :
          /\ \A t, u \in Themes : Alike(found, t, u) => ((t \in up) <=> (u \in up))
          /\ suggestion' = [suggestion EXCEPT ![c].phase = "suggested",
                              ![c].theme = Best(found, slugs, up)]
  BY DEF Answer
<1> DEFINE t == Best(found, slugs, up)
<1>2. /\ \A k \in DOMAIN found : found[k] \in 0 .. 100
      /\ DOMAIN found = DOMAIN listing[c].held
      /\ \A k \in DOMAIN found : found[k] = listing[c].held[k]
      /\ suggestion[c].sure \subseteq slugs
  BY AnswerFacts
<1>3. suggestion'[c].theme = t
  BY <1>1, AnswerFacts DEF RInv, Suggestion
<1>4. /\ t \in Themes
      /\ \A u \in Themes : /\ ~Larger(found, slugs, up, u, t)
                           /\ u # t /\ Place(u) < Place(t) => Larger(found, slugs, up, t, u)
  BY <1>2, BestIs
<1> HIDE DEF t
<1>5. \A u \in Themes : /\ Priority(found, u) \in Int
                        /\ (IF u \in DOMAIN listing[c].held THEN listing[c].held[u] ELSE 0)
                             = Mastery(found, u)
  BY <1>2, Priorities DEF Mastery
<1>6. ASSUME NEW u \in Themes PROVE Priority(found, u) <= Priority(found, t)
  BY <1>4, <1>5 DEF Larger
<1>7. ASSUME NEW u \in Themes, u # t, ExamCount[u] = ExamCount[t],
             Mastery(found, u) = Mastery(found, t)
      PROVE  /\ u \in slugs => t \in slugs /\ Place(t) < Place(u)
             /\ t \notin slugs => Place(t) < Place(u)
  <2>1. Priority(found, u) = Priority(found, t) /\ ((u \in up) <=> (t \in up))
    BY <1>1, <1>4, <1>7 DEF Priority, Alike
  <2>2. Place(u) # Place(t) /\ Place(u) \in Int /\ Place(t) \in Int
    BY <1>4, <1>7, Places
  <2>3. u \in slugs => t \in slugs
    BY <1>4, <2>1 DEF Larger
  <2>4. Place(u) < Place(t) => t \in slugs /\ u \notin slugs
    BY <1>4, <1>5, <1>7, <2>1 DEF Larger
  <2> QED
    BY <2>2, <2>3, <2>4
<1> QED
  BY <1>2, <1>3, <1>4, <1>5, <1>6, <1>7 DEF Weakest, Priority

-----------------------------------------------------------------------------
(* Sums: FoldFunction over +, which the libraries define by recursion.  *)
(* What recursion gives is proved from the least counterexample.        *)

\* The element a fold takes next, and the function that a fold computes.
Taken(T) == CHOOSE x \in T : TRUE
IsFold(h, f, S) ==
    h = [T \in SUBSET S |->
           IF T = {} THEN 0 ELSE f[Taken(T)] + h[T \ {Taken(T)}]]

\* A set of numbers that has 0 and the successors of its elements has all of them.
LEMMA AllNumbers ==
    ASSUME NEW Q \in SUBSET Nat, 0 \in Q, \A n \in Q : n + 1 \in Q
    PROVE  Q = Nat
<1> SUFFICES ASSUME Nat \ Q # {} PROVE FALSE
  OBVIOUS
<1>1. PICK n \in Nat \ Q : \A m \in Nat \ Q : ~(<<m, n>> \in OpToRel(<, Nat))
  BY NatLessThanWellFounded, WFMin
<1>2. n \in Nat /\ n \notin Q /\ n # 0
  OBVIOUS
<1>3. \A m \in Nat \ Q : ~(m < n)
  BY <1>1 DEF OpToRel
<1>4. n - 1 \in Nat /\ n - 1 < n /\ (n - 1) + 1 = n
  BY <1>2
<1>5. n - 1 \in Q
  BY <1>3, <1>4
<1> QED
  BY <1>2, <1>4, <1>5

\* So has a set of the subsets of a finite set, from the empty one on.
LEMMA AllSubsets ==
    ASSUME NEW S, IsFiniteSet(S), NEW Q \in SUBSET SUBSET S, {} \in Q,
           \A T \in SUBSET S : T # {} /\ T \ {Taken(T)} \in Q => T \in Q
    PROVE  Q = SUBSET S
<1> DEFINE P == {n \in Nat : \A T \in SUBSET S : Cardinality(T) = n => T \in Q}
<1>1. \A T \in SUBSET S : IsFiniteSet(T) /\ Cardinality(T) \in Nat
  BY FS_Subset, FS_CardinalityType
<1>2. 0 \in P
  BY <1>1, FS_EmptySet
<1>3. ASSUME NEW n \in P PROVE n + 1 \in P
  <2>1. ASSUME NEW T \in SUBSET S, Cardinality(T) = n + 1 PROVE T \in Q
    <3>1. T # {} /\ n \in Nat
      BY <2>1, FS_EmptySet
    <3>2. Taken(T) \in T
      BY <3>1 DEF Taken
    <3>3. Cardinality(T \ {Taken(T)}) = n
      <4>1. Cardinality(T \ {Taken(T)}) = Cardinality(T) - 1
        BY <1>1, <3>2, FS_RemoveElement
      <4> QED
        BY <2>1, <3>1, <4>1
    <3>4. T \ {Taken(T)} \in Q
      BY <3>3
    <3> QED
      BY <3>1, <3>4
  <2> QED
    BY <2>1
<1> HIDE DEF P
<1>4. P = Nat
  BY <1>2, <1>3, AllNumbers DEF P
<1> QED
  BY <1>1, <1>4 DEF P

LEMMA FoldExists ==
    ASSUME NEW S, IsFiniteSet(S), NEW f
    PROVE  \E h : IsFold(h, f, S)
<1> DEFINE Upto(n) == {T \in SUBSET S : Cardinality(T) <= n}
           Folds(h, n) ==
               h = [T \in Upto(n) |->
                      IF T = {} THEN 0 ELSE f[Taken(T)] + h[T \ {Taken(T)}]]
           P == {n \in Nat : \E h : Folds(h, n)}
<1>1. \A T \in SUBSET S : IsFiniteSet(T) /\ Cardinality(T) \in Nat
  BY FS_Subset, FS_CardinalityType
<1>2. 0 \in P
  <2>1. \A T \in Upto(0) : T = {}
    BY <1>1, FS_EmptySet
  <2>2. Folds([T \in Upto(0) |-> 0], 0)
    BY <2>1
  <2> QED
    BY <2>2
<1>3. ASSUME NEW n \in P PROVE n + 1 \in P
  <2>0. n \in Nat
    OBVIOUS
  <2>1. PICK h : Folds(h, n)
    OBVIOUS
  <2> DEFINE g == [T \in Upto(n + 1) |->
                     IF T = {} THEN 0 ELSE f[Taken(T)] + h[T \ {Taken(T)}]]
  <2>2. \A T \in Upto(n) : T \in Upto(n + 1) /\ g[T] = h[T]
    <3>1. \A T \in Upto(n) : h[T] = IF T = {} THEN 0 ELSE f[Taken(T)] + h[T \ {Taken(T)}]
      BY <2>1
    <3>2. \A T \in Upto(n) : T \in Upto(n + 1)
      BY <1>1, <2>0
    <3> QED
      BY <3>1, <3>2
  <2>3. ASSUME NEW T \in Upto(n + 1), T # {} PROVE T \ {Taken(T)} \in Upto(n)
    <3>1. Taken(T) \in T
      BY <2>3 DEF Taken
    <3>2. Cardinality(T \ {Taken(T)}) = Cardinality(T) - 1
      BY <1>1, <3>1, FS_RemoveElement
    <3> QED
      BY <1>1, <2>3, <3>2
  <2>4. g = [T \in Upto(n + 1) |->
               IF T = {} THEN 0 ELSE f[Taken(T)] + g[T \ {Taken(T)}]]
    BY <2>2, <2>3
  <2>5. Folds(g, n + 1)
    BY <2>4
  <2> HIDE DEF g, Folds
  <2> QED
    BY <2>0, <2>5
<1> HIDE DEF P
<1>4. Cardinality(S) \in P
  <2>1. P = Nat
    BY <1>2, <1>3, AllNumbers DEF P
  <2> QED
    BY <1>1, <2>1
<1>5. PICK h : Folds(h, Cardinality(S))
  BY <1>4 DEF P
<1>6. Upto(Cardinality(S)) = SUBSET S
  BY FS_Subset
<1> QED
  BY <1>5, <1>6 DEF IsFold

\* The sum of f is what some fold computes for its whole domain.
Sum(f) == FoldFunction(+, 0, f)

LEMMA SumIs ==
    ASSUME NEW S, IsFiniteSet(S), NEW f, DOMAIN f = S
    PROVE  \E h : IsFold(h, f, S) /\ Sum(f) = h[S]
<1> DEFINE h == CHOOSE h : IsFold(h, f, S)
<1>1. IsFold(h, f, S)
  BY FoldExists
<1>2. Sum(f) = h[S]
  BY DEF Sum, FoldFunction, FoldFunctionOnSet, MapThenFoldSet, IsFold, Taken
<1> QED
  BY <1>1, <1>2

LEMMA FoldType ==
    ASSUME NEW S, IsFiniteSet(S), NEW f \in [S -> Nat], NEW h, IsFold(h, f, S)
    PROVE  \A T \in SUBSET S : h[T] \in Nat
<1> DEFINE Q == {T \in SUBSET S : h[T] \in Nat}
<1>1. h[{}] = 0 /\ \A T \in SUBSET S : T # {} => h[T] = f[Taken(T)] + h[T \ {Taken(T)}]
  BY DEF IsFold
<1>2. ASSUME NEW T \in SUBSET S, T # {}, T \ {Taken(T)} \in Q PROVE T \in Q
  <2>1. Taken(T) \in S /\ f[Taken(T)] \in Nat
    BY <1>2 DEF Taken
  <2>2. h[T \ {Taken(T)}] \in Nat
    BY <1>2
  <2>3. h[T] = f[Taken(T)] + h[T \ {Taken(T)}]
    BY <1>1, <1>2
  <2> QED
    BY <2>1, <2>2, <2>3
<1>3. {} \in Q
  BY <1>1
<1>0. Q \in SUBSET SUBSET S
  OBVIOUS
<1> HIDE DEF Q
<1>4. Q = SUBSET S
  BY <1>0, <1>2, <1>3, AllSubsets
<1> QED
  BY <1>4 DEF Q

\* The sum of nothing but zeros is 0.
LEMMA SumOfZeros ==
    ASSUME NEW S, IsFiniteSet(S), NEW f, DOMAIN f = S, \A x \in S : f[x] = 0
    PROVE  Sum(f) = 0
<1>1. PICK h : IsFold(h, f, S) /\ Sum(f) = h[S]
  BY SumIs
<1> DEFINE Q == {T \in SUBSET S : h[T] = 0}
<1>2. h[{}] = 0 /\ \A T \in SUBSET S : T # {} => h[T] = f[Taken(T)] + h[T \ {Taken(T)}]
  BY <1>1 DEF IsFold
<1>3. ASSUME NEW T \in SUBSET S, T # {}, T \ {Taken(T)} \in Q PROVE T \in Q
  <2>1. Taken(T) \in S
    BY <1>3 DEF Taken
  <2> QED
    BY <1>2, <1>3, <2>1
<1>4. {} \in Q
  BY <1>2
<1>0. Q \in SUBSET SUBSET S
  OBVIOUS
<1> HIDE DEF Q
<1>5. Q = SUBSET S
  BY <1>0, <1>3, <1>4, AllSubsets
<1> QED
  BY <1>1, <1>5 DEF Q

\* One more somewhere is one more in the sum.
LEMMA SumOfOneMore ==
    ASSUME NEW S, IsFiniteSet(S), NEW f \in [S -> Nat], NEW x \in S
    PROVE  Sum([f EXCEPT ![x] = @ + 1]) = Sum(f) + 1
<1> DEFINE g == [f EXCEPT ![x] = @ + 1]
<1>1. g \in [S -> Nat] /\ g[x] = f[x] + 1 /\ \A y \in S \ {x} : g[y] = f[y]
  OBVIOUS
<1> HIDE DEF g
<1>2. PICK h : IsFold(h, f, S) /\ Sum(f) = h[S]
  BY SumIs
<1>3. PICK k : IsFold(k, g, S) /\ Sum(g) = k[S]
  BY <1>1, SumIs
<1> DEFINE Q == {T \in SUBSET S : k[T] = h[T] + (IF x \in T THEN 1 ELSE 0)}
<1>4. h[{}] = 0 /\ \A T \in SUBSET S : T # {} => h[T] = f[Taken(T)] + h[T \ {Taken(T)}]
  BY <1>2 DEF IsFold
<1>5. k[{}] = 0 /\ \A T \in SUBSET S : T # {} => k[T] = g[Taken(T)] + k[T \ {Taken(T)}]
  BY <1>3 DEF IsFold
<1>6. \A T \in SUBSET S : h[T] \in Nat
  BY <1>2, FoldType
<1>7. ASSUME NEW T \in SUBSET S, T # {}, T \ {Taken(T)} \in Q PROVE T \in Q
  <2> DEFINE y == Taken(T)
             U == T \ {y}
  <2>1. y \in T /\ y \in S /\ U \in SUBSET S /\ f[y] \in Nat
    BY <1>7 DEF Taken
  <2>2. k[U] = h[U] + (IF x \in U THEN 1 ELSE 0) /\ h[U] \in Nat
    BY <1>6, <1>7, <2>1
  <2>3. h[T] = f[y] + h[U] /\ k[T] = g[y] + k[U]
    BY <1>4, <1>5, <1>7
  <2>4. CASE y = x
    <3>1. x \notin U /\ x \in T
      BY <2>1, <2>4
    <3>2. k[T] = h[T] + 1
      BY <1>1, <2>1, <2>2, <2>3, <2>4, <3>1
    <3> QED
      BY <3>1, <3>2
  <2>5. CASE y # x
    <3>1. x \in U <=> x \in T
      BY <2>5
    <3>2. k[T] = h[T] + (IF x \in T THEN 1 ELSE 0)
      BY <1>1, <2>1, <2>2, <2>3, <2>5, <3>1
    <3> QED
      BY <3>2
  <2> QED
    BY <2>4, <2>5
<1>8. {} \in Q
  BY <1>4, <1>5
<1>0. Q \in SUBSET SUBSET S
  OBVIOUS
<1> HIDE DEF Q
<1>9. Q = SUBSET S
  BY <1>0, <1>7, <1>8, AllSubsets
<1>10. k[S] = h[S] + 1
  BY <1>9 DEF Q
<1> QED
  BY <1>2, <1>3, <1>10 DEF g

-----------------------------------------------------------------------------
(* The log of answers *)

\* In a finite set with a total order, for each k one element has k - 1 before it.
Under(S, R, i) == {j \in S : <<j, i>> \in R}

LEMMA Ranks ==
    ASSUME NEW S, IsFiniteSet(S), NEW R,
           \A i \in S : <<i, i>> \notin R,
           \A i, j \in S : i = j \/ <<i, j>> \in R \/ <<j, i>> \in R,
           \A i, j, k \in S : <<i, j>> \in R /\ <<j, k>> \in R => <<i, k>> \in R
    PROVE  /\ Cardinality(S) \in Nat
           /\ \A i \in S : Cardinality(Under(S, R, i)) \in 0 .. Cardinality(S) - 1
           /\ \A i, j \in S : <<i, j>> \in R =>
                 Cardinality(Under(S, R, i)) < Cardinality(Under(S, R, j))
           /\ \A k \in 1 .. Cardinality(S) : \E i \in S : Cardinality(Under(S, R, i)) = k - 1
<1> DEFINE Before(i) == Under(S, R, i)
           n == Cardinality(S)
<1> USE DEF Under
<1>1. \A i \in S : IsFiniteSet(Before(i)) /\ Cardinality(Before(i)) \in Nat
  BY FS_Subset, FS_CardinalityType
<1>2. n \in Nat
  BY FS_CardinalityType
<1>3. ASSUME NEW i \in S, NEW T, T \subseteq S, Before(i) \cup {i} \subseteq T
      PROVE  Cardinality(Before(i)) < Cardinality(T)
  <2>1. IsFiniteSet(T) /\ Cardinality(T) \in Nat
    BY <1>3, FS_Subset, FS_CardinalityType
  <2>2. i \notin Before(i)
    OBVIOUS
  <2>3. Cardinality(Before(i) \cup {i}) = Cardinality(Before(i)) + 1
    BY <1>1, <2>2, FS_AddElement
  <2>4. Cardinality(Before(i) \cup {i}) <= Cardinality(T)
    BY <1>3, <2>1, FS_Subset
  <2> QED
    BY <1>1, <2>1, <2>3, <2>4
<1>4. ASSUME NEW i \in S PROVE Cardinality(Before(i)) \in 0 .. n - 1
  <2>1. Before(i) \cup {i} \subseteq S
    OBVIOUS
  <2>2. Cardinality(Before(i)) < n
    BY <1>3, <2>1
  <2> QED
    BY <1>1, <1>2, <2>2
<1>5. ASSUME NEW i \in S, NEW j \in S, <<i, j>> \in R
      PROVE  Cardinality(Before(i)) < Cardinality(Before(j))
  <2>1. Before(j) \subseteq S /\ Before(i) \cup {i} \subseteq Before(j)
    BY <1>5
  <2> QED
    BY <1>3, <2>1
<1> HIDE DEF Under
<1> DEFINE f == [i \in S |-> Cardinality(Before(i)) + 1]
<1>6. f \in [S -> 1 .. n]
  BY <1>2, <1>4
<1>7. ASSUME NEW i \in S, NEW j \in S, f[i] = f[j] PROVE i = j
  <2>1. Cardinality(Before(i)) = Cardinality(Before(j))
    BY <1>1, <1>7
  <2>2. <<i, j>> \notin R /\ <<j, i>> \notin R
    BY <1>1, <1>5, <2>1
  <2> QED
    BY <2>2
<1> HIDE DEF f
<1>8. f \in Injection(S, 1 .. n)
  BY <1>6, <1>7 DEF Injection, IsInjective
<1>9. IsFiniteSet(1 .. n) /\ Cardinality(1 .. n) = n
  BY <1>2, FS_Interval
<1>10. f \in Surjection(S, 1 .. n)
  BY <1>8, <1>9, FS_Injection
<1>11. ASSUME NEW k \in 1 .. n PROVE \E i \in S : Cardinality(Before(i)) = k - 1
  <2>1. PICK i \in S : f[i] = k
    BY <1>10 DEF Surjection
  <2>2. Cardinality(Before(i)) + 1 = k
    BY <2>1 DEF f
  <2> QED
    BY <1>1, <2>2
<1> QED
  BY <1>2, <1>4, <1>5, <1>11

\* Sets of ids are finite.
LEMMA IdSets ==
    ASSUME NEW log \in Seq(AnswerRow), NEW ids \in SUBSET DOMAIN log
    PROVE  IsFiniteSet(ids) /\ Cardinality(ids) \in Nat
<1>1. IsFiniteSet(1 .. Len(log)) /\ DOMAIN log = 1 .. Len(log)
  BY FS_Interval, LenProperties
<1> QED
  BY <1>1, FS_Subset, FS_CardinalityType

\* What a row holds.
LEMMA AnswerFields ==
    ASSUME quiz_answers \in Seq(AnswerRow), NEW i \in DOMAIN quiz_answers
    PROVE  /\ i \in Nat \ {0} /\ i <= Len(quiz_answers)
           /\ quiz_answers[i].answered_at \in Nat
           /\ quiz_answers[i].call \in Nat \ {0}
           /\ quiz_answers[i].nth \in Nat \ {0}
<1>1. i \in 1 .. Len(quiz_answers) /\ Len(quiz_answers) \in Nat
  BY LenProperties
<1>2. quiz_answers[i] \in AnswerRow
  BY <1>1, ElementOfSeq
<1> QED
  BY <1>1, <1>2 DEF AnswerRow

\* ORDER BY answered_at DESC, id DESC is a total order.
LEMMA NewerOrder ==
    ASSUME quiz_answers \in Seq(AnswerRow), NEW i \in DOMAIN quiz_answers,
           NEW j \in DOMAIN quiz_answers, NEW k \in DOMAIN quiz_answers
    PROVE  /\ ~Newer(i, i)
           /\ i = j \/ Newer(i, j) \/ Newer(j, i)
           /\ Newer(i, j) /\ Newer(j, k) => Newer(i, k)
<1>1. \A m \in DOMAIN quiz_answers : m \in Nat /\ quiz_answers[m].answered_at \in Nat
  BY AnswerFields
<1> QED
  BY <1>1 DEF Newer

\* The k-th of the recent mistakes has k - 1 newer than it.
LEMMA RecentFacts ==
    ASSUME quiz_answers \in Seq(AnswerRow), NEW u, NEW n \in Nat
    PROVE  LET listed == RecentMistakes(u, n)
               wrong == Wrong(u)
               before(i) == Cardinality(NewerThan(wrong, i))
           IN  /\ \A k \in DOMAIN listed : /\ k \in Nat \ {0}
                                           /\ listed[k] \in wrong /\ before(listed[k]) = k - 1
               /\ \A k \in DOMAIN listed : \A j \in 1 .. k : j \in DOMAIN listed
               /\ \A i \in wrong : before(i) \in Nat
               /\ \A i, j \in wrong : Newer(i, j) => before(i) < before(j)
<1> DEFINE wrong == Wrong(u)
           listed == RecentMistakes(u, n)
           count == Cardinality(wrong)
           R == {p \in wrong \X wrong : Newer(p[1], p[2])}
           Before(i) == Under(wrong, R, i)
<1>1. wrong \subseteq DOMAIN quiz_answers
  BY DEF Wrong
<1>2. IsFiniteSet(wrong) /\ count \in Nat
  BY <1>1, IdSets
<1> HIDE DEF wrong
<1>3. \A i, j \in wrong : <<i, j>> \in R <=> Newer(i, j)
  OBVIOUS
<1>4. \A i \in wrong : Before(i) = NewerThan(wrong, i)
  BY DEF NewerThan, Under
<1> HIDE DEF R
<1>5. /\ \A i \in wrong : <<i, i>> \notin R
      /\ \A i, j \in wrong : i = j \/ <<i, j>> \in R \/ <<j, i>> \in R
      /\ \A i, j, k \in wrong : <<i, j>> \in R /\ <<j, k>> \in R => <<i, k>> \in R
  BY <1>1, <1>3, NewerOrder
<1>6. /\ \A i \in wrong : Cardinality(Before(i)) \in 0 .. count - 1
      /\ \A i, j \in wrong : <<i, j>> \in R => Cardinality(Before(i)) < Cardinality(Before(j))
      /\ \A k \in 1 .. count : \E i \in wrong : Cardinality(Before(i)) = k - 1
  BY <1>2, <1>5, Ranks
<1>13. \A i \in wrong : Cardinality(Before(i)) \in Nat
  BY <1>2, <1>6
<1>7. /\ \A i \in wrong : Cardinality(NewerThan(wrong, i)) \in Nat
      /\ \A i, j \in wrong : Newer(i, j) =>
            Cardinality(NewerThan(wrong, i)) < Cardinality(NewerThan(wrong, j))
      /\ \A k \in 1 .. count : \E i \in wrong : Cardinality(NewerThan(wrong, i)) = k - 1
  BY <1>3, <1>4, <1>6, <1>13
<1> DEFINE length == IF count < n THEN count ELSE n
<1>8. length \in Nat /\ length <= count
  BY <1>2
<1>9. listed = [k \in 1 .. length |->
                  CHOOSE i \in wrong : Cardinality(NewerThan(wrong, i)) = k - 1]
  BY DEF RecentMistakes, wrong
<1> HIDE DEF length, listed, count
<1>10. ASSUME NEW k \in 1 .. length
       PROVE  listed[k] \in wrong /\ Cardinality(NewerThan(wrong, listed[k])) = k - 1
  <2>1. k \in 1 .. count
    BY <1>2, <1>8 DEF count
  <2>2. \E i \in wrong : Cardinality(NewerThan(wrong, i)) = k - 1
    BY <1>7, <2>1
  <2> QED
    BY <1>9, <2>2
<1>11. DOMAIN listed = 1 .. length
  BY <1>9
<1>12. \A k \in DOMAIN listed : k \in Nat \ {0} /\ \A j \in 1 .. k : j \in DOMAIN listed
  BY <1>8, <1>11
<1> QED
  BY <1>7, <1>10, <1>11, <1>12 DEF listed, wrong

\* Within one call, newer is later in the quiz.
LEMMA NewerIsLater ==
    ASSUME QInv, NEW i \in DOMAIN quiz_answers, NEW j \in DOMAIN quiz_answers,
           quiz_answers[i].call = quiz_answers[j].call
    PROVE  Newer(i, j) <=> quiz_answers[i].nth > quiz_answers[j].nth
<1>1. \A m \in DOMAIN quiz_answers : /\ m \in Nat
                                     /\ quiz_answers[m].answered_at \in Nat
                                     /\ quiz_answers[m].nth \in Nat
  BY AnswerFields DEF QInv, LogOk
<1>2. /\ i < j => /\ quiz_answers[i].nth < quiz_answers[j].nth
                  /\ quiz_answers[i].answered_at <= quiz_answers[j].answered_at
      /\ j < i => /\ quiz_answers[j].nth < quiz_answers[i].nth
                  /\ quiz_answers[j].answered_at <= quiz_answers[i].answered_at
  BY DEF QInv, LogOk, RowsAreOrdered
<1> QED
  BY <1>1, <1>2 DEF Newer

LEMMA Recent == QInv => RecentMistakesAreNewest
<1> SUFFICES ASSUME QInv, NEW u \in Users, NEW n \in Limits
             PROVE  LET listed == RecentMistakes(u, n)
                        row(k) == quiz_answers[listed[k]]
                    IN  /\ \A j, k \in DOMAIN listed :
                             j < k /\ row(j).call = row(k).call => row(j).nth > row(k).nth
                        /\ \A k \in DOMAIN listed, i \in DOMAIN quiz_answers :
                             /\ quiz_answers[i].user = u
                             /\ ~quiz_answers[i].is_correct
                             /\ quiz_answers[i].call = row(k).call
                             /\ quiz_answers[i].nth > row(k).nth
                             => i \in Range(listed)
  BY DEF RecentMistakesAreNewest
<1> DEFINE listed == RecentMistakes(u, n)
           wrong == Wrong(u)
           before(i) == Cardinality(NewerThan(wrong, i))
           row(k) == quiz_answers[listed[k]]
<1>1. quiz_answers \in Seq(AnswerRow) /\ n \in Nat
  BY LimitsAssumption DEF QInv, LogOk
<1>2. /\ \A k \in DOMAIN listed : /\ k \in Nat \ {0}
                                  /\ listed[k] \in wrong /\ before(listed[k]) = k - 1
      /\ \A k \in DOMAIN listed : \A j \in 1 .. k : j \in DOMAIN listed
      /\ \A i \in wrong : before(i) \in Nat
      /\ \A i, j \in wrong : Newer(i, j) => before(i) < before(j)
  BY <1>1, RecentFacts
<1>3. wrong \subseteq DOMAIN quiz_answers
  BY DEF Wrong
<1>4. \A i, j \in wrong : i = j \/ Newer(i, j) \/ Newer(j, i)
  BY <1>1, <1>3, NewerOrder
<1>5. \A i \in DOMAIN quiz_answers :
          quiz_answers[i].user = u /\ ~quiz_answers[i].is_correct => i \in wrong
  BY DEF Wrong
<1> HIDE DEF listed, wrong, before
<1>6. ASSUME NEW j \in DOMAIN listed, NEW k \in DOMAIN listed, j < k
      PROVE  Newer(listed[j], listed[k])
  <2>1. ~(before(listed[k]) < before(listed[j])) /\ listed[j] # listed[k]
    BY <1>2, <1>6
  <2> QED
    BY <1>2, <1>4, <2>1
<1>7. ASSUME NEW k \in DOMAIN listed, NEW i \in wrong, Newer(i, listed[k])
      PROVE  i \in Range(listed)
  <2> DEFINE m == before(i) + 1
  <2>1. m \in 1 .. k
    BY <1>2, <1>7
  <2>2. m \in DOMAIN listed
    BY <1>2, <2>1
  <2>3. listed[m] \in wrong /\ before(listed[m]) = before(i)
    BY <1>2, <2>2
  <2>4. listed[m] = i
    BY <1>2, <1>4, <2>3
  <2> QED
    BY <2>2, <2>4 DEF Range
<1>8. \A k \in DOMAIN listed : listed[k] \in DOMAIN quiz_answers /\ listed[k] \in wrong
  BY <1>2, <1>3
<1>9. \A j, k \in DOMAIN listed : j < k /\ row(j).call = row(k).call => row(j).nth > row(k).nth
  BY <1>6, <1>8, NewerIsLater
<1>10. ASSUME NEW k \in DOMAIN listed, NEW i \in DOMAIN quiz_answers,
              quiz_answers[i].user = u, ~quiz_answers[i].is_correct,
              quiz_answers[i].call = row(k).call, quiz_answers[i].nth > row(k).nth
       PROVE  i \in Range(listed)
  <2>1. i \in wrong /\ Newer(i, listed[k])
    BY <1>5, <1>8, <1>10, NewerIsLater
  <2> QED
    BY <1>7, <2>1
<1> QED
  BY <1>9, <1>10 DEF listed

-----------------------------------------------------------------------------
(* Scorings and what they log *)

\* A row is appended.
Grown(log, r, log2) == log \in Seq(AnswerRow) /\ r \in AnswerRow /\ log2 = Append(log, r)

NewId(log) == Len(log) + 1

LEMMA AppendedRow ==
    ASSUME NEW log, NEW r, NEW log2, Grown(log, r, log2)
    PROVE  /\ NewId(log) \in Nat /\ NewId(log) \notin DOMAIN log
           /\ DOMAIN log2 = DOMAIN log \cup {NewId(log)}
           /\ log2[NewId(log)] = r
<1> USE DEF NewId
<1>0. log \in Seq(AnswerRow) /\ r \in AnswerRow /\ log2 = Append(log, r)
  BY DEF Grown
<1>1. Len(log) \in Nat /\ DOMAIN log = 1 .. Len(log)
  BY <1>0, LenProperties
<1>2. /\ log2 \in Seq(AnswerRow) /\ Len(log2) = Len(log) + 1
      /\ \A i \in 1 .. Len(log) : log2[i] = log[i]
      /\ log2[Len(log) + 1] = r
  BY <1>0, AppendProperties
<1>3. DOMAIN log2 = 1 .. Len(log) + 1
  BY <1>2, LenProperties
<1> QED
  BY <1>0, <1>1, <1>2, <1>3

LEMMA GrownLog ==
    ASSUME NEW log, NEW r, NEW log2, Grown(log, r, log2)
    PROVE  log \in Seq(AnswerRow) /\ log2 \in Seq(AnswerRow) /\ r \in AnswerRow
  BY AppendProperties DEF Grown

LEMMA EarlierRows ==
    ASSUME NEW log, NEW r, NEW log2, Grown(log, r, log2), NEW i \in DOMAIN log
    PROVE  log2[i] = log[i] /\ i < NewId(log)
<1>0. log \in Seq(AnswerRow) /\ r \in AnswerRow /\ log2 = Append(log, r)
  BY DEF Grown
<1>1. Len(log) \in Nat /\ DOMAIN log = 1 .. Len(log)
  BY <1>0, LenProperties
<1> QED
  BY <1>0, <1>1, AppendProperties DEF NewId

\* A row of another call leaves what a call logged.
LEMMA OthersRow ==
    ASSUME NEW log, NEW r, NEW log2, Grown(log, r, log2),
           NEW s, s.call # r.call
    PROVE  /\ RowsOk(log, s) => RowsOk(log2, s)
           /\ TallyOk(log, s) => TallyOk(log2, s)
<1> DEFINE rows == Logged(log, s.call)
<1>1. /\ DOMAIN log2 = DOMAIN log \cup {NewId(log)}
      /\ log2[NewId(log)] = r
      /\ \A i \in DOMAIN log : log2[i] = log[i]
  BY AppendedRow, EarlierRows
<1>2. Logged(log2, s.call) = rows
  BY <1>1 DEF Logged
<1>3. \A i \in rows : log2[i] = log[i]
  BY <1>1 DEF Logged
<1> HIDE DEF rows
<1>4. {log2[i].nth : i \in rows} = {log[i].nth : i \in rows}
  BY <1>3
<1>5. RowsOk(log, s) => RowsOk(log2, s)
  BY <1>2, <1>3, <1>4 DEF RowsOk, rows
<1>6. Correct(log2, rows) = Correct(log, rows)
  BY <1>3 DEF Correct
<1>7. \A t : OfTheme(log2, Correct(log, rows), t) = OfTheme(log, Correct(log, rows), t)
  BY <1>3 DEF Correct, OfTheme
<1>8. TallyOk(log, s) => TallyOk(log2, s)
  BY <1>2, <1>6, <1>7 DEF TallyOk, rows
<1> QED
  BY <1>5, <1>8

\* The log stays in order when the row is no older than its call's and numbered after.
LEMMA LogGrows ==
    ASSUME NEW log, NEW time \in Nat, NEW begun \in Nat, LogOk(log, time, begun),
           NEW r, NEW log2, Grown(log, r, log2),
           r.answered_at <= time, r.call <= begun,
           \A i \in Logged(log, r.call) :
               log[i].nth < r.nth /\ log[i].answered_at <= r.answered_at
    PROVE  LogOk(log2, time, begun)
<1> DEFINE new == NewId(log)
<1>1. Grown(log, r, log2)
  OBVIOUS
<1>2. /\ log2 \in Seq(AnswerRow)
      /\ new \notin DOMAIN log /\ DOMAIN log2 = DOMAIN log \cup {new}
      /\ log2[new] = r
      /\ \A i \in DOMAIN log : log2[i] = log[i] /\ ~(new < i)
  <2>1. log \in Seq(AnswerRow) /\ log2 \in Seq(AnswerRow)
    BY ONLY <1>1, GrownLog
  <2>2. new \in Nat /\ new \notin DOMAIN log /\ DOMAIN log2 = DOMAIN log \cup {new}
    BY ONLY <1>1, AppendedRow
  <2>3. log2[new] = r
    BY ONLY <1>1, AppendedRow
  <2>4. ASSUME NEW i \in DOMAIN log PROVE log2[i] = log[i] /\ i < new /\ i \in Nat
    <3>1. log2[i] = log[i] /\ i < new
      BY ONLY <1>1, i \in DOMAIN log, EarlierRows
    <3>2. i \in Nat
      BY ONLY <2>1, i \in DOMAIN log, LenProperties
    <3> QED
      BY ONLY <3>1, <3>2
  <2> HIDE DEF new
  <2>5. \A i \in DOMAIN log : ~(new < i)
    BY ONLY <2>2, <2>4
  <2> QED
    BY ONLY <2>1, <2>2, <2>3, <2>4, <2>5
<1> HIDE DEF new
<1>3. \A i \in DOMAIN log2 : log2[i].answered_at <= time /\ log2[i].call <= begun
  BY <1>2 DEF LogOk
<1>4. ASSUME NEW i \in DOMAIN log2, NEW j \in DOMAIN log2, i < j, log2[i].call = log2[j].call
      PROVE  log2[i].nth < log2[j].nth /\ log2[i].answered_at <= log2[j].answered_at
  <2>1. CASE j \in DOMAIN log
    <3>1. i \in DOMAIN log
      BY <1>2, <1>4, <2>1
    <3> QED
      BY <1>2, <1>4, <2>1, <3>1 DEF LogOk, RowsAreOrdered
  <2>2. CASE j = new
    <3>1. i \in DOMAIN log
      BY <1>2, <1>4, <2>2
    <3> QED
      BY <1>2, <1>4, <2>2, <3>1 DEF Logged
  <2> QED
    BY <1>2, <2>1, <2>2
<1> QED
  BY <1>2, <1>3, <1>4 DEF LogOk, RowsAreOrdered

\* A call's own row takes the next number in the call.
LEMMA OwnRow ==
    ASSUME NEW log, NEW r, NEW log2, Grown(log, r, log2),
           NEW s, RowsOk(log, s), s.phase = "inserting",
           s.logged \in Nat, Len(s.chosen) \in Nat, s.logged < Len(s.chosen),
           r.call = s.call, r.nth = s.logged + 1, r.theme = s.quiz.themes[s.logged + 1],
           r.is_correct = s.chosen[s.logged + 1],
           NEW t, t.call = s.call, t.quiz = s.quiz, t.chosen = s.chosen,
           \/ t.phase = "failed"
           \/ t.phase = "scoring" /\ t.logged = s.logged + 1
    PROVE  RowsOk(log2, t)
<1> DEFINE rows == Logged(log, s.call)
           new == NewId(log)
<1>1. /\ new \notin DOMAIN log
      /\ DOMAIN log2 = DOMAIN log \cup {new}
      /\ log2[new] = r
      /\ \A i \in DOMAIN log : log2[i] = log[i]
  <2>1. Grown(log, r, log2)
    OBVIOUS
  <2>2. new \notin DOMAIN log /\ DOMAIN log2 = DOMAIN log \cup {new}
    BY ONLY <2>1, AppendedRow
  <2>3. log2[new] = r
    BY ONLY <2>1, AppendedRow
  <2>4. \A i \in DOMAIN log : log2[i] = log[i]
    BY ONLY <2>1, EarlierRows
  <2> QED
    BY ONLY <2>2, <2>3, <2>4
<1> HIDE DEF new
<1>2. Logged(log2, s.call) = rows \cup {new}
  BY <1>1 DEF Logged
<1>3. new \notin rows /\ \A i \in rows : log2[i] = log[i]
  BY <1>1 DEF Logged
<1>4. IsFiniteSet(rows) /\ Cardinality(rows) \in Nat
  <2>1. log \in Seq(AnswerRow) /\ rows \in SUBSET DOMAIN log
    BY GrownLog DEF Logged
  <2> QED
    BY <2>1, IdSets
<1>5. /\ {log[i].nth : i \in rows} = 1 .. Cardinality(rows)
      /\ Cardinality(rows) = s.logged
      /\ \A i \in rows : /\ log[i].nth <= Len(s.chosen)
                         /\ log[i].theme = s.quiz.themes[log[i].nth]
                         /\ log[i].is_correct = s.chosen[log[i].nth]
  BY DEF RowsOk
<1> DEFINE n == s.logged
<1>6. n \in Nat /\ r.nth = n + 1
  OBVIOUS
<1> HIDE DEF rows, n
<1>7. Cardinality(rows) = n /\ {log[i].nth : i \in rows} = 1 .. n
  BY <1>5 DEF n
<1>8. Cardinality(rows \cup {new}) = n + 1
  BY ONLY <1>3, <1>4, <1>7, FS_AddElement
<1>9. {log2[i].nth : i \in rows \cup {new}} = {log[i].nth : i \in rows} \cup {n + 1}
  BY ONLY <1>1, <1>3, <1>6
<1>10. (1 .. n) \cup {n + 1} = 1 .. n + 1
  BY ONLY <1>6
<1>11. {log2[i].nth : i \in rows \cup {new}} = 1 .. Cardinality(rows \cup {new})
  BY ONLY <1>7, <1>8, <1>9, <1>10
<1>12. ASSUME NEW i \in rows \cup {new}
       PROVE  /\ log2[i].nth <= Len(t.chosen)
              /\ log2[i].theme = t.quiz.themes[log2[i].nth]
              /\ log2[i].is_correct = t.chosen[log2[i].nth]
  <2>1. CASE i = new
    BY <1>1, <2>1 DEF n
  <2>2. CASE i \in rows
    BY <1>3, <1>5, <2>2
  <2> QED
    BY <2>1, <2>2
<1>13. Logged(log2, t.call) = rows \cup {new}
  BY <1>2
<1>14. t.phase # "failed" => Cardinality(rows \cup {new}) = t.logged
  BY <1>8 DEF n
<1>15. t.phase \notin {"refused", "inserting"}
  OBVIOUS
<1> QED
  BY ONLY <1>11, <1>12, <1>13, <1>14, <1>15 DEF RowsOk

\* And its tally counts it.
LEMMA OwnTally ==
    ASSUME NEW log, NEW r, NEW log2, Grown(log, r, log2),
           NEW s, TallyOk(log, s), s.phase = "inserting", r.call = s.call,
           NEW themes, IsFiniteSet(themes), themes = Range(s.quiz.themes), r.theme \in themes,
           s.per_theme \in [themes -> Nat],
           NEW t, t.call = s.call, t.quiz = s.quiz,
           t.per_theme = [s.per_theme EXCEPT ![r.theme] = IF r.is_correct THEN @ + 1 ELSE @]
    PROVE  TallyOk(log2, t)
<1> DEFINE rows == Logged(log, s.call)
           correct == Correct(log, rows)
           new == NewId(log)
<1>1. /\ new \notin DOMAIN log
      /\ DOMAIN log2 = DOMAIN log \cup {new}
      /\ log2[new] = r
      /\ \A i \in DOMAIN log : log2[i] = log[i]
  <2>1. Grown(log, r, log2)
    OBVIOUS
  <2>2. new \notin DOMAIN log /\ DOMAIN log2 = DOMAIN log \cup {new}
    BY ONLY <2>1, AppendedRow
  <2>3. log2[new] = r
    BY ONLY <2>1, AppendedRow
  <2>4. \A i \in DOMAIN log : log2[i] = log[i]
    BY ONLY <2>1, EarlierRows
  <2> QED
    BY ONLY <2>2, <2>3, <2>4
<1> HIDE DEF new
<1>2. Logged(log2, s.call) = rows \cup {new}
  BY <1>1 DEF Logged
<1>3. correct \subseteq DOMAIN log /\ rows \subseteq DOMAIN log
  BY DEF Logged, Correct
<1>4. /\ \A x \in themes : s.per_theme[x] = Cardinality(OfTheme(log, correct, x))
      /\ Total(s) = Cardinality(correct)
  BY DEF TallyOk
<1>0. /\ s.per_theme \in [themes -> Nat] /\ IsFiniteSet(themes) /\ r.theme \in themes
      /\ Logged(log2, t.call) = rows \cup {new}
      /\ Range(t.quiz.themes) = themes
  BY <1>2
<1>7. \A ids \in SUBSET DOMAIN log : IsFiniteSet(ids) /\ Cardinality(ids) \in Nat
  BY GrownLog, IdSets
<1>8. /\ r.is_correct => t.per_theme = [s.per_theme EXCEPT ![r.theme] = @ + 1]
      /\ ~r.is_correct => t.per_theme = s.per_theme
  OBVIOUS
<1>5. CASE r.is_correct
  <2>1. Correct(log2, rows \cup {new}) = correct \cup {new}
    BY <1>1, <1>3, <1>5 DEF Correct
  <2> HIDE DEF correct, rows
  <2>2. \A x : OfTheme(log2, correct \cup {new}, x) =
                 IF x = r.theme THEN OfTheme(log, correct, x) \cup {new}
                 ELSE OfTheme(log, correct, x)
    BY <1>1, <1>3 DEF OfTheme
  <2>3. new \notin correct /\ \A x : new \notin OfTheme(log, correct, x)
    BY <1>1, <1>3 DEF OfTheme
  <2>4. \A x : OfTheme(log, correct, x) \in SUBSET DOMAIN log
    BY <1>3 DEF OfTheme
  <2>5. Cardinality(correct \cup {new}) = Cardinality(correct) + 1
    BY ONLY <1>3, <1>7, <2>3, FS_AddElement
  <2>6. \A x : /\ Cardinality(OfTheme(log, correct, x)) \in Nat
               /\ Cardinality(OfTheme(log, correct, x) \cup {new})
                    = Cardinality(OfTheme(log, correct, x)) + 1
    BY ONLY <1>7, <2>3, <2>4, FS_AddElement
  <2>7. t.per_theme = [s.per_theme EXCEPT ![r.theme] = @ + 1]
    BY <1>5, <1>8
  <2>8. Total(t) = Total(s) + 1
    <3>1. Sum(t.per_theme) = Sum(s.per_theme) + 1
      BY ONLY <1>0, <2>7, SumOfOneMore
    <3> QED
      BY ONLY <3>1 DEF Total, Sum
  <2>9. \A x \in themes : t.per_theme[x] = Cardinality(OfTheme(log2, correct \cup {new}, x))
    <3>1. \A x \in themes : t.per_theme[x] = IF x = r.theme THEN s.per_theme[x] + 1
                                            ELSE s.per_theme[x]
      BY ONLY <1>0, <2>7
    <3> SUFFICES ASSUME NEW x \in themes
                 PROVE  t.per_theme[x] = Cardinality(OfTheme(log2, correct \cup {new}, x))
      OBVIOUS
    <3>2. s.per_theme[x] = Cardinality(OfTheme(log, correct, x))
      BY ONLY <1>4, x \in themes
    <3>3. CASE x = r.theme
      <4>1. OfTheme(log2, correct \cup {new}, x) = OfTheme(log, correct, x) \cup {new}
        BY ONLY <2>2, <3>3
      <4>2. t.per_theme[x] = s.per_theme[x] + 1
        BY ONLY <3>1, <3>3, x \in themes
      <4> QED
        BY ONLY <2>6, <3>2, <4>1, <4>2
    <3>4. CASE x # r.theme
      <4>1. OfTheme(log2, correct \cup {new}, x) = OfTheme(log, correct, x)
        BY ONLY <2>2, <3>4
      <4>2. t.per_theme[x] = s.per_theme[x]
        BY ONLY <3>1, <3>4, x \in themes
      <4> QED
        BY ONLY <3>2, <4>1, <4>2
    <3> QED
      BY ONLY <3>3, <3>4
  <2> QED
    BY ONLY <1>0, <1>4, <2>1, <2>5, <2>8, <2>9 DEF TallyOk
<1>6. CASE ~r.is_correct
  <2>1. Correct(log2, rows \cup {new}) = correct
    BY <1>1, <1>3, <1>6 DEF Correct
  <2> HIDE DEF correct, rows
  <2>2. \A x : OfTheme(log2, correct, x) = OfTheme(log, correct, x)
    BY <1>1, <1>3 DEF OfTheme
  <2>3. t.per_theme = s.per_theme
    BY <1>6, <1>8
  <2> QED
    BY ONLY <1>0, <1>4, <2>1, <2>2, <2>3 DEF TallyOk, Total
<1> QED
  BY <1>5, <1>6

\* The bounds of a call only grow.
LEMMA BoundsGrow ==
    ASSUME NEW time \in Nat, NEW begun \in Nat, NEW later \in Nat, NEW more \in Nat,
           time <= later, begun <= more
    PROVE  /\ \A s : ScoringOk(s, time, begun) => ScoringOk(s, later, more)
           /\ \A log : LogOk(log, time, begun) => LogOk(log, later, more)
<1>1. ASSUME NEW s, ScoringOk(s, time, begun) PROVE ScoringOk(s, later, more)
  <2>1. s.at \in Nat /\ s.call \in Nat /\ s.at <= time /\ s.call <= begun
    BY <1>1 DEF ScoringOk
  <2>2. s.at <= later /\ s.call <= more
    BY <2>1
  <2> QED
    BY <1>1, <2>2 DEF ScoringOk
<1>2. ASSUME NEW log, LogOk(log, time, begun) PROVE LogOk(log, later, more)
  <2>1. log \in Seq(AnswerRow)
    BY <1>2 DEF LogOk
  <2>2. ASSUME NEW i \in DOMAIN log
        PROVE  log[i].answered_at <= later /\ log[i].call <= more
    <3>1. log[i] \in AnswerRow
      BY <2>1, LenProperties, ElementOfSeq
    <3>2. log[i].answered_at \in Nat /\ log[i].call \in Nat
      BY <3>1 DEF AnswerRow
    <3>3. log[i].answered_at <= time /\ log[i].call <= begun
      BY <1>2 DEF LogOk
    <3> QED
      BY <3>2, <3>3
  <2> QED
    BY <1>2, <2>2 DEF LogOk
<1> QED
  BY <1>1, <1>2

\* A step of one caller keeps the invariant if it does for that caller and if the log
\* still holds of the others what it did.
LEMMA OneCallerKeeps ==
    ASSUME QInv, NEW c \in Scorers,
           now' \in Nat, now <= now', scorings' \in Nat, scorings <= scorings',
           LogOk(quiz_answers', now', scorings'),
           DOMAIN scoring' = Scorers,
           \A d \in Scorers \ {c} : scoring'[d] = scoring[d],
           \A d \in Scorers \ {c} : scoring'[c].call = scoring[d].call => scoring[d].call = 0,
           ScoringOk(scoring'[c], now', scorings'),
           scoring'[c].phase # "idle" =>
               RowsOk(quiz_answers', scoring'[c]) /\ TallyOk(quiz_answers', scoring'[c]),
           \A d \in Scorers \ {c} : scoring[d].phase # "idle" =>
               RowsOk(quiz_answers', scoring[d]) /\ TallyOk(quiz_answers', scoring[d])
    PROVE  QInv'
<1>1. ASSUME NEW d \in Scorers \ {c} PROVE ScoringOk(scoring'[d], now', scorings')
  BY BoundsGrow DEF QInv
<1>2. \A d, e \in Scorers :
          d # e /\ scoring'[d].call = scoring'[e].call => scoring'[d].call = 0
  BY DEF QInv
<1>3. ASSUME NEW d \in Scorers
      PROVE  /\ ScoringOk(scoring'[d], now', scorings')
             /\ scoring'[d].phase # "idle" =>
                  RowsOk(quiz_answers', scoring'[d]) /\ TallyOk(quiz_answers', scoring'[d])
  BY <1>1
<1> QED
  BY <1>2, <1>3 DEF QInv

\* A caller whose call goes on without a row.
LEMMA QuietStepKeeps ==
    ASSUME QInv, NEW c \in Scorers, UNCHANGED <<quiz_answers, now, scorings>>,
           DOMAIN scoring' = Scorers,
           \A d \in Scorers \ {c} : scoring'[d] = scoring[d],
           scoring'[c].call \in {0, scoring[c].call},
           ScoringOk(scoring'[c], now, scorings),
           scoring'[c].phase # "idle" =>
               RowsOk(quiz_answers, scoring'[c]) /\ TallyOk(quiz_answers, scoring'[c])
    PROVE  QInv'
<1>1. \A d \in Scorers \ {c} : scoring'[c].call = scoring[d].call => scoring[d].call = 0
  BY DEF QInv
<1>2. /\ now' \in Nat /\ now <= now' /\ scorings' \in Nat /\ scorings <= scorings'
      /\ LogOk(quiz_answers', now', scorings')
      /\ ScoringOk(scoring'[c], now', scorings')
  BY DEF QInv
<1>3. \A d \in Scorers \ {c} : scoring[d].phase # "idle" =>
          RowsOk(quiz_answers', scoring[d]) /\ TallyOk(quiz_answers', scoring[d])
  BY DEF QInv
<1>4. scoring'[c].phase # "idle" =>
          RowsOk(quiz_answers', scoring'[c]) /\ TallyOk(quiz_answers', scoring'[c])
  OBVIOUS
<1> QED
  BY <1>1, <1>2, <1>3, <1>4, OneCallerKeeps

\* The themes of a quiz are finitely many.
LEMMA ThemesFinite ==
    ASSUME NEW q \in Quizzes
    PROVE  /\ IsFiniteSet(Range(q.themes)) /\ q.user \in Users
           /\ Len(q.themes) \in Nat
           /\ \A i \in 1 .. Len(q.themes) : q.themes[i] \in Range(q.themes)
<1> DEFINE themes == q.themes
           T == Range(themes)
<1>1. themes \in Seq(T) /\ q.user \in Users
  BY QuizzesAssumption
<1>2. Len(themes) \in Nat /\ DOMAIN themes = 1 .. Len(themes) /\ themes \in [1 .. Len(themes) -> T]
  BY <1>1, LenProperties
<1>3. \A x \in T : \E i \in 1 .. Len(themes) : themes[i] = x
  BY <1>2 DEF Range
<1>4. themes \in Surjection(1 .. Len(themes), T)
  BY <1>2, <1>3 DEF Surjection
<1>5. IsFiniteSet(T)
  BY <1>2, <1>4, FS_Interval, FS_Surjection
<1> QED
  BY <1>1, <1>2, <1>5

LEMMA IdleCall ==
    NoScoring.phase = "idle" /\ NoScoring.call = 0 /\ ScoringOk(NoScoring, 0, 0)
<1> DEFINE q == CHOOSE q \in Quizzes : TRUE
<1>1. q \in Quizzes
  BY QuizzesAssumption
<1> HIDE DEF q
<1>2. NoScoring = Call(q, <<>>, "idle", 0)
  BY DEF NoScoring, q
<1>3. Len(<<>>) = 0 /\ <<>> \in Seq(BOOLEAN)
  OBVIOUS
<1>4. ScoringOk(Call(q, <<>>, "idle", 0), 0, 0)
  BY <1>1, <1>3 DEF Call, ScoringOk, Ended
<1> QED
  BY <1>2, <1>4 DEF Call

LEMMA ScoringInitOk == ScoringInit => QInv
<1> SUFFICES ASSUME ScoringInit PROVE QInv
  OBVIOUS
<1>1. /\ quiz_answers = <<>> /\ now = 0 /\ scorings = 0
      /\ scoring = [c \in Scorers |-> NoScoring]
  BY DEF ScoringInit
<1>2. LogOk(<<>>, 0, 0)
  BY DEF LogOk, RowsAreOrdered
<1>3. \A c \in Scorers : scoring[c] = NoScoring
  BY <1>1
<1> QED
  BY <1>1, <1>2, <1>3, IdleCall DEF QInv

LEMMA EndKeepsScoring ==
    ASSUME QInv, NEW c \in Scorers, UNCHANGED <<quiz_answers, now, scorings>>,
           scoring' = [scoring EXCEPT ![c] = NoScoring]
    PROVE  QInv'
<1>1. DOMAIN scoring = Scorers /\ now \in Nat /\ scorings \in Nat
  BY DEF QInv
<1>2. /\ DOMAIN scoring' = Scorers
      /\ \A d \in Scorers \ {c} : scoring'[d] = scoring[d]
      /\ scoring'[c] = NoScoring
  BY <1>1
<1>3. ScoringOk(NoScoring, now, scorings)
  BY <1>1, IdleCall, BoundsGrow
<1> QED
  BY <1>2, <1>3, IdleCall, QuietStepKeeps

LEMMA TickKeeps == QInv /\ Tick => QInv'
<1> SUFFICES ASSUME QInv, Tick PROVE QInv'
  OBVIOUS
<1>1. now \in Nat /\ scorings \in Nat /\ now' = now + 1
      /\ UNCHANGED <<quiz_answers, scoring, scorings>>
  BY DEF QInv, Tick
<1>2. LogOk(quiz_answers, now + 1, scorings)
  BY <1>1, BoundsGrow DEF QInv
<1>3. \A c \in Scorers : ScoringOk(scoring[c], now + 1, scorings)
  BY <1>1, BoundsGrow DEF QInv
<1> QED
  BY <1>1, <1>2, <1>3 DEF QInv

LEMMA ScoringUnchanged == QInv /\ UNCHANGED scoring_vars => QInv'
  BY DEF QInv, scoring_vars

\* A call that begins has logged nothing: its number is new.
LEMMA ScoreKeeps ==
    ASSUME QInv, NEW c \in Scorers, NEW quiz \in Quizzes, NEW chosen \in Seq(BOOLEAN),
           Score(c, quiz, chosen)
    PROVE  QInv'
<1> DEFINE ph == IF Len(chosen) = Len(quiz.themes) THEN "scoring" ELSE "refused"
           n == scorings + 1
           t == Call(quiz, chosen, ph, n)
<1>1. /\ now \in Nat /\ scorings \in Nat /\ DOMAIN scoring = Scorers
      /\ LogOk(quiz_answers, now, scorings)
  BY DEF QInv
<1>2. /\ scorings' = n /\ UNCHANGED <<quiz_answers, now>>
      /\ DOMAIN scoring' = Scorers
      /\ \A d \in Scorers \ {c} : scoring'[d] = scoring[d]
      /\ scoring'[c] = t
  BY <1>1 DEF Score
<1>3. /\ IsFiniteSet(Range(quiz.themes))
      /\ Len(chosen) \in Nat
      /\ n \in Nat \ {0} /\ scorings < n /\ 0 <= now
  BY <1>1, ThemesFinite
<1>4. /\ t.phase = ph /\ t.call = n /\ t.chosen = chosen /\ t.quiz = quiz /\ t.logged = 0
      /\ t.per_theme = [x \in Range(quiz.themes) |-> 0]
  BY DEF Call
<1>5. ScoringOk(t, now, n)
  BY <1>1, <1>3 DEF Call, ScoringOk, Ended
<1>6. Logged(quiz_answers, n) = {}
  <2>1. \A i \in DOMAIN quiz_answers : quiz_answers[i].call \in Nat /\ quiz_answers[i].call <= scorings
    BY <1>1, AnswerFields DEF LogOk
  <2> QED
    BY <1>1, <2>1 DEF Logged
<1>7. Cardinality({}) = 0
  BY FS_EmptySet
<1> HIDE DEF t, n
<1>8. RowsOk(quiz_answers, t)
  <2>1. Logged(quiz_answers, t.call) = {}
    BY <1>4, <1>6
  <2>2. {quiz_answers[i].nth : i \in {}} = 1 .. 0
    OBVIOUS
  <2> QED
    BY ONLY <1>4, <1>7, <2>1, <2>2 DEF RowsOk
<1>9. TallyOk(quiz_answers, t)
  <2>1. Logged(quiz_answers, t.call) = {}
    BY <1>4, <1>6
  <2>2. Correct(quiz_answers, {}) = {} /\ \A x : OfTheme(quiz_answers, {}, x) = {}
    BY DEF Correct, OfTheme
  <2>3. DOMAIN t.per_theme = Range(quiz.themes) /\ \A x \in Range(quiz.themes) : t.per_theme[x] = 0
    BY <1>4
  <2>4. Sum(t.per_theme) = 0
    BY ONLY <1>3, <2>3, SumOfZeros
  <2>5. Total(t) = 0
    BY ONLY <2>4 DEF Total, Sum
  <2> QED
    BY ONLY <1>4, <1>7, <2>1, <2>2, <2>3, <2>5 DEF TallyOk
<1>10. LogOk(quiz_answers, now, n)
  BY <1>1, <1>3, BoundsGrow
<1>11. \A d \in Scorers \ {c} : n = scoring[d].call => scoring[d].call = 0
  <2>1. \A d \in Scorers : scoring[d].call \in Nat /\ scoring[d].call <= scorings
    BY DEF QInv, ScoringOk
  <2> QED
    BY <1>1, <1>3, <2>1
<1>12. \A d \in Scorers \ {c} : scoring[d].phase # "idle" =>
           RowsOk(quiz_answers, scoring[d]) /\ TallyOk(quiz_answers, scoring[d])
  BY DEF QInv
<1>13. now' \in Nat /\ now <= now' /\ scorings' \in Nat /\ scorings <= scorings'
  BY <1>1, <1>2, <1>3
<1> QED
  BY <1>2, <1>4, <1>5, <1>8, <1>9, <1>10, <1>11, <1>12, <1>13, OneCallerKeeps

\* What the invariant says of one call.
LEMMA CallFacts ==
    ASSUME QInv, NEW c \in Scorers, scoring[c].phase # "idle"
    PROVE  LET s == scoring[c] IN
           /\ now \in Nat /\ scorings \in Nat /\ DOMAIN scoring = Scorers
           /\ LogOk(quiz_answers, now, scorings)
           /\ ScoringOk(s, now, scorings)
           /\ RowsOk(quiz_answers, s) /\ TallyOk(quiz_answers, s)
           /\ s.call \in Nat \ {0} /\ s.call <= scorings
           /\ s.logged \in Nat /\ Len(s.chosen) \in Nat
           /\ s.quiz \in Quizzes /\ s.chosen \in Seq(BOOLEAN)
           /\ s.at \in Nat /\ s.at <= now
           /\ \A d \in Scorers \ {c} : scoring[d].call # s.call
  BY DEF QInv, ScoringOk

LEMMA BeginInsertKeeps ==
    ASSUME QInv, NEW c \in Scorers, BeginInsert(c)
    PROVE  QInv'
<1> DEFINE s == scoring[c]
           t == [s EXCEPT !.phase = "inserting", !.at = now]
<1>1. s.phase = "scoring" /\ s.logged < Len(s.chosen)
  BY DEF BeginInsert
<1>2. /\ now \in Nat /\ scorings \in Nat /\ DOMAIN scoring = Scorers
      /\ LogOk(quiz_answers, now, scorings)
      /\ ScoringOk(s, now, scorings)
      /\ RowsOk(quiz_answers, s) /\ TallyOk(quiz_answers, s)
  BY <1>1, CallFacts
<1>3. /\ DOMAIN scoring' = Scorers
      /\ \A d \in Scorers \ {c} : scoring'[d] = scoring[d]
      /\ scoring'[c] = t /\ UNCHANGED <<quiz_answers, now, scorings>>
  BY <1>2 DEF BeginInsert
<1> HIDE DEF s
<1>4. /\ t.phase = "inserting" /\ t.at = now /\ t.call = s.call /\ t.quiz = s.quiz
      /\ t.chosen = s.chosen /\ t.logged = s.logged /\ t.per_theme = s.per_theme
      /\ ScoringOk(t, now, scorings)
  <2>1. /\ t.phase = "inserting" /\ t.at = now /\ t.call = s.call /\ t.quiz = s.quiz
        /\ t.chosen = s.chosen /\ t.logged = s.logged /\ t.per_theme = s.per_theme
    BY <1>2 DEF ScoringOk
  <2>2. t \in [phase : {"inserting"}, quiz : Quizzes, chosen : Seq(BOOLEAN), logged : Nat,
               at : Nat, per_theme : {s.per_theme}, call : Nat]
    BY <1>2 DEF ScoringOk
  <2> HIDE DEF t
  <2>3. ScoringOk(t, now, scorings)
    BY <1>1, <1>2, <2>1, <2>2 DEF ScoringOk
  <2> QED
    BY <2>1, <2>3
<1> HIDE DEF t
<1>5. RowsOk(quiz_answers, t)
  <2>1. \A i \in Logged(quiz_answers, s.call) : quiz_answers[i].answered_at <= now
    BY <1>2 DEF LogOk, Logged
  <2> QED
    BY <1>1, <1>2, <1>4, <2>1 DEF RowsOk
<1>6. TallyOk(quiz_answers, t)
  BY <1>1, <1>2, <1>4 DEF TallyOk, Total
<1> QED
  BY <1>3, <1>4, <1>5, <1>6, QuietStepKeeps DEF s

LEMMA ReturnResultKeeps ==
    ASSUME QInv, NEW c \in Scorers, ReturnResult(c)
    PROVE  QInv'
<1> DEFINE s == scoring[c]
           t == [s EXCEPT !.phase = "scored"]
<1>1. s.phase = "scoring" /\ s.logged = Len(s.chosen)
  BY DEF ReturnResult
<1>2. /\ now \in Nat /\ scorings \in Nat /\ DOMAIN scoring = Scorers
      /\ ScoringOk(s, now, scorings)
      /\ RowsOk(quiz_answers, s) /\ TallyOk(quiz_answers, s)
  BY <1>1, CallFacts
<1>3. /\ DOMAIN scoring' = Scorers
      /\ \A d \in Scorers \ {c} : scoring'[d] = scoring[d]
      /\ scoring'[c] = t /\ UNCHANGED <<quiz_answers, now, scorings>>
  BY <1>2 DEF ReturnResult
<1> HIDE DEF s
<1>4. /\ t.phase = "scored" /\ t.call = s.call /\ t.quiz = s.quiz
      /\ t.chosen = s.chosen /\ t.logged = s.logged /\ t.per_theme = s.per_theme
      /\ ScoringOk(t, now, scorings)
  BY <1>1, <1>2 DEF ScoringOk, Ended
<1> HIDE DEF t
<1>5. RowsOk(quiz_answers, t) /\ TallyOk(quiz_answers, t)
  BY <1>1, <1>2, <1>4 DEF RowsOk, TallyOk, Total
<1> QED
  BY <1>3, <1>4, <1>5, QuietStepKeeps DEF s

\* The row that a call inserts next.
NextRow(s) ==
    Row(s.quiz.user, s.quiz.themes[s.logged + 1], s.chosen[s.logged + 1], s.at, s.call, s.logged + 1)

\* An answer is logged, whatever becomes of the call then.
LEMMA InsertedKeeps ==
    ASSUME QInv, NEW c \in Scorers, scoring[c].phase = "inserting",
           quiz_answers' = Inserted(scoring[c]), UNCHANGED <<now, scorings>>,
           DOMAIN scoring' = Scorers,
           \A d \in Scorers \ {c} : scoring'[d] = scoring[d],
           \/ scoring'[c] = Raised(scoring[c])
           \/ scoring'[c] = Tallied(scoring[c])
    PROVE  QInv'
<1> DEFINE s == scoring[c]
           t == scoring'[c]
           n == s.logged
           r == NextRow(s)
           log == quiz_answers
           log2 == quiz_answers'
<1>1. /\ now \in Nat /\ scorings \in Nat /\ DOMAIN scoring = Scorers
      /\ LogOk(log, now, scorings)
      /\ ScoringOk(s, now, scorings)
      /\ RowsOk(log, s) /\ TallyOk(log, s)
      /\ s.call \in Nat \ {0} /\ s.call <= scorings
      /\ n \in Nat /\ Len(s.chosen) \in Nat
      /\ s.quiz \in Quizzes /\ s.chosen \in Seq(BOOLEAN)
      /\ s.at \in Nat /\ s.at <= now
      /\ \A d \in Scorers \ {c} : scoring[d].call # s.call
  BY CallFacts
<1>2. s.phase = "inserting" /\ n < Len(s.chosen) /\ Len(s.chosen) = Len(s.quiz.themes)
  BY <1>1 DEF ScoringOk
<1>3. /\ IsFiniteSet(Range(s.quiz.themes)) /\ s.quiz.user \in Users
      /\ s.quiz.themes[n + 1] \in Range(s.quiz.themes)
      /\ s.chosen[n + 1] \in BOOLEAN /\ n + 1 \in Nat \ {0}
  <2>1. n + 1 \in Nat \ {0} /\ n + 1 \in 1 .. Len(s.chosen)
    BY <1>1, <1>2
  <2>2. s.chosen[n + 1] \in BOOLEAN
    BY <1>1, <2>1, ElementOfSeq
  <2> QED
    BY <1>1, <1>2, <2>1, <2>2, ThemesFinite
<1>4. /\ r.call = s.call /\ r.nth = n + 1 /\ r.theme = s.quiz.themes[n + 1]
      /\ r.is_correct = s.chosen[n + 1] /\ r.answered_at = s.at /\ r \in AnswerRow
  BY <1>1, <1>3 DEF NextRow, Row, AnswerRow
<1>5. Grown(log, r, log2)
  BY <1>1, <1>4 DEF Inserted, NextRow, Grown, LogOk
<1>6. /\ t.call = s.call /\ t.quiz = s.quiz /\ t.chosen = s.chosen
      /\ \/ t.phase = "failed" /\ t.logged = n /\ t.per_theme = s.per_theme
         \/ /\ t.phase = "scoring" /\ t.logged = n + 1
            /\ t.per_theme = [s.per_theme EXCEPT ![r.theme] = IF r.is_correct THEN @ + 1 ELSE @]
      /\ ScoringOk(t, now, scorings)
  <2>0. s.per_theme \in [Range(s.quiz.themes) -> Nat]
    BY <1>1 DEF ScoringOk
  <2>1. CASE t = Raised(s)
    BY <1>1, <1>2, <2>0, <2>1 DEF Raised, ScoringOk, Ended
  <2>2. CASE t = Tallied(s)
    <3> DEFINE p == [s.per_theme EXCEPT ![r.theme] = IF r.is_correct THEN @ + 1 ELSE @]
    <3> HIDE DEF r
    <3>1. p \in [Range(s.quiz.themes) -> Nat]
      BY <1>3, <1>4, <2>0
    <3>2. t = [s EXCEPT !.phase = "scoring", !.logged = n + 1, !.per_theme = p]
      BY <1>1, <1>4, <2>2 DEF Tallied, ScoringOk
    <3>5. s \in [phase : {"inserting"}, quiz : Quizzes, chosen : Seq(BOOLEAN), logged : Nat,
                 at : Nat, per_theme : {s.per_theme}, call : Nat]
      BY <1>1, <1>2 DEF ScoringOk
    <3> HIDE DEF p, t, s, n
    <3>3. /\ t.call = s.call /\ t.quiz = s.quiz /\ t.chosen = s.chosen /\ t.at = s.at
          /\ t.phase = "scoring" /\ t.logged = n + 1 /\ t.per_theme = p
          /\ t \in [phase : {"scoring"}, quiz : Quizzes, chosen : Seq(BOOLEAN), logged : Nat,
                    at : Nat, per_theme : {t.per_theme}, call : Nat]
      BY ONLY <1>1, <1>3, <3>2, <3>5
    <3>4. ScoringOk(t, now, scorings)
      BY <1>1, <1>2, <3>1, <3>3 DEF ScoringOk
    <3> QED
      BY <3>3, <3>4 DEF p
  <2> QED
    BY <2>1, <2>2
<1> HIDE DEF s, t, r, log, log2, n
<1>7. LogOk(log2, now, scorings)
  <2>1. \A i \in Logged(log, r.call) : log[i].nth < r.nth /\ log[i].answered_at <= r.answered_at
    <3>1. /\ {log[i].nth : i \in Logged(log, s.call)} = 1 .. n
          /\ \A i \in Logged(log, s.call) : log[i].answered_at <= s.at
      BY <1>1, <1>2 DEF RowsOk, n
    <3>2. \A i \in Logged(log, s.call) : log[i].nth \in 1 .. n
      BY <3>1
    <3> QED
      BY <1>1, <1>4, <3>1, <3>2
  <2> QED
    BY <1>1, <1>4, <1>5, <2>1, LogGrows
<1>8. RowsOk(log2, t)
  BY <1>1, <1>2, <1>4, <1>5, <1>6, OwnRow DEF n
<1>9. TallyOk(log2, t)
  <2>1. CASE t.phase = "failed"
    BY <2>1 DEF TallyOk
  <2>2. CASE t.phase = "scoring"
    <3>1. s.per_theme \in [Range(s.quiz.themes) -> Nat]
      BY <1>1 DEF ScoringOk
    <3>2. r.theme \in Range(s.quiz.themes)
      BY <1>3, <1>4
    <3>3. t.per_theme = [s.per_theme EXCEPT ![r.theme] = IF r.is_correct THEN @ + 1 ELSE @]
      BY <1>6, <2>2
    <3> QED
      <4> DEFINE themes == Range(s.quiz.themes)
      <4>1. /\ Grown(log, r, log2) /\ TallyOk(log, s) /\ s.phase = "inserting"
            /\ r.call = s.call /\ t.call = s.call /\ t.quiz = s.quiz
        BY <1>1, <1>2, <1>4, <1>5, <1>6
      <4>2. /\ IsFiniteSet(themes) /\ r.theme \in themes /\ s.per_theme \in [themes -> Nat]
            /\ themes = Range(s.quiz.themes)
        BY <1>3, <3>1, <3>2
      <4> HIDE DEF themes
      <4> QED
        BY ONLY <3>3, <4>1, <4>2, OwnTally
  <2> QED
    BY <1>6, <2>1, <2>2
<1>10. ASSUME NEW d \in Scorers \ {c}, scoring[d].phase # "idle"
       PROVE  RowsOk(log2, scoring[d]) /\ TallyOk(log2, scoring[d])
  <2>1. scoring[d].call # r.call /\ RowsOk(log, scoring[d]) /\ TallyOk(log, scoring[d])
    BY <1>1, <1>4, <1>10 DEF QInv, log
  <2> QED
    BY <1>5, <2>1, OthersRow
<1>11. \A d \in Scorers \ {c} : t.call = scoring[d].call => scoring[d].call = 0
  BY <1>1, <1>6
<1> QED
  BY <1>1, <1>6, <1>7, <1>8, <1>9, <1>10, <1>11, OneCallerKeeps DEF t, log2

LEMMA LogRaisesKeeps ==
    ASSUME QInv, NEW c \in Scorers, LogRaises(c)
    PROVE  QInv'
<1> DEFINE s == scoring[c]
           t == Raised(s)
<1>1. s.phase = "inserting"
  BY DEF LogRaises
<1>2. /\ DOMAIN scoring = Scorers /\ ScoringOk(s, now, scorings)
      /\ RowsOk(quiz_answers, s) /\ now \in Nat /\ scorings \in Nat
  BY <1>1, CallFacts
<1>3. /\ DOMAIN scoring' = Scorers
      /\ \A d \in Scorers \ {c} : scoring'[d] = scoring[d]
      /\ scoring'[c] = t /\ UNCHANGED <<now, scorings>>
  BY <1>2 DEF LogRaises
<1>4. CASE quiz_answers' = Inserted(s)
  BY <1>1, <1>3, <1>4, InsertedKeeps
<1>5. CASE UNCHANGED quiz_answers
  <2> HIDE DEF s
  <2>1. /\ t.phase = "failed" /\ t.call = s.call /\ t.quiz = s.quiz
        /\ t.chosen = s.chosen /\ ScoringOk(t, now, scorings)
    BY <1>1, <1>2 DEF Raised, ScoringOk, Ended
  <2> HIDE DEF t
  <2>2. RowsOk(quiz_answers, t) /\ TallyOk(quiz_answers, t)
    BY <1>2, <2>1 DEF RowsOk, TallyOk
  <2> QED
    BY <1>3, <1>5, <2>1, <2>2, QuietStepKeeps DEF s
<1> QED
  BY <1>4, <1>5 DEF LogRaises

LEMMA ScoringKeeps ==
    ASSUME QInv, NEW c \in Scorers, Scoring(c)
    PROVE  QInv'
<1>1. CASE Insert(c)
  <2>1. DOMAIN scoring = Scorers
    BY DEF QInv
  <2>2. /\ scoring[c].phase = "inserting"
        /\ quiz_answers' = Inserted(scoring[c]) /\ UNCHANGED <<now, scorings>>
        /\ DOMAIN scoring' = Scorers
        /\ \A d \in Scorers \ {c} : scoring'[d] = scoring[d]
        /\ scoring'[c] = Tallied(scoring[c])
    BY <1>1, <2>1 DEF Insert
  <2> QED
    BY <2>2, InsertedKeeps
<1> QED
  BY <1>1, BeginInsertKeeps, LogRaisesKeeps, ReturnResultKeeps DEF Scoring

LEMMA Tallies == QInv => TalliesMatchTheLog
<1> SUFFICES ASSUME QInv, NEW c \in Scorers, scoring[c].phase # "idle"
             PROVE  LET s == scoring[c]
                        rows == Logged(quiz_answers, s.call)
                        correct == Correct(quiz_answers, rows)
                        row(i) == quiz_answers[i]
                    IN  /\ {row(i).nth : i \in rows} = 1 .. Cardinality(rows)
                        /\ \A i, j \in rows : i < j => row(i).nth < row(j).nth
                        /\ \A i \in rows : /\ row(i).theme = s.quiz.themes[row(i).nth]
                                          /\ row(i).is_correct = s.chosen[row(i).nth]
                        /\ s.phase = "scored" =>
                             /\ Cardinality(rows) = Len(s.quiz.themes)
                             /\ \A t \in Range(s.quiz.themes) :
                                  s.per_theme[t] = Cardinality(OfTheme(quiz_answers, correct, t))
                             /\ Passed(s) <=> Cardinality(correct) >= PASS_MARK
                        /\ s.phase = "refused" => rows = {}
  BY DEF TalliesMatchTheLog
<1> DEFINE s == scoring[c]
           log == quiz_answers
<1>1. LogOk(log, now, scorings) /\ ScoringOk(s, now, scorings) /\ RowsOk(log, s) /\ TallyOk(log, s)
  BY CallFacts
<1> HIDE DEF s, log
<1> DEFINE rows == Logged(log, s.call)
<1>2. \A i, j \in rows : i < j => log[i].nth < log[j].nth
  BY <1>1 DEF LogOk, RowsAreOrdered, Logged
<1>3. s.phase = "scored" =>
        /\ Cardinality(rows) = Len(s.quiz.themes)
        /\ \A t \in Range(s.quiz.themes) :
             s.per_theme[t] = Cardinality(OfTheme(log, Correct(log, rows), t))
        /\ Total(s) = Cardinality(Correct(log, rows))
  BY <1>1 DEF RowsOk, TallyOk, ScoringOk
<1>4. /\ {log[i].nth : i \in rows} = 1 .. Cardinality(rows)
      /\ \A i \in rows : /\ log[i].theme = s.quiz.themes[log[i].nth]
                        /\ log[i].is_correct = s.chosen[log[i].nth]
      /\ s.phase = "refused" => rows = {}
  BY <1>1 DEF RowsOk
<1> QED
  BY <1>2, <1>3, <1>4 DEF Passed, s, log

-----------------------------------------------------------------------------
(* The process *)

LEMMA NeededSingles == \A t \in DOMAIN Needs : Needs[t] \in Singles
BY GettersAssumption DEF Needs

LEMMA RouterKeeps ==
    ASSUME MInv, NEW c \in Callers, Suggest(c) \/ Suggesting(c)
    PROVE  MInv'
<1>0. c \in Readers /\ Mistakes \in Namespaces /\ Masteries \in Namespaces
  BY CallersAssumption, ExamAssumption
<1>1. CASE Suggest(c)
  BY <1>0, <1>1, StartListingKeeps DEF Suggest
<1>2. CASE ReadMistakes(c)
  BY <1>0, <1>2, StartListingKeeps DEF ReadMistakes
<1>3. CASE Answer(c)
  BY <1>0, <1>3, ForgetKeeps DEF Answer
<1>4. CASE ReadPage(c)
  BY <1>0, <1>4, ReadPageKeeps
<1> QED BY <1>1, <1>2, <1>3, <1>4 DEF Suggesting

\* The inductive invariant: four parts of the state, and each step moves one or two.
LEMMA InitOk == Init => IInv
  BY SingleInitOk, MemoryInitOk, RouterInitOk, ScoringInitOk DEF Init, RouterInit, IInv

\* A suggestion asks, reads and answers.
LEMMA SuggestingKeepsRouter ==
    ASSUME MInv, RInv, NEW c \in Callers, Suggest(c) \/ Suggesting(c)
    PROVE  RInv'
<1>1. c \in Readers
  BY CallersAssumption
<1> QED
  BY <1>1, SuggestKeeps, ReadMistakesKeeps, AnswerKeeps, ReadPageKeepsRouter DEF Suggesting

LEMMA NextKeeps ==
    ASSUME IInv, [Next]_vars
    PROVE  IInv'
<1>0. SIInv /\ MInv /\ RInv /\ QInv /\ Callers = Scorers /\ Callers = Readers
  BY CallersAssumption DEF IInv
<1>1. CASE UNCHANGED vars
  <2>1. UNCHANGED <<single_vars, router_vars, memory_vars, scoring_vars>>
    BY <1>1 DEF vars, router_vars
  <2> QED
    BY <1>0, <2>1, SinglesUnchanged, MemoryUnchanged, RouterUnchanged, ScoringUnchanged DEF IInv
<1>2. CASE TimePasses
  <2>1. UNCHANGED <<single_vars, router_vars, memory_vars>> /\ Tick
    BY <1>2 DEF TimePasses, memory, memory_vars, router_vars
  <2> QED
    BY <1>0, <2>1, SinglesUnchanged, MemoryUnchanged, RouterUnchanged, TickKeeps DEF IInv
<1>3. ASSUME NEW c \in Callers, Begin(c)
      PROVE  IInv'
  <2>1. SIInv'
    BY <1>0, <1>3, GetKeeps, NeededSingles DEF Begin
  <2>2. UNCHANGED <<router_vars, memory_vars, scoring_vars>>
    BY <1>3 DEF Begin, memory, memory_vars, router_vars
  <2> QED
    BY <1>0, <2>1, <2>2, MemoryUnchanged, RouterUnchanged, ScoringUnchanged DEF IInv
<1>4. ASSUME NEW c \in Callers, GettingSingle(c)
      PROVE  IInv'
  <2>1. SIInv'
    BY <1>0, <1>4, GettingKeeps DEF GettingSingle
  <2>2. UNCHANGED <<router_vars, memory_vars, scoring_vars>>
    BY <1>4 DEF GettingSingle, memory, memory_vars, router_vars
  <2> QED
    BY <1>0, <2>1, <2>2, MemoryUnchanged, RouterUnchanged, ScoringUnchanged DEF IInv
<1>5. ASSUME NEW c \in Callers, StartScoring(c) \/ KeepScoring(c)
      PROVE  IInv'
  <2>1. UNCHANGED <<single_vars, router_vars, memory_vars>>
    BY <1>5 DEF StartScoring, KeepScoring, memory, memory_vars, router_vars
  <2>2. QInv'
    BY <1>0, <1>5, ChosenAssumption, ScoreKeeps, ScoringKeeps DEF StartScoring, KeepScoring
  <2> QED
    BY <1>0, <2>1, <2>2, SinglesUnchanged, MemoryUnchanged, RouterUnchanged DEF IInv
<1>6. ASSUME NEW c \in Callers, StartSuggestion(c) \/ KeepSuggesting(c)
      PROVE  IInv'
  <2>1. UNCHANGED <<single_vars, scoring_vars>> /\ (Suggest(c) \/ Suggesting(c))
    BY <1>6 DEF StartSuggestion, KeepSuggesting
  <2> QED
    BY <1>0, <2>1, SinglesUnchanged, ScoringUnchanged, RouterKeeps, SuggestingKeepsRouter DEF IInv
<1>7. ASSUME NEW c \in Callers, PutAndEnd(c)
      PROVE  IInv'
  <2>1. SIInv'
    BY <1>0, <1>7, RestKeeps DEF PutAndEnd, Release
  <2>2. PICK p \in Puts : PutRecord(p.namespace, p.key, p.value)
    BY <1>7 DEF PutAndEnd
  <2>3. /\ p.namespace \in Namespaces /\ p.key \in Keys /\ p.value \in Values
        /\ p.value \in ValuesOf(p.namespace)
    BY PutsAssumption
  <2>4. UNCHANGED <<suggestion, scoring_vars>>
    BY <1>7 DEF PutAndEnd
  <2>5. MInv'
    BY <1>0, <2>2, <2>3, PutKeeps
  <2>6. RInv'
    BY <1>0, <2>2, <2>3, <2>4, PutKeepsRouter
  <2> QED
    BY <1>0, <2>1, <2>4, <2>5, <2>6, ScoringUnchanged DEF IInv
<1>8. ASSUME NEW c \in Callers, End(c)
      PROVE  IInv'
  <2>1. SIInv'
    BY <1>0, <1>8, RestKeeps DEF End, Release
  <2>2. /\ UNCHANGED <<records, listing, memory_vars, quiz_answers, now, scorings>>
        /\ suggestion' = [suggestion EXCEPT ![c] = NoSuggestion]
        /\ scoring' = [scoring EXCEPT ![c] = NoScoring]
    BY <1>8 DEF End, memory_vars
  <2>3. MInv'
    BY <1>0, <2>2, MemoryUnchanged
  <2>4. RInv'
    BY <1>0, <2>2, EndKeepsRouter
  <2>5. QInv'
    BY <1>0, <2>2, EndKeepsScoring
  <2> QED
    BY <2>1, <2>3, <2>4, <2>5 DEF IInv
<1> QED
  BY <1>1, <1>2, <1>3, <1>4, <1>5, <1>6, <1>7, <1>8 DEF Next, Step

\* The singletons, the memory, the router and the log keep their invariants in every
\* reachable state.
THEOREM Inductive == Spec => []IInv
<1>1. IInv /\ [Next]_vars => IInv'
  BY NextKeeps
<1> QED BY <1>1, InitOk, PTL DEF Spec

\* Nobody gets a store before its tables are complete, for any number of threads,
\* whatever raises.
THEOREM NobodyGetsUnready == Spec => []GotIsReady
<1>1. IInv => GotIsReady BY Ready DEF IInv
<1> QED BY <1>1, Inductive, PTL

\* No listing misses a record that nobody put, for any page size, number of records and
\* order of puts.
THEOREM ListingsAreComplete == Spec => []ListingMissesOnlyWhatMoved
<1>1. IInv => ListingMissesOnlyWhatMoved BY Complete DEF IInv
<1> QED BY <1>1, Inductive, PTL

\* A single stays once all calls in progress began when it was there.
THEOREM OneSingle == Spec => SettledSingletonsStay
<1> DEFINE Stays == \A s \in Singles :
         /\ single[s] # Nobody
         /\ \A c \in Callers : getter[c].phase = "idle" \/ s \in getter[c].there
         => single'[s] = single[s]
<1>1. ASSUME IInv, [Next]_vars PROVE [Stays]_single_vars
  <2> USE DEF IInv
  <2>1. CASE UNCHANGED vars BY <2>1 DEF vars
  <2>2. CASE TimePasses BY <2>2 DEF TimePasses
  <2>3. ASSUME NEW c \in Callers, Begin(c) PROVE Stays
    BY <2>3 DEF Begin, Get
  <2>4. ASSUME NEW c \in Callers, GettingSingle(c) PROVE Stays
    BY <1>1, <2>4, Settled DEF GettingSingle
  <2>5. ASSUME NEW c \in Callers, Step(c), ~GettingSingle(c) PROVE Stays
    BY <2>5 DEF Step, StartScoring, KeepScoring, StartSuggestion, KeepSuggesting, PutAndEnd,
                End, Release, single_vars
  <2> QED BY <1>1, <2>1, <2>2, <2>3, <2>4, <2>5 DEF Next, Step
<1>2. IInv /\ [Next]_vars => [Stays]_single_vars
  BY <1>1
<1> QED BY <1>2, Inductive, PTL DEF Spec, SettledSingletonsStay

\* For any exam, any records and any page size, a suggestion made while nobody puts a
\* mastery is the theme that weighs most in the exam for what is mastered of it, and of
\* themes alike in both, one with a recorded mistake or the first of the exam.
THEOREM Weakness == Spec => SuggestionIsWeakest
<1> DEFINE Is == \A c \in Readers :
         suggestion[c].phase = "masteries" /\ suggestion'[c].phase = "suggested"
           /\ listing[c].moved = {} =>
             Weakest(suggestion[c], listing[c], suggestion'[c].theme)
<1>1. ASSUME IInv, [Next]_vars PROVE [Is]_router_vars
  <2>0. MInv /\ RInv /\ Callers = Readers /\ suggestion \in [Readers -> Suggestion]
    BY <1>1, CallersAssumption DEF IInv, RInv
  <2>1. CASE UNCHANGED suggestion
    BY <2>1
  <2>2. ASSUME NEW c \in Callers, Answer(c) PROVE Is
    <3>1. ASSUME NEW d \in Readers, d # c PROVE suggestion'[d] = suggestion[d]
      BY <2>0, <2>2, <3>1 DEF Answer
    <3>2. listing[c].moved = {} => Weakest(suggestion[c], listing[c], suggestion'[c].theme)
      BY <2>0, <2>2, AnswerIsWeakest
    <3> QED
      BY <3>1, <3>2
  <2>3. ASSUME NEW c \in Callers, NEW s, suggestion' = [suggestion EXCEPT ![c] = s],
               s.phase # "suggested"
        PROVE  Is
    BY <2>0, <2>3
  <2>4. ASSUME NEW c \in Callers, Suggest(c) PROVE Is
    BY <2>3, <2>4, NoSuggestionOk DEF Suggest, Suggestion
  <2>5. ASSUME NEW c \in Callers, ReadMistakes(c) PROVE Is
    <3>1. suggestion'[c].phase = "masteries" /\ \A d \in Readers \ {c} : suggestion'[d] = suggestion[d]
      BY <2>0, <2>5 DEF ReadMistakes, Suggestion
    <3> QED
      BY <3>1
  <2>6. ASSUME NEW c \in Callers, End(c) PROVE Is
    BY <2>3, <2>6, NoSuggestionOk DEF End
  <2> QED
    BY <1>1, <2>1, <2>2, <2>4, <2>5, <2>6 DEF Next, Step, TimePasses, Begin, GettingSingle,
       StartScoring, KeepScoring, StartSuggestion, KeepSuggesting, Suggesting, PutAndEnd,
       memory, vars, router_vars
<1>2. IInv /\ [Next]_vars => [Is]_router_vars
  BY <1>1
<1> QED BY <1>2, Inductive, PTL DEF Spec, SuggestionIsWeakest

\* However many scorings log at once and whenever the log fails, the result a scoring
\* returns is what the log says, for any quizzes.
THEOREM ResultIsTheLog == Spec => []TalliesMatchTheLog
<1>1. IInv => TalliesMatchTheLog BY Tallies DEF IInv
<1> QED BY <1>1, Inductive, PTL

\* The recent mistakes of any learner list each quiz's last answers first, for any limit.
THEOREM MistakesAreRecent == Spec => []RecentMistakesAreNewest
<1>1. IInv => RecentMistakesAreNewest BY Recent DEF IInv
<1> QED BY <1>1, Inductive, PTL

=============================================================================
