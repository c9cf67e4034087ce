------------------------------- MODULE Search -------------------------------
(***************************************************************************)
(* One search_concepts call, ConceptService.search: a count, one or more   *)
(* vector scans and a read of the concepts found, each a statement of its  *)
(* own, between which other requests (and, on Postgres, other servers)     *)
(* save and delete concepts.                                               *)
(*                                                                         *)
(* Abstracted: a concept is where it is, whether it carries the tags and   *)
(* status asked for, how far its vector is from the query, and whether     *)
(* another model made it.  HNSW candidates are ranked exactly.             *)
(***************************************************************************)
EXTENDS Integers, Sequences, FiniteSets

CONSTANTS
  Ids,          \* numbers, in the order of the ids
  Namespaces,
  Searched,     \* the namespaces the call names
  Distances,    \* of vectors to the query
  Backends,     \* the stores to consider, of {"sqlite", "postgres"}
  Wanted,       \* k
  MaxFetch,     \* MAX_SEARCH_FETCH
  MaxWrites,    \* bound on saves and deletions during the search
  None

Row == [ns : Namespaces, fits : BOOLEAN, far : Distances, foreign : BOOLEAN]

(* A row of the vector index as the search sees it.                        *)
Hit == [id : Ids, far : Distances]

ASSUME SearchAssumption ==
  /\ Ids \subseteq Nat /\ Distances \subseteq Nat
  /\ Searched \subseteq Namespaces
  /\ Backends \subseteq {"sqlite", "postgres"}
  /\ Wanted \in Nat \ {0} /\ MaxFetch \in Nat \ {0} /\ MaxWrites \in Nat
  /\ None \notin Row

VARIABLES
  backend,   \* the store of this server
  rows,      \* the concepts that have a vector
  pc,        \* the statement the search sends next
  fetch,     \* the rows it asks for
  found,     \* the hits of the last scan
  results,   \* what it returns
  seen,      \* history: every hit that fitted since the search began
  touched,   \* history: the concepts written since then
  writes     \* what the bound counts

search == <<pc, fetch, found, results>>
vars == <<backend, rows, search, seen, touched, writes>>

Fits(store, i) ==
  store[i] # None /\ store[i].fits /\ store[i].ns \in Searched

HitOf(store, i) == [id |-> i, far |-> store[i].far]

Fitting(store) == {HitOf(store, i) : i \in {j \in Ids : Fits(store, j)}}

Init ==
  /\ backend \in Backends
  /\ rows \in [Ids -> Row \cup {None}]
  /\ IsFiniteSet({i \in Ids : rows[i] # None})
  /\ pc = "count" /\ fetch = 0 /\ found = {} /\ results = <<>>
  /\ seen = Fitting(rows) /\ touched = {} /\ writes = 0

-----------------------------------------------------------------------------
(* A request of another caller commits.  A concept keeps its namespace     *)
(* until it is deleted, and only another server has another model.         *)
Put(i, row) ==
  /\ pc \notin {"done", "failed"} /\ writes < MaxWrites
  /\ rows[i] # row
  /\ rows' = [rows EXCEPT ![i] = row]
  /\ seen' = seen \cup Fitting(rows')
  /\ touched' = touched \cup {i}
  /\ writes' = writes + 1
  /\ UNCHANGED <<backend, search>>

Save(i) ==
  \E row \in Row :
    /\ rows[i] # None => row.ns = rows[i].ns
    /\ row.foreign => backend = "postgres"
    /\ Put(i, row)

Delete(i) == rows[i] # None /\ Put(i, None)

-----------------------------------------------------------------------------
Least(a, b) == IF a < b THEN a ELSE b

Nearer(a, b) == a.far < b.far \/ (a.far = b.far /\ a.id < b.id)

(* What `ORDER BY distance LIMIT n` may return of `hits`: which of the     *)
(* rows at the last distance make it is the store's choice.                *)
Nearest(hits, n) ==
  {cut \in SUBSET hits :
     /\ Cardinality(cut) = Least(n, Cardinality(hits))
     /\ \A a \in cut, b \in hits \ cut : a.far <= b.far}

(* sqlite-vec scans each namespace for itself.                             *)
SqliteScans(n) ==
  LET of(ns) == Nearest({h \in Fitting(rows) : rows[h.id].ns = ns}, n)
  IN {UNION {cuts[ns] : ns \in Searched} :
        cuts \in {f \in [Searched -> UNION {of(ns) : ns \in Searched}] :
                    \A ns \in Searched : f[ns] \in of(ns)}}

(* How many of the hits come before h.                                     *)
Before(hits, h) == Cardinality({g \in hits : Nearer(g, h)})

(* ranked: nearest first, and by id among equals.                          *)
Ranked(hits) ==
  [n \in 1..Cardinality(hits) |-> CHOOSE h \in hits : Before(hits, h) = n - 1]

(* Mistake: off by one, a scan cut right after the k-th tie looks whole.   *)
TiedBeyond(hits, n) ==
  /\ Cardinality(hits) >= Wanted
  /\ Cardinality({h \in hits : h.far <= Ranked(hits)[Wanted].far}) > n

(* boundaryTied: some scan may have been cut inside the tie with the k-th. *)
BoundaryTied(hits, n) ==
  /\ Cardinality(hits) >= Wanted
  /\ Cardinality({h \in hits : h.far <= Ranked(hits)[Wanted].far}) >= n

(* Mistake: the scan is repeated as it was.                                *)
WidenedNot(n) == n

Widened(n) == Least(n * 2, MaxFetch)

(* The search looks at the rows of a scan: scans wider, or reads the       *)
(* concepts of the first k.                                                *)
Look(hits) ==
  /\ found' = hits
  /\ IF fetch < MaxFetch /\ BoundaryTied(hits, fetch)
     THEN pc' = "scan" /\ fetch' = Widened(fetch)
     ELSE pc' = (IF hits = {} THEN "done" ELSE "meta") /\ UNCHANGED fetch
  /\ UNCHANGED results

(* Mistake: one model per store is taken for granted.                      *)
CountNothing ==
  /\ pc = "count"
  /\ pc' = "scan" /\ fetch' = Least(Wanted + 1, MaxFetch)
  /\ UNCHANGED <<backend, rows, found, results, seen, touched, writes>>

(* countForeignVectors: vectors that cannot be compared fail the search.   *)
Count ==
  /\ pc = "count"
  /\ IF \E i \in Ids : rows[i] # None /\ rows[i].ns \in Searched /\ rows[i].foreign
     THEN pc' = "failed" /\ UNCHANGED fetch
     ELSE pc' = "scan" /\ fetch' = Least(Wanted + 1, MaxFetch)
  /\ UNCHANGED <<backend, rows, found, results, seen, touched, writes>>

SqliteScan ==
  /\ pc = "scan" /\ backend = "sqlite"
  /\ \E hits \in SqliteScans(fetch) : Look(hits)
  /\ UNCHANGED <<backend, rows, seen, touched, writes>>

(* An iterative HNSW scan may give up early (hnsw.max_scan_tuples).        *)
IndexScan ==
  /\ pc = "scan" /\ backend = "postgres"
  /\ \E n \in 0..fetch : \E hits \in Nearest(Fitting(rows), n) :
       IF Cardinality(hits) = fetch THEN Look(hits)
       ELSE pc' = "recount" /\ found' = hits /\ UNCHANGED <<fetch, results>>
  /\ UNCHANGED <<backend, rows, seen, touched, writes>>

(* Mistake: a short scan is taken for all there is.                        *)
RecountNot ==
  /\ pc = "recount"
  /\ Look(found)
  /\ UNCHANGED <<backend, rows, seen, touched, writes>>

(* Fewer rows than asked for: are there more?  The transaction is READ     *)
(* COMMITTED, so the count sees what was committed since.                  *)
Recount ==
  /\ pc = "recount"
  /\ IF Cardinality(Fitting(rows)) <= Cardinality(found) THEN Look(found)
     ELSE pc' = "exact" /\ UNCHANGED <<fetch, found, results>>
  /\ UNCHANGED <<backend, rows, seen, touched, writes>>

ExactScan ==
  /\ pc = "exact"
  /\ \E hits \in Nearest(Fitting(rows), fetch) : Look(hits)
  /\ UNCHANGED <<backend, rows, seen, touched, writes>>

Top == {h \in found : Before(found, h) < Wanted}

(* findConceptMeta, by id alone; concepts that are gone are left out.      *)
ReadMeta ==
  /\ pc = "meta"
  /\ LET left == Ranked({h \in Top : rows[h.id] # None})
     IN results' = [n \in DOMAIN left |-> [hit |-> left[n], ns |-> rows[left[n].id].ns]]
  /\ pc' = "done"
  /\ UNCHANGED <<backend, rows, fetch, found, seen, touched, writes>>

Step == Count \/ SqliteScan \/ IndexScan \/ Recount \/ ExactScan \/ ReadMeta

Next ==
  \/ Step
  \/ \E i \in Ids : Save(i) \/ Delete(i)

Spec == Init /\ [][Next]_vars /\ WF_vars(Step)

-----------------------------------------------------------------------------
TypeOK ==
  /\ backend \in Backends
  /\ rows \in [Ids -> Row \cup {None}]
  /\ pc \in {"count", "scan", "recount", "exact", "meta", "done", "failed"}
  /\ fetch \in 0..MaxFetch
  /\ found \subseteq Hit /\ seen \subseteq Hit
  /\ results \in Seq([hit : Hit, ns : Namespaces])
  /\ touched \subseteq Ids /\ writes \in 0..MaxWrites

(* How many concepts that fitted during the search come before `h`.        *)
Ahead(h) == Cardinality({s.id : s \in {t \in seen : Nearer(t, h)}})

(* The scans cannot go further than MAX_SEARCH_FETCH rows into a tie.      *)
Capped(h) == fetch = MaxFetch /\ Cardinality({s \in seen : s.far <= h.far}) >= MaxFetch

(* A recount that loses a concept which fitted takes a short scan for a    *)
(* whole one.                                                              *)
Lost == backend = "postgres" /\ \E s \in seen : s.id \in touched

(* A concept nobody wrote during the search is returned, unless k others   *)
(* that fitted during the search come before it (ConceptService.search     *)
(* widens until the tie at the cut is whole; a short index scan is redone).*)
NearestFound ==
  pc = "done" =>
    \A i \in Ids \ touched :
      Fits(rows, i) =>
        LET h == HitOf(rows, i)
        IN \/ \E n \in DOMAIN results : results[n].hit = h
           \/ Ahead(h) >= Wanted
           \/ Capped(h)
           \/ Lost

(* What is returned is ranked, at most k, and, of concepts nobody wrote    *)
(* meanwhile, fits what was asked and was made by this server's model.     *)
ResultsComparable ==
  /\ Len(results) <= Wanted
  /\ \A n \in DOMAIN results :
       /\ \A m \in DOMAIN results : m < n => Nearer(results[m].hit, results[n].hit)
       /\ results[n].hit.id \notin touched =>
            /\ Fits(rows, results[n].hit.id) /\ ~rows[results[n].hit.id].foreign
            /\ results[n].hit = HitOf(rows, results[n].hit.id)

(* However the store changes meanwhile, a search ends: it scans wider each *)
(* time it scans again, up to MAX_SEARCH_FETCH.                            *)
SearchEnds == <>(pc \in {"done", "failed"})
=============================================================================
