------------------------- MODULE AgentVault_proofs --------------------------
(***************************************************************************)
(* Proofs about the two AgentVault connectors.  MemorySync: what a pull    *)
(* may replace, and that the requests of the only server that pushes a     *)
(* concept bring the branch up to date.  Archival: overlapping archive     *)
(* calls never upload a version twice at once, and remember only what was  *)
(* confirmed.                                                              *)
(***************************************************************************)
EXTENDS MemorySync, Archival, TLAPS

-----------------------------------------------------------------------------
(* The inductive invariant                                                 *)

(* In one life of a concept, the version a pull found names what it found. *)
FoundNames ==
  \A p \in Pulls :
    pull[p] # None /\ pull[p].doing # None /\ pull[p].found # None =>
      LET s == pull[p].server
          i == pull[p].doing[1]
      IN  /\ pull[p].life <= life[s][i]
          /\ pull[p].life = life[s][i] /\ store[s][i] # None =>
               /\ pull[p].found.version <= store[s][i].version
               /\ pull[p].found.version = store[s][i].version => store[s][i] = pull[p].found

(* A deletion that is yet to be announced ended a life.                    *)
LivesCounted ==
  \A s \in Servers, i \in Ids :
    /\ store[s][i] # None => life[s][i] >= 1
    /\ Deleted(s, i) \in events => life[s][i] >= 1 /\ (store[s][i] = None \/ life[s][i] > 1)

(* Only s pushes concept i, and it has nothing to push or import.          *)
OnlyPusher(s, i) ==
  /\ CanPush(s) /\ store[s][i] # None /\ life[s][i] = 1
  /\ pusher[i] \in {None, s} /\ i \notin faulty
  /\ Saved(s, i) \notin events /\ Listed(s, i) \notin events
  /\ \A p \in Pulls : pull[p] # None => pull[p].server # s \/ pull[p].by # "cli"

(* What the branch will hold of i once the requests took effect in order.  *)
Reaches(i, entry) ==
  /\ \A k \in DOMAIN wire :
       wire[k].id = i /\ (\A m \in DOMAIN wire : m > k => wire[m].id # i) => wire[k].entry = entry
  /\ (\A k \in DOMAIN wire : wire[k].id # i) => branch[i] = entry

InTransit ==
  \A s \in Servers, i \in Ids : OnlyPusher(s, i) => Reaches(i, EntryOf(store[s][i]))

SyncInv == DataTyped /\ FoundNames /\ LivesCounted /\ InTransit

-----------------------------------------------------------------------------
(* Helpers                                                                 *)

(* A sequence without its element k.                                       *)
LEMMA RemoveAtIs ==
  ASSUME NEW S, NEW seq \in Seq(S), NEW k \in DOMAIN seq
  PROVE  /\ RemoveAt(seq, k) \in Seq(S)
         /\ Len(RemoveAt(seq, k)) = Len(seq) - 1
         /\ \A m \in 1 .. Len(seq) - 1 :
              RemoveAt(seq, k)[m] = IF m < k THEN seq[m] ELSE seq[m + 1]
<1> DEFINE front == SubSeq(seq, 1, k - 1)
           back == SubSeq(seq, k + 1, Len(seq))
<1>1. k \in 1 .. Len(seq)
  OBVIOUS
<1>2. front \in Seq(S) /\ Len(front) = k - 1 /\ \A m \in 1 .. k - 1 : front[m] = seq[m]
  BY <1>1
<1>3. back \in Seq(S) /\ Len(back) = Len(seq) - k
      /\ \A m \in 1 .. Len(seq) - k : back[m] = seq[k + m]
  BY <1>1
<1>4. RemoveAt(seq, k) = front \o back
  BY DEF RemoveAt
<1> HIDE DEF front, back
<1>5. RemoveAt(seq, k) \in Seq(S) /\ Len(RemoveAt(seq, k)) = Len(seq) - 1
  BY <1>1, <1>2, <1>3, <1>4
<1>6. ASSUME NEW m \in 1 .. Len(seq) - 1
      PROVE  RemoveAt(seq, k)[m] = IF m < k THEN seq[m] ELSE seq[m + 1]
  <2>1. CASE m < k
    BY <1>1, <1>2, <1>3, <1>4, <2>1
  <2>2. CASE ~(m < k)
    <3>1. (front \o back)[m] = back[m - (k - 1)]
      BY <1>1, <1>2, <1>3, <2>2
    <3>2. m - (k - 1) \in 1 .. Len(seq) - k /\ k + (m - (k - 1)) = m + 1
      BY <1>1, <2>2
    <3>3. back[m - (k - 1)] = seq[k + (m - (k - 1))]
      BY <1>3, <3>2
    <3> QED BY <1>4, <2>2, <3>1, <3>2, <3>3
  <2> QED BY <2>1, <2>2
<1> QED BY <1>5, <1>6

(* A pull that applies an entry, and the concept it is about.              *)
LEMMA PullTyped ==
  ASSUME DataTyped, NEW p \in Pulls, pull[p] # None
  PROVE  /\ pull[p] \in Pull /\ pull[p].server \in Servers
         /\ pull[p].doing # None =>
              /\ pull[p].doing[1] \in Ids /\ pull[p].doing[2] \in Entry
              /\ pull[p].found \in Row \cup {None}
BY DEF DataTyped, Pull

(* Steps that send nothing and bring no server into the place of the only  *)
(* one that pushes a concept.                                              *)
LEMMA TransitKept ==
  ASSUME InTransit, UNCHANGED <<wire, branch>>,
         \A s \in Servers, i \in Ids :
           OnlyPusher(s, i)' => OnlyPusher(s, i) /\ store'[s][i] = store[s][i]
  PROVE  InTransit'
BY DEF InTransit, Reaches, EntryOf

(* A request that is sent comes after all others.                          *)
LEMMA TransitSent ==
  ASSUME DataTyped, InTransit, NEW s \in Servers, NEW i \in Ids, NEW entry \in Entry \cup {None},
         Send(s, i, entry), UNCHANGED <<store, branch, life, pull>>,
         OnlyPusher(s, i)' => entry = EntryOf(store[s][i]),
         \A r \in Servers, j \in Ids :
           Saved(r, j) \in events \/ Listed(r, j) \in events =>
             (r = s /\ j = i) \/ Saved(r, j) \in events' \/ Listed(r, j) \in events'
  PROVE  InTransit'
<1> SUFFICES ASSUME NEW r \in Servers, NEW j \in Ids, OnlyPusher(r, j)'
             PROVE  Reaches(j, EntryOf(store[r][j]))'
  BY DEF InTransit
<1> DEFINE request == [id |-> i, entry |-> entry]
<1>1. /\ wire \in Seq(Request) /\ request \in Request /\ wire' = Append(wire, request)
      /\ Len(wire') = Len(wire) + 1 /\ wire'[Len(wire) + 1] = request
      /\ \A k \in DOMAIN wire : k \in DOMAIN wire' /\ wire'[k] = wire[k]
      /\ \A k \in DOMAIN wire' : k \in DOMAIN wire \/ k = Len(wire) + 1
      /\ \A k \in DOMAIN wire : k < Len(wire) + 1
      /\ Len(wire) + 1 \in DOMAIN wire'
  BY DEF DataTyped, Send, Request
<1>2. CASE j = i
  <2>1. r = s
    BY <1>2, SyncAssumption DEF OnlyPusher, Send, DataTyped
  <2>2. entry = EntryOf(store[r][j])
    BY <1>2, <2>1
  <2>3. ASSUME NEW k \in DOMAIN wire', \A m \in DOMAIN wire' : m > k => wire'[m].id # i
        PROVE  k = Len(wire) + 1
    BY <1>1, <2>3
  <2> QED BY <1>1, <1>2, <2>2, <2>3 DEF Reaches
<1>3. CASE j # i
  <2>1. OnlyPusher(r, j)
    BY <1>3 DEF OnlyPusher, Send, DataTyped
  <2>2. Reaches(j, EntryOf(store[r][j])) /\ EntryOf(store[r][j])' = EntryOf(store[r][j])
    BY <2>1 DEF InTransit, EntryOf
  <2>3. request.id # j
    BY <1>3
  <2> QED BY <1>1, <2>2, <2>3 DEF Reaches
<1> QED BY <1>2, <1>3

(* The requests under way without request k.                               *)
LEMMA WireWithout ==
  ASSUME wire \in Seq(Request), NEW k \in DOMAIN wire, wire' = RemoveAt(wire, k)
  PROVE  /\ Len(wire) \in Nat /\ k \in 1 .. Len(wire) /\ DOMAIN wire = 1 .. Len(wire)
         /\ DOMAIN wire' = 1 .. Len(wire) - 1
         /\ \A m \in 1 .. Len(wire) - 1 : wire'[m] = IF m < k THEN wire[m] ELSE wire[m + 1]
<1>1. Len(wire) \in Nat /\ k \in 1 .. Len(wire) /\ DOMAIN wire = 1 .. Len(wire)
  OBVIOUS
<1>2. /\ wire' \in Seq(Request) /\ Len(wire') = Len(wire) - 1
      /\ \A m \in 1 .. Len(wire) - 1 : wire'[m] = IF m < k THEN wire[m] ELSE wire[m + 1]
  BY RemoveAtIs, ZenonT(30)
<1>3. DOMAIN wire' = 1 .. Len(wire')
  BY <1>2
<1> QED BY <1>1, <1>2, <1>3, ZenonT(30)

(* The requests of other concepts keep their order.                        *)
LEMMA OthersReach ==
  ASSUME wire \in Seq(Request), NEW k \in DOMAIN wire, wire' = RemoveAt(wire, k),
         NEW i \in Ids, i # wire[k].id, branch'[i] = branch[i], NEW entry, Reaches(i, entry)
  PROVE  /\ \A n \in DOMAIN wire' :
              wire'[n].id = i /\ (\A m \in DOMAIN wire' : m > n => wire'[m].id # i)
                => wire'[n].entry = entry
         /\ (\A n \in DOMAIN wire' : wire'[n].id # i) => branch'[i] = entry
<1>1. /\ Len(wire) \in Nat /\ k \in 1 .. Len(wire) /\ DOMAIN wire = 1 .. Len(wire)
      /\ DOMAIN wire' = 1 .. Len(wire) - 1
      /\ \A m \in 1 .. Len(wire) - 1 : wire'[m] = IF m < k THEN wire[m] ELSE wire[m + 1]
  BY WireWithout
<1> DEFINE At(m) == IF m < k THEN m ELSE m - 1
<1>2. \A m \in DOMAIN wire : wire[m].id = i => At(m) \in DOMAIN wire' /\ wire'[At(m)] = wire[m]
  BY <1>1
<1>3. ASSUME NEW n \in DOMAIN wire', wire'[n].id = i,
             \A m \in DOMAIN wire' : m > n => wire'[m].id # i
      PROVE  wire'[n].entry = entry
  <2> DEFINE was == IF n < k THEN n ELSE n + 1
  <2>1. was \in DOMAIN wire /\ wire[was] = wire'[n]
    BY <1>1
  <2>2. ASSUME NEW m \in DOMAIN wire, m > was, wire[m].id = i PROVE FALSE
    <3>1. At(m) > n
      BY <1>1, <2>2
    <3> QED BY <1>2, <1>3, <2>2, <3>1
  <2> QED BY <1>3, <2>1, <2>2 DEF Reaches
<1>4. ASSUME \A n \in DOMAIN wire' : wire'[n].id # i PROVE branch'[i] = entry
  <2>1. \A m \in DOMAIN wire : wire[m].id # i
    BY <1>2, <1>4
  <2> QED BY <2>1 DEF Reaches
<1> QED BY <1>3, <1>4

LEMMA LoseKeepsTransit ==
  ASSUME DataTyped, InTransit, NEW k \in DOMAIN wire, Lose(k)
  PROVE  InTransit'
<1> SUFFICES ASSUME NEW r \in Servers, NEW j \in Ids, OnlyPusher(r, j)'
             PROVE  Reaches(j, EntryOf(store[r][j]))'
  BY DEF InTransit
<1>1. OnlyPusher(r, j) /\ j # wire[k].id
  BY DEF Lose, OnlyPusher
<1>2. Reaches(j, EntryOf(store[r][j])) /\ EntryOf(store[r][j])' = EntryOf(store[r][j])
  BY <1>1 DEF InTransit, EntryOf, Lose
<1>3. wire \in Seq(Request) /\ wire' = RemoveAt(wire, k) /\ branch'[j] = branch[j]
  BY DEF DataTyped, Lose
<1> DEFINE entry == EntryOf(store[r][j])
<1> HIDE DEF entry
<1>4. /\ \A n \in DOMAIN wire' :
           wire'[n].id = j /\ (\A m \in DOMAIN wire' : m > n => wire'[m].id # j)
             => wire'[n].entry = entry
      /\ (\A n \in DOMAIN wire' : wire'[n].id # j) => branch'[j] = entry
  <2>1. Reaches(j, entry)
    BY <1>2 DEF entry
  <2> QED BY <1>1, <1>3, <2>1, OthersReach
<1> QED BY <1>2, <1>4 DEF Reaches, entry

(* The first request of a concept takes effect: if it was the last one,    *)
(* the branch holds what it said.                                          *)
LEMMA EffectKeepsTransit ==
  ASSUME DataTyped, InTransit, NEW k \in DOMAIN wire, TakeEffect(k)
  PROVE  InTransit'
<1> SUFFICES ASSUME NEW r \in Servers, NEW j \in Ids, OnlyPusher(r, j)'
             PROVE  Reaches(j, EntryOf(store[r][j]))'
  BY DEF InTransit
<1>1. /\ wire \in Seq(Request) /\ wire' = RemoveAt(wire, k)
      /\ branch' = [branch EXCEPT ![wire[k].id] = wire[k].entry]
      /\ wire[k].id \in Ids
  <2>1. wire[k] \in Request
    BY DEF DataTyped
  <2> QED BY <2>1 DEF DataTyped, TakeEffect, Request
<1>2. OnlyPusher(r, j)
  BY DEF TakeEffect, OnlyPusher, counters
<1>3. Reaches(j, EntryOf(store[r][j])) /\ EntryOf(store[r][j])' = EntryOf(store[r][j])
  BY <1>2 DEF InTransit, EntryOf, TakeEffect
<1>4. CASE j # wire[k].id
  <2>1. branch'[j] = branch[j]
    BY <1>1, <1>4 DEF DataTyped
  <2> DEFINE entry == EntryOf(store[r][j])
  <2> HIDE DEF entry
  <2>2. /\ \A n \in DOMAIN wire' :
             wire'[n].id = j /\ (\A m \in DOMAIN wire' : m > n => wire'[m].id # j)
               => wire'[n].entry = entry
        /\ (\A n \in DOMAIN wire' : wire'[n].id # j) => branch'[j] = entry
    <3>1. Reaches(j, entry)
      BY <1>3 DEF entry
    <3> QED BY <1>1, <1>4, <2>1, <3>1, OthersReach
  <2> QED BY <1>3, <2>2 DEF Reaches, entry
<1>5. CASE j = wire[k].id
  <2>1. /\ Len(wire) \in Nat /\ k \in 1 .. Len(wire) /\ DOMAIN wire = 1 .. Len(wire)
        /\ DOMAIN wire' = 1 .. Len(wire) - 1
        /\ \A m \in 1 .. Len(wire) - 1 : wire'[m] = IF m < k THEN wire[m] ELSE wire[m + 1]
    BY <1>1, WireWithout
  <2>2. \A m \in 1 .. k - 1 : wire[m].id # j
    BY <1>5 DEF TakeEffect, OnlyPusher
  <2>3. ASSUME NEW n \in DOMAIN wire', wire'[n].id = j,
               \A m \in DOMAIN wire' : m > n => wire'[m].id # j
        PROVE  wire'[n].entry = EntryOf(store[r][j])
    <3>1. n \in 1 .. Len(wire) - 1 /\ ~(n < k) /\ wire'[n] = wire[n + 1] /\ n + 1 \in DOMAIN wire
      BY <2>1, <2>2, <2>3
    <3>2. ASSUME NEW m \in DOMAIN wire, m > n + 1, wire[m].id = j PROVE FALSE
      <4>1. m - 1 \in DOMAIN wire' /\ m - 1 > n /\ wire'[m - 1] = wire[m]
        BY <2>1, <3>1, <3>2
      <4> QED BY <2>3, <3>2, <4>1
    <3> QED BY <1>3, <2>3, <3>1, <3>2 DEF Reaches
  <2>4. ASSUME \A n \in DOMAIN wire' : wire'[n].id # j
        PROVE  branch'[j] = EntryOf(store[r][j])
    <3>1. ASSUME NEW m \in DOMAIN wire, m > k, wire[m].id = j PROVE FALSE
      <4>1. m - 1 \in DOMAIN wire' /\ wire'[m - 1] = wire[m]
        BY <2>1, <3>1
      <4> QED BY <2>4, <3>1, <4>1
    <3>2. wire[k].entry = EntryOf(store[r][j])
      BY <1>3, <1>5, <3>1 DEF Reaches
    <3> QED BY <1>1, <1>5, <3>2 DEF DataTyped
  <2> QED BY <1>3, <2>3, <2>4 DEF Reaches
<1> QED BY <1>4, <1>5

-----------------------------------------------------------------------------
(* Types                                                                   *)

(* What a save makes of a concept.                                         *)
LEMMA WriteTyped ==
  ASSUME DataTyped, NEW s \in Servers, NEW i \in Ids, NEW ns \in Namespaces, NEW text \in Texts,
         Write(s, i, ns, text)
  PROVE  /\ store' \in [Servers -> [Ids -> Row \cup {None}]]
         /\ life' \in [Servers -> [Ids -> Nat]]
         /\ store'[s][i] # None /\ store'[s][i].updated = clock
         /\ store'[s][i].version = VersionOf(store[s][i]) + 1
         /\ life'[s][i] = IF store[s][i] = None THEN life[s][i] + 1 ELSE life[s][i]
         /\ \A r \in Servers, j \in Ids :
              r # s \/ j # i => store'[r][j] = store[r][j] /\ life'[r][j] = life[r][j]
<1> DEFINE old == store[s][i]
           new == [ns |-> IF old = None THEN ns ELSE old.ns, version |-> VersionOf(old) + 1,
                   updated |-> clock, text |-> text]
<1>1. store' = [store EXCEPT ![s][i] = new]
  BY DEF Write
<1>2. old \in Row \cup {None} /\ clock \in Nat
  BY DEF DataTyped
<1>3. VersionOf(old) \in Nat
  BY <1>2 DEF VersionOf, Row
<1>4. VersionOf(old) + 1 \in Nat \ {0} /\ (IF old = None THEN ns ELSE old.ns) \in Namespaces
  BY <1>2, <1>3 DEF Row
<1>5. new \in Row
  BY <1>2, <1>4 DEF Row
<1>6. new # None
  BY <1>5, SyncAssumption
<1>7. new.updated = clock /\ new.version = VersionOf(old) + 1
  OBVIOUS
<1> HIDE DEF new
<1>8. /\ store' \in [Servers -> [Ids -> Row \cup {None}]] /\ store'[s][i] = new
      /\ \A r \in Servers, j \in Ids : r # s \/ j # i => store'[r][j] = store[r][j]
  BY <1>1, <1>5 DEF DataTyped
<1>9. /\ life' \in [Servers -> [Ids -> Nat]]
      /\ life'[s][i] = IF store[s][i] = None THEN life[s][i] + 1 ELSE life[s][i]
      /\ \A r \in Servers, j \in Ids : r # s \/ j # i => life'[r][j] = life[r][j]
  BY DEF Write, DataTyped
<1> QED BY <1>6, <1>7, <1>8, <1>9

LEMMA EntryOfTyped ==
  ASSUME NEW old \in Row
  PROVE  EntryOf(old) \in Entry
BY DEF EntryOf, Row, Entry

LEMMA SendTyped ==
  ASSUME DataTyped, NEW s \in Servers, NEW i \in Ids, NEW entry \in Entry \cup {None}, Send(s, i, entry)
  PROVE  /\ wire' \in Seq(Request) /\ pusher' \in [Ids -> Servers \cup {None}]
         /\ faulty' \subseteq Ids /\ faulty \subseteq faulty'
<1>1. [id |-> i, entry |-> entry] \in Request
  BY DEF Request
<1> QED BY <1>1 DEF Send, DataTyped

-----------------------------------------------------------------------------
(* Steps                                                                   *)

LEMMA FoundNamesKept ==
  ASSUME FoundNames, UNCHANGED <<store, life>>,
         \A p \in Pulls :
           pull'[p] # None /\ pull'[p].doing # None /\ pull'[p].found # None => pull'[p] = pull[p]
  PROVE  FoundNames'
BY DEF FoundNames

(* A save counts the version up, or begins a new life.                     *)
LEMMA FoundNamesAfterWrite ==
  ASSUME DataTyped, FoundNames, NEW s \in Servers, NEW i \in Ids,
         store' \in [Servers -> [Ids -> Row \cup {None}]], life' \in [Servers -> [Ids -> Nat]],
         \A r \in Servers, j \in Ids :
           r # s \/ j # i => store'[r][j] = store[r][j] /\ life'[r][j] = life[r][j],
         life'[s][i] >= life[s][i],
         store'[s][i] # None =>
           IF store[s][i] = None THEN life'[s][i] > life[s][i]
           ELSE store'[s][i].version > store[s][i].version /\ life'[s][i] = life[s][i],
         \A p \in Pulls :
           pull'[p] # None /\ pull'[p].doing # None /\ pull'[p].found # None => pull'[p] = pull[p]
  PROVE  FoundNames'
<1> SUFFICES ASSUME NEW p \in Pulls, pull'[p] # None, pull'[p].doing # None, pull'[p].found # None
             PROVE  LET r == pull'[p].server
                        j == pull'[p].doing[1]
                    IN  /\ pull'[p].life <= life'[r][j]
                        /\ pull'[p].life = life'[r][j] /\ store'[r][j] # None =>
                             /\ pull'[p].found.version <= store'[r][j].version
                             /\ pull'[p].found.version = store'[r][j].version
                                  => store'[r][j] = pull'[p].found
  BY DEF FoundNames
<1> DEFINE r == pull[p].server
           j == pull[p].doing[1]
           found == pull[p].found
<1>1. pull'[p] = pull[p] /\ r \in Servers /\ j \in Ids /\ found \in Row
  BY PullTyped
<1>2. /\ pull[p].life <= life[r][j]
      /\ pull[p].life = life[r][j] /\ store[r][j] # None =>
           found.version <= store[r][j].version
           /\ (found.version = store[r][j].version => store[r][j] = found)
  BY <1>1 DEF FoundNames
<1>3. CASE r # s \/ j # i
  <2>1. store'[r][j] = store[r][j] /\ life'[r][j] = life[r][j]
    BY <1>1, <1>3
  <2> QED BY <1>1, <1>2, <2>1
<1>4. CASE r = s /\ j = i
  <2>1. /\ pull[p].life \in Nat /\ life[s][i] \in Nat /\ life'[s][i] \in Nat
        /\ found.version \in Nat
        /\ store[s][i] # None => store[s][i].version \in Nat
        /\ store'[s][i] # None => store'[s][i].version \in Nat
    BY <1>1 DEF DataTyped, Pull, Row
  <2>2. pull[p].life <= life'[s][i]
    BY <1>2, <1>4, <2>1
  <2>3. ASSUME pull[p].life = life'[s][i], store'[s][i] # None
        PROVE  found.version < store'[s][i].version
    <3>1. store[s][i] # None /\ pull[p].life = life[s][i]
      BY <1>2, <1>4, <2>1, <2>3
    <3> QED BY <1>2, <1>4, <2>1, <2>3, <3>1
  <2> QED BY <1>1, <1>4, <2>1, <2>2, <2>3
<1> QED BY <1>3, <1>4

LEMMA EventsTyped ==
  ASSUME NEW s \in Servers, NEW i \in Ids
  PROVE  /\ {Saved(s, i), Listed(s, i), Deleted(s, i)}
              \subseteq [server : Servers, id : Ids, kind : {"saved", "deleted", "listed"}]
         /\ \A r \in Servers, j \in Ids :
              /\ Saved(r, j) # Deleted(s, i) /\ Listed(r, j) # Deleted(s, i)
              /\ Saved(r, j) # Listed(s, i)
              /\ Saved(r, j) = Saved(s, i) => r = s /\ j = i
              /\ Listed(r, j) = Listed(s, i) => r = s /\ j = i
              /\ Deleted(r, j) = Deleted(s, i) => r = s /\ j = i
BY DEF Saved, Listed, Deleted

LEMMA EditKeeps ==
  ASSUME SyncInv, NEW s \in Servers, NEW i \in Ids, Edit(s, i)
  PROVE  SyncInv'
<1>1. PICK text \in Texts, ns \in AllowedAt[s] : Write(s, i, ns, text)
  BY DEF Edit
<1>2. ns \in Namespaces
  BY SyncAssumption
<1>3. /\ store' \in [Servers -> [Ids -> Row \cup {None}]]
      /\ life' \in [Servers -> [Ids -> Nat]]
      /\ store'[s][i] # None /\ store'[s][i].updated = clock
      /\ store'[s][i].version = VersionOf(store[s][i]) + 1
      /\ life'[s][i] = IF store[s][i] = None THEN life[s][i] + 1 ELSE life[s][i]
      /\ \A r \in Servers, j \in Ids :
           r # s \/ j # i => store'[r][j] = store[r][j] /\ life'[r][j] = life[r][j]
  BY <1>1, <1>2, WriteTyped DEF SyncInv
<1>4. UNCHANGED <<branch, wire, pull, clock, pusher, faulty>> /\ events' = events \cup {Saved(s, i)}
  BY DEF Edit
<1>5. DataTyped'
  <2>1. events' \subseteq [server : Servers, id : Ids, kind : {"saved", "deleted", "listed"}]
    BY <1>4, EventsTyped DEF SyncInv, DataTyped
  <2>2. \A r \in Servers, j \in Ids : store'[r][j] # None => store'[r][j].updated <= clock
    <3>1. clock <= clock
      BY DEF SyncInv, DataTyped
    <3> QED BY <1>3, <3>1 DEF SyncInv, DataTyped
  <2> QED BY <1>3, <1>4, <2>1, <2>2 DEF SyncInv, DataTyped
<1>6. FoundNames'
  <2>1. /\ life[s][i] \in Nat /\ life'[s][i] >= life[s][i]
        /\ IF store[s][i] = None THEN life'[s][i] > life[s][i]
           ELSE store'[s][i].version > store[s][i].version /\ life'[s][i] = life[s][i]
    <3>1. store[s][i] \in Row \cup {None} /\ life[s][i] \in Nat
      BY DEF SyncInv, DataTyped
    <3>2. store[s][i] # None => store[s][i].version \in Nat
      BY <3>1 DEF Row
    <3>3. /\ store'[s][i].version = VersionOf(store[s][i]) + 1
          /\ life'[s][i] = IF store[s][i] = None THEN life[s][i] + 1 ELSE life[s][i]
      BY <1>3
    <3> QED BY <3>1, <3>2, <3>3 DEF VersionOf
  <2> QED BY <1>3, <1>4, <2>1, FoundNamesAfterWrite DEF SyncInv
<1>7. LivesCounted'
  <2>1. \A r \in Servers, j \in Ids : Deleted(r, j) \in events' => Deleted(r, j) \in events
    BY <1>4, EventsTyped
  <2> SUFFICES ASSUME NEW r \in Servers, NEW j \in Ids
               PROVE  /\ store'[r][j] # None => life'[r][j] >= 1
                      /\ Deleted(r, j) \in events' =>
                           life'[r][j] >= 1 /\ (store'[r][j] = None \/ life'[r][j] > 1)
    BY DEF LivesCounted, Deleted
  <2>2. /\ life[r][j] \in Nat
        /\ store[r][j] # None => life[r][j] >= 1
        /\ Deleted(r, j) \in events => life[r][j] >= 1 /\ (store[r][j] = None \/ life[r][j] > 1)
    BY DEF SyncInv, LivesCounted, DataTyped
  <2>3. CASE r # s \/ j # i
    <3>1. store'[r][j] = store[r][j] /\ life'[r][j] = life[r][j]
      BY <1>3, <2>3
    <3> QED BY <2>1, <2>2, <3>1
  <2>4. CASE r = s /\ j = i
    <3>1. life'[r][j] = IF store[r][j] = None THEN life[r][j] + 1 ELSE life[r][j]
      BY <1>3, <2>4
    <3> QED BY <2>1, <2>2, <3>1
  <2> QED BY <2>3, <2>4
<1>8. InTransit'
  <2>1. ASSUME NEW r \in Servers, NEW j \in Ids, OnlyPusher(r, j)'
        PROVE  OnlyPusher(r, j) /\ store'[r][j] = store[r][j]
    <3>1. r # s \/ j # i
      BY <1>4, <2>1 DEF OnlyPusher
    <3> QED BY <1>3, <1>4, <2>1, <3>1 DEF OnlyPusher
  <2> QED BY <1>4, <2>1, TransitKept DEF SyncInv
<1> QED BY <1>5, <1>6, <1>7, <1>8 DEF SyncInv

LEMMA DeleteKeeps ==
  ASSUME SyncInv, NEW s \in Servers, NEW i \in Ids, Delete(s, i)
  PROVE  SyncInv'
<1>1. /\ store[s][i] # None /\ store' = [store EXCEPT ![s][i] = None]
      /\ events' = events \cup {Deleted(s, i)}
      /\ UNCHANGED <<branch, wire, pull, clock, life, pusher, faulty>>
  BY DEF Delete, history
<1>2. /\ store' \in [Servers -> [Ids -> Row \cup {None}]] /\ store'[s][i] = None
      /\ \A r \in Servers, j \in Ids : r # s \/ j # i => store'[r][j] = store[r][j]
  BY <1>1 DEF SyncInv, DataTyped
<1>3. DataTyped'
  <2>1. events' \subseteq [server : Servers, id : Ids, kind : {"saved", "deleted", "listed"}]
    BY <1>1, EventsTyped DEF SyncInv, DataTyped
  <2> QED BY <1>1, <1>2, <2>1 DEF SyncInv, DataTyped
<1>4. FoundNames'
  <2>1. life[s][i] \in Nat /\ life' \in [Servers -> [Ids -> Nat]]
    BY <1>1 DEF SyncInv, DataTyped
  <2> QED BY <1>1, <1>2, <2>1, FoundNamesAfterWrite DEF SyncInv
<1>5. LivesCounted'
  <2>1. \A r \in Servers, j \in Ids :
          Deleted(r, j) \in events' => Deleted(r, j) \in events \/ (r = s /\ j = i)
    BY <1>1, EventsTyped
  <2> QED BY <1>1, <1>2, <2>1 DEF SyncInv, LivesCounted
<1>6. InTransit'
  <2>1. ASSUME NEW r \in Servers, NEW j \in Ids, OnlyPusher(r, j)'
        PROVE  OnlyPusher(r, j) /\ store'[r][j] = store[r][j]
    <3>1. r # s \/ j # i
      BY <1>2, <2>1 DEF OnlyPusher
    <3> QED BY <1>1, <1>2, <2>1, <3>1 DEF OnlyPusher
  <2> QED BY <1>1, <2>1, TransitKept DEF SyncInv
<1> QED BY <1>3, <1>4, <1>5, <1>6 DEF SyncInv

LEMMA TickKeeps ==
  ASSUME SyncInv, Tick
  PROVE  SyncInv'
<1> USE DEF SyncInv, Tick, history, counters
<1>1. DataTyped'
  <2>1. \A s \in Servers, i \in Ids : store[s][i] # None => store[s][i].updated <= clock + 1
    BY DEF DataTyped, Row
  <2> QED BY <2>1 DEF DataTyped
<1>2. FoundNames'
  BY FoundNamesKept
<1>3. LivesCounted'
  BY DEF LivesCounted
<1>4. InTransit'
  BY TransitKept DEF OnlyPusher
<1> QED BY <1>1, <1>2, <1>3, <1>4

(* A step that handles an event: of all events it removes only e.          *)
LEMMA HandleKeeps ==
  ASSUME SyncInv, NEW e \in events, events' = events \ {e},
         UNCHANGED <<store, branch, pull, clock, life>>,
         wire' \in Seq(Request), pusher' \in [Ids -> Servers \cup {None}], faulty' \subseteq Ids
  PROVE  DataTyped' /\ FoundNames' /\ LivesCounted'
<1>1. DataTyped'
  BY DEF SyncInv, DataTyped
<1>2. FoundNames'
  BY FoundNamesKept DEF SyncInv
<1>3. LivesCounted'
  BY DEF SyncInv, LivesCounted
<1> QED BY <1>1, <1>2, <1>3

LEMMA HandleSavedKeeps ==
  ASSUME SyncInv, NEW e \in events, HandleSaved(e)
  PROVE  SyncInv'
<1> DEFINE s == e.server
           i == e.id
<1>1. /\ s \in Servers /\ i \in Ids /\ e \in {Saved(s, i), Listed(s, i)}
      /\ events' = events \ {e}
      /\ UNCHANGED <<store, branch, pull, clock, life>>
  <2>1. e \in [server : Servers, id : Ids, kind : {"saved", "deleted", "listed"}]
    BY DEF SyncInv, DataTyped
  <2> QED BY <2>1 DEF HandleSaved, Saved, Listed
<1>2. \A r \in Servers, j \in Ids :
        Saved(r, j) \in events \/ Listed(r, j) \in events =>
          (r = s /\ j = i) \/ Saved(r, j) \in events' \/ Listed(r, j) \in events'
  <2>1. \A r \in Servers, j \in Ids :
          (Saved(r, j) = e => r = s /\ j = i) /\ (Listed(r, j) = e => r = s /\ j = i)
    BY DEF Saved, Listed
  <2> QED BY <1>1, <2>1
<1>3. CASE Pushes(e)
  <2>1. Send(s, i, EntryOf(store[s][i])) /\ store[s][i] # None
    BY <1>3 DEF HandleSaved, Pushes
  <2>2. EntryOf(store[s][i]) \in Entry
    BY <1>1, <2>1, EntryOfTyped DEF SyncInv, DataTyped
  <2>3. wire' \in Seq(Request) /\ pusher' \in [Ids -> Servers \cup {None}] /\ faulty' \subseteq Ids
    BY <1>1, <2>1, <2>2, SendTyped DEF SyncInv
  <2>4. InTransit'
    BY <1>1, <1>2, <2>1, <2>2, TransitSent DEF SyncInv
  <2> QED BY <1>1, <2>3, <2>4, HandleKeeps DEF SyncInv
<1>4. CASE ~Pushes(e)
  <2>1. UNCHANGED <<wire, pusher, faulty>>
    BY <1>4 DEF HandleSaved, SendNothing
  <2>2. ASSUME NEW r \in Servers, NEW j \in Ids, OnlyPusher(r, j)'
        PROVE  OnlyPusher(r, j)
    <3>1. r # s \/ j # i
      BY <1>1, <1>4, <2>2 DEF OnlyPusher, Pushes
    <3> QED BY <1>1, <1>2, <2>1, <2>2, <3>1 DEF OnlyPusher
  <2>3. InTransit'
    BY <1>1, <2>1, <2>2, TransitKept DEF SyncInv
  <2> QED BY <1>1, <2>1, <2>3, HandleKeeps DEF SyncInv, DataTyped
<1> QED BY <1>3, <1>4

(* A tombstone is only sent when the concept is not in its first life.     *)
LEMMA HandleDeletedKeeps ==
  ASSUME SyncInv, NEW e \in events, HandleDeleted(e)
  PROVE  SyncInv'
<1> DEFINE s == e.server
           i == e.id
<1>1. /\ s \in Servers /\ i \in Ids /\ e = Deleted(s, i)
      /\ events' = events \ {e}
      /\ UNCHANGED <<store, branch, pull, clock, life>>
  <2>1. e \in [server : Servers, id : Ids, kind : {"saved", "deleted", "listed"}]
    BY DEF SyncInv, DataTyped
  <2> QED BY <2>1 DEF HandleDeleted, Deleted
<1>2. \A r \in Servers, j \in Ids :
        /\ Saved(r, j) \in events => Saved(r, j) \in events'
        /\ Listed(r, j) \in events => Listed(r, j) \in events'
  <2>1. e.kind = "deleted"
    BY <1>1 DEF Deleted
  <2>2. \A r \in Servers, j \in Ids : Saved(r, j).kind = "saved" /\ Listed(r, j).kind = "listed"
    BY DEF Saved, Listed
  <2>3. \A r \in Servers, j \in Ids : Saved(r, j) # e /\ Listed(r, j) # e
    BY <2>1, <2>2
  <2> QED BY <1>1, <2>3
<1>3. CASE CanPush(s)
  <2>1. Send(s, i, None)
    BY <1>3 DEF HandleDeleted
  <2>2. ~OnlyPusher(s, i)'
    BY <1>1 DEF SyncInv, LivesCounted, OnlyPusher
  <2>3. wire' \in Seq(Request) /\ pusher' \in [Ids -> Servers \cup {None}] /\ faulty' \subseteq Ids
    BY <1>1, <2>1, SendTyped DEF SyncInv
  <2>4. InTransit'
    BY <1>1, <1>2, <2>1, <2>2, TransitSent DEF SyncInv
  <2> QED BY <1>1, <2>3, <2>4, HandleKeeps DEF SyncInv
<1>4. CASE ~CanPush(s)
  <2>1. UNCHANGED <<wire, pusher, faulty>>
    BY <1>4 DEF HandleDeleted, SendNothing
  <2>2. \A r \in Servers, j \in Ids : OnlyPusher(r, j)' => OnlyPusher(r, j)
    BY <1>1, <1>2, <2>1 DEF OnlyPusher
  <2>3. InTransit'
    BY <1>1, <2>1, <2>2, TransitKept DEF SyncInv
  <2> QED BY <1>1, <2>1, <2>3, HandleKeeps DEF SyncInv, DataTyped
<1> QED BY <1>3, <1>4

LEMMA ToolPushKeeps ==
  ASSUME SyncInv, NEW s \in Servers, NEW i \in Ids, ToolPush(s, i)
  PROVE  SyncInv'
<1>1. /\ store[s][i] # None /\ Send(s, i, EntryOf(store[s][i]))
      /\ UNCHANGED <<store, branch, events, pull, clock, life>>
  BY DEF ToolPush
<1>2. EntryOf(store[s][i]) \in Entry
  BY <1>1, EntryOfTyped DEF SyncInv, DataTyped
<1>3. wire' \in Seq(Request) /\ pusher' \in [Ids -> Servers \cup {None}] /\ faulty' \subseteq Ids
  BY <1>1, <1>2, SendTyped DEF SyncInv
<1>4. DataTyped'
  BY <1>1, <1>3 DEF SyncInv, DataTyped
<1>5. FoundNames'
  BY <1>1, FoundNamesKept DEF SyncInv
<1>6. LivesCounted'
  BY <1>1 DEF SyncInv, LivesCounted
<1>7. InTransit'
  BY <1>1, <1>2, TransitSent DEF SyncInv
<1> QED BY <1>4, <1>5, <1>6, <1>7 DEF SyncInv

LEMMA WireKeeps ==
  ASSUME SyncInv, NEW k \in DOMAIN wire, TakeEffect(k) \/ Lose(k)
  PROVE  SyncInv'
<1>1. /\ wire \in Seq(Request) /\ wire[k].id \in Ids /\ wire[k].entry \in Entry \cup {None}
      /\ wire' = RemoveAt(wire, k)
      /\ UNCHANGED <<store, events, pull, clock, life, pusher>>
  <2>1. wire[k] \in Request /\ wire \in Seq(Request)
    BY DEF SyncInv, DataTyped
  <2> QED BY <2>1 DEF TakeEffect, Lose, Request
<1>2. wire' \in Seq(Request)
  BY <1>1, RemoveAtIs
<1>3. faulty' \subseteq Ids /\ branch' \in [Ids -> Entry \cup {None}]
  BY <1>1 DEF SyncInv, DataTyped, TakeEffect, Lose
<1>4. DataTyped'
  BY <1>1, <1>2, <1>3 DEF SyncInv, DataTyped
<1>5. FoundNames'
  BY <1>1, FoundNamesKept DEF SyncInv
<1>6. LivesCounted'
  BY <1>1 DEF SyncInv, LivesCounted
<1> QED BY <1>4, <1>5, <1>6, LoseKeepsTransit, EffectKeepsTransit DEF SyncInv

(* Steps of a pull that leave the stores and events alone.                 *)
LEMMA PullKeeps ==
  ASSUME SyncInv, NEW p \in Pulls, NEW q \in Pull, pull' = [pull EXCEPT ![p] = q],
         q.doing = None => q.found = None,
         pull[p] # None => q.server = pull[p].server /\ q.by = pull[p].by,
         UNCHANGED <<store, branch, events, wire, clock, history>>
  PROVE  DataTyped' /\ LivesCounted' /\ InTransit'
<1> USE DEF SyncInv, history
<1>0. q # None
  BY SyncAssumption
<1>1. /\ pull' \in [Pulls -> Pull \cup {None}] /\ pull'[p] = q
      /\ \A o \in Pulls : o # p => pull'[o] = pull[o]
  BY DEF DataTyped
<1>2. DataTyped'
  BY <1>1 DEF DataTyped
<1>3. LivesCounted'
  BY DEF LivesCounted
<1>4. InTransit'
  <2>1. ASSUME NEW s \in Servers, NEW i \in Ids, OnlyPusher(s, i)'
        PROVE  OnlyPusher(s, i)
    <3>1. \A o \in Pulls : pull[o] # None => pull[o].server # s \/ pull[o].by # "cli"
      BY <1>0, <1>1, <2>1 DEF OnlyPusher
    <3> QED BY <2>1, <3>1 DEF OnlyPusher
  <2> QED BY <2>1, TransitKept
<1> QED BY <1>2, <1>3, <1>4

LEMMA BeginPullKeeps ==
  ASSUME SyncInv, NEW p \in Pulls, NEW s \in Servers, NEW by \in {"bridge", "tool", "cli"}, NEW target,
         BeginPull(p, by, s, target)
  PROVE  SyncInv'
<1> DEFINE q == [by |-> by, server |-> s, left |-> Entries(s, target),
                 doing |-> None, found |-> None, life |-> 0]
<1>1. Entries(s, target) \subseteq Ids \X Entry
  BY DEF Entries, SyncInv, DataTyped
<1>2. q \in Pull /\ q.doing = None /\ q.found = None
  BY <1>1 DEF Pull
<1>3. pull[p] = None /\ pull' = [pull EXCEPT ![p] = q]
      /\ UNCHANGED <<store, branch, events, wire, clock, history>>
  BY DEF BeginPull
<1>4. FoundNames'
  <2>1. \A o \in Pulls : pull'[o] # None /\ pull'[o].doing # None => pull'[o] = pull[o]
    BY <1>2, <1>3 DEF SyncInv, DataTyped
  <2> QED BY <1>3, <2>1, FoundNamesKept DEF SyncInv, history
<1> HIDE DEF q
<1>5. DataTyped' /\ LivesCounted' /\ InTransit'
  BY <1>2, <1>3, PullKeeps
<1> QED BY <1>4, <1>5 DEF SyncInv

LEMMA ReadExistingKeeps ==
  ASSUME SyncInv, NEW p \in Pulls, ReadExisting(p)
  PROVE  SyncInv'
<1> DEFINE s == pull[p].server
<1>1. pull[p] \in Pull /\ s \in Servers
  BY PullTyped DEF ReadExisting, SyncInv
<1>a. PICK x \in pull[p].left :
        \E found \in {store[s][x[1]], None} :
          pull' = [pull EXCEPT ![p] = Applying(pull[p], x, found)]
  BY DEF ReadExisting
<1>2. PICK found \in {store[s][x[1]], None} :
        pull' = [pull EXCEPT ![p] = Applying(pull[p], x, found)]
  BY <1>a
<1>3. x \in Ids \X Entry /\ x[1] \in Ids
  BY <1>1 DEF Pull
<1>4. store[s][x[1]] \in Row \cup {None} /\ life[s][x[1]] \in Nat
  BY <1>1, <1>3 DEF SyncInv, DataTyped
<1> DEFINE q == Applying(pull[p], x, found)
<1>5. /\ q.doing = x /\ q.found = found /\ q.server = s /\ q.by = pull[p].by
      /\ q.life = life[s][x[1]]
      /\ q \in Pull
  BY <1>1, <1>2, <1>3, <1>4 DEF Applying, Pull
<1>6. x # None
  BY <1>3, SyncAssumption
<1>7. UNCHANGED <<store, branch, events, wire, clock, history>>
  BY DEF ReadExisting
<1> HIDE DEF q
<1>8. pull' = [pull EXCEPT ![p] = q]
  BY <1>2 DEF q
<1>9. FoundNames'
  <2>1. pull'[p] = q /\ \A o \in Pulls : o # p => pull'[o] = pull[o]
    BY <1>8 DEF SyncInv, DataTyped
  <2> SUFFICES ASSUME NEW o \in Pulls, pull'[o] # None, pull'[o].doing # None, pull'[o].found # None
               PROVE  LET r == pull'[o].server
                          j == pull'[o].doing[1]
                      IN  /\ pull'[o].life <= life'[r][j]
                          /\ pull'[o].life = life'[r][j] /\ store'[r][j] # None =>
                               /\ pull'[o].found.version <= store'[r][j].version
                               /\ pull'[o].found.version = store'[r][j].version
                                    => store'[r][j] = pull'[o].found
    BY DEF FoundNames
  <2>2. CASE o = p
    <3>1. found = store[s][x[1]] /\ found \in Row
      BY <1>2, <1>4, <1>5, <2>1, <2>2
    <3>2. found.version \in Nat
      BY <3>1 DEF Row
    <3>3. store' = store /\ life' = life
      BY <1>7 DEF history
    <3> QED BY <1>4, <1>5, <2>1, <2>2, <3>1, <3>2, <3>3
  <2>3. CASE o # p
    BY <1>7, <2>1, <2>3 DEF SyncInv, FoundNames, history
  <2> QED BY <2>2, <2>3
<1>10. DataTyped' /\ LivesCounted' /\ InTransit'
  BY <1>1, <1>5, <1>6, <1>7, <1>8, PullKeeps
<1> QED BY <1>9, <1>10 DEF SyncInv

(* What is left of a pull when an entry is done.                           *)
LEMMA DoneTyped ==
  ASSUME NEW q \in Pull
  PROVE  /\ Done(q) \in Pull /\ Done(q).doing = None /\ Done(q).found = None
         /\ Done(q).server = q.server /\ Done(q).by = q.by
BY DEF Done, Pull

LEMMA SkipKeeps ==
  ASSUME SyncInv, NEW p \in Pulls, Skip(p)
  PROVE  SyncInv'
<1>1. pull[p] \in Pull /\ pull' = [pull EXCEPT ![p] = Done(pull[p])]
      /\ UNCHANGED <<store, branch, events, wire, clock, history>>
  BY PullTyped DEF Skip, SyncInv
<1>2. FoundNames'
  <2>1. \A o \in Pulls : pull'[o] # None /\ pull'[o].doing # None => pull'[o] = pull[o]
    BY <1>1, DoneTyped DEF SyncInv, DataTyped
  <2> QED BY <1>1, <2>1, FoundNamesKept DEF SyncInv, history
<1>3. DataTyped' /\ LivesCounted' /\ InTransit'
  BY <1>1, DoneTyped, PullKeeps
<1> QED BY <1>2, <1>3 DEF SyncInv

LEMMA ImportKeeps ==
  ASSUME SyncInv, NEW p \in Pulls, Import(p)
  PROVE  SyncInv'
<1> DEFINE s == pull[p].server
           i == pull[p].doing[1]
<1>1. /\ pull[p] \in Pull /\ s \in Servers /\ i \in Ids
      /\ pull[p].doing[2].ns \in Namespaces /\ pull[p].doing[2].text \in Texts
  <2>1. pull[p] # None /\ pull[p].doing # None
    BY DEF Import
  <2>2. pull[p] \in Pull /\ s \in Servers /\ i \in Ids /\ pull[p].doing[2] \in Entry
    BY <2>1, PullTyped DEF SyncInv
  <2> QED BY <2>2 DEF Entry
<1>2. /\ Write(s, i, pull[p].doing[2].ns, pull[p].doing[2].text)
      /\ events' = IF pull[p].by = "cli" THEN events ELSE events \cup {Saved(s, i)}
      /\ pull' = [pull EXCEPT ![p] = Done(pull[p])]
      /\ UNCHANGED <<branch, wire, clock, pusher, faulty>>
  BY DEF Import
<1>3. /\ store' \in [Servers -> [Ids -> Row \cup {None}]]
      /\ life' \in [Servers -> [Ids -> Nat]]
      /\ store'[s][i] # None /\ store'[s][i].updated = clock
      /\ store'[s][i].version = VersionOf(store[s][i]) + 1
      /\ life'[s][i] = IF store[s][i] = None THEN life[s][i] + 1 ELSE life[s][i]
      /\ \A r \in Servers, j \in Ids :
           r # s \/ j # i => store'[r][j] = store[r][j] /\ life'[r][j] = life[r][j]
  BY <1>1, <1>2, WriteTyped DEF SyncInv
<1> DEFINE q == Done(pull[p])
<1>4. /\ q \in Pull /\ q # None /\ q.doing = None /\ q.found = None
      /\ q.server = s /\ q.by = pull[p].by
  BY <1>1, DoneTyped, SyncAssumption
<1> HIDE DEF q
<1>5. /\ pull' \in [Pulls -> Pull \cup {None}] /\ pull'[p] = q
      /\ \A o \in Pulls : o # p => pull'[o] = pull[o]
  BY <1>2, <1>4 DEF SyncInv, DataTyped, q
<1>6. DataTyped'
  <2>1. events' \subseteq [server : Servers, id : Ids, kind : {"saved", "deleted", "listed"}]
    BY <1>1, <1>2, EventsTyped DEF SyncInv, DataTyped
  <2>2. \A r \in Servers, j \in Ids : store'[r][j] # None => store'[r][j].updated <= clock
    <3>1. clock <= clock
      BY DEF SyncInv, DataTyped
    <3> QED BY <1>3, <3>1 DEF SyncInv, DataTyped
  <2>3. \A o \in Pulls : pull'[o] # None /\ pull'[o].doing = None => pull'[o].found = None
    BY <1>4, <1>5 DEF SyncInv, DataTyped
  <2> QED BY <1>2, <1>3, <1>5, <2>1, <2>2, <2>3 DEF SyncInv, DataTyped
<1>7. FoundNames'
  <2>1. /\ life[s][i] \in Nat /\ life'[s][i] >= life[s][i]
        /\ IF store[s][i] = None THEN life'[s][i] > life[s][i]
           ELSE store'[s][i].version > store[s][i].version /\ life'[s][i] = life[s][i]
    <3>1. store[s][i] \in Row \cup {None} /\ life[s][i] \in Nat
      BY <1>1 DEF SyncInv, DataTyped
    <3>2. store[s][i] # None => store[s][i].version \in Nat
      BY <3>1 DEF Row
    <3>3. /\ store'[s][i].version = VersionOf(store[s][i]) + 1
          /\ life'[s][i] = IF store[s][i] = None THEN life[s][i] + 1 ELSE life[s][i]
      BY <1>3
    <3>4. CASE store[s][i] = None
      <4>1. life'[s][i] = life[s][i] + 1
        BY <3>3, <3>4
      <4> QED BY <3>1, <3>4, <4>1
    <3>5. CASE store[s][i] # None
      <4>1. VersionOf(store[s][i]) = store[s][i].version /\ life'[s][i] = life[s][i]
        BY <3>3, <3>5 DEF VersionOf
      <4>2. store'[s][i].version = store[s][i].version + 1
        BY <3>3, <4>1
      <4>3. store'[s][i].version > store[s][i].version
        BY <3>2, <3>5, <4>2
      <4>4. life'[s][i] >= life[s][i]
        BY <3>1, <4>1
      <4> QED BY <3>1, <3>5, <4>1, <4>3, <4>4
    <3> QED BY <3>4, <3>5
  <2>2. \A o \in Pulls : pull'[o] # None /\ pull'[o].doing # None => pull'[o] = pull[o]
    BY <1>4, <1>5
  <2> QED BY <1>1, <1>3, <2>1, <2>2, FoundNamesAfterWrite DEF SyncInv
<1>8. LivesCounted'
  <2>1. \A r \in Servers, j \in Ids : Deleted(r, j) \in events' => Deleted(r, j) \in events
    <3>1. \A r \in Servers, j \in Ids : Deleted(r, j) # Saved(s, i)
      BY DEF Saved, Deleted
    <3> QED BY <1>2, <3>1
  <2> SUFFICES ASSUME NEW r \in Servers, NEW j \in Ids
               PROVE  /\ store'[r][j] # None => life'[r][j] >= 1
                      /\ Deleted(r, j) \in events' =>
                           life'[r][j] >= 1 /\ (store'[r][j] = None \/ life'[r][j] > 1)
    BY DEF LivesCounted, Deleted
  <2>2. /\ life[r][j] \in Nat
        /\ store[r][j] # None => life[r][j] >= 1
        /\ Deleted(r, j) \in events => life[r][j] >= 1 /\ (store[r][j] = None \/ life[r][j] > 1)
    BY DEF SyncInv, LivesCounted, DataTyped
  <2>3. CASE r # s \/ j # i
    <3>1. store'[r][j] = store[r][j] /\ life'[r][j] = life[r][j]
      BY <1>3, <2>3
    <3> QED BY <2>1, <2>2, <3>1
  <2>4. CASE r = s /\ j = i
    <3>1. life'[r][j] = IF store[r][j] = None THEN life[r][j] + 1 ELSE life[r][j]
      BY <1>3, <2>4
    <3> QED BY <2>1, <2>2, <3>1
  <2> QED BY <2>3, <2>4
<1>9. InTransit'
  <2>1. ASSUME NEW r \in Servers, NEW j \in Ids, OnlyPusher(r, j)'
        PROVE  OnlyPusher(r, j) /\ store'[r][j] = store[r][j]
    <3>1. r # s \/ j # i
      BY <1>2, <1>4, <1>5, <2>1 DEF OnlyPusher
    <3>2. \A o \in Pulls : pull[o] # None => pull[o].server # r \/ pull[o].by # "cli"
      BY <1>4, <1>5, <2>1 DEF OnlyPusher
    <3>3. events \subseteq events'
      BY <1>2
    <3> QED BY <1>2, <1>3, <2>1, <3>1, <3>2, <3>3 DEF OnlyPusher
  <2> QED BY <1>2, <2>1, TransitKept DEF SyncInv
<1> QED BY <1>6, <1>7, <1>8, <1>9 DEF SyncInv

(* The CLI announces every concept the server has.                         *)
LEMMA EndPullKeeps ==
  ASSUME SyncInv, NEW p \in Pulls, EndPull(p)
  PROVE  SyncInv'
<1> DEFINE s == pull[p].server
           listed == {Listed(s, i) : i \in {j \in Ids : store[s][j] # None}}
<1>1. /\ pull[p] # None /\ s \in Servers
      /\ events' = IF pull[p].by # "cli" THEN events ELSE events \cup listed
      /\ pull' = [pull EXCEPT ![p] = None]
      /\ UNCHANGED <<store, branch, wire, clock, life, pusher, faulty>>
  BY PullTyped DEF EndPull, SyncInv, history
<1>2. /\ pull' \in [Pulls -> Pull \cup {None}] /\ pull'[p] = None
      /\ \A o \in Pulls : o # p => pull'[o] = pull[o]
  BY <1>1 DEF SyncInv, DataTyped
<1>3. /\ listed \subseteq [server : Servers, id : Ids, kind : {"saved", "deleted", "listed"}]
      /\ \A r \in Servers, j \in Ids : Deleted(r, j) \notin listed
  <2>1. s \in Servers
    BY <1>1
  <2> HIDE DEF s
  <2>2. \A x \in listed : \E i \in Ids : x = Listed(s, i)
    OBVIOUS
  <2>3. \A i \in Ids : Listed(s, i) \in [server : Servers, id : Ids, kind : {"saved", "deleted", "listed"}]
    BY <2>1, EventsTyped
  <2>4. \A r \in Servers, i, j \in Ids : Listed(s, i) # Deleted(r, j)
    BY DEF Listed, Deleted
  <2> HIDE DEF listed
  <2> QED BY <2>2, <2>3, <2>4
<1>4. DataTyped'
  BY <1>1, <1>2, <1>3 DEF SyncInv, DataTyped
<1>5. FoundNames'
  BY <1>1, <1>2, FoundNamesKept DEF SyncInv
<1>6. LivesCounted'
  <2>1. \A r \in Servers, j \in Ids : Deleted(r, j) \in events' => Deleted(r, j) \in events
    BY <1>1, <1>3
  <2> QED BY <1>1, <2>1 DEF SyncInv, LivesCounted
<1>7. InTransit'
  <2>1. ASSUME NEW r \in Servers, NEW j \in Ids, OnlyPusher(r, j)'
        PROVE  OnlyPusher(r, j)
    <3>1. ~(r = s /\ pull[p].by = "cli")
      BY <1>1, <2>1 DEF OnlyPusher
    <3>2. \A o \in Pulls : pull[o] # None => pull[o].server # r \/ pull[o].by # "cli"
      BY <1>2, <2>1, <3>1 DEF OnlyPusher
    <3>3. events \subseteq events'
      BY <1>1
    <3> QED BY <1>1, <2>1, <3>2, <3>3 DEF OnlyPusher
  <2> QED BY <1>1, <2>1, TransitKept DEF SyncInv
<1> QED BY <1>4, <1>5, <1>6, <1>7 DEF SyncInv

(* A server that dies loses events, the CLI what it was to announce.       *)
LEMMA EventsLost ==
  ASSUME SyncInv, events' \subseteq events, pull' \in [Pulls -> Pull \cup {None}],
         \A p \in Pulls : pull'[p] \in {None, pull[p]},
         faulty' \in {Ids, faulty \cup {e.id : e \in events \ events'}},
         UNCHANGED <<store, branch, wire, clock, life, pusher>>
  PROVE  /\ DataTyped' /\ FoundNames' /\ LivesCounted'
         /\ \A r \in Servers, j \in Ids :
              j \notin faulty' => j \notin faulty /\ \A e \in events \ events' : e.id # j
<1>1. \A e \in events : e.id \in Ids
  BY DEF SyncInv, DataTyped
<1>2. faulty' \subseteq Ids
  BY <1>1 DEF SyncInv, DataTyped
<1>3. \A p \in Pulls : pull'[p] # None /\ pull'[p].doing = None => pull'[p].found = None
  BY DEF SyncInv, DataTyped
<1>4. DataTyped'
  BY <1>2, <1>3 DEF SyncInv, DataTyped
<1>5. FoundNames'
  BY FoundNamesKept DEF SyncInv
<1>6. LivesCounted'
  BY DEF SyncInv, LivesCounted
<1> QED BY <1>4, <1>5, <1>6

LEMMA CrashKeeps ==
  ASSUME SyncInv, NEW s \in Servers, Crash(s)
  PROVE  SyncInv'
<1>1. /\ events' = {e \in events : e.server # s \/ e.kind = "listed"}
      /\ faulty' = faulty \cup {e.id : e \in events \ events'}
      /\ pull' = [p \in Pulls |-> IF pull[p] # None /\ pull[p].server = s /\ pull[p].by # "cli"
                                  THEN None ELSE pull[p]]
      /\ UNCHANGED <<store, branch, wire, clock, life, pusher>>
  BY DEF Crash
<1>2. pull' \in [Pulls -> Pull \cup {None}] /\ \A p \in Pulls : pull'[p] \in {None, pull[p]}
  BY <1>1 DEF SyncInv, DataTyped
<1>3. /\ DataTyped' /\ FoundNames' /\ LivesCounted'
      /\ \A r \in Servers, j \in Ids :
           j \notin faulty' => j \notin faulty /\ \A e \in events \ events' : e.id # j
  BY <1>1, <1>2, EventsLost
<1>4. InTransit'
  <2>1. ASSUME NEW r \in Servers, NEW j \in Ids, OnlyPusher(r, j)'
        PROVE  OnlyPusher(r, j)
    <3>1. j \notin faulty /\ \A e \in events \ events' : e.id # j
      BY <1>3, <2>1 DEF OnlyPusher
    <3>2. Saved(r, j) \notin events /\ Listed(r, j) \notin events
      BY <2>1, <3>1 DEF OnlyPusher, Saved, Listed
    <3>3. \A o \in Pulls : pull[o] # None => pull[o].server # r \/ pull[o].by # "cli"
      BY <1>1, <2>1 DEF OnlyPusher
    <3> QED BY <1>1, <2>1, <3>1, <3>2, <3>3 DEF OnlyPusher
  <2> QED BY <1>1, <2>1, TransitKept DEF SyncInv
<1> QED BY <1>3, <1>4 DEF SyncInv

LEMMA CliDiesKeeps ==
  ASSUME SyncInv, NEW s \in Servers, CliDies(s)
  PROVE  SyncInv'
<1> DEFINE running == {p \in Pulls : pull[p] # None /\ pull[p].server = s /\ pull[p].by = "cli"}
<1>1. /\ events' = {e \in events : e.server # s \/ e.kind # "listed"}
      /\ faulty' = IF running # {} THEN Ids ELSE faulty \cup {e.id : e \in events \ events'}
      /\ pull' = [p \in Pulls |-> IF p \in running THEN None ELSE pull[p]]
      /\ UNCHANGED <<store, branch, wire, clock, life, pusher>>
  BY DEF CliDies
<1>2. pull' \in [Pulls -> Pull \cup {None}] /\ \A p \in Pulls : pull'[p] \in {None, pull[p]}
  BY <1>1 DEF SyncInv, DataTyped
<1>3. /\ DataTyped' /\ FoundNames' /\ LivesCounted'
      /\ \A r \in Servers, j \in Ids :
           j \notin faulty' => j \notin faulty /\ \A e \in events \ events' : e.id # j
  BY <1>1, <1>2, EventsLost
<1>4. InTransit'
  <2>1. ASSUME NEW r \in Servers, NEW j \in Ids, OnlyPusher(r, j)'
        PROVE  OnlyPusher(r, j)
    <3>1. running = {}
      BY <1>1, <2>1 DEF OnlyPusher
    <3>2. j \notin faulty /\ \A e \in events \ events' : e.id # j
      BY <1>3, <2>1 DEF OnlyPusher
    <3>3. Saved(r, j) \notin events /\ Listed(r, j) \notin events
      BY <2>1, <3>2 DEF OnlyPusher, Saved, Listed
    <3>4. \A o \in Pulls : pull[o] # None => pull[o].server # r \/ pull[o].by # "cli"
      <4>1. \A o \in Pulls : pull'[o] = pull[o]
        BY <1>1, <3>1
      <4> QED BY <2>1, <4>1 DEF OnlyPusher
    <3> QED BY <1>1, <2>1, <3>2, <3>3, <3>4 DEF OnlyPusher
  <2> QED BY <1>1, <2>1, TransitKept DEF SyncInv
<1> QED BY <1>3, <1>4 DEF SyncInv

(* Steps that leave the stores, the events and the pulls alone.            *)
LEMMA NothingMoves ==
  ASSUME SyncInv, UNCHANGED <<store, branch, events, wire, pull, clock, history>>
  PROVE  SyncInv'
<1> USE DEF SyncInv, history
<1>1. DataTyped' /\ LivesCounted'
  BY DEF DataTyped, LivesCounted
<1>2. FoundNames'
  BY FoundNamesKept
<1>3. InTransit'
  BY TransitKept DEF OnlyPusher
<1> QED BY <1>1, <1>2, <1>3

-----------------------------------------------------------------------------
(* Theorems                                                                *)

LEMMA Initially == Init => SyncInv
<1> SUFFICES ASSUME Init PROVE SyncInv
  OBVIOUS
<1> USE DEF Init
<1>1. DataTyped
  BY DEF DataTyped
<1> QED BY <1>1 DEF SyncInv, FoundNames, LivesCounted, InTransit, OnlyPusher

LEMMA Inductive == SyncInv /\ [Next]_vars => SyncInv'
<1> SUFFICES ASSUME SyncInv, [Next]_vars PROVE SyncInv'
  OBVIOUS
<1>1. CASE UNCHANGED vars
  BY <1>1, NothingMoves DEF vars
<1>2. ASSUME NEW s \in Servers, InitialPullFails(s)
      PROVE  SyncInv'
  BY <1>2, NothingMoves DEF InitialPullFails
<1>3. ASSUME NEW p \in Pulls, NEW s \in Servers,
             InitialPull(p, s) \/ TimedPull(p, s) \/ ToolPull(p, s) \/ CliPull(p, s)
      PROVE  SyncInv'
  BY <1>3, BeginPullKeeps DEF InitialPull, TimedPull, ToolPull, CliPull
<1> QED BY <1>1, <1>2, <1>3, EditKeeps, DeleteKeeps, ToolPushKeeps, HandleSavedKeeps,
           HandleDeletedKeeps, WireKeeps, ReadExistingKeeps, SkipKeeps, ImportKeeps, EndPullKeeps,
           CrashKeeps, CliDiesKeeps, TickKeeps
        DEF Next

LEMMA Invariance == Spec => []SyncInv
<1> QED BY Initially, Inductive, PTL DEF Spec

(* Every variable keeps its type, and no concept is stamped ahead of the   *)
(* clock.                                                                  *)
THEOREM TypeCorrect == Spec => []TypeOK
<1> DEFINE FreshTyped == fresh \subseteq Servers
<1>1. Init => FreshTyped
  BY DEF Init, Pullers
<1>2. FreshTyped /\ [Next]_vars => FreshTyped'
  BY DEF Next, Pullers, Edit, Delete, ToolPush, HandleSaved, HandleDeleted, TakeEffect, Lose,
         InitialPull, InitialPullFails, TimedPull, ToolPull, CliPull, BeginPull, ReadExisting, Skip,
         Import, EndPull, Crash, CliDies, Tick, vars
<1>3. SyncInv /\ FreshTyped => TypeOK
  BY DEF SyncInv, TypeOK
<1> QED BY <1>1, <1>2, <1>3, Invariance, PTL DEF Spec

(* The requests of the only server that pushes a concept bring the branch  *)
(* up to date, however many servers, pulls, events and requests there are. *)
THEOREM BranchCatchesUpCorrect == Spec => []BranchCatchesUp
<1>1. SyncInv => BranchCatchesUp
  <2> SUFFICES ASSUME SyncInv, NEW s \in Servers, NEW i \in Ids,
                      CanPush(s), store[s][i] # None, life[s][i] = 1,
                      pusher[i] \in {None, s}, i \notin faulty,
                      events \cap {Saved(s, i), Listed(s, i)} = {},
                      \A k \in DOMAIN wire : wire[k].id # i,
                      \A p \in Pulls : pull[p] # None => pull[p].server # s
               PROVE  branch[i] = EntryOf(store[s][i])
    BY DEF BranchCatchesUp
  <2>1. OnlyPusher(s, i)
    BY DEF OnlyPusher
  <2> QED BY <2>1 DEF SyncInv, InTransit, Reaches
<1> QED BY <1>1, Invariance, PTL

(* A step in which pull p replaces a row is the import of its entry.       *)
LEMMA ReplacesImports ==
  ASSUME SyncInv, Next, NEW p \in Pulls, NEW s \in Servers, NEW i \in Ids,
         Replaces(p, store[s][i]), pull[p].server = s, pull[p].doing[1] = i
  PROVE  Import(p)
<1>1. pull[p] # None /\ pull[p].doing # None /\ pull'[p].doing = None /\ store' # store /\ pull' # pull
  BY DEF Replaces
<1>2. ASSUME NEW o \in Pulls, Import(o) PROVE o = p
  BY <1>1, <1>2 DEF Import, SyncInv, DataTyped
<1> QED BY <1>1, <1>2
        DEF Next, Edit, Delete, ToolPush, HandleSaved, HandleDeleted, TakeEffect, Lose, InitialPull,
            InitialPullFails, TimedPull, ToolPull, CliPull, BeginPull, ReadExisting, Skip, EndPull,
            Crash, CliDies, Tick

(* A pull that found a concept replaces it only if it is what it found and *)
(* older than the entry.                                                   *)
THEOREM PullKeepsNewerCorrect == Spec => PullKeepsNewer
<1> DEFINE Step == \A p \in Pulls, s \in Servers, i \in Ids :
                     /\ Replaces(p, store[s][i]) /\ pull[p].server = s /\ pull[p].doing[1] = i
                     /\ pull[p].found # None /\ pull[p].life = life[s][i]
                     => store[s][i] = pull[p].found /\ store[s][i].updated < pull[p].doing[2].updated
<1>1. SyncInv /\ [Next]_vars => [Step]_vars
  <2> SUFFICES ASSUME SyncInv, Next, NEW p \in Pulls, NEW s \in Servers, NEW i \in Ids,
                      Replaces(p, store[s][i]), pull[p].server = s, pull[p].doing[1] = i,
                      pull[p].found # None, pull[p].life = life[s][i]
               PROVE  store[s][i] = pull[p].found
                      /\ store[s][i].updated < pull[p].doing[2].updated
    OBVIOUS
  <2>1. Import(p) /\ pull[p] # None /\ pull[p].doing # None /\ store[s][i] # None
    BY ReplacesImports DEF Replaces
  <2>2. store[s][i].version = pull[p].found.version
    BY <2>1 DEF Import, Conflicts, VersionOf
  <2>3. store[s][i] = pull[p].found
    BY <2>1, <2>2 DEF SyncInv, FoundNames
  <2>4. pull[p].found.updated \in Nat /\ pull[p].doing[2].updated \in Nat
    <3>1. pull[p].found \in Row /\ pull[p].doing[2] \in Entry
      BY <2>1, PullTyped DEF SyncInv
    <3> QED BY <3>1 DEF Row, Entry
  <2>5. ~(pull[p].found.updated >= pull[p].doing[2].updated)
    BY <2>1 DEF Import, Skipped
  <2> QED BY <2>3, <2>4, <2>5
<1> QED BY <1>1, Invariance, PTL DEF Spec, PullKeepsNewer

(* No pull puts the text of one namespace into a concept of another.       *)
THEOREM PullKeepsNamespaceCorrect == Spec => PullKeepsNamespace
<1> DEFINE Step == \A p \in Pulls, s \in Servers, i \in Ids :
                     /\ Replaces(p, store[s][i]) /\ pull[p].server = s /\ pull[p].doing[1] = i
                     => store[s][i].ns = pull[p].doing[2].ns
<1>1. SyncInv /\ [Next]_vars => [Step]_vars
  <2> SUFFICES ASSUME SyncInv, Next, NEW p \in Pulls, NEW s \in Servers, NEW i \in Ids,
                      Replaces(p, store[s][i]), pull[p].server = s, pull[p].doing[1] = i
               PROVE  store[s][i].ns = pull[p].doing[2].ns
    OBVIOUS
  <2>1. Import(p) /\ store[s][i] # None
    BY ReplacesImports DEF Replaces
  <2> QED BY <2>1 DEF Import, Denied
<1> QED BY <1>1, Invariance, PTL DEF Spec, PullKeepsNamespace

-----------------------------------------------------------------------------
(* Archival                                                                *)

(* The three together are inductive.                                       *)
ArchivalInv == ArchivalTypeOK /\ OneUploadPerVersion /\ RememberedIsConfirmed

-----------------------------------------------------------------------------
(* A call that decides, waits or uploads has a concept and a row of it.    *)
LEMMA ArchiveCallTyped ==
  ASSUME ArchivalTypeOK, NEW c \in Calls, pc[c] \in {"decide", "wait", "upload"}
  PROVE  /\ id[c] \in Concepts /\ read[c] \in ConceptRow /\ read[c].version \in Nat
         /\ SlotOf(c) \in Concepts \X Nat
         /\ Uploaded(c) \in [id : Concepts, life : Nat, version : Nat]
<1>1. id[c] \in Concepts /\ read[c] \in ConceptRow
  BY DEF ArchivalTypeOK
<1> QED BY <1>1 DEF ConceptRow, SlotOf, Slot, Uploaded

(* Calls that return hold nothing, the others hold what they held.         *)
LEMMA ArchiveReturnTyped ==
  ASSUME ArchivalTypeOK, NEW these \in SUBSET Calls, Return(these)
  PROVE  /\ pc' \in [Calls -> {"idle", "read", "decide", "wait", "upload"}]
         /\ id' \in [Calls -> Concepts \cup {NoConcept}]
         /\ read' \in [Calls -> ConceptRow \cup {NoConcept}]
         /\ \A c \in Calls : /\ id'[c] = NoConcept <=> pc'[c] = "idle"
                             /\ read'[c] = NoConcept <=> pc'[c] \in {"idle", "read"}
         /\ \A c \in these : pc'[c] = "idle"
         /\ \A c \in Calls \ these : pc'[c] = pc[c] /\ SlotOf(c)' = SlotOf(c)
BY DEF Return, ArchivalTypeOK, SlotOf, Slot

(* Steps that change no upload and no call that uploads or waits.          *)
LEMMA ArchiveUploadsKept ==
  ASSUME OneUploadPerVersion, uploading' = uploading,
         \A c \in Calls : /\ pc'[c] = "upload" <=> pc[c] = "upload"
                          /\ pc'[c] = "wait" => pc[c] = "wait"
                          /\ pc'[c] \in {"upload", "wait"} => SlotOf(c)' = SlotOf(c)
  PROVE  OneUploadPerVersion'
BY DEF OneUploadPerVersion

LEMMA ArchiveMemoryKept ==
  ASSUME RememberedIsConfirmed, UNCHANGED <<archived, receipts>>
  PROVE  RememberedIsConfirmed'
BY DEF RememberedIsConfirmed

LEMMA ArchiveSaveKeeps ==
  ASSUME ArchivalInv, NEW i \in Concepts, SaveConcept(i) \/ DeleteConcept(i)
  PROVE  ArchivalInv'
<1> USE DEF ArchivalInv, connector, calls, archivalCounters
<1>1. row' \in [Concepts -> ConceptRow \cup {NoConcept}] /\ lives' \in [Concepts -> Nat]
  <2>1. CASE SaveConcept(i)
    <3> DEFINE version == IF row[i] = NoConcept THEN 1 ELSE row[i].version + 1
    <3>1. PICK eligible \in BOOLEAN :
            row' = [row EXCEPT ![i] =
                      [life |-> lives'[i], eligible |-> eligible, version |-> version]]
      BY <2>1 DEF SaveConcept
    <3>2. lives' = [lives EXCEPT ![i] = IF row[i] = NoConcept THEN lives[i] + 1 ELSE lives[i]]
      BY <2>1 DEF SaveConcept
    <3>3. lives' \in [Concepts -> Nat]
      BY <3>2 DEF ArchivalTypeOK
    <3>4. version \in Nat
      BY DEF ArchivalTypeOK, ConceptRow
    <3> HIDE DEF version
    <3>5. [life |-> lives'[i], eligible |-> eligible, version |-> version] \in ConceptRow
      BY <3>3, <3>4 DEF ConceptRow
    <3> QED BY <3>1, <3>3, <3>5 DEF ArchivalTypeOK
  <2>2. CASE DeleteConcept(i)
    BY <2>2 DEF DeleteConcept, ArchivalTypeOK
  <2> QED BY <2>1, <2>2
<1>2. ArchivalTypeOK'
  <2>1. pending' \subseteq Concepts /\ missed' \subseteq Concepts /\ changes' \in 0 .. MaxChanges
    <3>1. changes < MaxChanges /\ changes' = changes + 1
          /\ pending' \in {pending \cup {i}, pending \ {i}} /\ missed' \in {missed, missed \ {i}}
      BY DEF SaveConcept, DeleteConcept
    <3> QED BY <3>1, ArchivalAssumption DEF ArchivalTypeOK
  <2> QED BY <1>1, <2>1 DEF ArchivalTypeOK, SaveConcept, DeleteConcept
<1>3. OneUploadPerVersion'
  BY ArchiveUploadsKept DEF SaveConcept, DeleteConcept, SlotOf, Slot
<1>4. RememberedIsConfirmed'
  BY ArchiveMemoryKept DEF SaveConcept, DeleteConcept
<1> QED BY <1>2, <1>3, <1>4

LEMMA ArchiveStartKeeps ==
  ASSUME ArchivalInv, NEW c \in Calls, NEW i \in Concepts, Start(c, i)
  PROVE  ArchivalInv'
<1> USE DEF ArchivalInv, Start, Fire, ToolCall, Call
<1>1. ArchivalTypeOK'
  BY ArchivalAssumption DEF ArchivalTypeOK
<1>2. OneUploadPerVersion'
  BY ArchiveUploadsKept DEF SlotOf, Slot, ArchivalTypeOK
<1>3. RememberedIsConfirmed'
  BY ArchiveMemoryKept
<1> QED BY <1>1, <1>2, <1>3

LEMMA ArchiveReadKeeps ==
  ASSUME ArchivalInv, NEW c \in Calls, Read(c)
  PROVE  ArchivalInv'
<1> USE DEF ArchivalInv, connector, archivalCounters
<1>1. id[c] \in Concepts
  BY DEF Read, ArchivalTypeOK
<1>2. ArchivalTypeOK' /\ OneUploadPerVersion'
  <2>1. CASE row[id[c]] = NoConcept
    <3>1. Return({c})
      BY <2>1 DEF Read
    <3>2. ArchivalTypeOK'
      BY <3>1, ArchiveReturnTyped DEF Read, ArchivalTypeOK
    <3>3. OneUploadPerVersion'
      BY <3>1, ArchiveReturnTyped, ArchiveUploadsKept DEF Read
    <3> QED BY <3>2, <3>3
  <2>2. CASE row[id[c]] # NoConcept
    <3>1. /\ read' = [read EXCEPT ![c] = row[id[c]]] /\ row[id[c]] \in ConceptRow
          /\ pc' = [pc EXCEPT ![c] = "decide"] /\ id' = id
      BY <1>1, <2>2 DEF Read, ArchivalTypeOK
    <3>2. ArchivalTypeOK'
      BY <1>1, <2>2, <3>1 DEF Read, ArchivalTypeOK
    <3>3. OneUploadPerVersion'
      BY <3>1, ArchiveUploadsKept DEF Read, SlotOf, Slot, ArchivalTypeOK
    <3> QED BY <3>2, <3>3
  <2> QED BY <2>1, <2>2
<1>3. RememberedIsConfirmed'
  BY ArchiveMemoryKept DEF Read
<1> QED BY <1>2, <1>3

LEMMA ArchiveDeclineKeeps ==
  ASSUME ArchivalInv, NEW c \in Calls, Decline(c)
  PROVE  ArchivalInv'
<1> USE DEF ArchivalInv, connector, archivalCounters, Decline
<1>1. ArchivalTypeOK'
  BY ArchiveReturnTyped DEF ArchivalTypeOK
<1>2. OneUploadPerVersion'
  BY ArchiveReturnTyped, ArchiveUploadsKept
<1>3. RememberedIsConfirmed'
  BY ArchiveMemoryKept
<1> QED BY <1>1, <1>2, <1>3

LEMMA ArchiveWaitKeeps ==
  ASSUME ArchivalInv, NEW c \in Calls, Wait(c)
  PROVE  ArchivalInv'
<1> USE DEF ArchivalInv, connector, archivalCounters, Wait
<1>1. ArchivalTypeOK'
  BY DEF ArchivalTypeOK
<1>2. OneUploadPerVersion'
  BY DEF OneUploadPerVersion, SlotOf, Slot, ArchivalTypeOK
<1>3. RememberedIsConfirmed'
  BY ArchiveMemoryKept
<1> QED BY <1>1, <1>2, <1>3

LEMMA ArchiveUploadKeeps ==
  ASSUME ArchivalInv, NEW c \in Calls, Upload(c)
  PROVE  ArchivalInv'
<1> USE DEF ArchivalInv, archivalCounters, Upload
<1>1. ArchivalTypeOK'
  BY ArchiveCallTyped DEF ArchivalTypeOK
<1>2. \A d \in Calls : SlotOf(d)' = SlotOf(d)
  BY DEF SlotOf, Slot
<1>3. OneUploadPerVersion'
  BY <1>2 DEF OneUploadPerVersion, ArchivalTypeOK
<1>4. RememberedIsConfirmed'
  BY ArchiveMemoryKept
<1> QED BY <1>1, <1>3, <1>4

(* An upload that ends gives its slot back, with every call that waits for *)
(* it, and leaves the slots of the others.                                 *)
LEMMA ArchiveEndOfUpload ==
  ASSUME ArchivalInv, NEW c \in Calls, pc[c] = "upload",
         uploading' = uploading \ {SlotOf(c)}, Return({c} \cup Waiting(c))
  PROVE  OneUploadPerVersion' /\ uploading' \subseteq Concepts \X Nat
<1> DEFINE these == {c} \cup Waiting(c)
<1>1. these \in SUBSET Calls
  BY DEF Waiting
<1>2. /\ \A d \in these : pc'[d] = "idle"
      /\ \A d \in Calls \ these : pc'[d] = pc[d] /\ SlotOf(d)' = SlotOf(d)
  BY <1>1, ArchiveReturnTyped DEF ArchivalInv
<1>3. \A d \in Calls : pc'[d] \in {"upload", "wait"} =>
        /\ pc[d] = pc'[d] /\ d # c /\ SlotOf(d)' = SlotOf(d) /\ SlotOf(d) # SlotOf(c)
  BY <1>2 DEF ArchivalInv, OneUploadPerVersion, Waiting
<1>4. \A d \in Calls : pc[d] = "upload" /\ d # c => pc'[d] = "upload"
  BY <1>2 DEF Waiting
<1> QED BY <1>3, <1>4 DEF ArchivalInv, OneUploadPerVersion, ArchivalTypeOK

LEMMA ArchiveConfirmKeeps ==
  ASSUME ArchivalInv, NEW c \in Calls, Confirm(c)
  PROVE  ArchivalInv'
<1> USE DEF ArchivalInv, archivalCounters, Confirm
<1>1. /\ id[c] \in Concepts /\ read[c].version \in Nat
      /\ Uploaded(c) \in [id : Concepts, life : Nat, version : Nat]
  BY ArchiveCallTyped
<1>2. OneUploadPerVersion' /\ uploading' \subseteq Concepts \X Nat
  BY ArchiveEndOfUpload
<1>3. {c} \cup Waiting(c) \in SUBSET Calls
  BY DEF Waiting
<1>4. ArchivalTypeOK'
  BY <1>1, <1>2, <1>3, ArchiveReturnTyped DEF ArchivalTypeOK
<1>5. RememberedIsConfirmed'
  <2> SUFFICES ASSUME NEW i \in Concepts, archived'[i] # 0
               PROVE  \E r \in receipts' : r.id = i /\ r.version = archived'[i]
    BY DEF RememberedIsConfirmed
  <2>1. CASE i = id[c]
    <3>1. Uploaded(c) \in receipts' /\ Uploaded(c).id = i /\ Uploaded(c).version = archived'[i]
      BY <1>1, <2>1 DEF Uploaded, ArchivalTypeOK
    <3> QED BY <3>1
  <2>2. CASE i # id[c]
    <3>1. archived'[i] = archived[i]
      BY <1>1, <2>2 DEF ArchivalTypeOK
    <3> QED BY <3>1 DEF RememberedIsConfirmed
  <2> QED BY <2>1, <2>2
<1> QED BY <1>2, <1>4, <1>5

LEMMA ArchiveFailKeeps ==
  ASSUME ArchivalInv, NEW c \in Calls, Fail(c)
  PROVE  ArchivalInv'
<1> USE DEF ArchivalInv, Fail
<1>1. id[c] \in Concepts
  BY ArchiveCallTyped
<1>2. OneUploadPerVersion' /\ uploading' \subseteq Concepts \X Nat
  BY ArchiveEndOfUpload
<1>3. {c} \cup Waiting(c) \in SUBSET Calls
  BY DEF Waiting
<1>4. failures' \in 0 .. MaxFailures
  BY ArchivalAssumption DEF ArchivalTypeOK
<1>5. ArchivalTypeOK'
  BY <1>1, <1>2, <1>3, <1>4, ArchiveReturnTyped DEF ArchivalTypeOK
<1>6. RememberedIsConfirmed'
  BY ArchiveMemoryKept
<1> QED BY <1>2, <1>5, <1>6

LEMMA ArchiveRestartKeeps ==
  ASSUME ArchivalInv, Restart
  PROVE  ArchivalInv'
<1> USE DEF ArchivalInv, Restart
<1>1. {id[c] : c \in {d \in Calls : pc[d] # "idle"}} \subseteq Concepts
  BY DEF ArchivalTypeOK
<1>2. failures' \in 0 .. MaxFailures
  BY ArchivalAssumption DEF ArchivalTypeOK
<1>3. ArchivalTypeOK'
  BY <1>1, <1>2, ArchiveReturnTyped DEF ArchivalTypeOK
<1>4. OneUploadPerVersion'
  BY ArchiveReturnTyped DEF OneUploadPerVersion
<1>5. RememberedIsConfirmed'
  BY DEF RememberedIsConfirmed
<1> QED BY <1>3, <1>4, <1>5

LEMMA ArchiveInitially == ArchivalInit => ArchivalInv
<1> SUFFICES ASSUME ArchivalInit PROVE ArchivalInv
  OBVIOUS
<1>1. ArchivalTypeOK
  BY ArchivalAssumption DEF ArchivalInit, ArchivalTypeOK
<1> QED BY <1>1 DEF ArchivalInit, ArchivalInv, OneUploadPerVersion, RememberedIsConfirmed

LEMMA ArchiveInductive == ArchivalInv /\ [ArchivalNext]_archivalVars => ArchivalInv'
<1> SUFFICES ASSUME ArchivalInv, [ArchivalNext]_archivalVars PROVE ArchivalInv'
  OBVIOUS
<1>1. CASE UNCHANGED archivalVars
  <2>1. OneUploadPerVersion'
    BY <1>1, ArchiveUploadsKept DEF ArchivalInv, archivalVars, connector, calls, SlotOf, Slot
  <2> QED BY <1>1, <2>1, ArchiveMemoryKept
          DEF ArchivalInv, archivalVars, connector, calls, archivalCounters, ArchivalTypeOK
<1>2. ASSUME NEW c \in Calls, Advance(c) PROVE ArchivalInv'
  BY <1>2, ArchiveReadKeeps, ArchiveDeclineKeeps, ArchiveWaitKeeps, ArchiveUploadKeeps,
     ArchiveConfirmKeeps
  DEF Advance
<1> QED BY <1>1, <1>2, ArchiveSaveKeeps, ArchiveStartKeeps, ArchiveFailKeeps, ArchiveRestartKeeps
        DEF ArchivalNext

-----------------------------------------------------------------------------
(* Theorems about Archival                                                 *)

LEMMA ArchiveInvariance == ArchivalSpec => []ArchivalInv
<1> QED BY ArchiveInitially, ArchiveInductive, PTL DEF ArchivalSpec

(* Every variable keeps its type, and calls hold a concept and a row       *)
(* exactly while they need them.                                           *)
THEOREM ArchivalTypeCorrect == ArchivalSpec => []ArchivalTypeOK
<1>1. ArchivalInv => ArchivalTypeOK
  BY DEF ArchivalInv
<1> QED BY <1>1, ArchiveInvariance, PTL

(* However many calls overlap, a version is uploaded by one at a time, and *)
(* a call waits only for an upload that is going on.                       *)
THEOREM OneUploadPerVersionCorrect == ArchivalSpec => []OneUploadPerVersion
<1>1. ArchivalInv => OneUploadPerVersion
  BY DEF ArchivalInv
<1> QED BY <1>1, ArchiveInvariance, PTL

(* What archive remembers was confirmed, whatever failed in between.       *)
THEOREM RememberedIsConfirmedCorrect == ArchivalSpec => []RememberedIsConfirmed
<1>1. ArchivalInv => RememberedIsConfirmed
  BY DEF ArchivalInv
<1> QED BY <1>1, ArchiveInvariance, PTL

=============================================================================
