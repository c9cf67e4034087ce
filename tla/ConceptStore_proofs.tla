------------------------- MODULE ConceptStore_proofs -------------------------
(***************************************************************************)
(* ConceptStore for any number of clients, concepts, texts and requests:   *)
(* its inductive invariant, then what follows from it, the guarantees of   *)
(* committed transactions and that ConceptStore implements AtomicStore.    *)
(***************************************************************************)
EXTENDS ConceptStore, SequenceTheorems, FiniteSetTheorems, TLAPS

-----------------------------------------------------------------------------
(* What the rules of ConceptRules build.                                   *)

(* The representations a save assigns are typed.                           *)
LEMMA NewContentType ==
  ASSUME NEW e \in Entry, NEW row \in Row \cup {None}, NEW m \in Models,
         NEW r \in SetBy(e, row)
  PROVE  /\ r \in Reps
         /\ NewContent(e, r, m) \in IF r = "vector" THEN Vectors ELSE Texts
<1>1. r \in Reps
  BY DEF SetBy, Given, Reps
<1>2. CASE r # "vector"
  <2>1. e.rep[r] # None
    BY <1>2 DEF SetBy, Given
  <2>2. e.rep[r] \in Texts
    BY <1>1, <2>1 DEF Entry
  <2> QED
    BY <1>1, <1>2, <2>2 DEF NewContent
<1>3. CASE r = "vector" /\ e.rep["vector"] # None
  BY <1>1, <1>3 DEF NewContent, Vectors, Entry, Reps
<1>4. CASE r = "vector" /\ e.rep["vector"] = None
  <2>1. AutoSource(e) # None
    BY <1>4 DEF SetBy, Given, AutoEmbeds
  <2>2. /\ AutoSource(e) \in Reps
        /\ e.rep[AutoSource(e)] # None
    BY <2>1 DEF AutoSource, Reps
  <2>3. e.rep[AutoSource(e)] \in Texts
    BY <2>2 DEF Entry
  <2> QED
    BY <1>4, <2>3, <1>1 DEF NewContent, Vectors
<1> QED
  BY <1>2, <1>3, <1>4

(* A save turns a row, or no row, into a row whose version is the next.    *)
LEMMA SavedRowType ==
  ASSUME NEW e \in Entry, NEW row \in Row \cup {None}, NEW m \in Models,
         NEW now \in Nat
  PROVE  /\ SavedRow(e, row, m, now) \in Row
         /\ row # None => /\ SavedRow(e, row, m, now).version = row.version + 1
                          /\ SavedRow(e, row, m, now).ns = row.ns
<1> DEFINE new == SavedRow(e, row, m, now)
<1>1. /\ new.ns \in Namespaces
      /\ new.version \in Nat \ {0}
      /\ new.updated \in Nat
      /\ new.tags \in SUBSET Tags
  BY RulesAssumption DEF SavedRow, Row, Entry, KeptTags
<1>2. new.rep \in Holdings
  <2>1. ASSUME NEW r \in Reps
        PROVE  new.rep[r] \in {None} \cup (IF r = "vector" THEN Vectors ELSE Texts)
    <3>1. CASE r \in SetBy(e, row)
      BY <3>1, NewContentType DEF SavedRow
    <3>2. CASE r \notin SetBy(e, row)
      BY <3>2 DEF SavedRow, Row, Holdings
    <3> QED
      BY <3>1, <3>2
  <2> HIDE DEF new
  <2>2. \A r \in Reps : new.rep[r] \in Contents
    BY <2>1 DEF Contents
  <2>3. new.rep = [r \in Reps |-> new.rep[r]]
    BY DEF new, SavedRow
  <2> QED
    BY <2>1, <2>2, <2>3 DEF Holdings
<1>3. new.prov \in [Reps -> Origins]
  <2>1. ASSUME NEW r \in Reps
        PROVE  NewOrigin(e, row, r) \in Origins
    <3>1. CASE e.rep[r] # None
      <4>1. NewOrigin(e, row, r) = NextOrigin(e, r)
        BY <3>1 DEF NewOrigin
      <4>2. e.prov[r] \in Origins \cup {None}
        BY DEF Entry
      <4> QED
        BY <4>1, <4>2 DEF NextOrigin, Origins
    <3>2. CASE e.rep[r] = None /\ r = "vector" /\ AutoEmbeds(e, row)
      <4>1. NewOrigin(e, row, r) = AutoSource(e)
        BY <3>2 DEF NewOrigin
      <4>2. AutoSource(e) \in {"markdown", "thoughtform"}
        BY <3>2 DEF AutoEmbeds, AutoSource
      <4> QED
        BY <4>1, <4>2 DEF Origins, Reps
    <3>3. CASE e.rep[r] = None /\ ~(r = "vector" /\ AutoEmbeds(e, row))
      BY <3>3 DEF NewOrigin, Row, Origins
    <3> QED
      BY <3>1, <3>2, <3>3
  <2> QED
    BY <2>1 DEF SavedRow
<1>4. new = [ns |-> new.ns, version |-> new.version, updated |-> new.updated,
             tags |-> new.tags, rep |-> new.rep, prov |-> new.prov]
  BY DEF SavedRow
<1>5. new \in Row
  <2> HIDE DEF new
  <2> QED
    BY <1>1, <1>2, <1>3, <1>4 DEF Row
<1> QED
  BY <1>5 DEF SavedRow

(* A restore turns a record into a row, on top of an existing one with the *)
(* next version.                                                           *)
LEMMA RestoredRowType ==
  ASSUME NEW record \in Record, NEW row \in Row \cup {None}
  PROVE  /\ RestoredRow(record, row) \in Row
         /\ row # None => /\ RestoredRow(record, row).version = row.version + 1
                          /\ RestoredRow(record, row).ns = record.row.ns
<1>1. record.row \in Row
  BY DEF Record
<1>2. CASE row = None
  BY <1>1, <1>2 DEF RestoredRow
<1>3. CASE row \in Row
  <2>1. /\ row.version + 1 \in Nat \ {0}
        /\ Later(record.row.updated, row.updated + 1) \in Nat
    BY <1>1, <1>3 DEF Row, Later
  <2> QED
    BY <1>1, <1>3, <2>1, RulesAssumption DEF RestoredRow, Row
<1> QED
  BY <1>2, <1>3

-----------------------------------------------------------------------------
(* Types, and the order in which a call works through its items.           *)

OthersKept(c) ==
  \A d \in Clients \ {c} :
    /\ pc'[d] = pc[d] /\ work'[d] = work[d] /\ left'[d] = left[d]
    /\ planned'[d] = planned[d] /\ attempt'[d] = attempt[d] /\ started'[d] = started[d]

(* A step of one call leaves the others in order.                          *)
LEMMA OthersInOrder ==
  ASSUME InOrder, NEW c \in Clients, OrderedCall(c)', OthersKept(c)
  PROVE  InOrder'
<1>1. ASSUME NEW d \in Clients, d # c
      PROVE  OrderedCall(d)'
  <2>1. /\ pc'[d] = pc[d] /\ work'[d] = work[d]
        /\ left'[d] = left[d] /\ planned'[d] = planned[d]
    BY <1>1 DEF OthersKept
  <2>2. OrderedCall(d)
    BY DEF InOrder
  <2> QED
    BY <2>1, <2>2 DEF OrderedCall
<1> QED
  BY <1>1 DEF InOrder

(* A call that ends leaves its locals typed and in order, and those of the *)
(* other calls alone.                                                      *)
LEMMA FinishKeeps ==
  ASSUME CallsTyped, NEW c \in Clients, Finish(c)
  PROVE  CallsTyped' /\ OrderedCall(c)' /\ OthersKept(c)
<1>1. Idle \in Works
  BY DEF Idle, Works
<1>2. CallsTyped'
  BY <1>1, StoreAssumption DEF CallsTyped, Finish
<1>3. OthersKept(c)
  BY DEF CallsTyped, Finish, OthersKept
<1>4. OrderedCall(c)'
  BY DEF CallsTyped, Finish, OrderedCall, Ordered, Idle
<1> QED
  BY <1>2, <1>3, <1>4

(* So does an attempt that starts on all the items of its call.            *)
LEMMA AttemptKeeps ==
  ASSUME CallsTyped, NEW c \in Clients, clock \in Nat,
         NEW n \in 1..MaxAttempts, NEW w \in Works,
         w.kind # "idle", w.items # <<>>, DistinctIds(w.items),
         BeginAttempt(c, n, w.items), work' = [work EXCEPT ![c] = w]
  PROVE  CallsTyped' /\ OrderedCall(c)' /\ OthersKept(c)
<1>1. w.items \in Seq(Entry \cup Record)
  BY DEF Works
<1>2. CallsTyped'
  BY <1>1, StoreAssumption DEF CallsTyped, BeginAttempt
<1>3. OthersKept(c)
  BY DEF CallsTyped, BeginAttempt, OthersKept
<1>4. OrderedCall(c)'
  <2>1. /\ pc'[c] = "plan" /\ work'[c] = w /\ left'[c] = w.items
        /\ planned'[c] = <<>>
    BY DEF CallsTyped, BeginAttempt
  <2>2. Len(w.items) \in Nat /\ DOMAIN w.items = 1..Len(w.items)
    BY <1>1
  <2>3. /\ Len(<<>>) = 0 /\ 1..0 = {}
        /\ \A k \in 1..Len(w.items) : k = 0 + k /\ (w.kind = "restore" => w.items[k] \in Record)
        /\ Len(w.items) = 0 + Len(w.items)
    BY <2>2, EmptySeq DEF Works
  <2>4. Apart(<<>>, w.items)
    BY <2>2, <2>3 DEF Apart, DistinctIds
  <2>5. Ordered("plan", w, w.items, <<>>)
    BY <2>3, <2>4 DEF Ordered
  <2> QED
    BY <2>1, <2>5 DEF OrderedCall
<1> QED
  BY <1>2, <1>3, <1>4

(* The item at the front of rest, planned or left alone, stays apart.      *)
LEMMA ApartNext ==
  ASSUME NEW rest, NEW tail, NEW plan, NEW new,
         NEW lr \in Nat \ {0}, NEW lp \in Nat, NEW ln \in {lp, lp + 1},
         Len(rest) = lr, Len(tail) = lr - 1, Len(plan) = lp, Len(new) = ln,
         \A k \in 1..(lr - 1) : tail[k] = rest[k + 1],
         \A k \in 1..lp : new[k] = plan[k],
         ln = lp + 1 => new[lp + 1].item = rest[1],
         Apart(plan, rest)
  PROVE  Apart(new, tail)
<1>1. /\ \A j, k \in 1..lp : plan[j].item.id = plan[k].item.id => j = k
      /\ \A j, k \in 1..lr : rest[j].id = rest[k].id => j = k
      /\ \A j \in 1..lp, k \in 1..lr : plan[j].item.id # rest[k].id
  BY DEF Apart
<1>2. \A k \in 1..(lr - 1) : k + 1 \in 1..lr /\ k + 1 # 1 /\ tail[k] = rest[k + 1]
  OBVIOUS
<1>3. 1 \in 1..lr
  OBVIOUS
<1>4. \A k \in 1..ln : \/ k \in 1..lp /\ new[k].item = plan[k].item
                       \/ k = lp + 1 /\ new[k].item = rest[1]
  OBVIOUS
<1>5. \A j, k \in 1..ln : new[j].item.id = new[k].item.id => j = k
  BY <1>1, <1>3, <1>4
<1>6. \A j, k \in 1..(lr - 1) : tail[j].id = tail[k].id => j = k
  <2> SUFFICES ASSUME NEW j \in 1..(lr - 1), NEW k \in 1..(lr - 1), tail[j].id = tail[k].id
               PROVE  j = k
    OBVIOUS
  <2>1. j + 1 = k + 1
    BY <1>1, <1>2
  <2> QED
    BY <2>1
<1>7. \A j \in 1..ln, k \in 1..(lr - 1) : new[j].item.id # tail[k].id
  BY <1>1, <1>2, <1>3, <1>4
<1> QED
  BY <1>5, <1>6, <1>7 DEF Apart

(* Moving one item from the front of rest to the end of plan.              *)
LEMMA OrderedNext ==
  ASSUME NEW job, NEW rest, NEW tail, NEW plan, NEW new,
         NEW lr \in Nat \ {0}, NEW lp \in Nat,
         Len(rest) = lr, Len(tail) = lr - 1, Len(plan) = lp,
         lr > 1 <=> tail # <<>>,
         \A k \in 1..(lr - 1) : tail[k] = rest[k + 1],
         \A k \in 1..lp : new[k] = plan[k],
         Len(new) = lp + 1, new[lp + 1].item = rest[1],
         Ordered("plan", job, rest, plan)
  PROVE  Ordered(IF lr > 1 THEN "plan" ELSE "apply", job, tail, new)
<1> DEFINE at == IF lr > 1 THEN "plan" ELSE "apply"
           items == job.items
<1>1. /\ at \in {"plan", "apply"} /\ at \notin {"idle", "find", "derive"}
      /\ at = "plan" <=> tail # <<>>
  OBVIOUS
<1>2. job.kind # "idle" /\ items # <<>> /\ DistinctIds(items)
  BY DEF Ordered
<1>3. ASSUME job.kind = "save"
      PROVE  /\ (lp + 1) + (lr - 1) = Len(items)
             /\ \A k \in 1..(lp + 1) : new[k].item = items[k]
             /\ \A k \in 1..(lr - 1) : tail[k] = items[(lp + 1) + k]
  <2>1. /\ lp + lr = Len(items)
        /\ \A k \in 1..lp : plan[k].item = items[k]
        /\ \A k \in 1..lr : rest[k] = items[lp + k]
    BY <1>3 DEF Ordered
  <2> HIDE DEF items
  <2>2. (lp + 1) + (lr - 1) = lp + lr
    OBVIOUS
  <2>3. \A k \in 1..(lp + 1) : new[k].item = items[k]
    BY <2>1
  <2>4. ASSUME NEW k \in 1..(lr - 1)
        PROVE  tail[k] = items[(lp + 1) + k]
    <3>1. k + 1 \in 1..lr /\ lp + (k + 1) = (lp + 1) + k
      OBVIOUS
    <3> QED
      BY <2>1, <3>1
  <2> QED
    BY <2>1, <2>2, <2>3, <2>4
<1>4. ASSUME job.kind = "restore"
      PROVE  /\ \A k \in 1..(lp + 1) : new[k].item \in Record
             /\ \A k \in 1..(lr - 1) : tail[k] \in Record
             /\ Apart(new, tail)
  <2>1. /\ \A k \in 1..lp : plan[k].item \in Record
        /\ \A k \in 1..lr : rest[k] \in Record
        /\ Apart(plan, rest)
    BY <1>4 DEF Ordered
  <2>2. \A k \in 1..(lr - 1) : tail[k] \in Record
    BY <2>1
  <2>3. rest[1] \in Record
    BY <2>1
  <2>4. \A k \in 1..(lp + 1) : k \in 1..lp \/ k = lp + 1
    OBVIOUS
  <2>5. Apart(new, tail)
    BY <2>1, ApartNext
  <2> QED
    BY <2>1, <2>2, <2>3, <2>4, <2>5
<1> HIDE DEF at
<1> QED
  BY <1>1, <1>2, <1>3, <1>4 DEF Ordered, items, at

(* A record that is left alone moves to neither.                           *)
LEMMA OrderedSkip ==
  ASSUME NEW job, NEW rest, NEW tail, NEW plan, NEW lr \in Nat \ {0},
         NEW lp \in Nat, Len(plan) = lp,
         Len(rest) = lr, Len(tail) = lr - 1,
         lr > 1 <=> tail # <<>>,
         \A k \in 1..(lr - 1) : tail[k] = rest[k + 1],
         job.kind # "save",
         Ordered("plan", job, rest, plan)
  PROVE  Ordered(IF lr > 1 THEN "plan" ELSE "apply", job, tail, plan)
<1> DEFINE at == IF lr > 1 THEN "plan" ELSE "apply"
<1>1. /\ at \in {"plan", "apply"} /\ at \notin {"idle", "find", "derive"}
      /\ at = "plan" <=> tail # <<>>
  OBVIOUS
<1>2. job.kind # "idle" /\ job.items # <<>> /\ DistinctIds(job.items)
  BY DEF Ordered
<1>3. ASSUME job.kind = "restore"
      PROVE  /\ \A k \in 1..Len(plan) : plan[k].item \in Record
             /\ \A k \in 1..Len(tail) : tail[k] \in Record
             /\ Apart(plan, tail)
  <2>1. /\ \A k \in 1..Len(plan) : plan[k].item \in Record
        /\ \A k \in 1..lr : rest[k] \in Record
        /\ Apart(plan, rest)
    BY <1>3 DEF Ordered
  <2>2. Apart(plan, tail)
    BY <2>1, ApartNext
  <2> QED
    BY <2>1, <2>2
<1> HIDE DEF at
<1> QED
  BY <1>1, <1>2, <1>3 DEF Ordered, at

(* So does a step of the planning loop that adds at most one write, for    *)
(* the item at the head of what is left.                                   *)
LEMMA PlanKeeps ==
  ASSUME CallsTyped, NEW c \in Clients, OrderedCall(c), pc[c] = "plan",
         NEW new,
         \/ new = planned[c] /\ work[c].kind # "save"
         \/ \E p \in Plans : new = Append(planned[c], p) /\ p.item = Head(left[c]),
         Plan(c, new)
  PROVE  CallsTyped' /\ OrderedCall(c)' /\ OthersKept(c)
<1>1. CASE ~(Len(left[c]) > 1) /\ new = <<>>
  BY <1>1, FinishKeeps DEF Plan
<1>2. CASE ~(~(Len(left[c]) > 1) /\ new = <<>>)
  <2>1. /\ planned' = [planned EXCEPT ![c] = new]
        /\ left' = [left EXCEPT ![c] = Tail(left[c])]
        /\ pc' = [pc EXCEPT ![c] = IF Len(left[c]) > 1 THEN "plan" ELSE "apply"]
        /\ UNCHANGED <<work, attempt, started>>
    BY <1>2 DEF Plan
  <2>2. /\ left[c] \in Seq(Entry \cup Record) /\ left[c] # <<>>
        /\ planned[c] \in Seq(Plans)
        /\ work[c].items \in Seq(Entry) \cup Seq(Record)
        /\ Ordered("plan", work[c], left[c], planned[c])
    BY DEF CallsTyped, OrderedCall, Ordered, Works
  <2>3. /\ new \in Seq(Plans)
        /\ Tail(left[c]) \in Seq(Entry \cup Record)
        /\ Ordered(IF Len(left[c]) > 1 THEN "plan" ELSE "apply", work[c], Tail(left[c]), new)
    <3>1. /\ Tail(left[c]) \in Seq(Entry \cup Record)
          /\ Len(left[c]) \in Nat \ {0}
          /\ Len(Tail(left[c])) = Len(left[c]) - 1
          /\ \A k \in 1..(Len(left[c]) - 1) : Tail(left[c])[k] = left[c][k + 1]
          /\ Head(left[c]) = left[c][1]
      BY <2>2, HeadTailProperties, EmptySeq
    <3>2. Len(left[c]) > 1 <=> Tail(left[c]) # <<>>
      <4>1. Tail(left[c]) # <<>> => Len(Tail(left[c])) \in Nat \ {0}
        BY <3>1, EmptySeq
      <4>2. Tail(left[c]) = <<>> => Len(Tail(left[c])) = 0
        BY EmptySeq
      <4>3. ASSUME NEW n \in Nat \ {0}, NEW t, t = n - 1
            PROVE  (n > 1 <=> t # 0) /\ (n > 1 <=> t \in Nat \ {0})
        BY <4>3
      <4> QED
        BY <3>1, <4>1, <4>2, <4>3
    <3>3. CASE new = planned[c] /\ work[c].kind # "save"
      <4>1. Len(planned[c]) \in Nat
        BY <2>2
      <4> QED
        BY <2>2, <3>1, <3>2, <3>3, <4>1, OrderedSkip
    <3>4. CASE \E p \in Plans : new = Append(planned[c], p) /\ p.item = Head(left[c])
      <4>1. PICK p \in Plans : new = Append(planned[c], p) /\ p.item = Head(left[c])
        BY <3>4
      <4>2. /\ new \in Seq(Plans) /\ Len(new) = Len(planned[c]) + 1
            /\ Len(planned[c]) \in Nat
            /\ \A k \in 1..Len(planned[c]) : new[k] = planned[c][k]
            /\ new[Len(planned[c]) + 1].item = left[c][1]
        BY <2>2, <3>1, <4>1, AppendProperties
      <4> DEFINE rest == left[c]
                 tail == Tail(left[c])
                 plan == planned[c]
                 job == work[c]
                 n == Len(rest)
                 m == Len(plan)
      <4>3. /\ n \in Nat \ {0} /\ m \in Nat /\ Len(tail) = n - 1 /\ (n > 1 <=> tail # <<>>)
            /\ (\A k \in 1..(n - 1) : tail[k] = rest[k + 1])
            /\ (\A k \in 1..m : new[k] = plan[k])
            /\ Len(new) = m + 1 /\ new[m + 1].item = rest[1]
        BY <3>1, <3>2, <4>2
      <4>4. Len(rest) = n /\ Len(plan) = m /\ Ordered("plan", job, rest, plan)
        BY <2>2
      <4> HIDE DEF rest, tail, plan, job, n, m
      <4>5. Ordered(IF n > 1 THEN "plan" ELSE "apply", job, tail, new)
        BY <4>3, <4>4, OrderedNext
      <4> QED
        BY <2>2, <3>1, <4>2, <4>5 DEF rest, tail, plan, job, n, m
    <3> QED
      BY <3>3, <3>4
  <2>4. CallsTyped'
    BY <2>1, <2>3 DEF CallsTyped
  <2>5. OthersKept(c)
    BY <2>1 DEF CallsTyped, OthersKept
  <2>6. OrderedCall(c)'
    BY <2>1, <2>3 DEF CallsTyped, OrderedCall
  <2> QED
    BY <2>4, <2>5, <2>6
<1> QED
  BY <1>1, <1>2

(* A write that applies leaves a typed row and a typed index entry.        *)
LEMMA AppliedType ==
  ASSUME NEW w \in Write, NEW current \in Row \cup {None}, Applies(w, current),
         NEW entry \in Indexed \cup {None}
  PROVE  /\ AppliedRow(w, current) \in Row
         /\ AppliedIndex(w, entry) \in Indexed \cup {None}
<1>1. w.row \in Row /\ w.base \in Row \cup {None}
  BY DEF Write
<1>2. AppliedRow(w, current) \in Row
  <2>1. CASE w.base = None
    BY <1>1, <2>1 DEF AppliedRow
  <2>2. CASE w.base # None
    <3> DEFINE mixed == [r \in Reps |-> IF r \in w.set THEN w.row.rep[r] ELSE current.rep[r]]
    <3>1. current \in Row
      BY <2>2 DEF Applies
    <3>2. mixed \in Holdings
      BY <1>1, <3>1 DEF Row, Holdings
    <3>3. AppliedRow(w, current) = [w.row EXCEPT !.ns = current.ns, !.rep = mixed]
      BY <2>2 DEF AppliedRow
    <3> HIDE DEF mixed
    <3> QED
      BY <1>1, <3>1, <3>2, <3>3 DEF Row
  <2> QED
    BY <2>1, <2>2
<1>3. AppliedIndex(w, entry) \in Indexed \cup {None}
  <2>1. w.row.rep["vector"] \in Vectors \cup {None}
    BY <1>1 DEF Row, Holdings, Reps
  <2>2. (IF w.base = None THEN w.row.ns ELSE w.base.ns) \in Namespaces
    BY <1>1 DEF Row
  <2> QED
    BY <2>1, <2>2 DEF AppliedIndex, IndexEntry, Indexed
<1> QED
  BY <1>2, <1>3

(* Whatever a commit changes, one of the planned writes changed it, and    *)
(* its precondition held.                                                  *)
LEMMA CommitEffect ==
  ASSUME CallsTyped, NEW c \in Clients, Commit(c), NEW i \in Ids
  PROVE  \/ /\ \A k \in DOMAIN planned[c] : planned[c][k].write.id # i
            /\ table'[i] = table[i] /\ index'[i] = index[i] /\ life'[i] = life[i]
         \/ \E k \in DOMAIN planned[c] :
              LET w == planned[c][k].write
              IN  /\ w \in Write /\ w.id = i
                  /\ Applies(w, table[i])
                  /\ table'[i] = AppliedRow(w, table[i])
                  /\ index'[i] = AppliedIndex(w, index[i])
                  /\ life'[i] = IF table[i] = None THEN life[i] + 1 ELSE life[i]
<1> DEFINE ws == planned[c]
           at == {k \in DOMAIN ws : ws[k].write.id = i}
           first == CHOOSE k \in at : TRUE
<1>1. CASE at = {}
  BY <1>1 DEF Commit
<1>2. CASE at # {}
  <2>1. first \in DOMAIN ws /\ ws[first].write.id = i
    BY <1>2
  <2>2. ws[first] \in Plans
    BY <2>1 DEF CallsTyped
  <2>3. Applies(ws[first].write, table[i])
    BY <2>1 DEF Commit, Failing
  <2>4. /\ table'[i] = AppliedRow(ws[first].write, table[i])
        /\ index'[i] = AppliedIndex(ws[first].write, index[i])
        /\ life'[i] = IF table[i] = None THEN life[i] + 1 ELSE life[i]
    BY <1>2 DEF Commit
  <2> QED
    BY <2>1, <2>2, <2>3, <2>4 DEF Plans
<1> QED
  BY <1>1, <1>2

(* A transaction leaves the store typed: of each concept it applies at     *)
(* most one planned write.                                                 *)
LEMMA CommitTyped ==
  ASSUME TypeOK, NEW c \in Clients, Commit(c)
  PROVE  StoreTyped'
<1>1. ASSUME NEW i \in Ids
      PROVE  /\ table'[i] \in Row \cup {None}
             /\ index'[i] \in Indexed \cup {None}
             /\ life'[i] \in Nat
  BY CommitEffect, AppliedType DEF TypeOK, StoreTyped
<1>2. /\ table' = [i \in Ids |-> table'[i]]
      /\ index' = [i \in Ids |-> index'[i]]
      /\ life' = [i \in Ids |-> life'[i]]
  BY DEF Commit
<1>3. clock' = clock /\ ops' = ops
  BY DEF Commit
<1> QED
  BY <1>1, <1>2, <1>3 DEF TypeOK, StoreTyped

(* What the planning rules produce is a write.                             *)
LEMMA WriteTypes ==
  /\ \A e \in Entry, row \in Row \cup {None}, m \in Models, now \in Nat :
       SaveWrite(e, row, m, now) \in Write
  /\ \A record \in Record, row \in Row \cup {None} : RestoreWrite(record, row) \in Write
<1>1. ASSUME NEW e \in Entry, NEW row \in Row \cup {None}, NEW m \in Models, NEW now \in Nat
      PROVE  SaveWrite(e, row, m, now) \in Write
  <2>1. SetBy(e, row) \in SUBSET Reps
    BY DEF SetBy, Given, Reps
  <2>2. SavedRow(e, row, m, now) \in Row
    BY SavedRowType
  <2>3. e.id \in Ids
    BY DEF Entry
  <2> QED
    BY <2>1, <2>2, <2>3 DEF SaveWrite, Write
<1>2. ASSUME NEW record \in Record, NEW row \in Row \cup {None}
      PROVE  RestoreWrite(record, row) \in Write
  <2>1. RestoredRow(record, row) \in Row /\ record.id \in Ids
    BY RestoredRowType DEF Record
  <2> QED
    BY <2>1 DEF RestoreWrite, Write
<1> QED
  BY <1>1, <1>2

(* What a call is asked to do is typed.                                    *)
LEMMA SaveOfType ==
  ASSUME NEW items \in Seq(Entry)
  PROVE  SaveOf(items) \in Works /\ SaveOf(items).items = items /\ SaveOf(items).kind = "save"
  BY DEF SaveOf, Works

(* So is the save a derivation ends in.                                    *)
LEMMA DerivedSaveType ==
  ASSUME StoreTyped, NEW e \in Entry, NEW from \in Reps, NEW text \in Texts \cup Vectors,
         NEW asked \in BOOLEAN
  PROVE  LET w == DerivedSave(e, from, text, asked)
         IN  /\ w \in Works /\ w.kind = "save" /\ w.items = <<e>> /\ w.items # <<>>
             /\ DistinctIds(w.items) /\ Len(w.items) = 1
<1> DEFINE w == DerivedSave(e, from, text, asked)
<1>1. /\ w = [kind |-> "save", items |-> <<e>>, policy |-> "skip",
              source |-> [rep |-> from, text |-> text, life |-> life[e.id], asked |-> asked]]
      /\ life[e.id] \in Nat
  BY DEF DerivedSave, StoreTyped, Entry
<1>2. w \in Works /\ w.items = <<e>> /\ w.kind = "save"
  BY <1>1 DEF Works, Sources
<1>3. <<e>> # <<>> /\ DistinctIds(<<e>>) /\ Len(<<e>>) = 1
  BY DEF DistinctIds
<1> HIDE DEF w
<1> QED
  BY <1>2, <1>3 DEF w

(* And what a re-embedding that has not read its concept yet is asked.     *)
LEMMA ReembeddingOfType ==
  ASSUME NEW i \in Ids, NEW ns \in Namespaces, NEW overwrite \in BOOLEAN
  PROVE  LET w == ReembeddingOf(i, ns, overwrite)
         IN  /\ w \in Works /\ w.kind = "save" /\ w.items # <<>> /\ DistinctIds(w.items)
             /\ w.source = None
<1> DEFINE e == [id |-> i, ns |-> ns, expect |-> 0,
                 rep |-> [r \in Reps |-> None], prov |-> [r \in Reps |-> None],
                 auto |-> FALSE, overwrite |-> overwrite, tags |-> {}]
           w == ReembeddingOf(i, ns, overwrite)
<1>1. e \in Entry
  <2>1. /\ [r \in Reps |-> None] \in [Reps -> Texts \cup {None}]
        /\ [r \in Reps |-> None] \in [Reps -> Origins \cup {None}]
    OBVIOUS
  <2> QED
    BY <2>1 DEF Entry
<1>2. w = SaveOf(<<e>>)
  BY DEF ReembeddingOf
<1> HIDE DEF e, w
<1>3. <<e>> \in Seq(Entry) /\ <<e>> # <<>> /\ DistinctIds(<<e>>)
  BY <1>1 DEF DistinctIds
<1>4. w \in Works /\ w.kind = "save" /\ w.items = <<e>> /\ w.source = None
  BY <1>2, <1>3, SaveOfType DEF SaveOf
<1> QED
  BY <1>3, <1>4 DEF w

(* A call that is about to read its concept, or to derive from it, keeps   *)
(* the types and the order.                                                *)
LEMMA DerivingKeeps ==
  ASSUME StoreTyped, CallsTyped, NEW c \in Clients, OrderedCall(c),
         pc[c] \in {"idle", "find"}, NEW at \in {"find", "derive"},
         NEW w \in Works, w.kind = "save", w.items # <<>>, DistinctIds(w.items),
         work' = [work EXCEPT ![c] = w], pc' = [pc EXCEPT ![c] = at],
         UNCHANGED <<store, clock, left, planned, attempt, started>>, ops' \in Nat
  PROVE  StoreTyped' /\ CallsTyped' /\ OrderedCall(c)' /\ OthersKept(c)
<1>1. StoreTyped'
  BY DEF StoreTyped, store
<1>2. CallsTyped'
  BY DEF CallsTyped
<1>3. OthersKept(c)
  BY DEF CallsTyped, OthersKept
<1>4. left[c] = <<>> /\ planned[c] = <<>>
  BY DEF OrderedCall, Ordered
<1>5. Ordered(at, w, <<>>, <<>>)
  BY DEF Ordered
<1>6. OrderedCall(c)'
  BY <1>4, <1>5 DEF CallsTyped, OrderedCall
<1> QED
  BY <1>1, <1>2, <1>3, <1>6

(* The save a derivation ends in is an entry.                              *)
LEMMA DerivedEntryType ==
  ASSUME NEW i \in Ids, NEW row \in Row, NEW to \in Reps, NEW text \in Texts,
         NEW from \in Reps, NEW overwrite \in BOOLEAN
  PROVE  DerivedEntry(i, row, to, text, from, overwrite) \in Entry
<1>1. /\ [r \in Reps |-> IF r = to THEN text ELSE None] \in [Reps -> Texts \cup {None}]
      /\ [r \in Reps |-> IF r = to THEN from ELSE None] \in [Reps -> Origins \cup {None}]
  BY DEF Origins
<1>2. row.ns \in Namespaces /\ row.version \in Nat
  BY DEF Row
<1> QED
  BY <1>1, <1>2 DEF DerivedEntry, Entry

(* A restore is work a call can be asked to do.                            *)
LEMMA RestoreOfType ==
  ASSUME NEW records \in Seq(Record), NEW policy \in Policies
  PROVE  /\ RestoreOf(records, policy) \in Works
         /\ RestoreOf(records, policy).items = records
         /\ RestoreOf(records, policy).kind = "restore"
  BY DEF RestoreOf, Works

(* One lemma per action that changes the locals of a call.                 *)

(* Accepting a call leaves the store typed.                                *)
LEMMA AcceptTyped ==
  ASSUME StoreTyped, NEW c \in Clients, NEW w, Accept(c, w)
  PROVE  StoreTyped'
  BY DEF StoreTyped, Accept, store

(* saveBatch up to its loop.                                               *)
LEMMA SubmitSaveKeeps ==
  ASSUME TypeOK, NEW c \in Clients, SubmitSave(c)
  PROVE  StoreTyped' /\ CallsTyped' /\ OrderedCall(c)' /\ OthersKept(c)
<1>1. PICK batch \in Batches : /\ DistinctIds(batch)
                               /\ Accept(c, SaveOf(batch))
                               /\ BeginAttempt(c, 1, batch)
  BY DEF SubmitSave
<1>2. batch \in Seq(Entry) /\ batch # <<>> /\ 1 \in 1..MaxAttempts
  BY StoreAssumption
<1>3. work' = [work EXCEPT ![c] = SaveOf(batch)]
  BY <1>1 DEF Accept
<1>4. SaveOf(batch) \in Works /\ SaveOf(batch).items = batch /\ SaveOf(batch).kind = "save"
  BY <1>2, SaveOfType
<1>5. CallsTyped' /\ OrderedCall(c)' /\ OthersKept(c)
  <2>1. CallsTyped /\ clock \in Nat
    BY DEF TypeOK, StoreTyped
  <2> DEFINE w == SaveOf(batch)
  <2>2. /\ w \in Works /\ w.kind # "idle" /\ w.items # <<>> /\ DistinctIds(w.items)
        /\ BeginAttempt(c, 1, w.items) /\ work' = [work EXCEPT ![c] = w]
    BY <1>1, <1>2, <1>3, <1>4
  <2> HIDE DEF w
  <2> QED
    BY <1>2, <2>1, <2>2, AttemptKeeps
<1>6. StoreTyped'
  BY <1>1, AcceptTyped DEF TypeOK
<1> QED
  BY <1>5, <1>6

(* What import_backup passes on are records.                               *)
LEMMA ImportedType ==
  ASSUME NEW c \in Clients, NEW r, r.records \in Seq(Record), NEW order \in Orders(Kept(r))
  PROVE  [k \in DOMAIN order |->
            [id  |-> r.records[order[k]].id,
             row |-> Imported(r.records[order[k]].row, ModelOf[c], r.reembed)]] \in Seq(Record)
<1>1. Kept(r) \subseteq 1..Len(r.records) /\ Len(r.records) \in Nat
  BY DEF Kept
<1>2. IsFiniteSet(Kept(r))
  <2>1. IsFiniteSet(1..Len(r.records))
    BY <1>1, FS_Interval
  <2> QED
    BY <1>1, <2>1, FS_Subset
<1>3. PICK n \in Nat : order \in [1 .. n -> Kept(r)]
  BY <1>2, FS_CardinalityType DEF Orders
<1>4. ASSUME NEW row \in Row, NEW reembed
      PROVE  Imported(row, ModelOf[c], reembed) \in Row
  <2>1. ModelOf[c] \in Models
    BY StoreAssumption
  <2>2. "vector" \in Reps /\ "markdown" \in Reps /\ "thoughtform" \in Reps
    BY DEF Reps
  <2>3. row.rep \in Holdings /\ row.prov \in [Reps -> Origins]
    BY DEF Row
  <2>4. ASSUME NEW v \in Vectors \cup {None}
        PROVE  [row.rep EXCEPT !["vector"] = v] \in Holdings
    BY <2>2, <2>3 DEF Holdings, Contents
  <2>5. HasText(row) => row.rep[TextRep(row)] \in Texts /\ TextRep(row) \in Reps
    BY <2>2, <2>3 DEF HasText, TextRep, Holdings
  <2>6. Reembedded(row, ModelOf[c]) \in Row
    <3> DEFINE v == IF HasText(row) THEN [of |-> row.rep[TextRep(row)], model |-> ModelOf[c]]
                    ELSE None
               o == IF HasText(row) THEN TextRep(row) ELSE "unset"
    <3>1. v \in Vectors \cup {None} /\ o \in Origins
      BY <2>1, <2>5 DEF Vectors, Origins
    <3>2. Reembedded(row, ModelOf[c]) = [row EXCEPT !.rep["vector"] = v, !.prov["vector"] = o]
      BY DEF Reembedded
    <3> HIDE DEF v, o
    <3>3. [row.prov EXCEPT !["vector"] = o] \in [Reps -> Origins]
      BY <2>3, <3>1
    <3> QED
      BY <2>4, <3>1, <3>2, <3>3 DEF Row
  <2>7. Stamped(row, ModelOf[c]) \in Row
    <3> DEFINE v == IF row.rep["vector"] = None THEN None
                    ELSE [of |-> row.rep["vector"].of, model |-> ModelOf[c]]
    <3>1. v \in Vectors \cup {None}
      BY <2>1, <2>2, <2>3 DEF Holdings, Vectors
    <3>2. Stamped(row, ModelOf[c]) = [row EXCEPT !.rep["vector"] = v]
      BY DEF Stamped
    <3> HIDE DEF v
    <3> QED
      BY <2>4, <3>1, <3>2 DEF Row
  <2> QED
    BY <2>6, <2>7 DEF Imported
<1>5. ASSUME NEW k \in 1 .. n
      PROVE  [id  |-> r.records[order[k]].id,
              row |-> Imported(r.records[order[k]].row, ModelOf[c], r.reembed)] \in Record
  <2>1. r.records[order[k]] \in Record
    BY <1>1, <1>3
  <2> QED
    BY <1>4, <2>1 DEF Record
<1> QED
  BY <1>3, <1>5

(* import_backup and restore up to its loop.                               *)
LEMMA SubmitRestoreKeeps ==
  ASSUME TypeOK, NEW c \in Clients, SubmitRestore(c)
  PROVE  StoreTyped' /\ CallsTyped' /\ OrderedCall(c)' /\ OthersKept(c)
<1> DEFINE Read(r, order) ==
             [k \in DOMAIN order |->
                [id  |-> r.records[order[k]].id,
                 row |-> Imported(r.records[order[k]].row, ModelOf[c], r.reembed)]]
<1>1. PICK r \in Restores : \E order \in Orders(Kept(r)) :
        /\ Read(r, order) # <<>> /\ DistinctIds(Read(r, order))
        /\ Accept(c, RestoreOf(Read(r, order), r.policy))
        /\ BeginAttempt(c, 1, Read(r, order))
  BY DEF SubmitRestore
<1>2. PICK order \in Orders(Kept(r)) :
        /\ Read(r, order) # <<>> /\ DistinctIds(Read(r, order))
        /\ Accept(c, RestoreOf(Read(r, order), r.policy))
        /\ BeginAttempt(c, 1, Read(r, order))
  BY <1>1
<1>3. r.records \in Seq(Record) /\ r.policy \in Policies /\ 1 \in 1..MaxAttempts
  BY StoreAssumption DEF Backups
<1>4. PICK records : records = Read(r, order)
  OBVIOUS
<1>5. records \in Seq(Record)
  BY <1>3, <1>4, ImportedType
<1> HIDE DEF Read
<1>6. work' = [work EXCEPT ![c] = RestoreOf(records, r.policy)]
  BY <1>2, <1>4 DEF Accept
<1>7. /\ RestoreOf(records, r.policy) \in Works /\ RestoreOf(records, r.policy).items = records
      /\ RestoreOf(records, r.policy).kind # "idle"
  BY <1>3, <1>5, RestoreOfType
<1> QED
  BY <1>2, <1>3, <1>4, <1>6, <1>7, AttemptKeeps, AcceptTyped DEF TypeOK, StoreTyped

(* What a conversion derives is a text.                                    *)
LEMMA DerivedType ==
  ASSUME NEW from, NEW to, NEW content, from # "vector" => content \in Texts
  PROVE  Derived(from, to, content) \subseteq Texts
  BY StoreAssumption DEF Derived

(* ConversionService.convert reads a concept and starts to derive from it. *)
LEMMA ConversionStarts ==
  ASSUME TypeOK, NEW c \in Clients, StartConversion(c)
  PROVE  \E i \in Ids, from \in Reps, to \in Reps, text \in Texts, overwrite \in BOOLEAN :
           LET e == DerivedEntry(i, table[i], to, text, from, overwrite)
           IN  /\ table[i] \in Row /\ e \in Entry
               /\ table[i].rep[from] \in Texts \cup Vectors
               /\ overwrite \/ SparesAuthored(e, table[i])
               /\ Accept(c, DerivedSave(e, from, table[i].rep[from], overwrite))
               /\ Deriving(c)
<1>1. PICK i \in Ids, conv \in Conversions, overwrite \in BOOLEAN :
        /\ conv[1] # conv[2] /\ table[i] # None /\ table[i].rep[conv[1]] # None
        /\ \/ table[i].rep[conv[2]] = None
           \/ IsMachineMade(table[i].prov[conv[2]]) \/ overwrite
        /\ \E text \in Derived(conv[1], conv[2], table[i].rep[conv[1]]) :
             Accept(c, DerivedSave(DerivedEntry(i, table[i], conv[2], text, conv[1], overwrite),
                                   conv[1], table[i].rep[conv[1]], overwrite))
        /\ Deriving(c)
  BY DEF StartConversion
<1>2. /\ conv[1] \in Reps /\ conv[2] \in Reps
      /\ table[i] \in Row
      /\ table[i].rep[conv[1]] \in (IF conv[1] = "vector" THEN Vectors ELSE Texts)
  BY <1>1, StoreAssumption DEF TypeOK, StoreTyped, Row, Holdings
<1>3. PICK text \in Texts :
        Accept(c, DerivedSave(DerivedEntry(i, table[i], conv[2], text, conv[1], overwrite),
                              conv[1], table[i].rep[conv[1]], overwrite))
  BY <1>1, <1>2, DerivedType
<1> DEFINE e == DerivedEntry(i, table[i], conv[2], text, conv[1], overwrite)
<1>4. e \in Entry
  BY <1>2, DerivedEntryType
<1>5. overwrite \/ SparesAuthored(e, table[i])
  BY <1>1 DEF SparesAuthored, DerivedEntry
<1> QED
  BY <1>1, <1>2, <1>3, <1>4, <1>5

(* ConversionService.convert up to its save.                               *)
LEMMA StartConversionKeeps ==
  ASSUME TypeOK, InOrder, NEW c \in Clients, StartConversion(c)
  PROVE  StoreTyped' /\ CallsTyped' /\ OrderedCall(c)' /\ OthersKept(c)
<1>1. PICK i \in Ids, from \in Reps, to \in Reps, text \in Texts, overwrite \in BOOLEAN :
        LET e == DerivedEntry(i, table[i], to, text, from, overwrite)
        IN  /\ e \in Entry /\ table[i].rep[from] \in Texts \cup Vectors
            /\ Accept(c, DerivedSave(e, from, table[i].rep[from], overwrite))
            /\ Deriving(c)
  BY ConversionStarts
<1> DEFINE e == DerivedEntry(i, table[i], to, text, from, overwrite)
           w == DerivedSave(e, from, table[i].rep[from], overwrite)
<1>2. w \in Works /\ w.kind = "save" /\ w.items # <<>> /\ DistinctIds(w.items)
  BY <1>1, DerivedSaveType DEF TypeOK
<1>3. Accept(c, w)
  BY <1>1
<1> HIDE DEF w
<1>4. /\ pc[c] = "idle" /\ work' = [work EXCEPT ![c] = w]
      /\ UNCHANGED <<store, clock>> /\ ops' = ops + 1
  BY <1>3 DEF Accept
<1>6. /\ pc' = [pc EXCEPT ![c] = "derive"]
      /\ UNCHANGED <<left, planned, attempt, started>>
  BY <1>1 DEF Deriving
<1>7. ops' \in Nat
  BY <1>4 DEF TypeOK, StoreTyped
<1>5. OrderedCall(c)
  BY DEF InOrder
<1> QED
  BY <1>2, <1>4, <1>5, <1>6, <1>7, DerivingKeeps DEF TypeOK

(* reembed finds a concept to derive a vector of.                          *)
LEMMA ListForeignKeeps ==
  ASSUME TypeOK, InOrder, NEW c \in Clients, ListForeign(c)
  PROVE  StoreTyped' /\ CallsTyped' /\ OrderedCall(c)' /\ OthersKept(c)
<1>1. PICK i \in Ids, overwrite \in BOOLEAN :
        table[i] # None /\ Accept(c, ReembeddingOf(i, table[i].ns, overwrite))
  BY DEF ListForeign
<1> DEFINE w == ReembeddingOf(i, table[i].ns, overwrite)
<1>2. table[i].ns \in Namespaces
  BY <1>1 DEF TypeOK, StoreTyped, Row
<1>3. w \in Works /\ w.kind = "save" /\ w.items # <<>> /\ DistinctIds(w.items)
  BY <1>2, ReembeddingOfType
<1>4. Accept(c, w)
  BY <1>1
<1> HIDE DEF w
<1>5. /\ pc[c] = "idle" /\ work' = [work EXCEPT ![c] = w]
      /\ UNCHANGED <<store, clock>> /\ ops' = ops + 1
  BY <1>4 DEF Accept
<1>7. /\ pc' = [pc EXCEPT ![c] = "find"]
      /\ UNCHANGED <<left, planned, attempt, started>>
  BY DEF ListForeign
<1>8. ops' \in Nat
  BY <1>5 DEF TypeOK, StoreTyped
<1>6. OrderedCall(c)
  BY DEF InOrder
<1> QED
  BY <1>3, <1>5, <1>6, <1>7, <1>8, DerivingKeeps DEF TypeOK

(* reembed reads it and starts to derive, or leaves it alone.              *)
LEMMA ForeignRead ==
  ASSUME TypeOK, InOrder, NEW c \in Clients, ReadForeign(c)
  PROVE  \/ Finish(c)
         \/ \E i \in Ids, from \in Reps, asked \in BOOLEAN :
              LET e == DerivedEntry(i, table[i], "vector", table[i].rep[from], from, TRUE)
              IN  /\ table[i] \in Row /\ e \in Entry /\ table[i].rep[from] \in Texts
                  /\ asked \/ SparesAuthored(e, table[i])
                  /\ work' = [work EXCEPT ![c] = DerivedSave(e, from, table[i].rep[from], asked)]
                  /\ Deriving(c)
<1> DEFINE entry == work[c].items[1]
           i == entry.id
           row == table[i]
           from == TextRep(row)
<1>1. entry \in Entry
  <2>1. work[c] \in Works /\ work[c].kind = "save" /\ work[c].items # <<>>
    BY DEF TypeOK, CallsTyped, InOrder, OrderedCall, Ordered, ReadForeign
  <2>2. work[c].items \in Seq(Entry)
    BY <2>1 DEF Works
  <2> QED
    BY <2>1, <2>2, EmptySeq
<1>2. i \in Ids /\ entry.overwrite \in BOOLEAN /\ row \in Row \cup {None}
  BY <1>1 DEF Entry, TypeOK, StoreTyped
<1>3. CASE Replaceable(row, entry.ns, entry.overwrite)
  <2>1. /\ row \in Row /\ from \in Reps /\ "vector" \in Reps
        /\ row.rep[from] \in Texts
        /\ IsMachineMade(row.prov["vector"]) \/ entry.overwrite
    BY <1>2, <1>3 DEF Replaceable, HasText, TextRep, Row, Holdings, Reps
  <2> DEFINE e == DerivedEntry(i, row, "vector", row.rep[from], from, TRUE)
  <2>2. e \in Entry
    BY <1>2, <2>1, DerivedEntryType
  <2>3. entry.overwrite \/ SparesAuthored(e, row)
    BY <2>1 DEF SparesAuthored, DerivedEntry
  <2>4. /\ work' = [work EXCEPT ![c] = DerivedSave(e, from, row.rep[from], entry.overwrite)]
        /\ Deriving(c)
    BY <1>3 DEF ReadForeign
  <2> HIDE DEF entry, from
  <2> QED
    BY <1>2, <2>1, <2>2, <2>3, <2>4
<1>4. CASE ~Replaceable(row, entry.ns, entry.overwrite)
  BY <1>4 DEF ReadForeign
<1> QED
  BY <1>3, <1>4

(* The read of one concept of a re-embedding.                              *)
LEMMA ReadForeignKeeps ==
  ASSUME TypeOK, InOrder, NEW c \in Clients, ReadForeign(c)
  PROVE  StoreTyped' /\ CallsTyped' /\ OrderedCall(c)' /\ OthersKept(c)
<1>1. pc[c] = "find" /\ UNCHANGED <<store, clock, ops>>
  BY DEF ReadForeign
<1>2. CASE Finish(c)
  <2>1. StoreTyped'
    BY <1>1 DEF TypeOK, StoreTyped, store
  <2> QED
    BY <1>2, <2>1, FinishKeeps DEF TypeOK
<1>3. CASE \E i \in Ids, from \in Reps, asked \in BOOLEAN :
             LET e == DerivedEntry(i, table[i], "vector", table[i].rep[from], from, TRUE)
             IN  /\ e \in Entry /\ table[i].rep[from] \in Texts
                 /\ work' = [work EXCEPT ![c] = DerivedSave(e, from, table[i].rep[from], asked)]
                 /\ Deriving(c)
  <2>1. PICK i \in Ids, from \in Reps, asked \in BOOLEAN :
          LET e == DerivedEntry(i, table[i], "vector", table[i].rep[from], from, TRUE)
          IN  /\ e \in Entry /\ table[i].rep[from] \in Texts
              /\ work' = [work EXCEPT ![c] = DerivedSave(e, from, table[i].rep[from], asked)]
              /\ Deriving(c)
    BY <1>3
  <2> DEFINE e == DerivedEntry(i, table[i], "vector", table[i].rep[from], from, TRUE)
             w == DerivedSave(e, from, table[i].rep[from], asked)
  <2>2. w \in Works /\ w.kind = "save" /\ w.items # <<>> /\ DistinctIds(w.items)
    BY <2>1, DerivedSaveType DEF TypeOK
  <2>3. work' = [work EXCEPT ![c] = w]
    BY <2>1
  <2> HIDE DEF w
  <2>4. /\ pc' = [pc EXCEPT ![c] = "derive"]
        /\ UNCHANGED <<left, planned, attempt, started>>
        /\ ops' \in Nat
    BY <1>1, <2>1 DEF Deriving, TypeOK, StoreTyped
  <2>5. OrderedCall(c)
    BY DEF InOrder
  <2> QED
    BY <1>1, <2>2, <2>3, <2>4, <2>5, DerivingKeeps DEF TypeOK
<1> QED
  BY <1>2, <1>3, ForeignRead

(* A derivation enters the save loop.                                      *)
LEMMA EndDerivationKeeps ==
  ASSUME TypeOK, InOrder, NEW c \in Clients, EndDerivation(c)
  PROVE  StoreTyped' /\ CallsTyped' /\ OrderedCall(c)' /\ OthersKept(c)
<1>1. /\ work[c] \in Works /\ work[c].kind # "idle"
      /\ work[c].items # <<>> /\ DistinctIds(work[c].items)
  BY DEF TypeOK, CallsTyped, EndDerivation, InOrder, OrderedCall, Ordered
<1>2. BeginAttempt(c, 1, work[c].items) /\ UNCHANGED <<store, clock, work, ops>>
  BY DEF EndDerivation
<1>3. work' = [work EXCEPT ![c] = work[c]]
  BY <1>2 DEF TypeOK, CallsTyped
<1>4. 1 \in 1..MaxAttempts /\ clock \in Nat
  BY StoreAssumption DEF TypeOK, StoreTyped
<1>5. StoreTyped'
  BY <1>2 DEF TypeOK, StoreTyped, store
<1> QED
  BY <1>1, <1>2, <1>3, <1>4, <1>5, AttemptKeeps DEF TypeOK

(* A failed transaction: the call gives up or starts another attempt, of   *)
(* which there are at most MaxAttempts.                                    *)
LEMMA RetryKeeps ==
  ASSUME TypeOK, InOrder, NEW c \in Clients, Retry(c)
  PROVE  StoreTyped' /\ CallsTyped' /\ OrderedCall(c)' /\ OthersKept(c)
<1>1. StoreTyped'
  BY DEF Retry, TypeOK, StoreTyped, store
<1>2. CASE GivesUp(c)
  BY <1>1, <1>2, FinishKeeps DEF Retry, TypeOK
<1>3. CASE ~GivesUp(c)
  <2>1. /\ work[c] \in Works /\ work[c].kind # "idle"
        /\ work[c].items # <<>> /\ DistinctIds(work[c].items)
    BY DEF TypeOK, CallsTyped, Retry, InOrder, OrderedCall, Ordered
  <2>2. BeginAttempt(c, attempt[c] + 1, work[c].items) /\ UNCHANGED work
    BY <1>3 DEF Retry
  <2>3. work' = [work EXCEPT ![c] = work[c]]
    BY <2>2 DEF TypeOK, CallsTyped
  <2>4. attempt[c] + 1 \in 1..MaxAttempts /\ clock \in Nat
    BY <1>3, StoreAssumption DEF TypeOK, StoreTyped, CallsTyped, GivesUp
  <2> QED
    BY <1>1, <2>1, <2>2, <2>3, <2>4, AttemptKeeps DEF TypeOK
<1> QED
  BY <1>2, <1>3

(* The next item of a call is typed.                                       *)
LEMMA HeadType ==
  ASSUME TypeOK, InOrder, NEW c \in Clients, pc[c] = "plan"
  PROVE  /\ work[c].kind = "save" => Head(left[c]) \in Entry
         /\ work[c].kind = "restore" => Head(left[c]) \in Record
<1>1. /\ left[c] \in Seq(Entry \cup Record) /\ left[c] # <<>>
      /\ planned[c] \in Seq(Plans) /\ work[c] \in Works
  BY DEF TypeOK, CallsTyped, InOrder, OrderedCall, Ordered
<1>2. /\ Len(left[c]) \in Nat \ {0} /\ Len(planned[c]) \in Nat
      /\ Head(left[c]) = left[c][1]
  BY <1>1, EmptySeq
<1>3. Ordered("plan", work[c], left[c], planned[c])
  BY DEF InOrder, OrderedCall
<1>4. CASE work[c].kind = "save"
  <2>1. work[c].items \in Seq(Entry)
    BY <1>1, <1>4 DEF Works
  <2>2. /\ Len(planned[c]) + Len(left[c]) = Len(work[c].items)
        /\ \A k \in 1..Len(left[c]) : left[c][k] = work[c].items[Len(planned[c]) + k]
    BY <1>3, <1>4 DEF Ordered
  <2>3. Len(planned[c]) + 1 \in 1..Len(work[c].items) /\ 1 \in 1..Len(left[c])
    <3>1. ASSUME NEW m \in Nat, NEW n \in Nat \ {0}, NEW sum, m + n = sum
          PROVE  m + 1 \in 1..sum /\ 1 \in 1..n
      BY <3>1
    <3> QED
      BY <1>2, <2>2, <3>1
  <2>4. \A k \in 1..Len(work[c].items) : work[c].items[k] \in Entry
    BY <2>1
  <2> QED
    BY <1>2, <1>4, <2>2, <2>3, <2>4
<1>5. CASE work[c].kind = "restore"
  BY <1>2, <1>3, <1>5 DEF Ordered
<1> QED
  BY <1>4, <1>5

(* One round of the planning loop of saveBatch.                            *)
LEMMA PlanSaveKeeps ==
  ASSUME TypeOK, InOrder, NEW c \in Clients, PlanSave(c)
  PROVE  StoreTyped' /\ CallsTyped' /\ OrderedCall(c)' /\ OthersKept(c)
<1> DEFINE e == Head(left[c])
           row == table[e.id]
           p == Planned(e, SaveWrite(e, row, ModelOf[c], started[c]))
<1>1. pc[c] = "plan" /\ work[c].kind = "save" /\ UNCHANGED <<store, clock, ops>>
  BY DEF PlanSave
<1>2. StoreTyped'
  BY <1>1 DEF TypeOK, StoreTyped, store
<1>3. CASE Rejected(e, row)
  BY <1>2, <1>3, FinishKeeps DEF PlanSave, TypeOK
<1>4. CASE ~Rejected(e, row)
  <2>1. Plan(c, Append(planned[c], p))
    BY <1>4 DEF PlanSave
  <2>2. e \in Entry
    BY <1>1, HeadType
  <2>3. /\ row \in Row \cup {None} /\ ModelOf[c] \in Models /\ started[c] \in Nat
        /\ e.id \in Ids /\ life[e.id] \in Nat
    BY <2>2, StoreAssumption DEF TypeOK, StoreTyped, CallsTyped, Entry
  <2>4. p \in Plans /\ p.item = e
    <3>1. SaveWrite(e, row, ModelOf[c], started[c]) \in Write
      BY <2>2, <2>3, WriteTypes
    <3>2. SaveWrite(e, row, ModelOf[c], started[c]).id = e.id
      BY DEF SaveWrite
    <3> QED
      BY <2>2, <2>3, <3>1, <3>2 DEF Planned, Plans
  <2>5. OrderedCall(c)
    BY DEF InOrder
  <2> HIDE DEF p, e
  <2> QED
    BY <1>1, <1>2, <2>1, <2>4, <2>5, PlanKeeps DEF TypeOK, e
<1> QED
  BY <1>3, <1>4

(* One round of the planning loop of restore.                              *)
LEMMA PlanRestoreKeeps ==
  ASSUME TypeOK, InOrder, NEW c \in Clients, PlanRestore(c)
  PROVE  StoreTyped' /\ CallsTyped' /\ OrderedCall(c)' /\ OthersKept(c)
<1> DEFINE record == Head(left[c])
           row == table[record.id]
           p == Planned(record, RestoreWrite(record, row))
<1>1. pc[c] = "plan" /\ work[c].kind = "restore" /\ UNCHANGED <<store, clock, ops>>
  BY DEF PlanRestore
<1>2. StoreTyped'
  BY <1>1 DEF TypeOK, StoreTyped, store
<1>3. OrderedCall(c)
  BY DEF InOrder
<1>4. CASE Skipped(record, row, work[c].policy)
  <2>1. Plan(c, planned[c])
    BY <1>4 DEF PlanRestore
  <2> QED
    BY <1>1, <1>2, <1>3, <2>1, PlanKeeps DEF TypeOK
<1>5. CASE ~Skipped(record, row, work[c].policy)
  <2>1. Plan(c, Append(planned[c], p))
    BY <1>5 DEF PlanRestore
  <2>2. record \in Record
    BY <1>1, HeadType
  <2>3. row \in Row \cup {None} /\ record.id \in Ids /\ life[record.id] \in Nat
    BY <2>2 DEF TypeOK, StoreTyped, Record
  <2>4. p \in Plans /\ p.item = record
    <3>1. RestoreWrite(record, row) \in Write
      BY <2>2, <2>3, WriteTypes
    <3>2. RestoreWrite(record, row).id = record.id
      BY DEF RestoreWrite
    <3> QED
      BY <2>2, <2>3, <3>1, <3>2 DEF Planned, Plans
  <2> HIDE DEF p, record
  <2> QED
    BY <1>1, <1>2, <1>3, <2>1, <2>4, PlanKeeps DEF TypeOK, record
<1> QED
  BY <1>4, <1>5

(* A transaction that is applied ends its call.                            *)
LEMMA CommitKeeps ==
  ASSUME TypeOK, NEW c \in Clients, Commit(c)
  PROVE  StoreTyped' /\ CallsTyped' /\ OrderedCall(c)' /\ OthersKept(c)
<1>1. Finish(c)
  BY DEF Commit
<1> QED
  BY <1>1, CommitTyped, FinishKeeps DEF TypeOK

(* A call that throws.                                                     *)
LEMMA FailKeeps ==
  ASSUME TypeOK, NEW c \in Clients, Fail(c)
  PROVE  StoreTyped' /\ CallsTyped' /\ OrderedCall(c)' /\ OthersKept(c)
<1>1. StoreTyped' /\ Finish(c)
  BY DEF Fail, TypeOK, StoreTyped, store
<1> QED
  BY <1>1, FinishKeeps DEF TypeOK

(* A step that leaves every call's locals alone (Tick, Delete).            *)
LEMMA StillKeeps ==
  ASSUME TypeOK, InOrder, UNCHANGED locals, StoreTyped'
  PROVE  TypeOK' /\ InOrder'
<1>1. CallsTyped'
  BY DEF TypeOK, CallsTyped, locals
<1>2. InOrder'
  BY DEF InOrder, OrderedCall, locals
<1> QED
  BY <1>1, <1>2 DEF TypeOK

(* Types and order are preserved by every step: one lemma per action.      *)
LEMMA TypeStep ==
  ASSUME TypeOK, InOrder, [Next]_vars
  PROVE  TypeOK' /\ InOrder'
<1>1. ASSUME NEW c \in Clients,
             StoreTyped' /\ CallsTyped' /\ OrderedCall(c)' /\ OthersKept(c)
      PROVE  TypeOK' /\ InOrder'
  BY <1>1, OthersInOrder DEF TypeOK
<1>2. CASE Tick
  BY <1>2, StillKeeps DEF Tick, TypeOK, StoreTyped, store
<1>3. ASSUME NEW c \in Clients, Request(c)
      PROVE  TypeOK' /\ InOrder'
  <2>1. CASE Delete(c)
    <3>1. StoreTyped'
      BY <2>1 DEF Delete, TypeOK, StoreTyped
    <3> QED
      BY <2>1, <3>1, StillKeeps DEF Delete
  <2>2. CASE SubmitSave(c)
    BY <1>1, <2>2, SubmitSaveKeeps
  <2>3. CASE SubmitRestore(c)
    BY <1>1, <2>3, SubmitRestoreKeeps
  <2>4. CASE StartConversion(c)
    BY <1>1, <2>4, StartConversionKeeps
  <2>5. CASE ListForeign(c)
    BY <1>1, <2>5, ListForeignKeeps
  <2> QED
    BY <1>3, <2>1, <2>2, <2>3, <2>4, <2>5 DEF Request
<1>4. ASSUME NEW c \in Clients, Step(c)
      PROVE  TypeOK' /\ InOrder'
  <2>1. CASE EndDerivation(c)
    BY <1>1, <2>1, EndDerivationKeeps
  <2>2. CASE PlanSave(c)
    BY <1>1, <2>2, PlanSaveKeeps
  <2>3. CASE PlanRestore(c)
    BY <1>1, <2>3, PlanRestoreKeeps
  <2>4. CASE Commit(c)
    BY <1>1, <2>4, CommitKeeps
  <2>5. CASE Retry(c)
    BY <1>1, <2>5, RetryKeeps
  <2>6. CASE Fail(c)
    BY <1>1, <2>6, FailKeeps
  <2>7. CASE ReadForeign(c)
    BY <1>1, <2>7, ReadForeignKeeps
  <2> QED
    BY <1>4, <2>1, <2>2, <2>3, <2>4, <2>5, <2>6, <2>7 DEF Step, Advance
<1>5. CASE UNCHANGED vars
  <2>1. StoreTyped' /\ UNCHANGED locals
    BY <1>5 DEF vars, store, locals, TypeOK, StoreTyped
  <2> QED
    BY <2>1, StillKeeps
<1> QED
  BY <1>2, <1>3, <1>4, <1>5 DEF Next

(* The initial state is typed and in order.                                *)
LEMMA TypeInit == Init => TypeOK /\ InOrder
<1> SUFFICES ASSUME Init PROVE TypeOK /\ InOrder
  OBVIOUS
<1>1. Idle \in Works
  BY DEF Idle, Works
<1>2. TypeOK
  BY <1>1, StoreAssumption DEF Init, TypeOK, StoreTyped, CallsTyped
<1>3. InOrder
  BY DEF Init, InOrder, OrderedCall, Ordered
<1> QED
  BY <1>2, <1>3

(* Every variable keeps its type, calls work through their items in order, *)
(* and no call makes more than MaxAttempts attempts (the loop of saveBatch *)
(* and restore), for any number of clients and any requests.               *)
THEOREM TypeCorrect == Spec => [](TypeOK /\ InOrder)
<1>1. TypeOK /\ InOrder /\ [Next]_vars => (TypeOK /\ InOrder)'
  BY TypeStep
<1> QED
  BY <1>1, TypeInit, PTL DEF Spec

-----------------------------------------------------------------------------
(* Plans and rows.                                                         *)

(* What a step does to the plan of a call: it forgets it, leaves it, or    *)
(* adds one write, planned by the rules against the current row.           *)
PlanForgotten(c) == planned'[c] = <<>>
PlanLeft(c) == planned'[c] = planned[c] /\ work'[c] = work[c] /\ started'[c] = started[c]
PlanExtended(c, p) ==
  /\ planned'[c] = Append(planned[c], p)
  /\ UNCHANGED <<store, work, started>>
  /\ p.write.base = table[p.write.id] /\ p.life = life[p.write.id]
  /\ Ruled(p, work[c], ModelOf[c], started[c])

(* In every step the plan of every call is forgotten, left, or extended by *)
(* one write made by the rules from the row it has just read.              *)
LEMMA PlanChange ==
  ASSUME TypeOK, InOrder, [Next]_vars, NEW c \in Clients
  PROVE  \/ PlanForgotten(c) \/ PlanLeft(c)
         \/ \E p \in Plans : PlanExtended(c, p)
<1> USE DEF PlanForgotten, PlanLeft
<1>1. CASE Tick \/ UNCHANGED vars
  BY <1>1 DEF Tick, vars, locals
<1>2. ASSUME NEW d \in Clients, d # c, Request(d) \/ Step(d)
      PROVE  PlanLeft(c)
  <2>1. CASE Delete(d)
    BY <2>1 DEF Delete, locals
  <2>2. CASE ~Delete(d)
    <3>1. OthersKept(d)
      BY <1>2, <2>2, SubmitSaveKeeps, SubmitRestoreKeeps, StartConversionKeeps,
         ListForeignKeeps, ReadForeignKeeps, EndDerivationKeeps, PlanSaveKeeps, PlanRestoreKeeps,
         CommitKeeps, RetryKeeps, FailKeeps DEF Request, Step, Advance
    <3> QED
      BY <1>2, <3>1 DEF OthersKept
  <2> QED
    BY <2>1, <2>2
<1>3. ASSUME Finish(c) PROVE PlanForgotten(c)
  BY <1>3 DEF Finish, TypeOK, CallsTyped
<1>4. ASSUME NEW n, NEW items, BeginAttempt(c, n, items) PROVE PlanForgotten(c)
  BY <1>4 DEF BeginAttempt, TypeOK, CallsTyped
<1>5. ASSUME Request(c)
      PROVE  PlanForgotten(c) \/ PlanLeft(c)
  <2>1. CASE Delete(c)
    BY <2>1 DEF Delete, locals
  <2>2. CASE SubmitSave(c)
    BY <1>4, <2>2 DEF SubmitSave
  <2>3. CASE SubmitRestore(c)
    BY <1>4, <2>3 DEF SubmitRestore
  <2>4. CASE StartConversion(c) \/ ListForeign(c)
    <3>1. pc[c] = "idle" /\ UNCHANGED planned
      BY <2>4 DEF StartConversion, ListForeign, Deriving, Accept
    <3>2. planned[c] = <<>>
      BY <3>1 DEF InOrder, OrderedCall, Ordered
    <3> QED
      BY <3>1, <3>2
  <2> QED
    BY <1>5, <2>1, <2>2, <2>3, <2>4 DEF Request
<1>6. ASSUME Step(c)
      PROVE  \/ PlanForgotten(c) \/ PlanLeft(c)
             \/ \E p \in Plans : PlanExtended(c, p)
  <2>1. CASE EndDerivation(c)
    BY <1>4, <2>1 DEF EndDerivation
  <2>2. CASE Commit(c)
    BY <1>3, <2>2 DEF Commit
  <2>3. CASE Retry(c)
    BY <1>3, <1>4, <2>3 DEF Retry
  <2>4. ASSUME NEW new, Plan(c, new), pc[c] = "plan"
        PROVE  \/ PlanForgotten(c)
               \/ planned'[c] = new /\ UNCHANGED <<work, started>>
    BY <1>3, <2>4 DEF Plan, TypeOK, CallsTyped
  <2>5. CASE PlanSave(c)
    <3> DEFINE e == Head(left[c])
               row == table[e.id]
               w == SaveWrite(e, row, ModelOf[c], started[c])
               p == Planned(e, w)
    <3>1. pc[c] = "plan" /\ work[c].kind = "save" /\ UNCHANGED <<store, clock, ops>>
      BY <2>5 DEF PlanSave
    <3>2. CASE Rejected(e, row)
      BY <1>3, <2>5, <3>2 DEF PlanSave
    <3>3. CASE ~Rejected(e, row)
      <4>1. Plan(c, Append(planned[c], p))
        BY <2>5, <3>3 DEF PlanSave
      <4>2. e \in Entry
        BY <3>1, HeadType
      <4>3. /\ row \in Row \cup {None} /\ ModelOf[c] \in Models /\ started[c] \in Nat
            /\ e.id \in Ids /\ life[e.id] \in Nat
        BY <4>2, StoreAssumption DEF TypeOK, StoreTyped, CallsTyped, Entry
      <4>4. w \in Write /\ w.id = e.id /\ w.base = row
        BY <4>2, <4>3, WriteTypes DEF SaveWrite
      <4>5. /\ p \in Plans /\ p.item = e /\ p.write = w /\ p.life = life[e.id]
        BY <4>2, <4>3, <4>4 DEF Planned, Plans
      <4>6. Ruled(p, work[c], ModelOf[c], started[c])
        BY <3>1, <3>3, <4>4, <4>5 DEF Ruled
      <4> HIDE DEF p
      <4> QED
        BY <2>4, <3>1, <4>1, <4>4, <4>5, <4>6 DEF PlanExtended
    <3> QED
      BY <3>2, <3>3
  <2>6. CASE PlanRestore(c)
    <3> DEFINE record == Head(left[c])
               row == table[record.id]
               w == RestoreWrite(record, row)
               p == Planned(record, w)
    <3>1. pc[c] = "plan" /\ work[c].kind = "restore" /\ UNCHANGED <<store, clock, ops>>
      BY <2>6 DEF PlanRestore
    <3>2. CASE Skipped(record, row, work[c].policy)
      <4>1. Plan(c, planned[c])
        BY <2>6, <3>2 DEF PlanRestore
      <4> QED
        BY <2>4, <3>1, <4>1
    <3>3. CASE ~Skipped(record, row, work[c].policy)
      <4>1. Plan(c, Append(planned[c], p))
        BY <2>6, <3>3 DEF PlanRestore
      <4>2. record \in Record
        BY <3>1, HeadType
      <4>3. /\ row \in Row \cup {None} /\ record.id \in Ids /\ life[record.id] \in Nat
        BY <4>2 DEF TypeOK, StoreTyped, Record
      <4>4. w \in Write /\ w.id = record.id /\ w.base = row
        BY <4>2, <4>3, WriteTypes DEF RestoreWrite
      <4>5. /\ p \in Plans /\ p.item = record /\ p.write = w /\ p.life = life[record.id]
        BY <4>2, <4>3, <4>4 DEF Planned, Plans
      <4>6. Ruled(p, work[c], ModelOf[c], started[c])
        BY <3>1, <3>3, <4>4, <4>5 DEF Ruled
      <4> HIDE DEF p
      <4> QED
        BY <2>4, <3>1, <4>1, <4>4, <4>5, <4>6 DEF PlanExtended
    <3> QED
      BY <3>2, <3>3
  <2>7. CASE Fail(c)
    BY <1>3, <2>7 DEF Fail
  <2>8. CASE ReadForeign(c)
    <3>1. CASE Finish(c)
      BY <1>3, <3>1
    <3>2. CASE Deriving(c)
      <4>1. pc[c] = "find" /\ UNCHANGED planned
        BY <2>8, <3>2 DEF ReadForeign, Deriving
      <4>2. planned[c] = <<>>
        BY <4>1 DEF InOrder, OrderedCall, Ordered
      <4> QED
        BY <4>1, <4>2
    <3> QED
      BY <2>8, <3>1, <3>2 DEF ReadForeign
  <2> QED
    BY <1>6, <2>1, <2>2, <2>3, <2>5, <2>6, <2>7, <2>8 DEF Step, Advance
<1> QED
  BY <1>1, <1>2, <1>5, <1>6 DEF Next

(* The items of planned writes are typed.                                  *)
LEMMA ItemType ==
  ASSUME TypeOK, InOrder, NEW c \in Clients, NEW k \in DOMAIN planned[c]
  PROVE  /\ work[c].kind \in {"save", "restore"}
         /\ work[c].kind = "save" =>
              /\ planned[c][k].item \in Entry
              /\ k \in DOMAIN work[c].items
              /\ planned[c][k].item = work[c].items[k]
         /\ work[c].kind = "restore" => planned[c][k].item \in Record
<1>1. /\ planned[c] \in Seq(Plans) /\ left[c] \in Seq(Entry \cup Record)
      /\ work[c] \in Works
      /\ pc[c] \in {"idle", "find", "derive", "plan", "apply"}
      /\ Ordered(pc[c], work[c], left[c], planned[c])
  BY DEF TypeOK, CallsTyped, InOrder, OrderedCall
<1>2. /\ k \in 1..Len(planned[c]) /\ Len(planned[c]) \in Nat /\ Len(left[c]) \in Nat
      /\ planned[c] # <<>>
  BY <1>1
<1>3. /\ pc[c] \in {"plan", "apply"} /\ work[c].kind # "idle"
      /\ work[c].kind = "save" =>
            /\ Len(planned[c]) + Len(left[c]) = Len(work[c].items)
            /\ planned[c][k].item = work[c].items[k]
      /\ work[c].kind = "restore" => planned[c][k].item \in Record
  BY <1>1, <1>2 DEF Ordered
<1>4. work[c].kind \in {"save", "restore"}
  BY <1>1, <1>3 DEF Works
<1>5. ASSUME work[c].kind = "save"
      PROVE  /\ planned[c][k].item \in Entry
             /\ k \in DOMAIN work[c].items
  <2>1. work[c].items \in Seq(Entry)
    BY <1>1, <1>5 DEF Works
  <2>2. k \in 1..Len(work[c].items)
    <3>1. PICK m \in Nat : m = Len(planned[c])
      BY <1>2
    <3>2. PICK n \in Nat : n = Len(left[c])
      BY <1>2
    <3>3. PICK sum : sum = Len(work[c].items)
      OBVIOUS
    <3>4. Len(planned[c]) + Len(left[c]) = Len(work[c].items)
      BY <1>3, <1>5
    <3>5. m + n = sum
      BY <3>1, <3>2, <3>3, <3>4, Zenon
    <3>6. k \in 1..m
      BY <1>2, <3>1, Zenon
    <3>7. k \in 1..sum
      BY <3>5, <3>6
    <3> QED
      BY <3>3, <3>7, Zenon
  <2> QED
    BY <1>3, <1>5, <2>1, <2>2
<1> QED
  BY <1>3, <1>4, <1>5

(* An update that applies moves its row one version on, in its namespace.  *)
LEMMA UpdateCounts ==
  ASSUME TypeOK, InOrder, PlannedByTheRules,
         NEW c \in Clients, NEW k \in DOMAIN planned[c],
         NEW current \in Row, Applies(planned[c][k].write, current)
  PROVE  LET row == AppliedRow(planned[c][k].write, current)
         IN  row.version = current.version + 1 /\ row.ns = current.ns
<1> DEFINE p == planned[c][k]
           w == p.write
<1>1. w \in Write /\ w.base \in Row
  <2>1. p \in Plans
    BY DEF TypeOK, CallsTyped
  <2> QED
    BY <2>1, RulesAssumption DEF Plans, Write, Applies
<1>2. w.row.version = w.base.version + 1
  <2>1. Ruled(p, work[c], ModelOf[c], started[c])
    BY DEF PlannedByTheRules
  <2>2. CASE work[c].kind = "save"
    <3>1. p.item \in Entry /\ ModelOf[c] \in Models /\ started[c] \in Nat
      BY <2>2, ItemType, StoreAssumption DEF TypeOK, CallsTyped
    <3>2. w.row = SavedRow(p.item, w.base, ModelOf[c], started[c])
      BY <2>1, <2>2 DEF Ruled, SaveWrite
    <3>3. w.base # None
      BY <1>1, RulesAssumption
    <3> QED
      BY <1>1, <3>1, <3>2, <3>3, SavedRowType
  <2>3. CASE work[c].kind = "restore"
    <3>1. p.item \in Record
      BY <2>3, ItemType
    <3>2. w.row = RestoredRow(p.item, w.base)
      BY <2>1, <2>3 DEF Ruled, RestoreWrite
    <3>3. w.base # None
      BY <1>1, RulesAssumption
    <3> QED
      BY <1>1, <3>1, <3>2, <3>3, RestoredRowType
  <2> QED
    BY <2>2, <2>3, ItemType
<1>3. current.version = w.base.version
  BY <1>1, RulesAssumption DEF Applies
<1>4. w.row \in Row /\ w.base # None
  BY <1>1, RulesAssumption DEF Write
<1> HIDE DEF w
<1>5. /\ AppliedRow(w, current).version = w.row.version
      /\ AppliedRow(w, current).ns = current.ns
  BY <1>4 DEF AppliedRow, Row
<1> QED
  BY <1>2, <1>3, <1>5 DEF w

(* The store changes in commits and deletions only.                        *)
LEMMA OnlyCommitsAndDeletes ==
  ASSUME [Next]_vars
  PROVE  UNCHANGED store \/ \E c \in Clients : Delete(c) \/ Commit(c)
<1>1. ASSUME NEW c \in Clients, Request(c)
      PROVE  UNCHANGED store \/ Delete(c)
  BY <1>1 DEF Request, SubmitSave, SubmitRestore, StartConversion, ListForeign, Accept
<1>2. ASSUME NEW c \in Clients, Step(c)
      PROVE  UNCHANGED store \/ Commit(c)
  BY <1>2 DEF Step, Advance, ReadForeign, EndDerivation, PlanSave, PlanRestore, Retry, Fail
<1>3. Tick \/ UNCHANGED vars => UNCHANGED store
  BY DEF Tick, vars
<1> QED
  BY <1>1, <1>2, <1>3 DEF Next

(* What a step does to a concept: nothing, delete it, create it, or move   *)
(* it one version on.                                                      *)
LEMMA RowChange ==
  ASSUME TypeOK, InOrder, PlannedByTheRules, [Next]_vars, NEW i \in Ids
  PROVE  \/ table'[i] = table[i] /\ life'[i] = life[i]
         \/ table'[i] = None /\ life'[i] = life[i]
         \/ table[i] = None /\ table'[i] \in Row /\ life'[i] = life[i] + 1
         \/ /\ table[i] \in Row /\ table'[i] \in Row /\ life'[i] = life[i]
            /\ table'[i].version = table[i].version + 1
            /\ table'[i].ns = table[i].ns
<1>1. CASE UNCHANGED store
  BY <1>1 DEF store
<1>2. ASSUME NEW c \in Clients, Delete(c)
      PROVE  (table'[i] = table[i] \/ table'[i] = None) /\ life'[i] = life[i]
  BY <1>2 DEF Delete, TypeOK, StoreTyped
<1>3. ASSUME NEW c \in Clients, Commit(c),
             NEW k \in DOMAIN planned[c],
             planned[c][k].write \in Write, planned[c][k].write.id = i,
             Applies(planned[c][k].write, table[i]),
             table'[i] = AppliedRow(planned[c][k].write, table[i]),
             life'[i] = IF table[i] = None THEN life[i] + 1 ELSE life[i]
      PROVE  \/ table[i] = None /\ table'[i] \in Row /\ life'[i] = life[i] + 1
             \/ /\ table[i] \in Row /\ table'[i] \in Row /\ life'[i] = life[i]
                /\ table'[i].version = table[i].version + 1
                /\ table'[i].ns = table[i].ns
  <2>1. table[i] \in Row \cup {None} /\ index[i] \in Indexed \cup {None}
    BY DEF TypeOK, StoreTyped
  <2>2. table'[i] \in Row
    BY <1>3, <2>1, AppliedType
  <2>3. CASE table[i] = None
    BY <1>3, <2>2, <2>3
  <2>4. CASE table[i] # None
    BY <1>3, <2>1, <2>2, <2>4, UpdateCounts
  <2> QED
    BY <2>3, <2>4
<1>4. ASSUME NEW c \in Clients, Commit(c)
      PROVE  \/ table'[i] = table[i] /\ life'[i] = life[i]
             \/ table[i] = None /\ table'[i] \in Row /\ life'[i] = life[i] + 1
             \/ /\ table[i] \in Row /\ table'[i] \in Row /\ life'[i] = life[i]
                /\ table'[i].version = table[i].version + 1
                /\ table'[i].ns = table[i].ns
  BY <1>3, <1>4, CommitEffect DEF TypeOK
<1>5. \/ UNCHANGED store
      \/ \E c \in Clients : Delete(c) \/ Commit(c)
  BY OnlyCommitsAndDeletes
<1> QED
  BY <1>1, <1>2, <1>4, <1>5

(* The element of a plan after it was extended: an old one or the new one. *)
LEMMA ExtendedPlan ==
  ASSUME TypeOK, NEW c \in Clients, NEW p \in Plans,
         planned'[c] = Append(planned[c], p), NEW k \in DOMAIN planned'[c]
  PROVE  \/ k \in DOMAIN planned[c] /\ planned'[c][k] = planned[c][k]
         \/ planned'[c][k] = p
<1>1. planned[c] \in Seq(Plans)
  BY DEF TypeOK, CallsTyped
<1> QED
  BY <1>1, AppendProperties

(* Writes stay what the rules made of the row they were read against: the  *)
(* row is kept in the write, so other writers do not matter.               *)
LEMMA RulesStep ==
  ASSUME TypeOK, InOrder, PlannedByTheRules, [Next]_vars
  PROVE  PlannedByTheRules'
<1>1. ASSUME NEW c \in Clients, NEW k \in DOMAIN planned'[c]
      PROVE  Ruled(planned'[c][k], work'[c], ModelOf[c], started'[c])
  <2>1. CASE PlanForgotten(c)
    BY <1>1, <2>1 DEF PlanForgotten
  <2>2. CASE PlanLeft(c)
    BY <1>1, <2>2 DEF PlanLeft, PlannedByTheRules
  <2>3. CASE \E p \in Plans : PlanExtended(c, p)
    <3>1. PICK p \in Plans : PlanExtended(c, p)
      BY <2>3
    <3>2. /\ planned'[c] = Append(planned[c], p) /\ work' = work /\ started' = started
          /\ Ruled(p, work[c], ModelOf[c], started[c])
      BY <3>1 DEF PlanExtended
    <3>3. CASE k \in DOMAIN planned[c] /\ planned'[c][k] = planned[c][k]
      BY <3>2, <3>3 DEF PlannedByTheRules
    <3>4. CASE planned'[c][k] = p
      BY <3>2, <3>4
    <3> QED
      BY <1>1, <3>2, <3>3, <3>4, ExtendedPlan
  <2> QED
    BY <2>1, <2>2, <2>3, PlanChange
<1> QED
  BY <1>1 DEF PlannedByTheRules

(* A planned write never gets ahead of the store: commits raise the        *)
(* version of the rows they change, and an insert raises the life of its   *)
(* concept.                                                                *)
LEMMA GrowStep ==
  ASSUME TypeOK, InOrder, PlannedByTheRules, VersionsGrow, [Next]_vars
  PROVE  VersionsGrow'
(* A write that was not ahead of the store stays so.                       *)
<1>1. ASSUME NEW p \in Plans, NotAhead(p, table, life)
      PROVE  NotAhead(p, table', life')
  <2> DEFINE i == p.write.id
             base == p.write.base
  <2>1. /\ i \in Ids /\ base \in Row \cup {None} /\ p.life \in Nat
        /\ table[i] \in Row \cup {None} /\ life[i] \in Nat
    BY DEF Plans, Write, TypeOK, StoreTyped
  <2>2. /\ base # None => base.version \in Nat
        /\ table[i] # None => table[i].version \in Nat
    BY <2>1 DEF Row
  <2>3. /\ p.life <= life[i]
        /\ base # None /\ table[i] # None /\ p.life = life[i] =>
             base = table[i] \/ base.version < table[i].version
    BY <1>1 DEF NotAhead
  <2> HIDE DEF i, base
  <2>4. /\ p.life <= life'[i]
        /\ base # None /\ table'[i] # None /\ p.life = life'[i] =>
             base = table'[i] \/ base.version < table'[i].version
    <3>1. CASE table'[i] = table[i] /\ life'[i] = life[i]
      BY <2>3, <3>1
    <3>2. CASE table'[i] = None /\ life'[i] = life[i]
      BY <2>3, <3>2
    <3>3. CASE table[i] = None /\ table'[i] \in Row /\ life'[i] = life[i] + 1
      BY <2>1, <2>3, <3>3
    <3>4. CASE /\ table[i] \in Row /\ table'[i] \in Row /\ life'[i] = life[i]
               /\ table'[i].version = table[i].version + 1
      <4>1. table[i] # None
        BY <3>4, RulesAssumption
      <4>2. base # None /\ p.life = life[i] => base.version < table'[i].version
        BY <2>2, <2>3, <3>4, <4>1
      <4> QED
        BY <2>3, <3>4, <4>2
    <3> QED
      BY <2>1, <3>1, <3>2, <3>3, <3>4, RowChange
  <2> QED
    BY <2>4 DEF NotAhead, i, base
<1>2. ASSUME NEW c \in Clients, NEW k \in DOMAIN planned'[c]
      PROVE  NotAhead(planned'[c][k], table', life')
  <2>1. ASSUME NEW j \in DOMAIN planned[c]
        PROVE  NotAhead(planned[c][j], table', life')
    <3>1. planned[c][j] \in Plans
      BY DEF TypeOK, CallsTyped
    <3> QED
      BY <1>1, <3>1 DEF VersionsGrow
  <2>2. CASE PlanForgotten(c)
    BY <1>2, <2>2 DEF PlanForgotten
  <2>3. CASE PlanLeft(c)
    BY <1>2, <2>1, <2>3 DEF PlanLeft
  <2>4. CASE \E p \in Plans : PlanExtended(c, p)
    <3>1. PICK p \in Plans : PlanExtended(c, p)
      BY <2>4
    <3>2. /\ planned'[c] = Append(planned[c], p) /\ table' = table /\ life' = life
          /\ p.write.base = table[p.write.id] /\ p.life = life[p.write.id]
      BY <3>1 DEF PlanExtended, store
    <3>3. life[p.write.id] \in Nat
      BY DEF Plans, Write, TypeOK, StoreTyped
    <3>4. NotAhead(p, table', life')
      BY <3>2, <3>3 DEF NotAhead
    <3> QED
      BY <1>2, <2>1, <3>2, <3>4, ExtendedPlan
  <2> QED
    BY <2>2, <2>3, <2>4, PlanChange
<1> QED
  BY <1>2 DEF VersionsGrow

(* A commit leaves the index entry of the row it leaves.                   *)
LEMMA AppliedInStep ==
  ASSUME TypeOK, InOrder, PlannedByTheRules, IndexInStep,
         NEW c \in Clients, NEW k \in DOMAIN planned[c],
         NEW i \in Ids, planned[c][k].write.id = i, Applies(planned[c][k].write, table[i])
  PROVE  LET row == AppliedRow(planned[c][k].write, table[i])
         IN  AppliedIndex(planned[c][k].write, index[i]) = IndexEntry(row.ns, row.rep["vector"])
<1> DEFINE p == planned[c][k]
           w == p.write
           row == AppliedRow(w, table[i])
<1>1. w \in Write /\ w.row \in Row /\ w.base \in Row \cup {None} /\ "vector" \in Reps
  <2>1. p \in Plans
    BY DEF TypeOK, CallsTyped
  <2>2. w \in Write
    BY <2>1 DEF Plans
  <2> HIDE DEF w
  <2> QED
    BY <2>2 DEF Write, Reps
<1>2. Ruled(p, work[c], ModelOf[c], started[c])
  BY DEF PlannedByTheRules
<1>3. CASE w.base = None
  <2>1. table[i] = None /\ index[i] = None /\ row = w.row
    BY <1>3 DEF Applies, IndexInStep, AppliedRow
  <2>2. "vector" \notin w.set => w.row.rep["vector"] = None
    <3>1. CASE work[c].kind = "save"
      BY <1>1, <1>2, <1>3, <3>1 DEF Ruled, SaveWrite, SavedRow
    <3>2. CASE work[c].kind = "restore"
      BY <1>1, <1>2, <3>2 DEF Ruled, RestoreWrite
    <3> QED
      BY <3>1, <3>2, ItemType
  <2> QED
    BY <1>3, <2>1, <2>2 DEF AppliedIndex, IndexEntry
<1>4. CASE w.base # None
  <2>1. /\ table[i] # None /\ table[i].ns = w.base.ns
        /\ index[i] = IndexEntry(table[i].ns, table[i].rep["vector"])
    BY <1>4 DEF Applies, IndexInStep
  <2>2. /\ row.ns = table[i].ns
        /\ row.rep["vector"] = IF "vector" \in w.set THEN w.row.rep["vector"]
                               ELSE table[i].rep["vector"]
    BY <1>1, <1>4 DEF AppliedRow, Row
  <2> HIDE DEF w, row
  <2> QED
    BY <1>4, <2>1, <2>2 DEF AppliedIndex, w, row
<1> QED
  BY <1>3, <1>4

(* Rows and vectors change together.                                       *)
LEMMA IndexStep ==
  ASSUME TypeOK, InOrder, PlannedByTheRules, IndexInStep, [Next]_vars
  PROVE  IndexInStep'
<1>1. CASE UNCHANGED store
  BY <1>1 DEF store, IndexInStep
<1>2. ASSUME NEW c \in Clients, Delete(c)
      PROVE  IndexInStep'
  BY <1>2 DEF Delete, IndexInStep, TypeOK, StoreTyped
<1>3. ASSUME NEW c \in Clients, Commit(c), NEW i \in Ids
      PROVE  index'[i] = IF table'[i] = None THEN None
                        ELSE IndexEntry(table'[i].ns, table'[i].rep["vector"])
  <2>1. CASE table'[i] = table[i] /\ index'[i] = index[i]
    BY <2>1 DEF IndexInStep
  <2>2. ASSUME NEW k \in DOMAIN planned[c],
               planned[c][k].write \in Write, planned[c][k].write.id = i,
               Applies(planned[c][k].write, table[i]),
               table'[i] = AppliedRow(planned[c][k].write, table[i]),
               index'[i] = AppliedIndex(planned[c][k].write, index[i])
        PROVE  index'[i] = IF table'[i] = None THEN None
                          ELSE IndexEntry(table'[i].ns, table'[i].rep["vector"])
    <3>1. table[i] \in Row \cup {None} /\ index[i] \in Indexed \cup {None}
      BY DEF TypeOK, StoreTyped
    <3>2. table'[i] # None
      BY <2>2, <3>1, AppliedType, RulesAssumption
    <3> QED
      BY <2>2, <3>2, AppliedInStep
  <2> QED
    BY <1>3, <2>1, <2>2, CommitEffect DEF TypeOK
<1> QED
  BY <1>1, <1>2, <1>3, OnlyCommitsAndDeletes DEF IndexInStep

(* The inductive invariant.                                                *)
THEOREM InvCorrect == Spec => []ConceptInv
<1>1. Init => ConceptInv
  BY TypeInit DEF Init, ConceptInv, IndexInStep, PlannedByTheRules, VersionsGrow
<1>2. ConceptInv /\ [Next]_vars => ConceptInv'
  BY TypeStep, RulesStep, GrowStep, IndexStep DEF ConceptInv
<1> QED
  BY <1>1, <1>2, PTL DEF Spec

(* A planned write whose precondition holds in the same life of a concept  *)
(* finds the row it was planned on: UPDATE ... WHERE version = ? of the    *)
(* adapters is a compare-and-swap of the whole row.                        *)
THEOREM VersionNamesRowCorrect == Spec => []VersionNamesRow
<1>1. ASSUME ConceptInv
      PROVE  VersionNamesRow
  <2>1. ASSUME NEW c \in Clients, NEW k \in DOMAIN planned[c],
               planned[c][k].write.base # None,
               planned[c][k].life = life[planned[c][k].write.id],
               Applies(planned[c][k].write, table[planned[c][k].write.id])
        PROVE  table[planned[c][k].write.id] = planned[c][k].write.base
    <3> DEFINE p == planned[c][k]
               base == p.write.base
               current == table[p.write.id]
    <3>1. p \in Plans
      BY <1>1 DEF ConceptInv, TypeOK, CallsTyped
    <3>2. base.version \in Nat /\ current # None /\ current.version = base.version
      BY <2>1, <3>1 DEF Applies, Plans, Write, Row
    <3>3. base = current \/ base.version < current.version
      BY <1>1, <2>1, <3>2 DEF ConceptInv, VersionsGrow, NotAhead
    <3> QED
      BY <3>2, <3>3
  <2> QED
    BY <2>1 DEF VersionNamesRow
<1> QED
  BY <1>1, InvCorrect, PTL
-----------------------------------------------------------------------------
(* Committed saves.                                                        *)

(* A step that ends a call and changes the table is that call's commit.    *)
LEMMA CommitsIsCommit ==
  ASSUME TypeOK, [Next]_vars, NEW c \in Clients, Commits(c)
  PROVE  Commit(c)
<1>1. pc'[c] # pc[c] /\ table' # table
  BY DEF Commits
<1>2. PICK d \in Clients : Delete(d) \/ Commit(d)
  BY <1>1, OnlyCommitsAndDeletes DEF store
<1>3. ~Delete(d)
  BY <1>1 DEF Delete, locals
<1>4. CASE d # c
  BY <1>1, <1>2, <1>3, <1>4, CommitKeeps DEF OthersKept
<1> QED
  BY <1>2, <1>3, <1>4

(* A write applied to the very row it was planned on leaves the row that   *)
(* was planned.                                                            *)
LEMMA SavedAsPlanned ==
  ASSUME NEW e \in Entry, NEW row \in Row \cup {None}, NEW m \in Models, NEW now \in Nat
  PROVE  AppliedRow(SaveWrite(e, row, m, now), row) = SavedRow(e, row, m, now)
<1> DEFINE w == SaveWrite(e, row, m, now)
           new == SavedRow(e, row, m, now)
<1>1. w.base = row /\ w.row = new /\ w.set = SetBy(e, row)
  BY DEF SaveWrite
<1>2. new \in Row /\ (row # None => new.ns = row.ns)
  BY SavedRowType
<1>3. CASE row = None
  BY <1>1, <1>3 DEF AppliedRow
<1>4. CASE row # None
  <2> DEFINE mixed == [r \in Reps |-> IF r \in w.set THEN w.row.rep[r] ELSE row.rep[r]]
  <2>1. mixed = new.rep
    <3>1. ASSUME NEW r \in Reps PROVE mixed[r] = new.rep[r]
      BY <1>1, <1>4 DEF SavedRow
    <3>2. new.rep = [r \in Reps |-> new.rep[r]]
      BY <1>2 DEF Row, Holdings
    <3> QED
      BY <3>1, <3>2
  <2>2. AppliedRow(w, row) = [new EXCEPT !.ns = row.ns, !.rep = mixed]
    BY <1>1, <1>4 DEF AppliedRow
  <2> HIDE DEF mixed, new, w
  <2>3. [new EXCEPT !.ns = row.ns, !.rep = mixed] = new
    BY <1>2, <1>4, <2>1 DEF Row
  <2> QED
    BY <2>2, <2>3 DEF new, w
<1> QED
  BY <1>3, <1>4

(* When a save commits it has planned one write for each of its entries.   *)
LEMMA SavePlan ==
  ASSUME TypeOK, InOrder, PlannedByTheRules,
         NEW c \in Clients, pc[c] = "apply", work[c].kind = "save"
  PROVE  /\ DOMAIN planned[c] = DOMAIN work[c].items
         /\ \A k \in DOMAIN planned[c] :
              LET e == work[c].items[k]
                  p == planned[c][k]
              IN  /\ e \in Entry /\ p.item = e /\ p \in Plans
                  /\ p.write = SaveWrite(e, p.write.base, ModelOf[c], started[c])
                  /\ ~Rejected(e, p.write.base)
                  /\ p.write.id = e.id
         /\ \A j, k \in DOMAIN planned[c] :
              planned[c][j].write.id = planned[c][k].write.id => j = k
<1>1. /\ planned[c] \in Seq(Plans) /\ left[c] = <<>>
      /\ work[c].items \in Seq(Entry) /\ DistinctIds(work[c].items)
      /\ Len(planned[c]) + Len(left[c]) = Len(work[c].items)
  BY DEF TypeOK, CallsTyped, Works, InOrder, OrderedCall, Ordered
<1>2. DOMAIN planned[c] = DOMAIN work[c].items
  BY <1>1, EmptySeq
<1>3. ASSUME NEW k \in DOMAIN planned[c]
      PROVE  LET e == work[c].items[k]
                 p == planned[c][k]
             IN  /\ e \in Entry /\ p.item = e /\ p \in Plans
                 /\ p.write = SaveWrite(e, p.write.base, ModelOf[c], started[c])
                 /\ ~Rejected(e, p.write.base)
                 /\ p.write.id = e.id
  <2>1. planned[c][k].item \in Entry /\ planned[c][k].item = work[c].items[k]
    BY ItemType
  <2>2. planned[c][k] \in Plans
    BY DEF TypeOK, CallsTyped
  <2>3. Ruled(planned[c][k], work[c], ModelOf[c], started[c])
    BY DEF PlannedByTheRules
  <2> QED
    BY <2>1, <2>2, <2>3 DEF Ruled, SaveWrite
<1>4. ASSUME NEW j \in DOMAIN planned[c], NEW k \in DOMAIN planned[c],
             planned[c][j].write.id = planned[c][k].write.id
      PROVE  j = k
  BY <1>1, <1>2, <1>3, <1>4 DEF DistinctIds
<1> QED
  BY <1>2, <1>3, <1>4

(* What a save's commit leaves of each concept it names.                   *)
LEMMA SaveCommit ==
  ASSUME ConceptInv, NEW c \in Clients, Commit(c), work[c].kind = "save",
         NEW k \in DOMAIN work[c].items
  PROVE  LET e == work[c].items[k]
             p == planned[c][k]
         IN  /\ e \in Entry /\ k \in DOMAIN planned[c] /\ p \in Plans
             /\ p.item = e /\ p.write.id = e.id
             /\ ~Rejected(e, p.write.base)
             /\ Applies(p.write, table[e.id])
             /\ SameLife(c, k) =>
                  /\ ~Rejected(e, table[e.id])
                  /\ table'[e.id] = SavedRow(e, table[e.id], ModelOf[c], started[c])
<1> DEFINE e == work[c].items[k]
           p == planned[c][k]
           i == e.id
<1>1. TypeOK /\ InOrder /\ PlannedByTheRules /\ VersionsGrow /\ pc[c] = "apply"
  BY DEF ConceptInv, Commit
<1>2. /\ e \in Entry /\ k \in DOMAIN planned[c] /\ p \in Plans
      /\ p.item = e /\ p.write.id = i /\ ~Rejected(e, p.write.base)
      /\ p.write = SaveWrite(e, p.write.base, ModelOf[c], started[c])
  BY <1>1, SavePlan
<1>3. Applies(p.write, table[i])
  BY <1>2 DEF Commit, Failing
<1>4. i \in Ids /\ p.write.base \in Row \cup {None} /\ table[i] \in Row \cup {None}
  BY <1>1, <1>2 DEF TypeOK, StoreTyped, Entry, Plans, Write
<1>5. ASSUME SameLife(c, k)
      PROVE  /\ ~Rejected(e, table[i])
             /\ table'[i] = SavedRow(e, table[i], ModelOf[c], started[c])
  <2>1. table[i] = p.write.base
    <3>1. CASE p.write.base = None
      BY <1>3, <3>1 DEF Applies
    <3>2. CASE p.write.base # None
      <4>1. p.life = life[i] /\ table[i] # None /\ table[i].version = p.write.base.version
        BY <1>2, <1>3, <1>5, <3>2 DEF SameLife, Applies
      <4>2. p.write.base = table[i] \/ p.write.base.version < table[i].version
        BY <1>1, <1>2, <3>2, <4>1 DEF VersionsGrow, NotAhead
      <4>3. p.write.base.version \in Nat
        BY <1>4, <3>2 DEF Row
      <4> QED
        BY <4>1, <4>2, <4>3
    <3> QED
      BY <3>1, <3>2
  <2>2. table'[i] = AppliedRow(p.write, table[i])
    BY <1>1, <1>2, <1>4, CommitEffect, SavePlan DEF TypeOK
  <2>3. ModelOf[c] \in Models /\ started[c] \in Nat
    BY <1>1, StoreAssumption DEF TypeOK, CallsTyped
  <2> HIDE DEF e, p, i
  <2> QED
    BY <1>2, <1>4, <2>1, <2>2, <2>3, SavedAsPlanned
<1> QED
  BY <1>2, <1>3, <1>5

(* A save of several concepts is atomic and as if it ran at the moment it  *)
(* commits (saveBatch), unless a concept was recreated in between.         *)
THEOREM SaveActsAtOnceCorrect == Spec => SaveActsAtOnce
<1>1. ASSUME ConceptInv, [Next]_vars, NEW c \in Clients, Commits(c), work[c].kind = "save"
      PROVE  LET items == work[c].items
             IN  /\ \A k \in DOMAIN items : SameLife(c, k) =>
                      LET e == items[k]
                      IN  /\ ~Rejected(e, table[e.id])
                          /\ table'[e.id] = SavedRow(e, table[e.id], ModelOf[c], started[c])
                 /\ \A i \in Ids \ {items[k].id : k \in DOMAIN items} : table'[i] = table[i]
  <2>1. Commit(c) /\ TypeOK /\ InOrder /\ PlannedByTheRules /\ pc[c] = "apply"
    BY <1>1, CommitsIsCommit DEF ConceptInv, Commit
  <2>2. ASSUME NEW i \in Ids \ {work[c].items[k].id : k \in DOMAIN work[c].items}
        PROVE  table'[i] = table[i]
    <3>1. \A k \in DOMAIN planned[c] : planned[c][k].write.id # i
      BY <1>1, <2>1, <2>2, SavePlan
    <3> QED
      BY <2>1, <3>1, CommitEffect DEF TypeOK
  <2> QED
    BY <1>1, <2>1, <2>2, SaveCommit
<1>2. ConceptInv /\ [Next]_vars =>
        [\A c \in Clients : Commits(c) /\ work[c].kind = "save" =>
           LET items == work[c].items
           IN  /\ \A k \in DOMAIN items : SameLife(c, k) =>
                    LET e == items[k]
                    IN  /\ ~Rejected(e, table[e.id])
                        /\ table'[e.id] = SavedRow(e, table[e.id], ModelOf[c], started[c])
               /\ \A i \in Ids \ {items[k].id : k \in DOMAIN items} : table'[i] = table[i]]_vars
  BY <1>1
<1> QED
  BY <1>2, InvCorrect, PTL DEF Spec, SaveActsAtOnce

(* The version and the namespace a caller named hold of the row that its   *)
(* commit overwrites (WHERE id = ? AND version = ? AND namespace = ?),     *)
(* even if the concept was recreated while the call was running.           *)
THEOREM CallerGuardsHoldCorrect == Spec => CallerGuardsHold
<1>1. ASSUME ConceptInv, [Next]_vars, NEW c \in Clients, Commits(c), NEW k \in DOMAIN planned[c]
      PROVE  LET item == planned[c][k].item
                 row == table[item.id]
             IN  IF work[c].kind = "restore"
                 THEN row # None => row.ns = item.row.ns
                 ELSE /\ item.expect # 0 => row # None /\ row.version = item.expect
                      /\ item.ns # None /\ row # None => row.ns = item.ns
  <2> DEFINE p == planned[c][k]
             item == p.item
             row == table[item.id]
  <2>1. Commit(c) /\ TypeOK /\ InOrder /\ PlannedByTheRules /\ pc[c] = "apply"
    BY <1>1, CommitsIsCommit DEF ConceptInv, Commit
  <2>2. Ruled(p, work[c], ModelOf[c], started[c]) /\ work[c].kind \in {"save", "restore"}
    BY <1>1, <2>1, ItemType DEF PlannedByTheRules
  <2>3. p.write.id = item.id
    BY <2>2 DEF Ruled, SaveWrite, RestoreWrite
  <2>4. Applies(p.write, row)
    BY <2>1, <2>3 DEF Commit, Failing
  <2> HIDE DEF p, item, row
  <2>5. CASE work[c].kind = "save"
    <3>1. ~Denied(item, p.write.base) /\ ~Stale(item, p.write.base)
      BY <2>2, <2>5 DEF Ruled, Rejected, item
    <3>2. /\ item.expect # 0 => row # None /\ row.version = item.expect
          /\ item.ns # None /\ row # None => row.ns = item.ns
      BY <2>4, <3>1 DEF Denied, Stale, Applies
    <3> QED
      BY <2>5, <3>2 DEF p, item, row
  <2>6. CASE work[c].kind = "restore"
    <3>1. ~Skipped(item, p.write.base, work[c].policy)
      BY <2>2, <2>6 DEF Ruled, item
    <3>2. row # None => row.ns = item.row.ns
      BY <2>4, <3>1 DEF Skipped, Applies
    <3> QED
      BY <2>6, <3>2 DEF p, item, row
  <2> QED
    BY <2>2, <2>5, <2>6
<1>2. ConceptInv /\ [Next]_vars =>
        [\A c \in Clients : Commits(c) =>
           \A k \in DOMAIN planned[c] :
             LET item == planned[c][k].item
                 row == table[item.id]
             IN  IF work[c].kind = "restore"
                 THEN row # None => row.ns = item.row.ns
                 ELSE /\ item.expect # 0 => row # None /\ row.version = item.expect
                      /\ item.ns # None /\ row # None => row.ns = item.ns]_vars
  BY <1>1
<1> QED
  BY <1>2, InvCorrect, PTL DEF Spec, CallerGuardsHold

(* When a restore commits it has planned at most one write for a concept,  *)
(* each from a record that the policy lets through.                        *)
LEMMA RestorePlan ==
  ASSUME TypeOK, InOrder, PlannedByTheRules,
         NEW c \in Clients, pc[c] = "apply", work[c].kind = "restore"
  PROVE  /\ \A k \in DOMAIN planned[c] :
              LET p == planned[c][k]
              IN  /\ p \in Plans /\ p.item \in Record /\ p.write.id = p.item.id
                  /\ p.write = RestoreWrite(p.item, p.write.base)
                  /\ ~Skipped(p.item, p.write.base, work[c].policy)
         /\ \A j, k \in DOMAIN planned[c] :
              planned[c][j].write.id = planned[c][k].write.id => j = k
<1>1. planned[c] \in Seq(Plans) /\ Apart(planned[c], left[c])
  BY DEF TypeOK, CallsTyped, InOrder, OrderedCall, Ordered
<1>2. ASSUME NEW k \in DOMAIN planned[c]
      PROVE  LET p == planned[c][k]
             IN  /\ p \in Plans /\ p.item \in Record /\ p.write.id = p.item.id
                 /\ p.write = RestoreWrite(p.item, p.write.base)
                 /\ ~Skipped(p.item, p.write.base, work[c].policy)
  <2>1. planned[c][k] \in Plans /\ planned[c][k].item \in Record
    BY <1>1, ItemType
  <2>2. Ruled(planned[c][k], work[c], ModelOf[c], started[c])
    BY DEF PlannedByTheRules
  <2> QED
    BY <2>1, <2>2 DEF Ruled, RestoreWrite
<1>3. ASSUME NEW j \in DOMAIN planned[c], NEW k \in DOMAIN planned[c],
             planned[c][j].write.id = planned[c][k].write.id
      PROVE  j = k
  <2>1. planned[c][j].item.id = planned[c][k].item.id
    BY <1>2, <1>3
  <2>2. DOMAIN planned[c] = 1..Len(planned[c])
    BY <1>1
  <2> QED
    BY <1>1, <2>1, <2>2 DEF Apart
<1> QED
  BY <1>2, <1>3

(* A restore replaces a concept only by what is newer than the row at the  *)
(* moment of the commit (updated_at never moves backwards, restore), and   *)
(* under the policy "newer" only by a record that is.                      *)
THEOREM RestoreIsNewerCorrect == Spec => RestoreIsNewer
<1>1. ASSUME ConceptInv, [Next]_vars, NEW c \in Clients, Commits(c),
             work[c].kind = "restore", NEW k \in DOMAIN planned[c]
      PROVE  LET p == planned[c][k]
                 i == p.write.id
             IN  table[i] # None /\ SameLife(c, k) =>
                   /\ table'[i].updated > table[i].updated
                   /\ work[c].policy = "newer" => p.item.row.updated > table[i].updated
  <2> DEFINE p == planned[c][k]
             i == p.write.id
             base == p.write.base
  <2>1. Commit(c) /\ TypeOK /\ InOrder /\ PlannedByTheRules /\ VersionsGrow /\ pc[c] = "apply"
    BY <1>1, CommitsIsCommit DEF ConceptInv, Commit
  <2>2. SUFFICES ASSUME table[i] # None, SameLife(c, k)
                 PROVE  /\ table'[i].updated > table[i].updated
                        /\ work[c].policy = "newer" => p.item.row.updated > table[i].updated
    OBVIOUS
  <2>3. /\ p \in Plans /\ p.item \in Record /\ p.write = RestoreWrite(p.item, base)
        /\ ~Skipped(p.item, base, work[c].policy)
    BY <1>1, <2>1, RestorePlan
  <2>4. Applies(p.write, table[i])
    BY <2>1 DEF Commit, Failing
  <2>5. /\ i \in Ids /\ base \in Row \cup {None} /\ p.write.row \in Row /\ p.item.row \in Row
        /\ table[i] \in Row
    BY <2>1, <2>2, <2>3 DEF Plans, Write, Record, TypeOK, StoreTyped
  <2>6. table[i] = base
    <3>1. base # None /\ table[i].version = base.version
      BY <2>2, <2>4 DEF Applies
    <3>2. p.life = life[i]
      BY <2>2, <3>1 DEF SameLife
    <3>3. base = table[i] \/ base.version < table[i].version
      BY <2>1, <2>2, <3>1, <3>2 DEF VersionsGrow, NotAhead
    <3>4. base.version \in Nat
      BY <2>5, <3>1 DEF Row
    <3> QED
      BY <3>1, <3>3, <3>4
  <2>7. table'[i] = AppliedRow(p.write, table[i])
    <3>1. PICK j \in DOMAIN planned[c] :
            /\ planned[c][j].write.id = i
            /\ table'[i] = AppliedRow(planned[c][j].write, table[i])
      BY <2>1, <2>5, CommitEffect DEF TypeOK
    <3>2. j = k
      BY <1>1, <2>1, <3>1, RestorePlan
    <3> QED
      BY <3>1, <3>2
  <2> HIDE DEF p, i, base
  <2>8. table'[i].updated = p.write.row.updated
    BY <2>2, <2>5, <2>6, <2>7 DEF AppliedRow, Row
  <2>9. p.write.row = RestoredRow(p.item, base)
    BY <2>3 DEF RestoreWrite
  <2>10. p.write.row.updated = Later(p.item.row.updated, base.updated + 1)
    BY <2>2, <2>5, <2>6, <2>9 DEF RestoredRow, Row
  <2>11. base.updated \in Nat /\ p.item.row.updated \in Nat
    BY <2>5, <2>6 DEF Row
  <2>12. work[c].policy = "newer" => p.item.row.updated > base.updated
    BY <2>2, <2>3, <2>6, <2>11 DEF Skipped
  <2> QED
    BY <2>6, <2>8, <2>10, <2>11, <2>12 DEF Later, p, i
<1>2. ConceptInv /\ [Next]_vars =>
        [\A c \in Clients : Commits(c) /\ work[c].kind = "restore" =>
           \A k \in DOMAIN planned[c] :
             LET p == planned[c][k]
                 i == p.write.id
             IN  table[i] # None /\ SameLife(c, k) =>
                   /\ table'[i].updated > table[i].updated
                   /\ work[c].policy = "newer" => p.item.row.updated > table[i].updated]_vars
  BY <1>1
<1> QED
  BY <1>2, InvCorrect, PTL DEF Spec, RestoreIsNewer

-----------------------------------------------------------------------------
(* Derivations.                                                            *)

(* A derivation that starts has just read its source.                      *)
LEMMA DerivingReads ==
  ASSUME TypeOK, NEW i \in Ids, table[i] \in Row, NEW to \in Reps, NEW text \in Texts,
         NEW from \in Reps, NEW overwrite \in BOOLEAN, NEW asked \in BOOLEAN,
         table[i].rep[from] \in Texts \cup Vectors,
         DerivedEntry(i, table[i], to, text, from, overwrite) \in Entry,
         asked \/ SparesAuthored(DerivedEntry(i, table[i], to, text, from, overwrite), table[i])
  PROVE  SourceNotAhead(DerivedSave(DerivedEntry(i, table[i], to, text, from, overwrite),
                                    from, table[i].rep[from], asked), table, life)
<1> DEFINE e == DerivedEntry(i, table[i], to, text, from, overwrite)
           w == DerivedSave(e, from, table[i].rep[from], asked)
<1>1. e.id = i /\ e.expect = table[i].version
  BY DEF DerivedEntry
<1>2. table[i].version \in Nat \ {0} /\ life[i] \in Nat
  BY DEF TypeOK, StoreTyped, Row
<1>3. e \in Entry /\ (asked \/ SparesAuthored(e, table[i]))
  OBVIOUS
<1> HIDE DEF e
<1>4. /\ w.kind = "save" /\ w.items = <<e>> /\ Len(w.items) = 1
      /\ w.source = [rep |-> from, text |-> table[i].rep[from], life |-> life[i], asked |-> asked]
  BY <1>1, <1>3, DerivedSaveType DEF TypeOK, DerivedSave
<1> HIDE DEF w
<1>5. SourceNotAhead(w, table, life)
  BY <1>1, <1>2, <1>3, <1>4 DEF SourceNotAhead
<1> QED
  BY <1>5 DEF w, e

(* A step leaves what a call was asked to do, ends it, or starts a call.   *)
LEMMA WorkChange ==
  ASSUME TypeOK, InOrder, [Next]_vars, NEW c \in Clients
  PROVE  \/ work'[c] = work[c]
         \/ work'[c].source = None
         \/ UNCHANGED store /\ SourceNotAhead(work'[c], table, life)
<1>1. CASE Tick \/ UNCHANGED vars
  BY <1>1 DEF Tick, vars, locals
<1>2. ASSUME NEW d \in Clients, d # c, Request(d) \/ Step(d)
      PROVE  work'[c] = work[c]
  <2>1. CASE Delete(d)
    BY <2>1 DEF Delete, locals
  <2>2. CASE ~Delete(d)
    <3>1. OthersKept(d)
      BY <1>2, <2>2, SubmitSaveKeeps, SubmitRestoreKeeps, StartConversionKeeps,
         ListForeignKeeps, ReadForeignKeeps, EndDerivationKeeps, PlanSaveKeeps, PlanRestoreKeeps,
         CommitKeeps, RetryKeeps, FailKeeps DEF Request, Step, Advance
    <3> QED
      BY <1>2, <3>1 DEF OthersKept
  <2> QED
    BY <2>1, <2>2
<1>3. ASSUME Finish(c) PROVE work'[c].source = None
  BY <1>3 DEF Finish, Idle, TypeOK, CallsTyped
<1>4. ASSUME Step(c)
      PROVE  \/ work'[c] = work[c]
             \/ work'[c].source = None
             \/ UNCHANGED store /\ SourceNotAhead(work'[c], table, life)
  <2>1. CASE ReadForeign(c)
    <3>1. CASE Finish(c)
      BY <1>3, <3>1
    <3>2. ASSUME NEW i \in Ids, NEW from \in Reps, NEW asked \in BOOLEAN,
                 LET e == DerivedEntry(i, table[i], "vector", table[i].rep[from], from, TRUE)
                 IN  /\ table[i] \in Row /\ e \in Entry /\ table[i].rep[from] \in Texts
                     /\ asked \/ SparesAuthored(e, table[i])
                     /\ work' = [work EXCEPT ![c] = DerivedSave(e, from, table[i].rep[from], asked)]
          PROVE  SourceNotAhead(work'[c], table, life)
      <4> DEFINE w == DerivedSave(DerivedEntry(i, table[i], "vector", table[i].rep[from], from, TRUE),
                                  from, table[i].rep[from], asked)
      <4>1. SourceNotAhead(w, table, life)
        BY <3>2, DerivingReads DEF Reps
      <4>2. work' = [work EXCEPT ![c] = w]
        BY <3>2
      <4> HIDE DEF w
      <4> QED
        BY <4>1, <4>2 DEF TypeOK, CallsTyped
    <3>3. UNCHANGED store
      BY <2>1 DEF ReadForeign
    <3>4. \/ Finish(c)
          \/ SourceNotAhead(work'[c], table, life)
      BY <2>1, <3>2, ForeignRead
    <3> QED
      BY <3>1, <3>3, <3>4
  <2>2. CASE ~ReadForeign(c)
    BY <1>3, <1>4, <2>2 DEF Step, Advance, EndDerivation, PlanSave, PlanRestore, Plan, Commit,
       Retry, Fail
  <2> QED
    BY <2>1, <2>2
<1>5. ASSUME NEW w, Accept(c, w), w.source = None
      PROVE  work'[c].source = None
  BY <1>5 DEF Accept, TypeOK, CallsTyped
<1>6. ASSUME Request(c)
      PROVE  \/ work'[c] = work[c]
             \/ work'[c].source = None
             \/ UNCHANGED store /\ SourceNotAhead(work'[c], table, life)
  <2>1. CASE Delete(c)
    BY <2>1 DEF Delete, locals
  <2>2. CASE SubmitSave(c)
    BY <1>5, <2>2 DEF SubmitSave, SaveOf
  <2>3. CASE SubmitRestore(c)
    BY <1>5, <2>3 DEF SubmitRestore, RestoreOf
  <2>4. CASE StartConversion(c)
    <3>1. PICK i \in Ids, from \in Reps, to \in Reps, text \in Texts, overwrite \in BOOLEAN :
            LET e == DerivedEntry(i, table[i], to, text, from, overwrite)
            IN  /\ table[i] \in Row /\ e \in Entry
                /\ table[i].rep[from] \in Texts \cup Vectors
                /\ overwrite \/ SparesAuthored(e, table[i])
                /\ Accept(c, DerivedSave(e, from, table[i].rep[from], overwrite))
      BY <2>4, ConversionStarts
    <3> DEFINE w == DerivedSave(DerivedEntry(i, table[i], to, text, from, overwrite),
                                from, table[i].rep[from], overwrite)
    <3>2. SourceNotAhead(w, table, life)
      BY <3>1, DerivingReads
    <3>3. Accept(c, w)
      BY <3>1
    <3> HIDE DEF w
    <3>4. work'[c] = w /\ UNCHANGED store
      BY <3>3 DEF Accept, TypeOK, CallsTyped
    <3> QED
      BY <3>2, <3>4
  <2>5. CASE ListForeign(c)
    <3>1. PICK i \in Ids, overwrite \in BOOLEAN :
            table[i] # None /\ Accept(c, ReembeddingOf(i, table[i].ns, overwrite))
      BY <2>5 DEF ListForeign
    <3>2. ReembeddingOf(i, table[i].ns, overwrite).source = None
      BY DEF ReembeddingOf, SaveOf
    <3> QED
      BY <1>5, <3>1, <3>2
  <2> QED
    BY <1>6, <2>1, <2>2, <2>3, <2>4, <2>5 DEF Request
<1> QED
  BY <1>1, <1>2, <1>4, <1>6 DEF Next

(* What a derivation read stays true of the row for as long as the version *)
(* it is conditional on is the current one.                                *)
LEMMA SourcesStep ==
  ASSUME ConceptInv, SourcesGrow, [Next]_vars
  PROVE  SourcesGrow'
<1>1. TypeOK /\ InOrder /\ PlannedByTheRules
  BY DEF ConceptInv
<1>2. ASSUME NEW c \in Clients
      PROVE  SourceNotAhead(work'[c], table', life')
  <2>1. CASE work'[c] = work[c]
    <3> DEFINE job == work[c]
               i == job.items[1].id
               seen == job.items[1].expect
    <3>1. SUFFICES ASSUME job.source # None
                   PROVE  SourceNotAhead(job, table', life')
      BY <2>1 DEF SourceNotAhead
    <3>2. SourceNotAhead(job, table, life)
      BY DEF SourcesGrow
    <3>3. job.source \in Sources /\ job.items[1] \in Entry
      <4>1. /\ job \in Works /\ job.kind = "save" /\ job.items # <<>>
        <5>1. job.kind = "save"
          BY <3>1, <3>2 DEF SourceNotAhead
        <5>2. job \in Works
          BY <1>1 DEF TypeOK, CallsTyped
        <5>3. job.items # <<>>
          <6>1. (pc[c] = "idle" => job = Idle) /\ (pc[c] # "idle" => job.items # <<>>)
            BY <1>1 DEF InOrder, OrderedCall, Ordered
          <6>2. Idle.kind # "save"
            BY DEF Idle
          <6> QED
            BY <5>1, <6>1, <6>2
        <5> QED
          BY <5>1, <5>2, <5>3
      <4>2. job.items \in Seq(Entry) /\ job.source \in Sources
        BY <3>1, <4>1 DEF Works
      <4> QED
        BY <4>1, <4>2, EmptySeq
    <3>4. /\ i \in Ids /\ seen \in Nat /\ job.source.life \in Nat
          /\ life[i] \in Nat /\ table[i] \in Row \cup {None}
      BY <1>1, <3>3 DEF Entry, Sources, TypeOK, StoreTyped
    <3>5. table[i] # None => table[i].version \in Nat
      BY <3>4 DEF Row
    <3> DEFINE Holds(row) == /\ row.rep[job.source.rep] = job.source.text
                             /\ job.source.asked \/ SparesAuthored(job.items[1], row)
    <3>6. /\ job.kind = "save" /\ seen # 0 /\ Len(job.items) = 1
          /\ job.source.life <= life[i]
          /\ table[i] # None /\ job.source.life = life[i] =>
               \/ seen < table[i].version
               \/ seen = table[i].version /\ Holds(table[i])
      BY <3>1, <3>2 DEF SourceNotAhead
    <3>8. ASSUME /\ job.kind = "save" /\ seen # 0 /\ Len(job.items) = 1
                 /\ job.source.life <= life'[i]
                 /\ table'[i] # None /\ job.source.life = life'[i] =>
                      \/ seen < table'[i].version
                      \/ seen = table'[i].version /\ Holds(table'[i])
          PROVE  SourceNotAhead(job, table', life')
      BY <3>8 DEF SourceNotAhead
    <3> HIDE DEF job, i, seen, Holds
    <3>7. /\ job.source.life <= life'[i]
          /\ table'[i] # None /\ job.source.life = life'[i] =>
               \/ seen < table'[i].version
               \/ seen = table'[i].version /\ Holds(table'[i])
      <4>1. CASE table'[i] = table[i] /\ life'[i] = life[i]
        BY <3>6, <4>1
      <4>2. CASE table'[i] = None /\ life'[i] = life[i]
        BY <3>6, <4>2
      <4>3. CASE life'[i] = life[i] + 1
        BY <3>4, <3>6, <4>3
      <4>4. CASE /\ table[i] \in Row /\ life'[i] = life[i]
                 /\ table'[i].version = table[i].version + 1
        <5>1. table[i] # None
          BY <4>4, RulesAssumption
        <5>2. job.source.life = life[i] => seen < table'[i].version
          BY <3>4, <3>5, <3>6, <4>4, <5>1
        <5> QED
          BY <3>6, <4>4, <5>2
      <4> QED
        BY <1>1, <3>4, <4>1, <4>2, <4>3, <4>4, RowChange
    <3> QED
      BY <3>6, <3>7, <3>8
  <2>2. CASE work'[c].source = None
    BY <2>2 DEF SourceNotAhead
  <2>3. CASE UNCHANGED store /\ SourceNotAhead(work'[c], table, life)
    BY <2>3 DEF store
  <2> QED
    BY <1>1, <2>1, <2>2, <2>3, WorkChange
<1> QED
  BY <1>2 DEF SourcesGrow

(* So it is true of every state.                                           *)
LEMMA SourcesInvariant == Spec => []SourcesGrow
<1>1. Init => SourcesGrow
  BY DEF Init, SourcesGrow, SourceNotAhead, Idle
<1>2. ConceptInv /\ SourcesGrow /\ [Next]_vars => SourcesGrow'
  BY SourcesStep
<1> QED
  BY <1>1, <1>2, InvCorrect, PTL DEF Spec

(* When a derivation commits, the version it read is the current one: what *)
(* it read still is the case, unless the concept was created anew since.   *)
LEMMA DerivationCommit ==
  ASSUME ConceptInv, SourcesGrow, [Next]_vars, NEW c \in Clients, Commits(c),
         work[c].source # None, work[c].source.life = life[work[c].items[1].id]
  PROVE  LET e == work[c].items[1]
             row == table[e.id]
             source == work[c].source
         IN  /\ Len(work[c].items) = 1
             /\ row # None /\ row.rep[source.rep] = source.text
             /\ source.asked \/ SparesAuthored(e, row)
<1> DEFINE e == work[c].items[1]
           p == planned[c][1]
<1>1. Commit(c) /\ TypeOK /\ InOrder
  BY CommitsIsCommit DEF ConceptInv
<1>2. SourceNotAhead(work[c], table, life)
  BY DEF SourcesGrow
<1>3. work[c].kind = "save" /\ e.expect # 0 /\ Len(work[c].items) = 1
  BY <1>2 DEF SourceNotAhead
<1>4. 1 \in DOMAIN work[c].items
  <2>1. work[c].items # <<>> /\ work[c].items \in Seq(Entry)
    BY <1>1, <1>3 DEF TypeOK, CallsTyped, Works, InOrder, OrderedCall, Ordered, Idle
  <2> QED
    BY <2>1, EmptySeq
<1>5. /\ e \in Entry /\ ~Rejected(e, p.write.base)
      /\ Applies(p.write, table[e.id])
  BY <1>1, <1>3, <1>4, SaveCommit
<1>6. table[e.id] # None /\ table[e.id].version = e.expect
  BY <1>3, <1>5 DEF Rejected, Stale, Applies
<1>7. e.expect \in Nat
  BY <1>5 DEF Entry
<1>8. ~(e.expect < table[e.id].version)
  BY <1>6, <1>7
<1>9. /\ table[e.id].rep[work[c].source.rep] = work[c].source.text
      /\ work[c].source.asked \/ SparesAuthored(e, table[e.id])
  BY <1>2, <1>6, <1>8 DEF SourceNotAhead
<1> QED
  BY <1>3, <1>6, <1>9

(* A conversion or a re-embedding commits only while its source still is   *)
(* what it derived from: the expectedVersion that convert and reembed pass *)
(* turns a concurrent edit into a version conflict.                        *)
THEOREM FreshDerivationCorrect == Spec => FreshDerivation
<1>1. ConceptInv /\ SourcesGrow /\ [Next]_vars =>
        [\A c \in Clients : Commits(c) /\ work[c].source # None =>
           LET i == work[c].items[1].id
               source == work[c].source
           IN  source.life = life[i] =>
                 table[i] # None /\ table[i].rep[source.rep] = source.text]_vars
  BY DerivationCommit
<1> QED
  BY <1>1, InvCorrect, SourcesInvariant, PTL DEF Spec, FreshDerivation

(* Authored content becomes machine-made only through a call whose caller  *)
(* asked to overwrite it, also when the authored content arrived while     *)
(* that call was running: by the provenance rules of plan for a save, and  *)
(* for a re-embedding, whose inner save overwrites always, by the version  *)
(* it is conditional on.                                                   *)
THEOREM AuthoredContentKeptCorrect == Spec => AuthoredContentKept
<1>1. ASSUME ConceptInv, SourcesGrow, [Next]_vars, NEW c \in Clients, Commits(c),
             work[c].kind = "save", NEW k \in DOMAIN planned[c], NEW r \in Reps
      PROVE  LET e == planned[c][k].item
                 row == table[e.id]
             IN  /\ row # None /\ SameLife(c, k)
                 /\ row.rep[r] # None /\ ~IsMachineMade(row.prov[r])
                 /\ IsMachineMade(table'[e.id].prov[r])
                 => AskedToOverwrite(c, e)
  <2> DEFINE e == planned[c][k].item
             row == table[e.id]
             source == work[c].source
  <2>1. Commit(c) /\ TypeOK /\ InOrder /\ PlannedByTheRules /\ pc[c] = "apply"
    BY <1>1, CommitsIsCommit DEF ConceptInv, Commit
  <2>2. k \in DOMAIN work[c].items /\ e = work[c].items[k] /\ e \in Entry
    BY <1>1, <2>1, SavePlan
  <2>3. SUFFICES ASSUME row # None, SameLife(c, k), row.rep[r] # None,
                        ~IsMachineMade(row.prov[r]), IsMachineMade(table'[e.id].prov[r])
                 PROVE  AskedToOverwrite(c, e)
    OBVIOUS
  <2>4. /\ ~Rejected(e, row)
        /\ table'[e.id] = SavedRow(e, row, ModelOf[c], started[c])
    BY <1>1, <2>1, <2>2, <2>3, SaveCommit
  <2>5. ~Refused(e, row)
    BY <2>4 DEF Rejected
  <2>6. ASSUME source # None, source.life = life[e.id]
        PROVE  source.asked \/ SparesAuthored(e, row)
    <3>1. work[c].items \in Seq(Entry)
      BY <1>1, <2>1 DEF TypeOK, CallsTyped, Works
    <3>2. Len(work[c].items) = 1
      BY <1>1, <2>6 DEF SourcesGrow, SourceNotAhead
    <3>3. k = 1
      BY <2>2, <3>1, <3>2
    <3>4. e = work[c].items[1]
      BY <2>2, <3>3
    <3> QED
      BY <1>1, <2>6, <3>4, DerivationCommit
  <2> HIDE DEF e, row, source
  <2>7. IsMachineMade(NewOrigin(e, row, r))
    BY <2>3, <2>4 DEF SavedRow
  <2>8. e.rep[r] # None
    <3>1. SUFFICES ASSUME e.rep[r] = None PROVE FALSE
      OBVIOUS
    <3>2. ~(r = "vector" /\ AutoEmbeds(e, row))
      BY <2>3 DEF AutoEmbeds
    <3> QED
      BY <2>3, <2>7, <3>1, <3>2 DEF NewOrigin
  <2>9. e.overwrite
    <3>1. IsMachineMade(NextOrigin(e, r)) /\ r \in Given(e)
      BY <2>7, <2>8 DEF NewOrigin, Given
    <3> QED
      BY <2>3, <2>5, <3>1 DEF Refused
  <2>10. ~SparesAuthored(e, row)
    BY <2>3, <2>8 DEF SparesAuthored
  <2> QED
    BY <2>6, <2>9, <2>10 DEF AskedToOverwrite, source
<1>2. ConceptInv /\ SourcesGrow /\ [Next]_vars =>
        [\A c \in Clients : Commits(c) /\ work[c].kind = "save" =>
           \A k \in DOMAIN planned[c], r \in Reps :
             LET e == planned[c][k].item
                 row == table[e.id]
             IN  /\ row # None /\ SameLife(c, k)
                 /\ row.rep[r] # None /\ ~IsMachineMade(row.prov[r])
                 /\ IsMachineMade(table'[e.id].prov[r])
                 => AskedToOverwrite(c, e)]_vars
  BY <1>1
<1> QED
  BY <1>2, InvCorrect, SourcesInvariant, PTL DEF Spec, AuthoredContentKept

-----------------------------------------------------------------------------
(* The refinement.                                                         *)

(* ConceptService over the adapters implements AtomicStore: its reads,     *)
(* plans and retries are stuttering, a committed transaction is one step   *)
(* of the atomic store, and the vectors the index serves to a search are   *)
(* those of the concepts at every moment.                                  *)
THEOREM StoreContractCorrect == Spec => StoreContract
<1> DEFINE found == {[id |-> i, ns |-> index[i].ns, vector |-> index[i].vector] :
                       i \in {j \in Ids : index[j] # None}}
(* The index holds what the abstract store says a search can find.         *)
<1>1. TypeOK /\ IndexInStep => found = Contract!VectorsOf(table)
  <2> SUFFICES ASSUME TypeOK, IndexInStep PROVE found = Contract!VectorsOf(table)
    OBVIOUS
  <2>1. ASSUME NEW i \in Ids
        PROVE  /\ index[i] # None <=> table[i] # None /\ table[i].rep["vector"] # None
               /\ index[i] # None => /\ index[i].ns = table[i].ns
                                     /\ index[i].vector = table[i].rep["vector"]
    <3>1. /\ table[i] # None => /\ table[i].ns \in Namespaces
                               /\ table[i].rep["vector"] \in Vectors \cup {None}
          /\ index[i] = IF table[i] = None THEN None
                        ELSE IndexEntry(table[i].ns, table[i].rep["vector"])
      BY DEF TypeOK, StoreTyped, Row, Holdings, Reps, IndexInStep
    <3>2. \A ns \in Namespaces, v \in Vectors : [ns |-> ns, vector |-> v] # None
      BY RulesAssumption DEF Indexed
    <3> QED
      BY <3>1, <3>2 DEF IndexEntry
  <2> QED
    BY <2>1 DEF Contract!VectorsOf
<1>2. Init => Contract!Init
  <2>1. ASSUME Init PROVE found = {}
    BY <2>1 DEF Init
  <2> QED
    BY <2>1 DEF Init, Contract!Init
<1>3. ConceptInv /\ ConceptInv' /\ [Next]_vars => [Contract!Next]_<<table, found>>
  <2> SUFFICES ASSUME ConceptInv, ConceptInv', [Next]_vars
               PROVE  [Contract!Next]_<<table, found>>
    OBVIOUS
  <2>1. TypeOK /\ InOrder /\ PlannedByTheRules /\ IndexInStep
    BY DEF ConceptInv
  <2>2. found' = Contract!VectorsOf(table')
    <3>1. TypeOK' /\ IndexInStep'
      BY DEF ConceptInv
    <3>2. (TypeOK /\ IndexInStep => found = Contract!VectorsOf(table))'
      BY <1>1, PTL
    <3> QED
      BY <3>1, <3>2 DEF Contract!VectorsOf
  <2>3. CASE UNCHANGED store
    BY <2>3 DEF store
  <2>4. CASE \E c \in Clients : Delete(c) \/ Commit(c)
    <3>1. PICK c \in Clients : Delete(c) \/ Commit(c)
      BY <2>4
    <3>2. CASE Delete(c)
      <4>1. PICK i \in Ids : table[i] # None /\ table' = [table EXCEPT ![i] = None]
        BY <3>2 DEF Delete
      <4>2. Contract!Delete(i)
        BY <2>2, <4>1 DEF Contract!Delete
      <4> QED
        BY <4>2 DEF Contract!Next
    <3>3. CASE Commit(c)
      <4>1. \A i \in Ids :
              \/ table'[i] = table[i]
              \/ table[i] = None /\ table'[i] \in Row
              \/ /\ table[i] # None /\ table'[i] \in Row
                 /\ table'[i].ns = table[i].ns
                 /\ table'[i].version = table[i].version + 1
        <5>1. ASSUME NEW i \in Ids, table'[i] = None PROVE table'[i] = table[i]
          BY <2>1, <3>3, <5>1, CommitEffect, AppliedType, RulesAssumption
             DEF TypeOK, StoreTyped
        <5> QED
          BY <2>1, <5>1, RowChange, RulesAssumption
      <4>2. Contract!Write
        BY <2>2, <4>1 DEF Contract!Write
      <4> QED
        BY <4>2 DEF Contract!Next
    <3> QED
      BY <3>1, <3>2, <3>3
  <2> QED
    BY <2>3, <2>4, OnlyCommitsAndDeletes
<1> QED
  BY <1>2, <1>3, InvCorrect, PTL DEF Spec, StoreContract, Contract!Spec
=============================================================================
