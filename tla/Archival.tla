------------------------------ MODULE Archival ------------------------------
(***************************************************************************)
(* ArchivalConnector of one server: concepts that carry the filter tags    *)
(* are uploaded to Arweave, which is permanent and paid for, by debounce   *)
(* timers that the event bridge arms and by tool calls.  Several archive   *)
(* calls of a concept may overlap, its saves go on meanwhile, uploads take *)
(* any time and fail, and the server may restart.                          *)
(***************************************************************************)
EXTENDS Integers, FiniteSets

CONSTANTS
  Concepts,     \* concept ids
  Calls,        \* archive calls that may overlap
  MaxChanges,   \* bound on saves and deletions
  MaxToolCalls, \* bound on calls of vault_archive_concept
  MaxFailures,  \* bound on failures and restarts
  NoConcept     \* no concept

ASSUME ArchivalAssumption ==
  /\ MaxChanges \in Nat /\ MaxToolCalls \in Nat /\ MaxFailures \in Nat
  /\ NoConcept \notin Concepts \cup [life : Nat, version : Nat, eligible : BOOLEAN]

VARIABLES
  row,         \* the concepts: a version, and whether it is to be archived
  lives,       \* how often each concept was created
  pending,     \* concepts with an armed debounce timer
  archived,    \* archivedVersion: the last version archived, 0 for none
  uploading,   \* uploads in progress, by concept and version
  pc,          \* where each archive call is
  id,          \* the concept it archives
  read,        \* the row it has read
  receipts,    \* history: what was uploaded and confirmed
  missed,      \* history: concepts whose archival failed or was forgotten
  changes, toolCalls, failures    \* what the bounds count

connector == <<pending, archived, uploading>>
calls == <<pc, id, read>>
archivalCounters == <<changes, toolCalls, failures>>
archivalVars == <<row, lives, connector, calls, receipts, missed, archivalCounters>>

(* A concept is eligible if it carries every filter tag and has text.      *)
ConceptRow == [life : Nat, version : Nat, eligible : BOOLEAN]

(* Mistake: uploads in progress are kept by concept, not by version.       *)
SlotByConcept(i, version) == <<i, 0>>

Slot(i, version) == <<i, version>>
SlotOf(c) == Slot(id[c], read[c].version)

ArchivalInit ==
  /\ row = [i \in Concepts |-> NoConcept]
  /\ lives = [i \in Concepts |-> 0]
  /\ pending = {}
  /\ archived = [i \in Concepts |-> 0]
  /\ uploading = {}
  /\ pc = [c \in Calls |-> "idle"]
  /\ id = [c \in Calls |-> NoConcept]
  /\ read = [c \in Calls |-> NoConcept]
  /\ receipts = {}
  /\ missed = {}
  /\ changes = 0 /\ toolCalls = 0 /\ failures = 0

-----------------------------------------------------------------------------
(* The concept store and the event bridge: onCreated, onUpdated, onDeleted *)

SaveConcept(i) ==
  /\ changes < MaxChanges
  /\ lives' = [lives EXCEPT ![i] = IF row[i] = NoConcept THEN @ + 1 ELSE @]
  /\ \E eligible \in BOOLEAN :
       row' = [row EXCEPT ![i] =
                 [life |-> lives'[i], eligible |-> eligible,
                  version |-> IF row[i] = NoConcept THEN 1 ELSE row[i].version + 1]]
  /\ pending' = pending \cup {i}
  /\ missed' = missed \ {i}
  /\ changes' = changes + 1
  /\ UNCHANGED <<archived, uploading, calls, receipts, toolCalls, failures>>

DeleteConcept(i) ==
  /\ changes < MaxChanges
  /\ row[i] # NoConcept
  /\ row' = [row EXCEPT ![i] = NoConcept]
  /\ pending' = pending \ {i}
  /\ changes' = changes + 1
  /\ UNCHANGED <<lives, archived, uploading, calls, receipts, missed, toolCalls, failures>>

-----------------------------------------------------------------------------
(* archive                                                                 *)

Call(c, i) ==
  /\ pc[c] = "idle"
  /\ pc' = [pc EXCEPT ![c] = "read"]
  /\ id' = [id EXCEPT ![c] = i]
  /\ UNCHANGED <<row, lives, archived, uploading, read, receipts, missed, changes, failures>>

(* The debounce timer of a concept fires.                                  *)
Fire(c, i) ==
  /\ i \in pending
  /\ pending' = pending \ {i}
  /\ Call(c, i)
  /\ UNCHANGED toolCalls

(* vault_archive_concept.                                                  *)
ToolCall(c, i) ==
  /\ toolCalls < MaxToolCalls
  /\ toolCalls' = toolCalls + 1
  /\ Call(c, i)
  /\ UNCHANGED pending

Return(these) ==
  /\ pc' = [c \in Calls |-> IF c \in these THEN "idle" ELSE pc[c]]
  /\ id' = [c \in Calls |-> IF c \in these THEN NoConcept ELSE id[c]]
  /\ read' = [c \in Calls |-> IF c \in these THEN NoConcept ELSE read[c]]

(* Read the concept; one that is gone ends the call.  What comes after     *)
(* works on the row as it was read.                                        *)
Read(c) ==
  /\ pc[c] = "read"
  /\ IF row[id[c]] = NoConcept THEN Return({c})
     ELSE /\ read' = [read EXCEPT ![c] = row[id[c]]]
          /\ pc' = [pc EXCEPT ![c] = "decide"]
          /\ UNCHANGED id
  /\ UNCHANGED <<row, lives, connector, receipts, missed, archivalCounters>>

AlreadyArchived(c) == archived[id[c]] = read[c].version

(* Not to be archived, or archived before: the call returns.               *)
Decline(c) ==
  /\ pc[c] = "decide"
  /\ ~read[c].eligible \/ AlreadyArchived(c)
  /\ Return({c})
  /\ UNCHANGED <<row, lives, connector, receipts, missed, archivalCounters>>

(* The version is being uploaded: wait for that upload.                    *)
Wait(c) ==
  /\ pc[c] = "decide"
  /\ read[c].eligible /\ ~AlreadyArchived(c)
  /\ SlotOf(c) \in uploading
  /\ pc' = [pc EXCEPT ![c] = "wait"]
  /\ UNCHANGED <<row, lives, connector, id, read, receipts, missed, archivalCounters>>

(* Mistake: the slot is not reserved before the upload's first await.      *)
UploadUnreserved(c) ==
  /\ pc[c] = "decide"
  /\ read[c].eligible /\ ~AlreadyArchived(c)
  /\ SlotOf(c) \notin uploading
  /\ pc' = [pc EXCEPT ![c] = "upload"]
  /\ UNCHANGED <<row, lives, connector, id, read, receipts, missed, archivalCounters>>

(* Seal it, send it, and reserve the slot in the same turn.                *)
Upload(c) ==
  /\ pc[c] = "decide"
  /\ read[c].eligible /\ ~AlreadyArchived(c)
  /\ SlotOf(c) \notin uploading
  /\ uploading' = uploading \cup {SlotOf(c)}
  /\ pc' = [pc EXCEPT ![c] = "upload"]
  /\ UNCHANGED <<row, lives, pending, archived, id, read, receipts, missed, archivalCounters>>

(* The calls that wait for the upload of c: their promise settles with it. *)
Waiting(c) == {w \in Calls : pc[w] = "wait" /\ SlotOf(w) = SlotOf(c)}

Uploaded(c) == [id |-> id[c], life |-> read[c].life, version |-> read[c].version]

(* The upload is confirmed: the version is remembered as archived, also if *)
(* a newer one was archived meanwhile.                                     *)
Confirm(c) ==
  /\ pc[c] = "upload"
  /\ uploading' = uploading \ {SlotOf(c)}
  /\ archived' = [archived EXCEPT ![id[c]] = read[c].version]
  /\ receipts' = receipts \cup {Uploaded(c)}
  /\ Return({c} \cup Waiting(c))
  /\ UNCHANGED <<row, lives, pending, missed, archivalCounters>>

(* Mistake: a failed upload is remembered like a confirmed one.            *)
FailRemembered(c) ==
  /\ pc[c] = "upload"
  /\ failures < MaxFailures
  /\ uploading' = uploading \ {SlotOf(c)}
  /\ archived' = [archived EXCEPT ![id[c]] = read[c].version]
  /\ Return({c} \cup Waiting(c))
  /\ missed' = missed \cup {id[c]}
  /\ failures' = failures + 1
  /\ UNCHANGED <<row, lives, pending, receipts, changes, toolCalls>>

(* The upload fails, or its answer is lost: nothing is remembered, nothing *)
(* is retried, and the calls that wait for it fail too.                    *)
Fail(c) ==
  /\ pc[c] = "upload"
  /\ failures < MaxFailures
  /\ uploading' = uploading \ {SlotOf(c)}
  /\ Return({c} \cup Waiting(c))
  /\ missed' = missed \cup {id[c]}
  /\ failures' = failures + 1
  /\ UNCHANGED <<row, lives, pending, archived, receipts, changes, toolCalls>>

(* The server restarts: timers, calls and what it remembers are gone.      *)
Restart ==
  /\ failures < MaxFailures
  /\ missed' = missed \cup pending \cup {id[c] : c \in {d \in Calls : pc[d] # "idle"}}
  /\ pending' = {}
  /\ archived' = [i \in Concepts |-> 0]
  /\ uploading' = {}
  /\ Return(Calls)
  /\ failures' = failures + 1
  /\ UNCHANGED <<row, lives, receipts, changes, toolCalls>>

Advance(c) == Read(c) \/ Decline(c) \/ Wait(c) \/ Upload(c) \/ Confirm(c)
Start(c, i) == Fire(c, i) \/ ToolCall(c, i)

ArchivalNext ==
  \/ \E i \in Concepts : SaveConcept(i) \/ DeleteConcept(i) \/ \E c \in Calls : Start(c, i)
  \/ \E c \in Calls : Advance(c) \/ Fail(c)
  \/ Restart

(* Timers fire, calls go on and uploads return: with a receipt, unless one *)
(* of the failures happens first.                                          *)
ArchivalSpec ==
  /\ ArchivalInit /\ [][ArchivalNext]_archivalVars
  /\ \A c \in Calls : WF_archivalVars(Advance(c))
  /\ \A i \in Concepts : WF_archivalVars(\E c \in Calls : Fire(c, i))

-----------------------------------------------------------------------------
(* Every variable has its type; calls hold a concept and a row exactly     *)
(* while they need them.                                                   *)
ArchivalTypeOK ==
  /\ row \in [Concepts -> ConceptRow \cup {NoConcept}]
  /\ lives \in [Concepts -> Nat]
  /\ pending \subseteq Concepts
  /\ archived \in [Concepts -> Nat]
  /\ uploading \subseteq Concepts \X Nat
  /\ pc \in [Calls -> {"idle", "read", "decide", "wait", "upload"}]
  /\ id \in [Calls -> Concepts \cup {NoConcept}]
  /\ read \in [Calls -> ConceptRow \cup {NoConcept}]
  /\ \A c \in Calls : /\ id[c] = NoConcept <=> pc[c] = "idle"
                      /\ read[c] = NoConcept <=> pc[c] \in {"idle", "read"}
  /\ receipts \subseteq [id : Concepts, life : Nat, version : Nat]
  /\ missed \subseteq Concepts
  /\ changes \in 0 .. MaxChanges
  /\ toolCalls \in 0 .. MaxToolCalls
  /\ failures \in 0 .. MaxFailures

(* No version is being uploaded by two calls at once, and a call waits     *)
(* only for an upload that is going on, so it cannot wait for ever: the    *)
(* slots in progress are those of the uploading calls.                     *)
OneUploadPerVersion ==
  /\ \A c, d \in Calls :
       pc[c] = "upload" /\ pc[d] = "upload" /\ SlotOf(c) = SlotOf(d) => c = d
  /\ uploading = {SlotOf(c) : c \in {d \in Calls : pc[d] = "upload"}}
  /\ \A c \in Calls : pc[c] = "wait" => SlotOf(c) \in uploading

(* A version that archive remembers was confirmed, whatever failed in      *)
(* between: "already archived" is never said of a version that was not.    *)
(* (A re-created concept starts its versions again, and archived may name  *)
(* a version of its earlier life.)                                         *)
RememberedIsConfirmed ==
  \A i \in Concepts : archived[i] # 0 =>
    \E r \in receipts : r.id = i /\ r.version = archived[i]

(* Once a concept changes no more, its current version is archived, unless *)
(* an upload of it failed or the server restarted since the last change,   *)
(* or the concept was deleted and created again.                           *)
LastVersionArchived ==
  \A i \in Concepts :
    <>[](\/ row[i] = NoConcept \/ ~row[i].eligible \/ i \in missed \/ lives[i] > 1
         \/ [id |-> i, life |-> row[i].life, version |-> row[i].version] \in receipts)
=============================================================================
