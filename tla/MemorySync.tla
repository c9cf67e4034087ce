----------------------------- MODULE MemorySync -----------------------------
(***************************************************************************)
(* Servers with stores of their own that copy concepts through one branch  *)
(* of AgentVault's memory_repo: the event bridge pushes what was saved or  *)
(* deleted; a server pulls once when it starts and then, if one is         *)
(* configured, by its timer; vault_memory_pull and the agentvault-sync CLI *)
(* pull too.                                                               *)
(* Requests that change the branch are sent once; they may be lost, or     *)
(* take effect long after the caller gave up on them.                      *)
(*                                                                         *)
(* Abstracted: a concept is its namespace, version, updatedAt and markdown *)
(* (thoughtform entries are pushed beside it and never pulled; tags and    *)
(* vectors follow the text), the ids and namespaces of entries are well    *)
(* formed, and the servers' clocks agree.                                  *)
(***************************************************************************)
EXTENDS Integers, Sequences, SequencesExt

CONSTANTS
  Servers, Ids, Namespaces, Texts,
  DirectionOf,  \* agentVault.sync.direction of each server
  AllowedAt,    \* POLYTICIAN_NAMESPACES of each server
  Timed,        \* the servers configured with a pullIntervalMs > 0
  Pulls,        \* pulls that may overlap
  MaxEdits,     \* bound on local saves and deletions
  MaxManual,    \* bound on tool calls and CLI runs
  MaxFaults,    \* bound on lost requests, failed reads and pulls, and crashes
  MaxClock,     \* bound on the clock
  None

Directions == {"push", "pull", "bidirectional"}

Row == [ns : Namespaces, version : Nat \ {0}, updated : Nat, text : Texts]

(* `concepts/<id>/markdown` on the branch, with its metadata.              *)
Entry == [ns : Namespaces, updated : Nat, text : Texts]

(* A commit of one entry, or a tombstone.                                  *)
Request == [id : Ids, entry : Entry \cup {None}]

(* A pull: who asked for it, the entries still to be applied, and the one  *)
(* being applied with the row that was read for it.                        *)
Pull == [by : {"bridge", "tool", "cli"}, server : Servers,
         left : SUBSET (Ids \X Entry), doing : (Ids \X Entry) \cup {None},
         found : Row \cup {None}, life : Nat]

ASSUME SyncAssumption ==
  /\ DirectionOf \in [Servers -> Directions]
  /\ AllowedAt \in [Servers -> SUBSET Namespaces]
  /\ Timed \subseteq Servers
  /\ MaxEdits \in Nat /\ MaxManual \in Nat /\ MaxFaults \in Nat /\ MaxClock \in Nat
  /\ None \notin Row \cup Entry \cup Namespaces \cup Servers
  /\ None \notin Pull /\ None \notin Ids \X Entry

VARIABLES
  store,     \* the concepts of each server
  branch,    \* the entries of the memory_repo branch
  events,    \* events of the concept event bus that are yet to be handled
  wire,      \* requests on their way to the branch, in the order sent
  pull,      \* the pulls in progress
  fresh,     \* the servers whose initial pull is still to come
  clock,
  life,      \* history: how often each concept was created on each server
  pusher,    \* history: the server that sent requests for each concept
  faulty,    \* history: concepts with a request lost or overtaken, or two pushers
  edits, manual, faults      \* what the bounds count

history == <<life, pusher, faulty>>
counters == <<edits, manual, faults>>
vars == <<store, branch, events, wire, pull, fresh, clock, history, counters>>

CanPush(s) == DirectionOf[s] # "pull"
CanPull(s) == DirectionOf[s] # "push"
Pullers == {s \in Servers : CanPull(s)}

Init ==
  /\ store = [s \in Servers |-> [i \in Ids |-> None]]
  /\ branch = [i \in Ids |-> None]
  /\ events = {}
  /\ wire = <<>>
  /\ pull = [p \in Pulls |-> None]
  /\ fresh = Pullers
  /\ clock = 1
  /\ life = [s \in Servers |-> [i \in Ids |-> 0]]
  /\ pusher = [i \in Ids |-> None]
  /\ faulty = {}
  /\ edits = 0 /\ manual = 0 /\ faults = 0

-----------------------------------------------------------------------------
(* The concept service of a server: save, delete and the events they emit  *)

Saved(s, i) == [server |-> s, id |-> i, kind |-> "saved"]
Listed(s, i) == [server |-> s, id |-> i, kind |-> "listed"]
Deleted(s, i) == [server |-> s, id |-> i, kind |-> "deleted"]

VersionOf(row) == IF row = None THEN 0 ELSE row.version

(* A save of text on top of the row as it is.                              *)
Write(s, i, ns, text) ==
  /\ store' = [store EXCEPT ![s][i] =
                 [ns |-> IF @ = None THEN ns ELSE @.ns, version |-> VersionOf(@) + 1,
                  updated |-> clock, text |-> text]]
  /\ life' = [life EXCEPT ![s][i] = IF store[s][i] = None THEN @ + 1 ELSE @]

Edit(s, i) ==
  /\ edits < MaxEdits
  /\ \E text \in Texts, ns \in AllowedAt[s] : Write(s, i, ns, text)
  /\ events' = events \cup {Saved(s, i)}
  /\ edits' = edits + 1
  /\ UNCHANGED <<branch, wire, pull, fresh, clock, pusher, faulty, manual, faults>>

Delete(s, i) ==
  /\ edits < MaxEdits
  /\ store[s][i] # None
  /\ store' = [store EXCEPT ![s][i] = None]
  /\ events' = events \cup {Deleted(s, i)}
  /\ edits' = edits + 1
  /\ UNCHANGED <<branch, wire, pull, fresh, clock, history, manual, faults>>

Tick == clock < MaxClock /\ clock' = clock + 1
        /\ UNCHANGED <<store, branch, events, wire, pull, fresh, history, counters>>

-----------------------------------------------------------------------------
(* The push side: AgentVaultEventBridge, pushConcept, deleteConcept        *)

EntryOf(row) == [ns |-> row.ns, updated |-> row.updated, text |-> row.text]

Send(s, i, entry) ==
  /\ wire' = Append(wire, [id |-> i, entry |-> entry])
  /\ pusher' = [pusher EXCEPT ![i] = s]
  /\ faulty' = IF pusher[i] \in {None, s} THEN faulty ELSE faulty \cup {i}

SendNothing == UNCHANGED <<wire, pusher, faulty>>

(* Mistake: the bridge does not subscribe to concept.updated.              *)
PushesOnlyCreated(e) ==
  /\ CanPush(e.server) /\ store[e.server][e.id] # None
  /\ store[e.server][e.id].version = 1

(* A concept that is gone makes the push fail.  The CLI pushes by its own  *)
(* --direction, not by the server's.                                       *)
Pushes(e) == (e.kind = "listed" \/ CanPush(e.server)) /\ store[e.server][e.id] # None

(* onCreated, onUpdated, and the CLI for each concept that it listed.      *)
(* What is pushed is read when the event is handled and not carried by it, *)
(* so events may be handled in any order.                                  *)
HandleSaved(e) ==
  /\ e \in events /\ e.kind \in {"saved", "listed"}
  /\ events' = events \ {e}
  /\ IF Pushes(e) THEN Send(e.server, e.id, EntryOf(store[e.server][e.id])) ELSE SendNothing
  /\ UNCHANGED <<store, branch, pull, fresh, clock, life, edits, manual, faults>>

HandleDeleted(e) ==
  /\ e \in events /\ e.kind = "deleted"
  /\ events' = events \ {e}
  /\ IF CanPush(e.server) THEN Send(e.server, e.id, None) ELSE SendNothing
  /\ UNCHANGED <<store, branch, pull, fresh, clock, life, edits, manual, faults>>

(* vault_memory_push, whatever the direction of the sync.                  *)
ToolPush(s, i) ==
  /\ manual < MaxManual
  /\ store[s][i] # None
  /\ store[s][i].ns \in AllowedAt[s]
  /\ Send(s, i, EntryOf(store[s][i]))
  /\ manual' = manual + 1
  /\ UNCHANGED <<store, branch, events, pull, fresh, clock, life, edits, faults>>

-----------------------------------------------------------------------------
(* memory_repo and the way to it.  A request that timed out may still be   *)
(* applied, and is never sent again.                                       *)

TakeEffect(k) ==
  /\ wire' = RemoveAt(wire, k)
  /\ branch' = [branch EXCEPT ![wire[k].id] = wire[k].entry]
  /\ faulty' = faulty \cup {wire[k].id : j \in {m \in 1 .. k - 1 : wire[m].id = wire[k].id}}
  /\ UNCHANGED <<store, events, pull, fresh, clock, life, pusher, counters>>

Lose(k) ==
  /\ faults < MaxFaults
  /\ wire' = RemoveAt(wire, k)
  /\ faulty' = faulty \cup {wire[k].id}
  /\ faults' = faults + 1
  /\ UNCHANGED <<store, branch, events, pull, fresh, clock, life, pusher, edits, manual>>

-----------------------------------------------------------------------------
(* The pull side: pullAll and applyPulledEntries                           *)

(* The entries of a namespace that the server serves and the pull is for.  *)
Entries(s, target) ==
  {<<i, branch[i]>> : i \in {j \in Ids : /\ branch[j] # None
                                        /\ target \in {None, branch[j].ns}
                                        /\ branch[j].ns \in AllowedAt[s]}}

(* getBranchState; a GET that keeps failing ends the pull before this.     *)
BeginPull(p, by, s, target) ==
  /\ pull[p] = None
  /\ pull' = [pull EXCEPT ![p] = [by |-> by, server |-> s, left |-> Entries(s, target),
                                  doing |-> None, found |-> None, life |-> 0]]
  /\ UNCHANGED <<store, branch, events, wire, clock, history, edits, faults>>

(* initialPull, once after each start.                                     *)
InitialPull(p, s) ==
  /\ s \in fresh
  /\ BeginPull(p, "bridge", s, None)
  /\ fresh' = fresh \ {s}
  /\ UNCHANGED manual

(* Its GET keeps failing; it is not tried again.                           *)
InitialPullFails(s) ==
  /\ s \in fresh
  /\ faults < MaxFaults
  /\ faults' = faults + 1
  /\ fresh' = fresh \ {s}
  /\ UNCHANGED <<store, branch, events, wire, pull, clock, history, edits, manual>>

(* The pull timer, of servers that have one.                               *)
TimedPull(p, s) ==
  /\ s \in Timed
  /\ CanPull(s)
  /\ BeginPull(p, "bridge", s, None)
  /\ UNCHANGED <<fresh, manual>>

ToolPull(p, s) ==
  /\ manual < MaxManual
  /\ \E ns \in AllowedAt[s] : BeginPull(p, "tool", s, ns)
  /\ manual' = manual + 1
  /\ UNCHANGED fresh

(* agentvault-sync sync --direction bidirectional, in a process of its own *)
CliPull(p, s) ==
  /\ manual < MaxManual
  /\ BeginPull(p, "cli", s, None)
  /\ manual' = manual + 1
  /\ UNCHANGED fresh

(* The pull goes on to entry x, for which it found a row, or nothing.      *)
Applying(q, x, found) ==
  [q EXCEPT !.left = q.left \ {x}, !.doing = x, !.found = found, !.life = life[q.server][x[1]]]

(* `read(id).catch(() => null)`: a read that fails finds nothing either.   *)
ReadExisting(p) ==
  /\ pull[p] # None /\ pull[p].doing = None
  /\ \E x \in pull[p].left :
       LET row == store[pull[p].server][x[1]]
       IN \E found \in {row, None} :
            /\ found # row => faults < MaxFaults
            /\ faults' = IF found # row THEN faults + 1 ELSE faults
            /\ pull' = [pull EXCEPT ![p] = Applying(@, x, found)]
  /\ UNCHANGED <<store, branch, events, wire, fresh, clock, history, edits, manual>>

(* Mistake: a concept the server does not have is not created.             *)
SkippedIfAbsent(q) == q.found # None => q.found.updated >= q.doing[2].updated

(* The concept is of another namespace, or not older than the entry.       *)
Skipped(q) ==
  q.found # None /\ (q.found.ns # q.doing[2].ns \/ q.found.updated >= q.doing[2].updated)

(* Mistake: the save does not say which version was read.                  *)
ConflictsNever(q) == FALSE

(* Mistake: the save does not name the namespace of the entry.             *)
DeniedNever(q) == FALSE

(* The save names the version that was read, unless nothing was found.     *)
Conflicts(q) == q.found # None /\ VersionOf(store[q.server][q.doing[1]]) # q.found.version

Denied(q) ==
  /\ store[q.server][q.doing[1]] # None
  /\ store[q.server][q.doing[1]].ns # q.doing[2].ns

Done(q) == [q EXCEPT !.doing = None, !.found = None]

(* The entry is reported as skipped; embedding or saving it may also fail. *)
Skip(p) ==
  /\ pull[p] # None /\ pull[p].doing # None
  /\ \/ Skipped(pull[p]) /\ UNCHANGED faults
     \/ Conflicts(pull[p]) /\ UNCHANGED faults
     \/ Denied(pull[p]) /\ UNCHANGED faults
     \/ faults < MaxFaults /\ faults' = faults + 1
  /\ pull' = [pull EXCEPT ![p] = Done(@)]
  /\ UNCHANGED <<store, branch, events, wire, fresh, clock, history, edits, manual>>

(* The save of an entry is an update like any other: it stamps the clock   *)
(* and is announced, except in the CLI, where no bridge is started.        *)
Import(p) ==
  /\ pull[p] # None /\ pull[p].doing # None
  /\ ~Skipped(pull[p]) /\ ~Conflicts(pull[p]) /\ ~Denied(pull[p])
  /\ LET s == pull[p].server
         i == pull[p].doing[1]
     IN /\ Write(s, i, pull[p].doing[2].ns, pull[p].doing[2].text)
        /\ events' = IF pull[p].by = "cli" THEN events ELSE events \cup {Saved(s, i)}
  /\ pull' = [pull EXCEPT ![p] = Done(@)]
  /\ UNCHANGED <<branch, wire, fresh, clock, pusher, faulty, counters>>

(* The CLI goes on to push every concept, without comparing it to the      *)
(* branch.                                                                 *)
EndPull(p) ==
  /\ pull[p] # None /\ pull[p].doing = None /\ pull[p].left = {}
  /\ LET s == pull[p].server
     IN events' = IF pull[p].by # "cli" THEN events
                  ELSE events \cup {Listed(s, i) : i \in {j \in Ids : store[s][j] # None}}
  /\ pull' = [pull EXCEPT ![p] = None]
  /\ UNCHANGED <<store, branch, wire, fresh, clock, history, counters>>

(* The server s dies, or is shut down, and is started again: the events it *)
(* has not handled and its pulls are lost.                                 *)
Crash(s) ==
  /\ faults < MaxFaults
  /\ faults' = faults + 1
  /\ events' = {e \in events : e.server # s \/ e.kind = "listed"}
  /\ faulty' = faulty \cup {e.id : e \in events \ events'}
  /\ pull' = [p \in Pulls |-> IF pull[p] # None /\ pull[p].server = s /\ pull[p].by # "cli"
                              THEN None ELSE pull[p]]
  /\ fresh' = fresh \cup ({s} \cap Pullers)
  /\ UNCHANGED <<store, branch, wire, clock, life, pusher, edits, manual>>

(* The CLI that syncs the store of s dies while it pulls or pushes: what   *)
(* it imported is announced by nobody.                                     *)
CliDies(s) ==
  LET running == {p \in Pulls : pull[p] # None /\ pull[p].server = s /\ pull[p].by = "cli"}
  IN  /\ running # {} \/ \E e \in events : e.server = s /\ e.kind = "listed"
      /\ faults < MaxFaults
      /\ faults' = faults + 1
      /\ events' = {e \in events : e.server # s \/ e.kind # "listed"}
      /\ faulty' = IF running # {} THEN Ids ELSE faulty \cup {e.id : e \in events \ events'}
      /\ pull' = [p \in Pulls |-> IF p \in running THEN None ELSE pull[p]]
      /\ UNCHANGED <<store, branch, wire, fresh, clock, life, pusher, edits, manual>>

Next ==
  \/ \E s \in Servers, i \in Ids : Edit(s, i) \/ Delete(s, i) \/ ToolPush(s, i)
  \/ \E e \in events : HandleSaved(e) \/ HandleDeleted(e)
  \/ \E k \in DOMAIN wire : TakeEffect(k) \/ Lose(k)
  \/ \E p \in Pulls, s \in Servers :
       InitialPull(p, s) \/ TimedPull(p, s) \/ ToolPull(p, s) \/ CliPull(p, s)
  \/ \E p \in Pulls : ReadExisting(p) \/ Skip(p) \/ Import(p) \/ EndPull(p)
  \/ \E s \in Servers : InitialPullFails(s) \/ Crash(s) \/ CliDies(s)
  \/ Tick

-----------------------------------------------------------------------------
(* Properties                                                              *)

DataTyped ==
  /\ store \in [Servers -> [Ids -> Row \cup {None}]]
  /\ branch \in [Ids -> Entry \cup {None}]
  /\ events \subseteq [server : Servers, id : Ids, kind : {"saved", "deleted", "listed"}]
  /\ wire \in Seq(Request)
  /\ pull \in [Pulls -> Pull \cup {None}]
  /\ \A p \in Pulls : pull[p] # None /\ pull[p].doing = None => pull[p].found = None
  /\ life \in [Servers -> [Ids -> Nat]]
  /\ clock \in Nat /\ faulty \subseteq Ids /\ pusher \in [Ids -> Servers \cup {None}]
  /\ \A s \in Servers, i \in Ids : store[s][i] # None => store[s][i].updated <= clock

TypeOK == DataTyped /\ fresh \subseteq Servers

(* While a pull applies entry x of concept i, the row it replaces.         *)
Replaces(p, row) ==
  /\ pull[p] # None /\ pull[p].doing # None
  /\ pull'[p] # None /\ pull'[p].doing = None
  /\ row # None
  /\ store'[pull[p].server][pull[p].doing[1]] # row

(* A pull that found the concept replaces it only if the row is the one it *)
(* read and older than the entry, whatever was saved in between            *)
(* (expectedVersion in applyPulledEntries).  A concept that was deleted    *)
(* and created again in between counts its versions anew and is excepted.  *)
PullKeepsNewer ==
  [][\A p \in Pulls, s \in Servers, i \in Ids :
       /\ Replaces(p, store[s][i]) /\ pull[p].server = s /\ pull[p].doing[1] = i
       /\ pull[p].found # None /\ pull[p].life = life[s][i]
       => store[s][i] = pull[p].found /\ store[s][i].updated < pull[p].doing[2].updated]_vars

(* No pull, whatever it found or failed to read, puts the text of one      *)
(* namespace into a concept of another.                                    *)
PullKeepsNamespace ==
  [][\A p \in Pulls, s \in Servers, i \in Ids :
       /\ Replaces(p, store[s][i]) /\ pull[p].server = s /\ pull[p].doing[1] = i
       => store[s][i].ns = pull[p].doing[2].ns]_vars

(* As long as one server pushes a concept, no request is lost or overtaken *)
(* and the concept is never deleted, the branch holds it as it is once     *)
(* nothing is under way, in whatever order the events were handled.        *)
BranchCatchesUp ==
  \A s \in Servers, i \in Ids :
    /\ CanPush(s) /\ store[s][i] # None /\ life[s][i] = 1
    /\ pusher[i] \in {None, s} /\ i \notin faulty
    /\ events \cap {Saved(s, i), Listed(s, i)} = {} /\ \A k \in DOMAIN wire : wire[k].id # i
    /\ \A p \in Pulls : pull[p] # None => pull[p].server # s
    => branch[i] = EntryOf(store[s][i])

(* A concept that stays on the branch in a namespace a server serves gets  *)
(* to every server that pulls by a timer.  (One that pulls only when it    *)
(* starts, as by default, may have been too early.)                        *)
PulledEventually ==
  \A s \in Timed, i \in Ids :
    CanPull(s) /\ <>[](branch[i] # None /\ branch[i].ns \in AllowedAt[s])
    => <>[](store[s][i] # None)

(* Where a timer is configured it fires again and again; calls return and  *)
(* requests that are not lost take effect; events are handled unless the   *)
(* process dies.                                                           *)
Fairness ==
  /\ \A s \in Timed : SF_vars(\E p \in Pulls : TimedPull(p, s))
  /\ \A p \in Pulls : WF_vars(ReadExisting(p) \/ Skip(p) \/ Import(p) \/ EndPull(p))
  /\ WF_vars(\E e \in events : HandleSaved(e) \/ HandleDeleted(e))
  /\ WF_vars(\E k \in DOMAIN wire : TakeEffect(k))

Spec == Init /\ [][Next]_vars /\ Fairness

=============================================================================
