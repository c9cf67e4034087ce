------------------------------- MODULE Rebase -------------------------------
(***************************************************************************)
(* Devices that share ThoughtForms through the commits of a PolyVault      *)
(* canister: each edits a file of its own, backs it up, and brings in what *)
(* others committed with runRebase (or another device's file with          *)
(* runMerge), which remembers the last commit it applied in a state file.  *)
(*                                                                         *)
(* Abstracted: the commands' output is the next input (`out` is `local`),  *)
(* nobody edits a file while a command, which is synchronous, runs on it,  *)
(* and files that are not valid are refused before anything is written.    *)
(***************************************************************************)
EXTENDS ConflictRules, FiniteSets

CONSTANTS
  Devices,
  OptionsOf,   \* how each device resolves conflicts
  MaxEdits,    \* bound on edits of all devices
  MaxMerges,   \* bound on runMerge
  MaxFaults,   \* bound on state files that are lost or not written
  MaxClock     \* bound on the canister's clock

ASSUME RebaseAssumption ==
  /\ OptionsOf \in [Devices -> Options]
  /\ MaxEdits \in Nat /\ MaxMerges \in Nat /\ MaxFaults \in Nat /\ MaxClock \in Nat

VARIABLES
  file,      \* the ThoughtForms of each device
  state,     \* lastApplied in the state file of each device
  remote,    \* the commits each device exported last
  commits,   \* the commits of the canister
  clock,     \* the canister's
  edits, merges, faults      \* what the bounds count

counters == <<edits, merges, faults>>
vars == <<file, state, remote, commits, clock, counters>>

Nothing == [i \in Ids |-> None]

Init ==
  /\ file = [d \in Devices |-> Nothing]
  /\ state = [d \in Devices |-> None]
  /\ remote = [d \in Devices |-> {}]
  /\ commits = {}
  /\ clock = 1
  /\ edits = 0 /\ merges = 0 /\ faults = 0

(* A device stamps its edit after what it edits, with a clock that may be  *)
(* off the others'.                                                        *)
Edit(d, i) ==
  /\ edits < MaxEdits
  /\ \E f \in Form :
       /\ IF file[d][i] = None THEN TRUE ELSE f.updated > file[d][i].updated
       /\ file' = [file EXCEPT ![d][i] = f]
  /\ edits' = edits + 1
  /\ UNCHANGED <<state, remote, commits, clock, merges, faults>>

(* runBackup.  The commit id is a hash, whose order says nothing; a set    *)
(* that was committed before is a duplicate.                               *)
BackUp(d) ==
  /\ file[d] # Nothing
  /\ \A c \in commits : c.forms # file[d]
  /\ \E id \in CommitIds :
       /\ \A c \in commits : c.id # id
       /\ commits' = commits \cup {[created |-> clock, id |-> id, forms |-> file[d]]}
  /\ UNCHANGED <<file, state, remote, clock, counters>>

(* All commits of one round of the canister have its time.                 *)
Tick == clock < MaxClock /\ clock' = clock + 1
        /\ UNCHANGED <<file, state, remote, commits, counters>>

(* A query answers from the state after a round.                           *)
Listed == {c \in commits : c.created < clock}

Export(d) ==
  /\ remote[d] # Listed
  /\ remote' = [remote EXCEPT ![d] = Listed]
  /\ UNCHANGED <<file, state, commits, clock, counters>>

(* Mistake: the state is saved first, and the output may be lost.          *)
RebaseSavesFirst(d) ==
  /\ New(remote[d], state[d]) # {}
  /\ state' = [state EXCEPT ![d] = NextCursor(remote[d], state[d])]
  /\ \/ /\ file' = [file EXCEPT ![d] = Rebased(@, remote[d], state[d], OptionsOf[d])]
        /\ UNCHANGED faults
     \/ faults < MaxFaults /\ faults' = faults + 1 /\ UNCHANGED file
  /\ UNCHANGED <<remote, commits, clock, edits, merges>>

(* runRebase: writes the output, then the state, which may fail (or never  *)
(* be reached) and leave the state as it was.  Nothing new, nothing done.  *)
RunRebase(d) ==
  /\ New(remote[d], state[d]) # {}
  /\ file' = [file EXCEPT ![d] = Rebased(@, remote[d], state[d], OptionsOf[d])]
  /\ \/ state' = [state EXCEPT ![d] = NextCursor(remote[d], @)] /\ UNCHANGED faults
     \/ faults < MaxFaults /\ faults' = faults + 1 /\ UNCHANGED state
  /\ UNCHANGED <<remote, commits, clock, edits, merges>>

(* The state file is missing, unreadable or of an older format, or         *)
(* lastApplied is given as null: the next rebase starts from the first     *)
(* commit.                                                                 *)
LoseState(d) ==
  /\ faults < MaxFaults
  /\ state[d] # None
  /\ state' = [state EXCEPT ![d] = None]
  /\ faults' = faults + 1
  /\ UNCHANGED <<file, remote, commits, clock, edits, merges>>

(* runMerge of a device's file and another's.                              *)
RunMerge(d, e) ==
  /\ merges < MaxMerges
  /\ d # e
  /\ file' = [file EXCEPT ![d] = MergeSets(@, file[e], OptionsOf[d])]
  /\ merges' = merges + 1
  /\ UNCHANGED <<state, remote, commits, clock, edits, faults>>

Next ==
  \/ \E d \in Devices, i \in Ids : Edit(d, i)
  \/ \E d \in Devices : BackUp(d) \/ Export(d) \/ RunRebase(d) \/ LoseState(d)
  \/ \E d, e \in Devices : RunMerge(d, e)
  \/ Tick

Spec == Init /\ [][Next]_vars

-----------------------------------------------------------------------------
(* Properties                                                              *)

(* A device that resolves conflicts by the order of edits alone.           *)
Plain(d) == OptionsOf[d].policy = "updatedAt" /\ OptionsOf[d].prefer = None

TypeOK ==
  /\ file \in [Devices -> FormSets]
  /\ state \in [Devices -> Cursor \cup {None}]
  /\ remote \in [Devices -> SUBSET commits]
  /\ commits \subseteq Commit
  /\ \A c, d \in commits : c.id = d.id => c = d
  /\ clock \in Nat \ {0} /\ \A c \in commits : c.created <= clock

(* The commits a device will not look at again.                            *)
Applied(d) == {c \in commits : ~After(c, state[d])}

(* What a device will not look at again it has: every ThoughtForm of the   *)
(* commits up to its cursor is in its file, and if it goes by the order of *)
(* edits alone, as committed or in a later edit.  No commit is missed for  *)
(* an equal time, a late backup of old edits, or a run that failed halfway.*)
NothingMissed ==
  \A d \in Devices : \A c \in Applied(d) : \A i \in Ids :
    c.forms[i] # None =>
      /\ file[d][i] # None
      /\ Plain(d) => ~Newer(c.forms[i], file[d][i])

(* Devices that go by the order of edits, have applied the same commits    *)
(* and have nothing to commit, have the same ThoughtForms, whatever the    *)
(* order their edits and commits were made in.                             *)
Settled(d) == Plain(d) /\ \A i \in Ids : file[d][i] # None =>
                            \E c \in Applied(d) : c.forms[i] = file[d][i]

SettledAgree ==
  \A d, e \in Devices : Settled(d) /\ Settled(e) /\ state[d] = state[e] => file[d] = file[e]

(* A device that prefers its own edits does not lose one to a commit of    *)
(* another, unless it is further back than the skew window; one that goes  *)
(* by the order of edits loses one only to a later one; none is dropped.   *)
Keeps(d, f, g) ==
  \/ f = g
  \/ f.content = g.content /\ g.updated > f.updated
  \/ OptionsOf[d].policy = "preferRemote"
  \/ OptionsOf[d].policy = "updatedAt" /\ OptionsOf[d].prefer = "onchain"
  \/ Plain(d) /\ Newer(g, f)
  \/ /\ OptionsOf[d].policy = "updatedAt" /\ OptionsOf[d].prefer = "local"
     /\ g.updated > f.updated + OptionsOf[d].skew

EditsKept ==
  [][\A d \in Devices, i \in Ids :
       file[d][i] # None => file'[d][i] # None
                            /\ (edits' = edits => Keeps(d, file[d][i], file'[d][i]))]_vars
=============================================================================
