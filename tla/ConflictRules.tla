---------------------------- MODULE ConflictRules ----------------------------
(***************************************************************************)
(* How PolyVault merges ThoughtForms (conflict.ts) and which remote        *)
(* commits a rebase takes (rebase.ts).  Everything here is a pure function *)
(* of its arguments.                                                       *)
(*                                                                         *)
(* Abstracted: a ThoughtForm is its updatedAtMs and its content, whose     *)
(* hash it is compared by, so contents are numbers.  A set of ThoughtForms *)
(* is a function from ids, as it is in the Maps of the code.               *)
(***************************************************************************)
EXTENDS Integers

CONSTANTS
  Ids,        \* ids of ThoughtForms
  MaxStamp,   \* bound on updatedAtMs
  Contents,   \* contents, ordered as their hashes are: numbers
  CommitIds,  \* ids of commits, ordered: numbers
  None        \* no ThoughtForm, no cursor, no preferred origin

Form == [updated : 1 .. MaxStamp, content : Contents]
FormSets == [Ids -> Form \cup {None}]
Cursor == [created : Nat \ {0}, id : CommitIds]
Commit == [created : Nat \ {0}, id : CommitIds, forms : FormSets]

(* ConflictResolutionOptions.                                              *)
Options == [policy : {"updatedAt", "preferLocal", "preferRemote"},
            prefer : {"local", "onchain", None}, skew : Nat]

ASSUME RulesAssumption ==
  /\ MaxStamp \in Nat /\ Contents \subseteq Nat /\ CommitIds \subseteq Nat
  /\ None \notin Form \cup Cursor \cup {"local", "onchain"}

-----------------------------------------------------------------------------
(* resolveConflict, for two ThoughtForms of one id                         *)

(* Mistake: of two edits of one millisecond the local one stays.           *)
NewerByStamp(f, g) == f.updated > g.updated

(* The total order: the later edit, then the higher hash.                  *)
Newer(f, g) == f.updated > g.updated \/ (f.updated = g.updated /\ f.content > g.content)

Apart(f, g) == IF f.updated > g.updated THEN f.updated - g.updated ELSE g.updated - f.updated

(* Whether an origin is preferred for edits that are this close.           *)
Preferred(local, remote, o) == o.prefer # None /\ Apart(local, remote) <= o.skew

(* Mistake: the preferred origin is not asked for.                         *)
RemoteWinsIfNewer(local, remote, o) ==
  \/ local.content = remote.content /\ remote.updated > local.updated
  \/ local.content # remote.content /\ o.policy = "preferRemote"
  \/ local.content # remote.content /\ o.policy = "updatedAt" /\ Newer(remote, local)

RemoteWins(local, remote, o) ==
  \/ local.content = remote.content /\ remote.updated > local.updated
  \/ local.content # remote.content /\ o.policy = "preferRemote"
  \/ /\ local.content # remote.content /\ o.policy = "updatedAt"
     /\ IF Preferred(local, remote, o) THEN o.prefer = "onchain" ELSE Newer(remote, local)

Winner(local, remote, o) == IF RemoteWins(local, remote, o) THEN remote ELSE local

(* mergeThoughtformSets; the order of its output is that of a listing.     *)
MergeSets(local, remote, o) ==
  [i \in Ids |-> IF remote[i] = None THEN local[i]
                 ELSE IF local[i] = None THEN remote[i]
                 ELSE Winner(local[i], remote[i], o)]

-----------------------------------------------------------------------------
(* rebase                                                                  *)

(* compareCommits(c, cursor) > 0.                                          *)
Later(c, cursor) == c.created > cursor.created \/ (c.created = cursor.created /\ c.id > cursor.id)

(* commitsAfter.                                                           *)
After(c, cursor) == IF cursor = None THEN TRUE ELSE Later(c, cursor)

New(commits, cursor) == {c \in commits : After(c, cursor)}

(* The cursor to store: the last commit applied.                           *)
NextCursor(commits, cursor) ==
  IF New(commits, cursor) = {} THEN cursor
  ELSE LET last == CHOOSE c \in New(commits, cursor) :
                     \A d \in New(commits, cursor) : d = c \/ Later(c, d)
       IN  [created |-> last.created, id |-> last.id]

FormsOf(commits, i) == {c.forms[i] : c \in {d \in commits : d.forms[i] # None}}

(* computeRemoteDelta folds resolveConflict over the new commits with      *)
(* policy updatedAt and no preference: what is left is the newest form.    *)
Delta(commits, cursor) ==
  [i \in Ids |->
     LET seen == FormsOf(New(commits, cursor), i)
     IN  IF seen = {} THEN None ELSE CHOOSE f \in seen : \A g \in seen : ~Newer(g, f)]

Rebased(local, commits, cursor, o) == MergeSets(local, Delta(commits, cursor), o)
=============================================================================
