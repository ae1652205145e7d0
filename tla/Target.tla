------------------------------- MODULE Target -------------------------------
(***************************************************************************)
(* Scans of repositories that are given by URL: target.prepare_target and  *)
(* the clones it keeps in the data directory, one for each last segment of *)
(* a URL.  A clone is made once and then fetched; all scans of it read one *)
(* work tree.                                                              *)
(*                                                                         *)
(* Abstractions.  A commit of a repository is its number on the main       *)
(* branch, whose newest commit is the remote's head.  git is external: a   *)
(* clone takes time, in which the directory exists and has no commit; a    *)
(* fetch and a checkout are one step each.  Local paths, which no step     *)
(* changes, are left out, and of scope and goals only is kept from which   *)
(* commit they are read.                                                   *)
(***************************************************************************)
EXTENDS Integers, FiniteSets

CONSTANTS
  Url,
  Name,
  NameOf,     \* the last segment of a URL, without ".git"
  Scan,       \* bound: the scans
  MaxCommits  \* bound: commits of a repository

ASSUME TargetAssumption ==
  /\ Url # {}
  /\ NameOf \in [Url -> Name]
  /\ MaxCommits \in Nat \ {0}

\* Revisions other than commits.
NoRevision == 0
MainBranch == -1

VARIABLES
  remote,   \* per URL: its newest commit
  clone,    \* per name: the directory <data>/clones/<name>
  scan,     \* per scan: the locals of prepare_target, then the Target
  seen,     \* per scan: what it has read of the work tree, as commits
  shared    \* history: scans that another scan prepared the same directory in,
            \* after they had looked for it

vars == <<remote, clone, scan, seen, shared>>

Init ==
  /\ remote = [u \in Url |-> 1]
  /\ clone = [n \in Name |-> [made |-> "absent", origin |-> CHOOSE u \in Url : TRUE,
                              fetched |-> 0, main |-> 0, head |-> 0]]
  /\ scan = [s \in Scan |-> [pc |-> "idle", url |-> CHOOSE u \in Url : TRUE,
                             revision |-> NoRevision, pinned |-> 0]]
  /\ seen = [s \in Scan |-> {}]
  /\ shared = {}

Dest(s) == NameOf[scan[s].url]

Goto(s, label) == scan' = [scan EXCEPT ![s].pc = label]

Active == {"look", "clone", "cloning", "fetch", "checkout", "pin", "scan"}

\* The other scans that are at work in the directory of s.
Neighbours(s) == {r \in Scan \ {s} : scan[r].pc \in Active /\ Dest(r) = Dest(s)}

\* What a read of the work tree gets: of whom and which commit, 0 for none.
TreeOf(s) == [origin |-> clone[Dest(s)].origin, commit |-> clone[Dest(s)].head]

----------------------------------------------------------------------------

\* Developers.
Push(u) ==
  /\ remote[u] < MaxCommits
  /\ remote' = [remote EXCEPT ![u] = @ + 1]
  /\ UNCHANGED <<clone, scan, seen, shared>>

\* A scan is asked for, of a commit there is, of main, or of no revision.
Ask(s, u) ==
  /\ scan[s].pc = "idle"
  /\ \E revision \in {NoRevision, MainBranch} \cup 1..remote[u] :
       scan' = [scan EXCEPT ![s] = [pc |-> "look", url |-> u, revision |-> revision,
                                    pinned |-> 0]]
  /\ UNCHANGED <<remote, clone, seen, shared>>

\* Mutant of Look: what is there is not fetched.
LookOnce(s) ==
  /\ scan[s].pc = "look"
  /\ Goto(s, IF clone[Dest(s)].made = "absent" THEN "clone" ELSE "checkout")
  /\ UNCHANGED <<remote, clone, seen, shared>>

\* dest.exists().
Look(s) ==
  /\ scan[s].pc = "look"
  /\ Goto(s, IF clone[Dest(s)].made = "absent" THEN "clone" ELSE "fetch")
  /\ UNCHANGED <<remote, clone, seen, shared>>

\* git clone makes the directory; it refuses one that another scan has made
\* meanwhile.
BeginClone(s) ==
  /\ scan[s].pc = "clone"
  /\ IF clone[Dest(s)].made # "absent" THEN Goto(s, "failed") /\ UNCHANGED <<clone, shared>>
     ELSE /\ Goto(s, "cloning")
          /\ clone' = [clone EXCEPT ![Dest(s)] =
               [made |-> "begun", origin |-> scan[s].url, fetched |-> 0, main |-> 0,
                head |-> 0]]
          /\ shared' = shared \cup Neighbours(s)
  /\ UNCHANGED <<remote, seen>>

\* It succeeds, or fails and takes the directory away again.
EndClone(s) ==
  /\ scan[s].pc = "cloning"
  /\ LET newest == remote[scan[s].url]
     IN \/ /\ clone' = [clone EXCEPT ![Dest(s)] =
                [made |-> "ready", origin |-> clone[Dest(s)].origin, fetched |-> newest,
                 main |-> newest, head |-> newest]]
           /\ Goto(s, "checkout")
        \/ /\ clone' = [clone EXCEPT ![Dest(s)].made = "absent"]
           /\ Goto(s, "failed")
  /\ shared' = shared \cup Neighbours(s)
  /\ UNCHANGED <<remote, seen>>

\* git fetch --all: neither HEAD nor the local main moves.  In a clone that is
\* being made there is nothing to fetch, or git fails as it does when the
\* remote does not answer or the directory is gone.
Fetch(s) ==
  /\ scan[s].pc = "fetch"
  /\ LET there == clone[Dest(s)]
     IN \/ /\ there.made # "absent"
           /\ clone' = [clone EXCEPT ![Dest(s)].fetched =
                          IF there.made = "ready" THEN remote[there.origin] ELSE @]
           /\ Goto(s, "checkout")
        \/ UNCHANGED clone /\ Goto(s, "failed")
  /\ UNCHANGED <<remote, seen, shared>>

HasRevision(s) ==
  LET there == clone[Dest(s)]
  IN /\ there.made = "ready"
     /\ \/ scan[s].revision = MainBranch
        \/ there.origin = scan[s].url /\ scan[s].revision <= there.fetched

\* Mutant of Checkout: the work tree is taken as it is.
CheckoutNothing(s) ==
  /\ scan[s].pc = "checkout"
  /\ Goto(s, "pin")
  /\ UNCHANGED <<remote, clone, seen, shared>>

\* Mutant of Checkout: the name of a branch is taken for a commit.
CheckoutByNumber(s) ==
  /\ scan[s].pc = "checkout"
  /\ Goto(s, "pin")
  /\ clone' = IF scan[s].revision = NoRevision THEN clone
              ELSE [clone EXCEPT ![Dest(s)].head = scan[s].revision]
  /\ shared' = shared \cup Neighbours(s)
  /\ UNCHANGED <<remote, seen>>

\* git checkout of the revision, if one is given.
Checkout(s) ==
  /\ scan[s].pc = "checkout"
  /\ IF scan[s].revision = NoRevision THEN Goto(s, "pin") /\ UNCHANGED <<clone, shared>>
     ELSE IF ~HasRevision(s) THEN Goto(s, "unknown") /\ UNCHANGED <<clone, shared>>
     ELSE /\ Goto(s, "pin")
          /\ clone' = [clone EXCEPT ![Dest(s)].head =
                         IF scan[s].revision = MainBranch THEN clone[Dest(s)].main
                         ELSE scan[s].revision]
          /\ shared' = shared \cup Neighbours(s)
  /\ UNCHANGED <<remote, seen>>

\* resolve_revision falls back on a hash of the tree (0) when there is no commit.
Resolved(s) == clone[Dest(s)].head

\* The revision, or what it resolves to; then load_scope and load_goals.  A
\* directory that is gone again is a FileNotFoundError.
Pin(s) ==
  /\ scan[s].pc = "pin"
  /\ IF clone[Dest(s)].made = "absent" THEN Goto(s, "failed") /\ UNCHANGED seen
     ELSE /\ scan' = [scan EXCEPT ![s].pc = "scan",
                                  ![s].pinned = IF scan[s].revision = NoRevision
                                                THEN Resolved(s)
                                                ELSE scan[s].revision]
          /\ seen' = [seen EXCEPT ![s] = {TreeOf(s)}]
  /\ UNCHANGED <<remote, clone, shared>>

\* The stages of the scan read files: target.path is the clone itself.
Read(s) ==
  /\ scan[s].pc = "scan"
  /\ seen' = [seen EXCEPT ![s] = @ \cup {TreeOf(s)}]
  /\ \/ UNCHANGED scan
     \/ Goto(s, "done")
  /\ UNCHANGED <<remote, clone, shared>>

Next ==
  \/ \E u \in Url : Push(u)
  \/ \E s \in Scan :
       \/ \E u \in Url : Ask(s, u)
       \/ Look(s) \/ BeginClone(s) \/ EndClone(s) \/ Fetch(s) \/ Checkout(s)
       \/ Pin(s) \/ Read(s)

Spec == Init /\ [][Next]_vars

----------------------------------------------------------------------------
(* Properties. *)

Directory == [made : {"absent", "begun", "ready"}, origin : Url,
              fetched : 0..MaxCommits, main : 0..MaxCommits, head : 0..MaxCommits]

Label == Active \cup {"idle", "failed", "unknown", "done"}

Locals == [pc : Label, url : Url, revision : -1..MaxCommits, pinned : -1..MaxCommits]

Tree == [origin : Url, commit : 0..MaxCommits]

\* The directories, the locals of the scans and what they have read have their
\* types.
TypeOK ==
  /\ remote \in [Url -> 1..MaxCommits]
  /\ clone \in [Name -> Directory]
  /\ scan \in [Scan -> Locals]
  /\ seen \in [Scan -> SUBSET Tree]
  /\ shared \subseteq Scan

\* What a scan reads, from its goals to its last file, is one commit, the one
\* it is pinned to when it is pinned to a commit, whatever is pushed meanwhile
\* and whatever earlier scans left checked out; unless another scan prepares
\* the same directory, which is not locked, at the same time.
ReadsWhatItPinned ==
  \A s \in Scan \ shared :
    /\ Cardinality(seen[s]) <= 1
    /\ \A tree \in seen[s] : scan[s].pinned \in {tree.commit, MainBranch}

\* A commit that the remote has when the scan is asked for is found in the
\* clone, however old the clone is; unless the clone is one of another URL with
\* the same last segment, or is still being made.
RevisionIsFound ==
  [][\A s \in Scan :
       scan[s].pc = "checkout" /\ scan'[s].pc = "unknown" =>
         clone[Dest(s)].made # "ready" \/ clone[Dest(s)].origin # scan[s].url]_vars
=============================================================================
