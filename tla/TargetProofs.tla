---------------------------- MODULE TargetProofs ----------------------------
(***************************************************************************)
(* What a scan of a clone reads, for any number of scans, repositories and *)
(* commits.                                                                *)
(***************************************************************************)
EXTENDS Target, FiniteSetTheorems, TLAPS

Asked(s) == scan[s].pc # "idle"

\* A commit that a scan was asked for exists.
AskedForThere == \A s \in Scan : Asked(s) => scan[s].revision <= remote[scan[s].url]

\* A directory is cloned into by one scan, from the URL of that scan.
OneCloner ==
  \A s \in Scan : scan[s].pc = "cloning" =>
    /\ clone[Dest(s)].made = "begun"
    /\ clone[Dest(s)].origin = scan[s].url
    /\ \A r \in Scan : scan[r].pc = "cloning" /\ Dest(r) = Dest(s) => r = s

\* What a scan needs is fetched before it checks it out.
Fetched(s) ==
  LET there == clone[Dest(s)]
  IN scan[s].pc = "checkout" /\ there.made = "ready" /\ there.origin = scan[s].url
       => scan[s].revision <= there.fetched

\* With the directory to itself a scan has what it has checked out, until it
\* has read all it reads.
HasItsOwn(s) ==
  /\ scan[s].pc = "pin" /\ scan[s].revision \notin {NoRevision, MainBranch}
       => clone[Dest(s)].head = scan[s].revision
  /\ scan[s].pc = "scan" => seen[s] = {TreeOf(s)}
  /\ scan[s].pc \in {"scan", "done"} =>
       \E tree : seen[s] = {tree} /\ scan[s].pinned \in {tree.commit, MainBranch}

ReadsLate ==
  \A s \in Scan : scan[s].pc \notin {"scan", "done"} => seen[s] = {}

TargetInv ==
  /\ TypeOK
  /\ AskedForThere /\ OneCloner /\ \A s \in Scan : Fetched(s)
  /\ ReadsLate /\ \A s \in Scan \ shared : HasItsOwn(s)

----------------------------------------------------------------------------
(* Types. *)

LEMMA TypeFacts ==
  ASSUME TypeOK, NEW s \in Scan
  PROVE  /\ scan[s] \in Locals /\ scan[s].pc \in Label /\ scan[s].url \in Url
         /\ scan[s].revision \in -1..MaxCommits
         /\ Dest(s) \in Name
         /\ clone[Dest(s)] \in Directory
         /\ clone[Dest(s)].origin \in Url /\ clone[Dest(s)].head \in 0..MaxCommits
         /\ clone[Dest(s)].fetched \in 0..MaxCommits /\ clone[Dest(s)].main \in 0..MaxCommits
         /\ remote[scan[s].url] \in 1..MaxCommits
         /\ remote[clone[Dest(s)].origin] \in 1..MaxCommits
  <1>1. scan[s] \in Locals
    BY DEF TypeOK
  <1>2. scan[s].pc \in Label /\ scan[s].url \in Url /\ scan[s].revision \in -1..MaxCommits
    BY <1>1 DEF Locals
  <1>3. Dest(s) \in Name
    BY <1>2, TargetAssumption DEF Dest
  <1>4. clone[Dest(s)] \in Directory
    BY <1>3 DEF TypeOK
  <1>5. /\ clone[Dest(s)].origin \in Url /\ clone[Dest(s)].head \in 0..MaxCommits
        /\ clone[Dest(s)].fetched \in 0..MaxCommits /\ clone[Dest(s)].main \in 0..MaxCommits
    BY <1>4 DEF Directory
  <1>6. QED
    BY <1>1, <1>2, <1>3, <1>4, <1>5 DEF TypeOK

LEMMA GotoFacts ==
  ASSUME TypeOK, NEW s \in Scan, NEW label \in Label, Goto(s, label)
  PROVE  /\ scan' \in [Scan -> Locals]
         /\ scan'[s].pc = label
         /\ scan'[s].url = scan[s].url /\ scan'[s].revision = scan[s].revision
         /\ scan'[s].pinned = scan[s].pinned
         /\ \A r \in Scan : r # s => scan'[r] = scan[r]
         /\ \A r \in Scan : Dest(r)' = Dest(r)
  <1>1. scan \in [Scan -> Locals]
    BY DEF TypeOK
  <1>2. /\ scan' = [scan EXCEPT ![s] = [scan[s] EXCEPT !.pc = label]]
        /\ [scan[s] EXCEPT !.pc = label] \in Locals
    BY <1>1 DEF Goto, Locals
  <1>3. QED
    BY <1>1, <1>2 DEF Dest, Locals

LEMMA TreeTyped ==
  ASSUME TypeOK, NEW s \in Scan
  PROVE  TreeOf(s) \in Tree
  BY TypeFacts DEF TreeOf, Tree

----------------------------------------------------------------------------
(* What a step of one scan does to the others. *)

\* The step of s touches no other scan; what is checked out in its directory
\* it changes only after it has counted its neighbours.
Minds(s) ==
  /\ remote' = remote /\ shared \subseteq shared'
  /\ \A r \in Scan : r # s => scan'[r] = scan[r] /\ seen'[r] = seen[r]
  /\ \/ \A n \in Name : clone'[n].head = clone[n].head /\ clone'[n].origin = clone[n].origin
     \/ /\ Neighbours(s) \subseteq shared'
        /\ \A n \in Name : n # Dest(s) => clone'[n] = clone[n]

LEMMA OthersKeepTheirs ==
  ASSUME TypeOK, NEW s \in Scan, Minds(s), NEW r \in Scan, r # s, r \notin shared',
         HasItsOwn(r)
  PROVE  HasItsOwn(r)'
  <1>1. /\ scan'[r] = scan[r] /\ seen'[r] = seen[r] /\ Dest(r)' = Dest(r)
    BY DEF Minds, Dest
  <1>2. CASE scan[r].pc \in {"pin", "scan"}
    <2>1. clone'[Dest(r)].head = clone[Dest(r)].head
          /\ clone'[Dest(r)].origin = clone[Dest(r)].origin
      BY <1>2, TypeFacts DEF Minds, Neighbours, Active
    <2>2. TreeOf(r)' = TreeOf(r)
      BY <1>1, <2>1 DEF TreeOf
    <2>3. QED
      BY <1>1, <2>1, <2>2 DEF HasItsOwn
  <1>3. CASE scan[r].pc \notin {"pin", "scan"}
    BY <1>1, <1>3 DEF HasItsOwn
  <1>4. QED
    BY <1>2, <1>3

\* Then the invariant is a matter of s and of the directories.
LEMMA StepKeeps ==
  ASSUME TargetInv, TypeOK', NEW s \in Scan, Minds(s),
         Asked(s)' => (scan[s].revision <= remote[scan[s].url])',
         OneCloner', \A r \in Scan : Fetched(r)',
         scan'[s].pc \notin {"scan", "done"} => seen'[s] = {},
         s \notin shared' => HasItsOwn(s)'
  PROVE  TargetInv'
  <1>1. \A r \in Scan : r # s => scan'[r] = scan[r] /\ seen'[r] = seen[r]
    BY DEF Minds
  <1>2. AskedForThere'
    BY <1>1 DEF TargetInv, AskedForThere, Asked, Minds
  <1>3. ReadsLate'
    BY <1>1 DEF TargetInv, ReadsLate
  <1>4. \A r \in Scan \ shared' : HasItsOwn(r)'
    BY OthersKeepTheirs DEF TargetInv, Minds
  <1>5. QED
    BY <1>2, <1>3, <1>4 DEF TargetInv

----------------------------------------------------------------------------
(* The steps. *)

LEMMA PushKeeps ==
  ASSUME TargetInv, NEW u \in Url, Push(u)
  PROVE  TargetInv'
  <1>1. TypeOK'
    BY TargetAssumption DEF TargetInv, TypeOK, Push
  <1>2. \A v \in Url : remote[v] <= remote'[v]
    BY TargetAssumption DEF TargetInv, TypeOK, Push
  <1>3. AskedForThere'
    <2> SUFFICES ASSUME NEW s \in Scan, Asked(s)
                 PROVE  scan[s].revision <= remote'[scan[s].url]
      BY DEF AskedForThere, Asked, Push
    <2>1. /\ scan[s].revision \in Int /\ remote[scan[s].url] \in Int
          /\ remote'[scan[s].url] \in Int /\ scan[s].url \in Url
      BY <1>1, TypeFacts, TargetAssumption DEF TargetInv, TypeOK
    <2>2. QED
      BY <1>2, <2>1 DEF TargetInv, AskedForThere
  <1>4. UNCHANGED <<clone, scan, seen, shared>>
    BY DEF Push
  <1>5. OneCloner' /\ \A s \in Scan : Fetched(s)'
    BY <1>4 DEF TargetInv, OneCloner, Fetched, Dest
  <1>6. ReadsLate' /\ \A s \in Scan \ shared' : HasItsOwn(s)'
    BY <1>4 DEF TargetInv, ReadsLate, HasItsOwn, TreeOf, Dest
  <1>7. QED
    BY <1>1, <1>3, <1>5, <1>6 DEF TargetInv

LEMMA AskKeeps ==
  ASSUME TargetInv, NEW s \in Scan, NEW u \in Url, Ask(s, u)
  PROVE  TargetInv'
  <1>1. PICK revision \in {NoRevision, MainBranch} \cup 1..remote[u] :
          scan' = [scan EXCEPT ![s] = [pc |-> "look", url |-> u, revision |-> revision,
                                       pinned |-> 0]]
    BY DEF Ask
  <1>2. remote[u] \in 1..MaxCommits /\ scan \in [Scan -> Locals]
    BY DEF TargetInv, TypeOK
  <1>3. revision \in -1..MaxCommits /\ revision <= remote[u]
    BY <1>1, <1>2, TargetAssumption DEF NoRevision, MainBranch
  <1>4. /\ scan'[s] = [pc |-> "look", url |-> u, revision |-> revision, pinned |-> 0]
        /\ \A r \in Scan : r # s => scan'[r] = scan[r]
    BY <1>1, <1>2
  <1>5. [pc |-> "look", url |-> u, revision |-> revision, pinned |-> 0] \in Locals
    BY <1>3, TargetAssumption DEF Locals, Label, Active
  <1>6. UNCHANGED <<remote, clone, seen, shared>>
    BY DEF Ask
  <1>7. TypeOK'
    <2>1. scan' \in [Scan -> Locals]
      BY <1>1, <1>2, <1>5
    <2>2. QED
      BY <1>6, <2>1 DEF TargetInv, TypeOK
  <1>8. Minds(s)
    BY <1>4, <1>6 DEF Minds
  <1>9. seen[s] = {}
    BY DEF TargetInv, ReadsLate, Ask
  <1>10. OneCloner'
    BY <1>4, <1>6 DEF TargetInv, OneCloner, Dest
  <1>11. \A r \in Scan : Fetched(r)'
    BY <1>4, <1>6 DEF TargetInv, Fetched, Dest
  <1>12. HasItsOwn(s)'
    BY <1>4 DEF HasItsOwn
  <1>13. QED
    BY <1>3, <1>4, <1>6, <1>7, <1>8, <1>9, <1>10, <1>11, <1>12, StepKeeps

\* Only the label of s changes, and no directory.
LEMMA MoveKeeps ==
  ASSUME TargetInv, NEW s \in Scan,
         NEW label \in {"clone", "fetch", "failed", "unknown"},
         Goto(s, label), UNCHANGED <<remote, clone, seen>>,
         shared \subseteq shared', shared' \subseteq Scan,
         scan[s].pc \notin {"idle", "scan", "done"}
  PROVE  TargetInv'
  <1>1. TypeOK /\ label \in Label
    BY DEF TargetInv, Label, Active
  <1>2. /\ scan' \in [Scan -> Locals] /\ scan'[s].pc = label
        /\ scan'[s].url = scan[s].url /\ scan'[s].revision = scan[s].revision
        /\ \A r \in Scan : r # s => scan'[r] = scan[r]
        /\ \A r \in Scan : Dest(r)' = Dest(r)
    BY <1>1, GotoFacts
  <1>3. TypeOK'
    BY <1>1, <1>2 DEF TypeOK
  <1>4. Minds(s)
    BY <1>2 DEF Minds
  <1>5. OneCloner'
    BY <1>2 DEF TargetInv, OneCloner
  <1>6. \A r \in Scan : Fetched(r)'
    BY <1>2 DEF TargetInv, Fetched
  <1>7. Asked(s)' => (scan[s].revision <= remote[scan[s].url])'
    BY <1>2 DEF TargetInv, AskedForThere, Asked
  <1>8. seen'[s] = {}
    BY DEF TargetInv, ReadsLate
  <1>9. HasItsOwn(s)'
    BY <1>2 DEF HasItsOwn
  <1>10. QED
    BY <1>3, <1>4, <1>5, <1>6, <1>7, <1>8, <1>9, StepKeeps

LEMMA LookKeeps ==
  ASSUME TargetInv, NEW s \in Scan, Look(s)
  PROVE  TargetInv'
  <1>1. PICK label \in {"clone", "fetch"} : Goto(s, label)
    BY DEF Look
  <1>2. shared' = shared /\ shared \subseteq Scan
    BY DEF Look, TargetInv, TypeOK
  <1>3. QED
    BY <1>1, <1>2, MoveKeeps DEF Look

\* s changes its directory, as git leaves it.
LEMMA DirectoryChanges ==
  ASSUME TypeOK, NEW s \in Scan, NEW there \in Directory,
         clone' = [clone EXCEPT ![Dest(s)] = there]
  PROVE  /\ clone' \in [Name -> Directory]
         /\ clone'[Dest(s)] = there
         /\ \A n \in Name : n # Dest(s) => clone'[n] = clone[n]
         /\ \A r \in Scan : Dest(r) \in Name
  BY TypeFacts DEF TypeOK

\* s changes its directory and goes to its next label.
LEMMA ChangeKeeps ==
  ASSUME TargetInv, NEW s \in Scan, NEW there \in Directory, NEW label \in Label,
         clone' = [clone EXCEPT ![Dest(s)] = there], Goto(s, label),
         UNCHANGED <<remote, seen>>, shared \subseteq shared', shared' \subseteq Scan,
         scan[s].pc \notin {"idle", "scan", "done"}, label \notin {"idle", "scan", "done"},
         \/ there.head = clone[Dest(s)].head /\ there.origin = clone[Dest(s)].origin
         \/ Neighbours(s) \subseteq shared',
         OneCloner',
         \A r \in Scan : Dest(r) = Dest(s) => Fetched(r)',
         label = "pin" /\ scan[s].revision \notin {NoRevision, MainBranch}
           => there.head = scan[s].revision
  PROVE  TargetInv'
  <1>1. TypeOK
    BY DEF TargetInv
  <1>2. /\ scan' \in [Scan -> Locals] /\ scan'[s].pc = label
        /\ scan'[s].url = scan[s].url /\ scan'[s].revision = scan[s].revision
        /\ \A r \in Scan : r # s => scan'[r] = scan[r]
        /\ \A r \in Scan : Dest(r)' = Dest(r)
    BY <1>1, GotoFacts
  <1>3. /\ clone' \in [Name -> Directory]
        /\ clone'[Dest(s)] = there
        /\ \A n \in Name : n # Dest(s) => clone'[n] = clone[n]
        /\ \A r \in Scan : Dest(r) \in Name
    BY <1>1, DirectoryChanges
  <1>4. TypeOK'
    BY <1>1, <1>2, <1>3 DEF TypeOK
  <1>5. Minds(s)
    BY <1>2, <1>3 DEF Minds
  <1>6. \A r \in Scan : Fetched(r)'
    <2>1. \A r \in Scan : Dest(r) # Dest(s) => Fetched(r)'
      BY <1>2, <1>3 DEF TargetInv, Fetched
    <2>2. QED
      BY <2>1
  <1>7. Asked(s)' => (scan[s].revision <= remote[scan[s].url])'
    BY <1>2 DEF TargetInv, AskedForThere, Asked
  <1>8. seen'[s] = {}
    BY DEF TargetInv, ReadsLate
  <1>9. HasItsOwn(s)'
    BY <1>2, <1>3 DEF HasItsOwn
  <1>10. QED
    BY <1>4, <1>5, <1>6, <1>7, <1>8, <1>9, StepKeeps

LEMMA BeginCloneKeeps ==
  ASSUME TargetInv, NEW s \in Scan, BeginClone(s)
  PROVE  TargetInv'
  <1> DEFINE there == [made |-> "begun", origin |-> scan[s].url, fetched |-> 0, main |-> 0,
                       head |-> 0]
  <1>1. TypeOK /\ shared \subseteq Scan /\ Neighbours(s) \subseteq Scan
    BY DEF TargetInv, TypeOK, Neighbours
  <1>2. CASE clone[Dest(s)].made # "absent"
    BY <1>1, <1>2, MoveKeeps DEF BeginClone
  <1>3. CASE clone[Dest(s)].made = "absent"
    <2>1. /\ Goto(s, "cloning") /\ clone' = [clone EXCEPT ![Dest(s)] = there]
          /\ shared' = shared \cup Neighbours(s) /\ UNCHANGED <<remote, seen>>
          /\ scan[s].pc = "clone" /\ "cloning" \in Label
      BY <1>3 DEF BeginClone, Label, Active
    <2>2. there \in Directory
      BY <1>1, TypeFacts, TargetAssumption DEF Directory
    <2>3. /\ scan'[s].pc = "cloning" /\ scan'[s].url = scan[s].url
          /\ \A r \in Scan : r # s => scan'[r] = scan[r]
          /\ \A r \in Scan : Dest(r)' = Dest(r)
      BY <1>1, <2>1, GotoFacts
    <2>4. /\ clone'[Dest(s)] = there
          /\ \A n \in Name : n # Dest(s) => clone'[n] = clone[n]
          /\ \A r \in Scan : Dest(r) \in Name
      BY <1>1, <2>1, <2>2, DirectoryChanges
    <2>5. \A r \in Scan : scan[r].pc = "cloning" => Dest(r) # Dest(s)
      BY <1>3 DEF TargetInv, OneCloner
    <2>6. OneCloner'
      BY <2>3, <2>4, <2>5 DEF TargetInv, OneCloner
    <2>7. \A r \in Scan : Dest(r) = Dest(s) => Fetched(r)'
      BY <2>3, <2>4 DEF Fetched
    <2> HIDE DEF there
    <2>8. QED
      BY <1>1, <2>1, <2>2, <2>6, <2>7, ChangeKeeps
  <1>4. QED
    BY <1>2, <1>3

LEMMA EndCloneKeeps ==
  ASSUME TargetInv, NEW s \in Scan, EndClone(s)
  PROVE  TargetInv'
  <1>1. TypeOK /\ shared \subseteq Scan /\ Neighbours(s) \subseteq Scan
    BY DEF TargetInv, TypeOK, Neighbours
  <1>2. /\ shared' = shared \cup Neighbours(s) /\ UNCHANGED <<remote, seen>>
        /\ scan[s].pc = "cloning"
    BY DEF EndClone
  <1>3. /\ clone[Dest(s)] \in Directory /\ clone[Dest(s)].origin = scan[s].url
        /\ \A r \in Scan : scan[r].pc = "cloning" /\ Dest(r) = Dest(s) => r = s
    BY <1>1, <1>2, TypeFacts DEF TargetInv, OneCloner
  <1>4. PICK newest \in 1..MaxCommits : newest = remote[scan[s].url]
    BY <1>1, TypeFacts
  <1>5. PICK there \in Directory, label \in {"checkout", "failed"} :
          /\ clone' = [clone EXCEPT ![Dest(s)] = there] /\ Goto(s, label)
          /\ there.origin = clone[Dest(s)].origin
          /\ there.made # "ready" \/ there.fetched = newest
    <2>1. CASE clone' = [clone EXCEPT ![Dest(s)].made = "absent"] /\ Goto(s, "failed")
      <3>1. [clone[Dest(s)] EXCEPT !.made = "absent"] \in Directory
        BY <1>3 DEF Directory
      <3>2. /\ [clone[Dest(s)] EXCEPT !.made = "absent"].made = "absent"
            /\ [clone[Dest(s)] EXCEPT !.made = "absent"].origin = clone[Dest(s)].origin
        BY <1>3 DEF Directory
      <3>3. QED
        BY <2>1, <3>1, <3>2
    <2>2. CASE /\ clone' = [clone EXCEPT ![Dest(s)] =
                      [made |-> "ready", origin |-> clone[Dest(s)].origin,
                       fetched |-> newest, main |-> newest, head |-> newest]]
               /\ Goto(s, "checkout")
      <3> DEFINE cloned == [made |-> "ready", origin |-> clone[Dest(s)].origin,
                            fetched |-> newest, main |-> newest, head |-> newest]
      <3>1. cloned \in Directory
        BY <1>1, <1>4, TypeFacts, TargetAssumption DEF Directory
      <3>2. clone' = [clone EXCEPT ![Dest(s)] = cloned]
        BY <2>2
      <3>3. QED
        BY <2>2, <3>1, <3>2
    <2>3. QED
      BY <1>4, <2>1, <2>2 DEF EndClone
  <1>6. label \in Label /\ label \notin {"idle", "scan", "done", "pin", "cloning"}
    BY DEF Label, Active
  <1>7. /\ scan'[s].pc = label /\ scan'[s].url = scan[s].url
        /\ scan'[s].revision = scan[s].revision
        /\ \A r \in Scan : r # s => scan'[r] = scan[r]
        /\ \A r \in Scan : Dest(r)' = Dest(r)
    BY <1>1, <1>5, <1>6, GotoFacts
  <1>8. /\ clone'[Dest(s)] = there
        /\ \A n \in Name : n # Dest(s) => clone'[n] = clone[n]
        /\ \A r \in Scan : Dest(r) \in Name
    BY <1>1, <1>5, DirectoryChanges
  <1>9. OneCloner'
    BY <1>3, <1>6, <1>7, <1>8 DEF TargetInv, OneCloner
  <1>10. \A r \in Scan : Dest(r) = Dest(s) => Fetched(r)'
    <2> SUFFICES ASSUME NEW r \in Scan, Dest(r) = Dest(s), scan'[r].pc = "checkout",
                        there.made = "ready", there.origin = scan'[r].url
                 PROVE  scan'[r].revision <= there.fetched
      BY <1>7, <1>8 DEF Fetched
    <2>1. Asked(r) /\ scan'[r].url = scan[r].url /\ scan'[r].revision = scan[r].revision
      BY <1>2, <1>7 DEF Asked
    <2>2. scan[r].revision <= remote[scan[r].url]
      BY <2>1 DEF TargetInv, AskedForThere
    <2>3. there.fetched = remote[scan[r].url]
      BY <1>3, <1>4, <1>5, <2>1
    <2>4. QED
      BY <2>1, <2>2, <2>3
  <1>11. QED
    BY <1>1, <1>2, <1>5, <1>6, <1>9, <1>10, ChangeKeeps

LEMMA FetchKeeps ==
  ASSUME TargetInv, NEW s \in Scan, Fetch(s)
  PROVE  TargetInv'
  <1>1. TypeOK /\ shared' = shared /\ shared \subseteq Scan /\ clone[Dest(s)] \in Directory
    BY TypeFacts DEF TargetInv, TypeOK, Fetch
  <1>2. /\ scan[s].pc = "fetch" /\ UNCHANGED <<remote, seen>>
        /\ "checkout" \in Label
    BY DEF Fetch, Label, Active
  <1>3. CASE UNCHANGED clone /\ Goto(s, "failed")
    BY <1>1, <1>2, <1>3, MoveKeeps
  <1>4. CASE /\ clone[Dest(s)].made # "absent"
             /\ clone' = [clone EXCEPT ![Dest(s)].fetched =
                            IF clone[Dest(s)].made = "ready"
                            THEN remote[clone[Dest(s)].origin] ELSE @]
             /\ Goto(s, "checkout")
    <2>1. PICK fetched \in 0..MaxCommits :
            /\ clone' = [clone EXCEPT ![Dest(s)].fetched = fetched]
            /\ clone[Dest(s)].made = "ready" => fetched = remote[clone[Dest(s)].origin]
      <3>1. CASE clone[Dest(s)].made = "ready"
        <4>1. remote[clone[Dest(s)].origin] \in 0..MaxCommits
          BY <1>1, TypeFacts, TargetAssumption
        <4>2. clone' = [clone EXCEPT ![Dest(s)].fetched = remote[clone[Dest(s)].origin]]
          BY <1>4, <3>1
        <4>3. QED
          BY <4>1, <4>2
      <3>2. CASE clone[Dest(s)].made # "ready"
        <4>1. clone[Dest(s)].fetched \in 0..MaxCommits
          BY <1>1, TypeFacts
        <4>2. clone' = [clone EXCEPT ![Dest(s)].fetched = clone[Dest(s)].fetched]
          BY <1>4, <3>2
        <4>3. QED
          BY <3>2, <4>1, <4>2
      <3>3. QED
        BY <3>1, <3>2
    <2>2. PICK there \in Directory :
            /\ clone' = [clone EXCEPT ![Dest(s)] = there]
            /\ there.made = clone[Dest(s)].made /\ there.origin = clone[Dest(s)].origin
            /\ there.head = clone[Dest(s)].head /\ there.fetched = fetched
      <3>1. [clone[Dest(s)] EXCEPT !.fetched = fetched] \in Directory
        BY <1>1 DEF Directory
      <3>2. /\ [clone[Dest(s)] EXCEPT !.fetched = fetched].made = clone[Dest(s)].made
            /\ [clone[Dest(s)] EXCEPT !.fetched = fetched].origin = clone[Dest(s)].origin
            /\ [clone[Dest(s)] EXCEPT !.fetched = fetched].head = clone[Dest(s)].head
            /\ [clone[Dest(s)] EXCEPT !.fetched = fetched].fetched = fetched
        BY <1>1 DEF Directory
      <3>3. QED
        BY <2>1, <3>1, <3>2
    <2>3. /\ scan'[s].pc = "checkout" /\ scan'[s].url = scan[s].url
          /\ scan'[s].revision = scan[s].revision
          /\ \A r \in Scan : r # s => scan'[r] = scan[r]
          /\ \A r \in Scan : Dest(r)' = Dest(r)
      BY <1>1, <1>2, <1>4, GotoFacts
    <2>4. /\ clone'[Dest(s)] = there
          /\ \A n \in Name : n # Dest(s) => clone'[n] = clone[n]
          /\ \A r \in Scan : Dest(r) \in Name
      BY <1>1, <2>2, DirectoryChanges
    <2>5. OneCloner'
      BY <2>2, <2>3, <2>4 DEF TargetInv, OneCloner
    <2>6. \A r \in Scan : Dest(r) = Dest(s) => Fetched(r)'
      <3> SUFFICES ASSUME NEW r \in Scan, Dest(r) = Dest(s), scan'[r].pc = "checkout",
                          there.made = "ready", there.origin = scan'[r].url
                   PROVE  scan'[r].revision <= there.fetched
        BY <2>3, <2>4 DEF Fetched
      <3>1. Asked(r) /\ scan'[r].url = scan[r].url /\ scan'[r].revision = scan[r].revision
        BY <1>2, <2>3 DEF Asked
      <3>2. scan[r].revision <= remote[scan[r].url]
        BY <3>1 DEF TargetInv, AskedForThere
      <3>3. there.fetched = remote[scan[r].url]
        BY <2>1, <2>2, <3>1
      <3>4. QED
        BY <3>1, <3>2, <3>3
    <2>7. QED
      BY <1>1, <1>2, <1>4, <2>2, <2>5, <2>6, ChangeKeeps
  <1>5. QED
    BY <1>3, <1>4 DEF Fetch

LEMMA CheckoutKeeps ==
  ASSUME TargetInv, NEW s \in Scan, Checkout(s)
  PROVE  TargetInv'
  <1>1. /\ TypeOK /\ shared \subseteq Scan /\ Neighbours(s) \subseteq Scan
        /\ clone[Dest(s)] \in Directory /\ Dest(s) \in Name
    BY TypeFacts DEF TargetInv, TypeOK, Neighbours
  <1>2. scan[s].pc = "checkout" /\ UNCHANGED <<remote, seen>> /\ "pin" \in Label
    BY DEF Checkout, Label, Active
  <1>3. CASE Goto(s, "unknown") /\ UNCHANGED <<clone, shared>>
    BY <1>1, <1>2, <1>3, MoveKeeps
  <1>4. ASSUME NEW there \in Directory,
               clone' = [clone EXCEPT ![Dest(s)] = there], Goto(s, "pin"),
               shared \subseteq shared', shared' \subseteq Scan,
               there.made = clone[Dest(s)].made, there.origin = clone[Dest(s)].origin,
               there.fetched = clone[Dest(s)].fetched,
               there.head = clone[Dest(s)].head \/ Neighbours(s) \subseteq shared',
               scan[s].revision \notin {NoRevision, MainBranch}
                 => there.head = scan[s].revision
        PROVE  TargetInv'
    <2>1. /\ scan'[s].pc = "pin" /\ scan'[s].url = scan[s].url
          /\ scan'[s].revision = scan[s].revision
          /\ \A r \in Scan : r # s => scan'[r] = scan[r]
          /\ \A r \in Scan : Dest(r)' = Dest(r)
      BY <1>1, <1>2, <1>4, GotoFacts
    <2>2. /\ clone'[Dest(s)] = there
          /\ \A n \in Name : n # Dest(s) => clone'[n] = clone[n]
          /\ \A r \in Scan : Dest(r) \in Name
      BY <1>1, <1>4, DirectoryChanges
    <2>3. OneCloner'
      BY <1>4, <2>1, <2>2 DEF TargetInv, OneCloner
    <2>4. \A r \in Scan : Dest(r) = Dest(s) => Fetched(r)'
      BY <1>2, <1>4, <2>1, <2>2 DEF TargetInv, Fetched
    <2>5. QED
      BY <1>1, <1>2, <1>4, <2>3, <2>4, ChangeKeeps
  <1>5. CASE scan[s].revision = NoRevision /\ Goto(s, "pin") /\ UNCHANGED <<clone, shared>>
    <2>1. clone' = [clone EXCEPT ![Dest(s)] = clone[Dest(s)]]
      BY <1>1, <1>5 DEF TypeOK
    <2>2. QED
      BY <1>1, <1>4, <1>5, <2>1
  <1>6. ASSUME NEW head \in 0..MaxCommits,
               clone' = [clone EXCEPT ![Dest(s)].head = head], Goto(s, "pin"),
               shared' = shared \cup Neighbours(s),
               scan[s].revision # MainBranch => head = scan[s].revision
        PROVE  TargetInv'
    <2>1. PICK there \in Directory :
            /\ clone' = [clone EXCEPT ![Dest(s)] = there]
            /\ there.made = clone[Dest(s)].made /\ there.origin = clone[Dest(s)].origin
            /\ there.fetched = clone[Dest(s)].fetched /\ there.head = head
      <3>1. [clone[Dest(s)] EXCEPT !.head = head] \in Directory
        BY <1>1 DEF Directory
      <3>2. /\ [clone[Dest(s)] EXCEPT !.head = head].made = clone[Dest(s)].made
            /\ [clone[Dest(s)] EXCEPT !.head = head].origin = clone[Dest(s)].origin
            /\ [clone[Dest(s)] EXCEPT !.head = head].fetched = clone[Dest(s)].fetched
            /\ [clone[Dest(s)] EXCEPT !.head = head].head = head
        BY <1>1 DEF Directory
      <3>3. QED
        BY <1>6, <3>1, <3>2
    <2>2. QED
      BY <1>1, <1>4, <1>6, <2>1
  <1>7. CASE /\ scan[s].revision # NoRevision /\ HasRevision(s) /\ Goto(s, "pin")
             /\ clone' = [clone EXCEPT ![Dest(s)].head =
                            IF scan[s].revision = MainBranch THEN clone[Dest(s)].main
                            ELSE scan[s].revision]
             /\ shared' = shared \cup Neighbours(s)
    <2>1. CASE scan[s].revision = MainBranch
      BY <1>1, <1>6, <1>7, <2>1, TypeFacts
    <2>2. CASE scan[s].revision # MainBranch
      <3>1. scan[s].revision \in 0..MaxCommits
        BY <1>1, <1>7, <2>2, TypeFacts, TargetAssumption DEF NoRevision, MainBranch
      <3>2. QED
        BY <1>6, <1>7, <2>2, <3>1
    <2>3. QED
      BY <2>1, <2>2
  <1>8. QED
    BY <1>3, <1>5, <1>7 DEF Checkout

\* s reads its work tree, and nothing else happens.
LEMMA ReadTypes ==
  ASSUME TypeOK, NEW s \in Scan
  PROVE  /\ [seen EXCEPT ![s] = {TreeOf(s)}] \in [Scan -> SUBSET Tree]
         /\ [seen EXCEPT ![s] = @ \cup {TreeOf(s)}] \in [Scan -> SUBSET Tree]
         /\ seen[s] \in SUBSET Tree
  BY TreeTyped DEF TypeOK

LEMMA SitsStill ==
  ASSUME TargetInv, NEW s \in Scan, UNCHANGED <<remote, clone, shared>>,
         scan' \in [Scan -> Locals], seen' \in [Scan -> SUBSET Tree],
         scan[s].pc \in {"pin", "scan"}, scan'[s].pc \in {"scan", "done"},
         scan'[s].url = scan[s].url, scan'[s].revision = scan[s].revision,
         \A r \in Scan : r # s => scan'[r] = scan[r] /\ seen'[r] = seen[r],
         s \notin shared => HasItsOwn(s)'
  PROVE  TargetInv'
  <1>1. TypeOK'
    BY DEF TargetInv, TypeOK
  <1>2. Minds(s)
    BY DEF Minds
  <1>3. \A r \in Scan : Dest(r)' = Dest(r)
    BY DEF Dest
  <1>4. OneCloner'
    BY <1>3 DEF TargetInv, OneCloner
  <1>5. \A r \in Scan : Fetched(r)'
    BY <1>3 DEF TargetInv, Fetched
  <1>6. Asked(s)' => (scan[s].revision <= remote[scan[s].url])'
    BY DEF TargetInv, AskedForThere, Asked
  <1>7. QED
    BY <1>1, <1>2, <1>4, <1>5, <1>6, StepKeeps

LEMMA PinKeeps ==
  ASSUME TargetInv, NEW s \in Scan, Pin(s)
  PROVE  TargetInv'
  <1>1. /\ TypeOK /\ shared \subseteq Scan /\ scan[s].pc = "pin"
        /\ UNCHANGED <<remote, clone, shared>>
    BY DEF TargetInv, TypeOK, Pin
  <1>2. CASE Goto(s, "failed") /\ UNCHANGED seen
    BY <1>1, <1>2, MoveKeeps
  <1>3. CASE /\ scan' = [scan EXCEPT ![s].pc = "scan",
                                     ![s].pinned = IF scan[s].revision = NoRevision
                                                   THEN Resolved(s) ELSE scan[s].revision]
             /\ seen' = [seen EXCEPT ![s] = {TreeOf(s)}]
    <2>1. PICK pinned \in -1..MaxCommits :
            pinned = IF scan[s].revision = NoRevision THEN Resolved(s) ELSE scan[s].revision
      <3>1. Resolved(s) \in -1..MaxCommits
        BY <1>1, TypeFacts, TargetAssumption DEF Resolved
      <3>2. QED
        BY <1>1, <3>1, TypeFacts
    <2>2. /\ scan' \in [Scan -> Locals]
          /\ scan'[s].pc = "scan" /\ scan'[s].pinned = pinned
          /\ scan'[s].url = scan[s].url /\ scan'[s].revision = scan[s].revision
          /\ \A r \in Scan : r # s => scan'[r] = scan[r]
      <3>1. PICK going \in [Scan -> Locals] :
              /\ going = [scan EXCEPT ![s].pc = "scan"]
              /\ going[s].pc = "scan" /\ going[s].url = scan[s].url
              /\ going[s].revision = scan[s].revision
              /\ \A r \in Scan : r # s => going[r] = scan[r]
        <4>1. PICK mine \in Locals :
                /\ mine = [scan[s] EXCEPT !.pc = "scan"]
                /\ mine.pc = "scan" /\ mine.url = scan[s].url
                /\ mine.revision = scan[s].revision
          <5>1. [scan[s] EXCEPT !.pc = "scan"] \in Locals
            BY <1>1, TypeFacts DEF Locals, Label, Active
          <5>2. /\ [scan[s] EXCEPT !.pc = "scan"].pc = "scan"
                /\ [scan[s] EXCEPT !.pc = "scan"].url = scan[s].url
                /\ [scan[s] EXCEPT !.pc = "scan"].revision = scan[s].revision
            BY <1>1, TypeFacts DEF Locals
          <5>3. QED
            BY <5>1, <5>2
        <4>2. [scan EXCEPT ![s].pc = "scan"] = [scan EXCEPT ![s] = mine]
          BY <4>1
        <4>3. [scan EXCEPT ![s] = mine] \in [Scan -> Locals]
          BY <1>1 DEF TypeOK
        <4>4. [scan EXCEPT ![s] = mine][s] = mine
          BY <1>1 DEF TypeOK
        <4>5. \A r \in Scan : r # s => [scan EXCEPT ![s] = mine][r] = scan[r]
          BY <1>1 DEF TypeOK
        <4>6. QED
          BY <4>1, <4>2, <4>3, <4>4, <4>5
      <3>2. scan' = [going EXCEPT ![s].pinned = pinned]
        BY <1>3, <2>1, <3>1
      <3>3. /\ [going[s] EXCEPT !.pinned = pinned] \in Locals
            /\ scan'[s] = [going[s] EXCEPT !.pinned = pinned]
        <4>1. going[s] \in Locals
          BY <3>1
        <4>2. [going[s] EXCEPT !.pinned = pinned] \in Locals
          BY <4>1 DEF Locals
        <4>3. scan'[s] = [going[s] EXCEPT !.pinned = pinned]
          BY <3>1, <3>2
        <4>4. QED
          BY <4>2, <4>3
      <3>4. scan' \in [Scan -> Locals] /\ \A r \in Scan : r # s => scan'[r] = scan[r]
        BY <3>1, <3>2, <3>3
      <3>5. /\ scan'[s].pc = going[s].pc /\ scan'[s].url = going[s].url
            /\ scan'[s].revision = going[s].revision /\ scan'[s].pinned = pinned
        BY <3>1, <3>3 DEF Locals
      <3>6. QED
        BY <3>1, <3>4, <3>5
    <2>3. /\ seen' \in [Scan -> SUBSET Tree] /\ seen'[s] = {TreeOf(s)}
          /\ \A r \in Scan : r # s => seen'[r] = seen[r]
      BY <1>1, <1>3, ReadTypes DEF TypeOK
    <2>4. TreeOf(s)' = TreeOf(s)
      BY <1>1, <2>2 DEF TreeOf, Dest
    <2>5. s \notin shared => HasItsOwn(s)'
      <3> SUFFICES ASSUME s \notin shared PROVE HasItsOwn(s)'
        OBVIOUS
      <3>1. TreeOf(s).commit = clone[Dest(s)].head
        BY DEF TreeOf
      <3>2. scan[s].revision \notin {NoRevision, MainBranch} => clone[Dest(s)].head = scan[s].revision
        BY <1>1 DEF TargetInv, HasItsOwn
      <3>3. pinned \in {TreeOf(s).commit, MainBranch}
        BY <2>1, <3>1, <3>2 DEF Resolved
      <3>4. QED
        BY <2>2, <2>3, <2>4, <3>3 DEF HasItsOwn
    <2>6. QED
      BY <1>1, <2>2, <2>3, <2>5, SitsStill
  <1>4. QED
    BY <1>2, <1>3 DEF Pin

LEMMA ReadKeeps ==
  ASSUME TargetInv, NEW s \in Scan, Read(s)
  PROVE  TargetInv'
  <1>1. /\ TypeOK /\ scan[s].pc = "scan" /\ UNCHANGED <<remote, clone, shared>>
        /\ "done" \in Label
    BY DEF TargetInv, Read, Label
  <1>2. /\ scan' \in [Scan -> Locals] /\ scan'[s].pc \in {"scan", "done"}
        /\ scan'[s].url = scan[s].url /\ scan'[s].revision = scan[s].revision
        /\ scan'[s].pinned = scan[s].pinned
        /\ \A r \in Scan : r # s => scan'[r] = scan[r]
    <2>1. CASE UNCHANGED scan
      BY <1>1, <2>1 DEF TypeOK
    <2>2. CASE Goto(s, "done")
      BY <1>1, <2>2, GotoFacts
    <2>3. QED
      BY <2>1, <2>2 DEF Read
  <1>3. /\ seen' \in [Scan -> SUBSET Tree] /\ seen'[s] = seen[s] \cup {TreeOf(s)}
        /\ \A r \in Scan : r # s => seen'[r] = seen[r]
    BY <1>1, ReadTypes DEF TypeOK, Read
  <1>4. TreeOf(s)' = TreeOf(s)
    BY <1>1, <1>2 DEF TreeOf, Dest
  <1>5. s \notin shared => HasItsOwn(s)'
    <2> SUFFICES ASSUME s \notin shared PROVE HasItsOwn(s)'
      OBVIOUS
    <2>1. seen[s] = {TreeOf(s)} /\ HasItsOwn(s)
      BY <1>1 DEF TargetInv, HasItsOwn
    <2>2. seen'[s] = seen[s]
      BY <1>3, <2>1
    <2>3. QED
      BY <1>1, <1>2, <1>4, <2>1, <2>2 DEF HasItsOwn
  <1>6. QED
    BY <1>1, <1>2, <1>3, <1>5, SitsStill

----------------------------------------------------------------------------
(* Theorems. *)

LEMMA InitTargetInv == Init => TargetInv
  <1> SUFFICES ASSUME Init PROVE TargetInv
    OBVIOUS
  <1>1. PICK origin \in Url : origin = CHOOSE u \in Url : TRUE
    BY TargetAssumption
  <1>2. /\ \A s \in Scan : scan[s].pc = "idle" /\ seen[s] = {}
        /\ clone = [n \in Name |-> [made |-> "absent", origin |-> origin, fetched |-> 0,
                                    main |-> 0, head |-> 0]]
        /\ scan = [s \in Scan |-> [pc |-> "idle", url |-> origin, revision |-> 0, pinned |-> 0]]
    BY <1>1 DEF Init, NoRevision
  <1>3. /\ [made |-> "absent", origin |-> origin, fetched |-> 0, main |-> 0, head |-> 0]
             \in Directory
        /\ [pc |-> "idle", url |-> origin, revision |-> 0, pinned |-> 0] \in Locals
    BY TargetAssumption DEF Directory, Locals, Label
  <1>4. TypeOK
    <2>1. clone \in [Name -> Directory] /\ scan \in [Scan -> Locals]
      BY <1>2, <1>3
    <2>2. /\ remote \in [Url -> 1..MaxCommits] /\ seen \in [Scan -> SUBSET Tree]
          /\ shared \subseteq Scan
      BY TargetAssumption DEF Init
    <2>3. QED
      BY <2>1, <2>2 DEF TypeOK
  <1>5. QED
    BY <1>2, <1>4 DEF TargetInv, AskedForThere, Asked, OneCloner, Fetched, ReadsLate, HasItsOwn

LEMMA NextTargetInv == TargetInv /\ [Next]_vars => TargetInv'
  <1> SUFFICES ASSUME TargetInv, [Next]_vars PROVE TargetInv'
    OBVIOUS
  <1>1. CASE Next
    BY <1>1, PushKeeps, AskKeeps, LookKeeps, BeginCloneKeeps, EndCloneKeeps, FetchKeeps,
       CheckoutKeeps, PinKeeps, ReadKeeps
    DEF Next
  <1>2. CASE UNCHANGED vars
    <2>1. UNCHANGED <<remote, clone, scan, seen, shared>>
      BY <1>2 DEF vars
    <2>2. TypeOK'
      BY <2>1 DEF TargetInv, TypeOK
    <2>3. QED
      BY <2>1, <2>2 DEF TargetInv, AskedForThere, Asked, OneCloner, Fetched, ReadsLate,
                        HasItsOwn, TreeOf, Dest
  <1>3. QED
    BY <1>1, <1>2

\* The inductive invariant.
THEOREM TargetInvariant == Spec => []TargetInv
  BY InitTargetInv, NextTargetInv, PTL DEF Spec

\* The directories, the locals of the scans and what they have read have their
\* types.
THEOREM TargetTypes == Spec => []TypeOK
  <1>1. TargetInv => TypeOK
    BY DEF TargetInv
  <1>2. QED
    BY <1>1, TargetInvariant, PTL

\* A scan that no other scan meets in its directory reads one commit, the one it
\* is pinned to, whatever was in the directory before.
THEOREM ScanReadsItsCommit == Spec => []ReadsWhatItPinned
  <1>1. TargetInv => ReadsWhatItPinned
    <2> SUFFICES ASSUME TargetInv, NEW s \in Scan \ shared
                 PROVE  /\ Cardinality(seen[s]) <= 1
                        /\ \A tree \in seen[s] : scan[s].pinned \in {tree.commit, MainBranch}
      BY DEF ReadsWhatItPinned
    <2>1. CASE scan[s].pc \in {"scan", "done"}
      <3>1. PICK tree : seen[s] = {tree} /\ scan[s].pinned \in {tree.commit, MainBranch}
        BY <2>1 DEF TargetInv, HasItsOwn
      <3>2. Cardinality(seen[s]) = 1
        BY <3>1, FS_Singleton
      <3>3. QED
        BY <3>1, <3>2
    <2>2. CASE scan[s].pc \notin {"scan", "done"}
      <3>1. seen[s] = {}
        BY <2>2 DEF TargetInv, ReadsLate
      <3>2. QED
        BY <3>1, FS_EmptySet
    <2>3. QED
      BY <2>1, <2>2
  <1>2. QED
    BY <1>1, TargetInvariant, PTL

\* A commit the remote has when a scan is asked for is in the clone when it is
\* checked out, however old the clone was and whoever fetched it last.
THEOREM CommitsAreFound == Spec => RevisionIsFound
  <1>1. TargetInv /\ [Next]_vars =>
          [\A s \in Scan :
             scan[s].pc = "checkout" /\ scan'[s].pc = "unknown" =>
               clone[Dest(s)].made # "ready" \/ clone[Dest(s)].origin # scan[s].url]_vars
    <2> SUFFICES ASSUME TargetInv, Next, NEW s \in Scan,
                        scan[s].pc = "checkout", scan'[s].pc = "unknown",
                        clone[Dest(s)].made = "ready", clone[Dest(s)].origin = scan[s].url
                 PROVE  FALSE
      OBVIOUS
    <2>1. TypeOK /\ scan[s].revision <= clone[Dest(s)].fetched
      BY DEF TargetInv, Fetched
    <2>2. HasRevision(s)
      BY <2>1 DEF HasRevision
    <2>3. \A label : Goto(s, label) => scan'[s].pc = label
      BY <2>1 DEF TypeOK, Goto, Locals
    <2>4. ~Checkout(s)
      BY <2>2, <2>3 DEF Checkout
    <2>5. \A r \in Scan : \A label : r # s /\ Goto(r, label) => scan'[s] = scan[s]
      BY <2>1 DEF TypeOK, Goto
    <2>6. scan'[s] = scan[s]
      BY <2>1, <2>4, <2>5
      DEF TypeOK, Next, Push, Ask, Look, BeginClone, EndClone, Fetch, Checkout, Pin, Read
    <2>7. QED
      BY <2>6
  <1>2. QED
    BY <1>1, TargetInvariant, PTL DEF Spec, RevisionIsFound
=============================================================================
