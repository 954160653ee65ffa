----------------------------- MODULE CommitRefresh -----------------------------
(***************************************************************************)
(* How a worker of http_service keeps up with autoland, at boot and then   *)
(* once a day in a process of its own (boot.py, refresh.py).  It mines the *)
(* commits that are not in its databases yet (repository.py,               *)
(* download_commits), and the three databases are written one after the    *)
(* other: the experiences, the commits, and which paths are touched        *)
(* together (test_scheduling.py, update_touched_together), which remembers *)
(* the last commit it counted.                                             *)
(*                                                                         *)
(* The databases a container starts from were mined from mozilla-central,  *)
(* so that they may hold a commit autoland does not have yet.  Commits are *)
(* numbers; First is on both, Central on mozilla-central first, the others *)
(* land on autoland.  All of them pass filter_commits: what it drops, such *)
(* as the commits that back others out, is mined and stored with the rest  *)
(* but counts nowhere, and is no commit that any step looks for.           *)
(* The merge that brings Central to autoland is numbered right behind it;  *)
(* merges are no rows.                                                     *)
(***************************************************************************)
EXTENDS Integers, Sequences, FiniteSets, FiniteSetsExt

CONSTANTS
  MaxNodes,
  Day,         \* the days commits were pushed, [Nodes -> Int]
  Alike,       \* the pairs of commits with a file, an author, ... in common
  MaxFailures, MaxRestarts   \* bounds

First == 1
Central == 2
Nodes == 1 .. MaxNodes
Landings == 3 .. MaxNodes

ASSUME RefreshAssumption ==
  /\ MaxNodes \in Nat /\ MaxNodes >= Central
  /\ Day \in [Nodes -> Int] /\ Alike \subseteq Nodes \X Nodes
  /\ MaxFailures \in Nat /\ MaxRestarts \in Nat

VARIABLES
  autoland,   \* the nodes of autoland, a sequence in the order of the repository
  outs,       \* the set of those that were backed out
  onto,       \* whether Central was made on the node that autoland has before it
  image,      \* the db and the last that the container starts from
  db,         \* data/commits.json, as get_commits filters it: a sequence of rows
  exp,        \* node -> how often it counted in the experiences
  last,       \* last_analyzed of the touched together database, a node
  touched,    \* node -> how often it counted in it, as the refresh process sees it
  halves,     \* ghost: the commits that counted in it in part
  pc,         \* where the refresh is: idle, mining, appending or touching; or dead
  revs,       \* the rows it mines
  failures,   \* ghost: refreshes that failed or were killed since the start
  restarts    \* ghost: restarts of the container

world == <<autoland, outs, onto>>
databases == <<db, exp, last, touched, halves>>
vars == <<world, image, databases, pc, revs, failures, restarts>>

-------------------------------------------------------------------------------
(* Reading                                                                   *)

\* A commit as it is stored: what hg knew of it when it was mined.
Row(n) == [node |-> n, out |-> n \in outs]

Position(n) == CHOOSE x \in DOMAIN autoland : autoland[x] = n


\* The node the mining goes on after: the last one in the file that autoland has.
StartNode == db[Max({x \in DOMAIN db : db[x].node \in Range(autoland)})].node

RowsBehind(a) == [x \in 1 .. Len(autoland) - a |-> Row(autoland[a + x])]

\* The range starts at the lowest child of a node.  That is the next one; but
\* where that is Central and no child of it, it is the merge behind Central.
Behind(n) ==
  LET a == Position(n)
      passes == a < Len(autoland) /\ autoland[a + 1] = Central /\ ~onto
  IN  IF passes THEN a + 1 ELSE a

\* Mutant of NewRevs: the first of them is left out.
RevsBehindNext(n) == RowsBehind(Behind(n) + 1)

\* get_revs and hg_log: the children of a node and all that is numbered higher.
NewRevs(n) == RowsBehind(Behind(n))

-------------------------------------------------------------------------------
(* autoland                                                                  *)

Unused == Landings \ Range(autoland)
NextNode == CHOOSE n \in Unused : \A m \in Unused : n <= m

Land ==
  /\ Unused # {}
  /\ autoland' = Append(autoland, NextNode)
  /\ UNCHANGED <<outs, onto>>

\* A commit is backed out by one that the filter drops.  (First is stored
\* already, and what is stored stays as it was mined.)
BackOut(n) ==
  /\ n \in Range(autoland) \ (outs \cup {First})
  /\ outs' = outs \cup {n}
  /\ UNCHANGED <<autoland, onto>>

ImageHas(n) == \E x \in DOMAIN image.db : image.db[x].node = n

\* mozilla-central is merged into autoland.  A commit that the image has was not
\* made on one that it has not.
MergeCentral ==
  /\ Central \notin Range(autoland)
  /\ autoland' = Append(autoland, Central)
  /\ onto' \in BOOLEAN
  /\ onto' /\ ImageHas(Central) => Len(autoland) = 1
  /\ UNCHANGED outs

-------------------------------------------------------------------------------
(* update_commits                                                            *)

Fails ==
  /\ failures < MaxFailures
  /\ failures' = failures + 1 /\ pc' = "idle" /\ revs' = <<>>

\* How many of the rows at the indices S are of commit n.
Rows(rows, S, n) == Cardinality({x \in S : rows[x].node = n})

\* The counts once these rows counted.
Counted(counts, rows, S) == [n \in Nodes |-> counts[n] + Rows(rows, S, n)]

\* Pull, and find the commits to mine: perhaps only some that the filter drops.
\* Without any the refresh is over.
Start ==
  /\ pc = "idle" /\ pc' = "mining"
  /\ revs' = NewRevs(StartNode)
  /\ UNCHANGED <<databases, failures>>

\* A queue cannot be asked about a day before its last one.  The rows for which
\* one is: a commit of a later day has counted that they have something in
\* common with.
Late(rows) ==
  {x \in DOMAIN rows : \E m \in Nodes :
     /\ exp[m] > 0 \/ \E y \in 1 .. x - 1 : rows[y].node = m
     /\ <<m, rows[x].node>> \in Alike /\ Day[m] > Day[rows[x].node]}

\* Mutant of SaveExperiences: the queues are not saved.
SaveNothing ==
  /\ pc = "mining" /\ Late(revs) = {} /\ pc' = "appending"
  /\ UNCHANGED <<databases, revs, failures>>

\* calculate_experiences: the queues are saved when the function is left.
SaveExperiences ==
  /\ pc = "mining" /\ Late(revs) = {}
  /\ exp' = Counted(exp, revs, DOMAIN revs)
  /\ pc' = "appending"
  /\ UNCHANGED <<db, last, touched, halves, revs, failures>>

\* The mining fails at a late row, and will tomorrow.  The queues are closed,
\* and saved, all the same: a failure that counts again what is before it.
MiningRaises ==
  /\ pc = "mining" /\ Late(revs) # {}
  /\ LET done == Min(Late(revs)) - 1 IN
       /\ exp' = Counted(exp, revs, 1 .. done)
       /\ IF done = 0 THEN pc' = "idle" /\ revs' = <<>> /\ UNCHANGED failures ELSE Fails
  /\ UNCHANGED <<db, last, touched, halves>>

\* It fails for a reason of its own, before the experiences or after some.
MiningFails ==
  /\ pc = "mining" /\ Late(revs) = {}
  /\ \E done \in 0 .. Len(revs) : exp' = Counted(exp, revs, 1 .. done)
  /\ Fails
  /\ UNCHANGED <<db, last, touched, halves>>

\* db.append.  The rest is for the commits that pass the filter, if there are any.
AppendRows ==
  /\ pc = "appending"
  /\ db' = db \o revs
  /\ pc' = IF revs = <<>> THEN "idle" ELSE "touching"
  /\ UNCHANGED <<exp, last, touched, halves, revs, failures>>

\* Coverage or a git hash cannot be had.
AppendFails == pc = "appending" /\ Fails /\ UNCHANGED databases

FirstAt(rows, n) ==
  LET at == {x \in DOMAIN rows : rows[x].node = n} IN IF at = {} THEN Len(rows) ELSE Min(at)

EndRevision == revs[Len(revs)].node

\* Mutant of Analyzed: the last one mined is left out.
AnalyzedShort == FirstAt(db, last) + 1 .. FirstAt(db, EndRevision) - 1

\* update_touched_together: the commits after the last one analyzed, up to the
\* last one mined.  Both are looked for from the start of the file.
Analyzed == FirstAt(db, last) + 1 .. FirstAt(db, EndRevision)

\* Backed out commits are stepped over, as they "are usually relanded and we
\* don't want to count them twice".  A commit is the last one before it counts.
CountTogether(rows, half) ==
  /\ touched' = Counted(touched, db, {x \in rows \ half : ~db[x].out})
  /\ halves' = halves \cup {db[x].node : x \in half}
  /\ last' = IF rows = {} THEN last ELSE db[Max(rows)].node
  /\ UNCHANGED <<db, exp>>

Touch ==
  /\ pc = "touching"
  /\ CountTogether(Analyzed, {})
  /\ pc' = "idle" /\ revs' = <<>> /\ UNCHANGED failures

\* It fails before, after or amid some commit.  The transaction stays open, and
\* the next refresh that mines something goes on with it.
TouchFails ==
  /\ pc = "touching" /\ Fails
  /\ \E upto \in {0} \cup Analyzed : \E half \in SUBSET (Analyzed \cap {upto}) :
       CountTogether({x \in Analyzed : x <= upto}, half)

\* The refresh process is killed between two of these steps.  It is not started
\* again.
Killed ==
  /\ pc # "dead" /\ pc' = "dead" /\ revs' = <<>>
  /\ failures' = failures + 1
  /\ UNCHANGED databases

\* The worker dies and the container starts over, from its image.
Zero == [n \in Nodes |-> 0]
ImageCounts == Counted(Zero, image.db, DOMAIN image.db)
ImageTouched == Counted(Zero, image.db, 1 .. FirstAt(image.db, image.last))

Restart ==
  /\ restarts < MaxRestarts /\ restarts' = restarts + 1
  /\ db' = image.db /\ exp' = ImageCounts
  /\ last' = image.last /\ touched' = ImageTouched /\ halves' = {}
  /\ pc' = "idle" /\ revs' = <<>> /\ failures' = 0

-------------------------------------------------------------------------------

\* The databases of the image: with a commit of mozilla-central or without, and
\* the touched together database as old as the commits or older.
Init ==
  /\ autoland = <<First>> /\ outs = {} /\ onto = FALSE
  /\ image \in {[db |-> <<Row(First)>>, last |-> First]}
                 \cup {[db |-> <<Row(First), Row(Central)>>, last |-> n] : n \in {First, Central}}
  /\ db = image.db /\ exp = ImageCounts
  /\ last = image.last /\ touched = ImageTouched /\ halves = {}
  /\ pc = "idle" /\ revs = <<>> /\ failures = 0 /\ restarts = 0

World ==
  /\ \/ Land
     \/ \E n \in Nodes : BackOut(n)
     \/ MergeCentral
  /\ UNCHANGED <<image, databases, pc, revs, failures, restarts>>

Refresh ==
  /\ \/ Start \/ SaveExperiences \/ MiningRaises \/ MiningFails
     \/ AppendRows \/ AppendFails \/ Touch \/ TouchFails
  /\ UNCHANGED <<world, image, restarts>>

Dies == (Killed /\ UNCHANGED <<world, image, restarts>>) \/ (Restart /\ UNCHANGED <<world, image>>)

Next == World \/ Refresh \/ Dies

\* The refresh process runs, every day.
Spec == Init /\ [][Next]_vars /\ WF_vars(Refresh)

-------------------------------------------------------------------------------
(* Properties                                                                *)

Mined(n) == \E x \in DOMAIN db : db[x].node = n
Occurrences(n) == Rows(db, DOMAIN db, n)
CentralTwice == Occurrences(Central) > 1
Coming(n) == IF pc = "appending" THEN Rows(revs, DOMAIN revs, n) ELSE 0

\* What the file may miss before the place y of autoland: a commit of
\* mozilla-central that came as a side of a merge, and what landed before one
\* that the image had already.
Excused(x, y) ==
  \/ autoland[x] = Central /\ ~onto
  \/ ImageHas(Central) /\ \E z \in x + 1 .. y : autoland[z] = Central

\* data/commits.json is a whole piece of autoland, whatever fails, whenever the
\* worker restarts and however often a commit is mined: if a commit that landed
\* after another one was mined, so was the other, but for those two cases about
\* a merge of mozilla-central, in which boot.py:124 does not hold ("Mine the
\* autoland commits after the last one in the commits DB"); and no commit is
\* stored twice, but for the one of mozilla-central.
FileIsWhole ==
  /\ \A x, y \in DOMAIN autoland :
       x < y /\ Mined(autoland[y]) => Mined(autoland[x]) \/ Excused(x, y)
  /\ \A n \in Nodes \ {Central} : Occurrences(n) <= 1

\* The counts follow the file.  What is stored has counted in the experiences as
\* often as it is there, and more often only for what is about to be stored and
\* for refreshes that failed or were killed, once each; a path counts in the
\* touched together database only if its commit is stored, and once, however the
\* refreshes failed, unless the commit of mozilla-central is stored twice.
CountedAsStored ==
  /\ \A n \in Nodes : exp[n] - Occurrences(n) - Coming(n) \in 0 .. failures
  /\ \A n \in Nodes : touched[n] > 0 => Mined(n)
  /\ ~CentralTwice => \A n \in Nodes : touched[n] <= 1

\* A refresh that gets through leaves nothing uncounted, neither what the image
\* held but had not counted nor what an update that failed had left, but for the
\* commit amid which it failed; unless the commit of mozilla-central is stored
\* twice.
TouchCatchesUp ==
  [][pc = "touching" /\ pc' = "idle" /\ failures' = failures /\ restarts' = restarts
       /\ ~CentralTwice =>
     \A x \in DOMAIN db :
       ~db[x].out => touched'[db[x].node] > 0 \/ db[x].node \in halves]_vars

\* No refresh gets through: the process has been killed, or a commit that waits
\* is of an earlier day than one that has counted.  The latter is what a failure
\* after the experiences leaves where the commits are of two days.
Stuck == pc = "dead" \/ Late(NewRevs(StartNode)) # {}


===============================================================================
