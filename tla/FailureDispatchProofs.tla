------------------------- MODULE FailureDispatchProofs -------------------------
(***************************************************************************)
(* FailureDispatch for any tasks, pushes, units, daily limit and number    *)
(* of faults: its types, one run per push and agent, the budget, that      *)
(* claims of pushes are earned, and that investigated failures are skipped.*)
(***************************************************************************)
EXTENDS FailureDispatch, FiniteSetTheorems, TLAPS

-----------------------------------------------------------------------------
(* The invariant. *)

\* Between the claim of its push and the end of its trigger.
Holds(t) == at[t] \in {"cover", "trigger", "dropPush"}

Siblings(t, u) == PushOf[t] = PushOf[u] /\ AgentOf[t] = AgentOf[u]

\* Which workers get where, and that one with a run is done.
Places ==
  /\ \A t \in Tasks :
      at[t] \in {"check", "recheck", "reserve", "cover", "dropGroups", "dropSlot"} => IsTest(t)
  /\ \A t \in runs : at[t] = "done"
  /\ \A t \in window : IsTest(t)

\* A push is held under its claim, by one worker of an agent.
Claims ==
  /\ \A t \in Tasks : Holds(t) => Claimed(t)
  /\ \A t, u \in Tasks : Holds(t) /\ Holds(u) /\ Siblings(t, u) => t = u

\* The claim of a push that has a run lasts until no worker is on its way and
\* the push is too old for another.
OneRun ==
  \A t \in runs : PushOf[t] \notin Undated =>
    /\ \A u \in Tasks : Siblings(t, u) /\ u # t => ~Holds(u) /\ u \notin runs
    /\ \/ Claimed(t)
       \/ /\ PushOf[t] \in stale
          /\ \A u \in Tasks : PushOf[u] = PushOf[t] => at[u] \in {"queued", "done"}

\* The workers a slot is taken for.
Busy == {t \in Tasks : IsTest(t) /\
           at[t] \in {"claim", "cover", "trigger", "dropPush", "dropGroups", "dropSlot"}}

\* Short of a fault what runs cover is claimed, since before the trigger.
Covered ==
  faults = 0 =>
    /\ covered \subseteq groups
    /\ \A t \in Tasks : /\ at[t] \notin {"dropPush", "dropGroups"}
                        /\ at[t] = "trigger" /\ IsTest(t) => DedupeUnits(t) \subseteq groups

Inv == TypeOK /\ Places /\ Claims /\ OneRun /\ SlotsMatchRuns /\ TestClaimsEarned /\ Covered

-----------------------------------------------------------------------------

LEMMA InitInv == Init => Inv
<1> SUFFICES ASSUME Init PROVE Inv
  OBVIOUS
<1>1. TypeOK
  BY DispatchAssumption DEF Init, TypeOK, At
<1>2. Places /\ Claims /\ OneRun /\ Covered
  BY DEF Init, Places, Claims, Holds, OneRun, Covered
<1>3. SlotsMatchRuns
  <2>1. {t \in Tasks : IsTest(t) /\
           at[t] \in {"claim", "cover", "trigger", "dropPush", "dropGroups", "dropSlot"}} = {}
    BY DEF Init
  <2>2. QED
    BY <2>1, FS_EmptySet DEF Init, SlotsMatchRuns
<1>4. TestClaimsEarned
  <2>1. seen["test-repair"] = {}
    BY DEF Init, Agents
  <2>2. QED
    BY <2>1 DEF TestClaimsEarned
<1>5. QED
  BY <1>1, <1>2, <1>3, <1>4 DEF Inv

LEMMA Counts ==
  ASSUME Inv
  PROVE  /\ IsFiniteSet(window) /\ IsFiniteSet(Busy)
         /\ Cardinality(window) \in Nat /\ Cardinality(Busy) \in Nat
         /\ slots = Cardinality(window) + Cardinality(Busy)
<1>1. window \subseteq Tasks /\ Busy \subseteq Tasks /\ IsFiniteSet(Tasks)
  BY DispatchAssumption DEF Inv, TypeOK, Busy
<1>2. IsFiniteSet(window) /\ IsFiniteSet(Busy)
  BY <1>1, FS_Subset
<1>3. slots = Cardinality(window) + Cardinality(Busy)
  BY DEF Inv, SlotsMatchRuns, Busy
<1>4. QED
  BY <1>2, <1>3, FS_CardinalityType

\* The budget is not touched.
LEMMA SameBudget ==
  ASSUME Inv, UNCHANGED <<slots, window>>, Busy' = Busy
  PROVE  SlotsMatchRuns'
BY DEF Inv, SlotsMatchRuns, Busy

\* A worker goes on; what it holds and counts for changes with its place only.
LEMMA Goes ==
  ASSUME Inv, NEW t \in Tasks, NEW place \in At, Goto(t, place)
  PROVE  /\ at' \in [Tasks -> At] /\ at'[t] = place
         /\ \A u \in Tasks \ {t} : at'[u] = at[u]
BY DEF Inv, TypeOK, Goto

\* A worker that neither holds its push nor comes to hold it, and leaves the
\* shared structures alone.
LEMMA PassingKeeps ==
  ASSUME Inv, NEW t \in Tasks, NEW place \in At, Goto(t, place),
         at[t] \in {"queued", "judge", "check", "recheck"},
         place \in {"judge", "check", "recheck", "reserve", "done"} \/ (place = "claim" /\ ~IsTest(t)),
         place \in {"check", "recheck", "reserve"} => IsTest(t),
         at[t] = "queued" => place = "done" \/ PushOf[t] \notin stale \ Undated,
         fresh' \in [Tasks -> SUBSET Units], \A u \in Tasks \ {t} : fresh'[u] = fresh[u],
         UNCHANGED <<caches, stale, ghosts, faults>>
  PROVE  Inv'
<1>1. /\ at' \in [Tasks -> At] /\ at'[t] = place
      /\ \A u \in Tasks \ {t} : at'[u] = at[u]
  BY Goes
<1>2. TypeOK'
  BY <1>1 DEF Inv, TypeOK, caches, ghosts
<1>3. Places'
  BY <1>1 DEF Inv, TypeOK, Places, IsTest, ghosts
<1>4. \A u \in Tasks : Holds(u)' <=> Holds(u)
  BY <1>1 DEF Holds
<1>5. Claims'
  BY <1>4 DEF Inv, Claims, Claimed, caches, Siblings
<1>6. OneRun'
  <2>1. SUFFICES ASSUME NEW r \in runs, PushOf[r] \notin Undated
                 PROVE  /\ \A u \in Tasks : Siblings(r, u) /\ u # r => ~Holds(u)' /\ u \notin runs
                        /\ \/ Claimed(r)
                           \/ /\ PushOf[r] \in stale
                              /\ \A u \in Tasks : PushOf[u] = PushOf[r] => at'[u] \in {"queued", "done"}
    BY DEF OneRun, Claimed, Siblings, caches, ghosts
  <2>2. /\ \A u \in Tasks : Siblings(r, u) /\ u # r => ~Holds(u) /\ u \notin runs
        /\ \/ Claimed(r)
           \/ /\ PushOf[r] \in stale
              /\ \A u \in Tasks : PushOf[u] = PushOf[r] => at[u] \in {"queued", "done"}
    BY <2>1 DEF Inv, OneRun
  <2>3. QED
    BY <1>1, <1>4, <2>1, <2>2
<1>7. SlotsMatchRuns'
  <2>1. Busy' = Busy
    BY <1>1 DEF Busy, IsTest
  <2>2. QED
    BY <2>1, SameBudget DEF caches, ghosts
<1>8. TestClaimsEarned'
  BY <1>1 DEF Inv, TestClaimsEarned, IsTest, caches, ghosts
<1>9. Covered'
  BY <1>1 DEF Inv, Covered, DedupeUnits, IsTest, caches, ghosts
<1>10. QED
  BY <1>2, <1>3, <1>5, <1>6, <1>7, <1>8, <1>9 DEF Inv

LEMMA AdmitKeeps ==
  ASSUME Inv, NEW t \in Tasks, Admit(t)
  PROVE  Inv'
<1>1. PICK place \in {"done", "judge"} :
        Goto(t, place) /\ (place = "judge" => ~TooOld(t))
  BY DEF Admit
<1>2. fresh' = fresh /\ fresh \in [Tasks -> SUBSET Units] /\ at[t] = "queued"
      /\ UNCHANGED <<caches, stale, ghosts, faults>>
  BY DEF Admit, Inv, TypeOK
<1>3. QED
  BY <1>1, <1>2, PassingKeeps DEF TooOld, At

LEMMA JudgeKeeps ==
  ASSUME Inv, NEW t \in Tasks,
         \/ Dismiss(t) \/ JudgeBuildNew(t) \/ CheckGroups(t)
         \/ \E F \in SUBSET Failing[t] : JudgeTestNew(t, F)
  PROVE  Inv'
<1>1. fresh \in [Tasks -> SUBSET Units]
  BY DEF Inv, TypeOK
<1>2. CASE Dismiss(t)
  BY <1>1, <1>2, PassingKeeps DEF Dismiss, At
<1>3. CASE JudgeBuildNew(t)
  BY <1>1, <1>3, PassingKeeps DEF JudgeBuildNew, At
<1>4. CASE CheckGroups(t)
  <2>1. IsTest(t) /\ at[t] = "check"
    BY <1>4 DEF CheckGroups, Inv, Places
  <2>2. PICK place \in {"done", "recheck"} : Goto(t, place)
    BY <1>4 DEF CheckGroups
  <2>3. QED
    BY <1>1, <1>4, <2>1, <2>2, PassingKeeps DEF CheckGroups, At
<1>5. ASSUME NEW F \in SUBSET Failing[t], JudgeTestNew(t, F)
      PROVE  Inv'
  <2>1. PICK place \in {"check", "reserve"} : Goto(t, place)
    BY <1>5 DEF JudgeTestNew
  <2>2. fresh' \in [Tasks -> SUBSET Units] /\ \A u \in Tasks \ {t} : fresh'[u] = fresh[u]
    BY <1>1, <1>5, DispatchAssumption DEF JudgeTestNew
  <2>3. QED
    BY <1>5, <2>1, <2>2, PassingKeeps DEF JudgeTestNew, At
<1>6. QED
  BY <1>2, <1>3, <1>4, <1>5

LEMMA ReserveKeeps ==
  ASSUME Inv, NEW t \in Tasks, Reserve(t)
  PROVE  Inv'
<1>1. IsTest(t) /\ at[t] \in {"recheck", "reserve"}
      /\ UNCHANGED <<fresh, seen, groups, stale, ghosts, faults>>
  BY DEF Reserve, Inv, Places
<1>2. CASE slots >= Limit
  <2>1. Goto(t, "done") /\ UNCHANGED slots
    BY <1>2, DispatchAssumption DEF Reserve, Inv, TypeOK
  <2>2. at' \in [Tasks -> At] /\ at'[t] = "done" /\ \A u \in Tasks \ {t} : at'[u] = at[u]
    BY <2>1, Goes DEF At
  <2>3. TypeOK'
    BY <1>1, <2>1, <2>2 DEF Inv, TypeOK, ghosts
  <2>4. Places' /\ Claims'
    BY <1>1, <2>2 DEF Inv, TypeOK, Places, Claims, Claimed, Holds, Siblings, IsTest, ghosts
  <2>5. OneRun'
    BY <1>1, <2>2 DEF Inv, TypeOK, OneRun, Claimed, Holds, Siblings, ghosts
  <2>6. Busy' = Busy
    BY <1>1, <2>2 DEF Busy, IsTest
  <2>7. SlotsMatchRuns'
    BY <1>1, <2>1, <2>6, SameBudget DEF ghosts
  <2>8. TestClaimsEarned' /\ Covered'
    BY <1>1, <2>2 DEF Inv, TestClaimsEarned, IsTest, Covered, DedupeUnits, ghosts
  <2>9. QED
    BY <2>3, <2>4, <2>5, <2>7, <2>8 DEF Inv
<1>3. CASE slots < Limit
  <2>1. Goto(t, "claim") /\ slots' = slots + 1
    BY <1>3 DEF Reserve
  <2>2. at' \in [Tasks -> At] /\ at'[t] = "claim" /\ \A u \in Tasks \ {t} : at'[u] = at[u]
    BY <2>1, Goes DEF At
  <2>3. slots' \in 0 .. Limit
    BY <1>3, <2>1, DispatchAssumption DEF Inv, TypeOK
  <2>4. TypeOK'
    BY <1>1, <2>2, <2>3 DEF Inv, TypeOK, ghosts
  <2>5. Places' /\ Claims'
    BY <1>1, <2>2 DEF Inv, TypeOK, Places, Claims, Claimed, Holds, Siblings, IsTest, ghosts
  <2>6. OneRun'
    BY <1>1, <2>2 DEF Inv, TypeOK, Places, OneRun, Claimed, Holds, Siblings, ghosts
  <2>7. SlotsMatchRuns'
    <3>1. Busy' = Busy \cup {t} /\ t \notin Busy
      BY <1>1, <2>2 DEF Busy, IsTest
    <3>2. Cardinality(Busy') = Cardinality(Busy) + 1
      BY <3>1, Counts, FS_AddElement
    <3>3. slots' = Cardinality(window') + Cardinality(Busy')
      BY <1>1, <2>1, <3>2, Counts DEF ghosts
    <3>4. QED
      BY <3>3 DEF SlotsMatchRuns, Busy
  <2>8. TestClaimsEarned' /\ Covered'
    BY <1>1, <2>2 DEF Inv, TestClaimsEarned, IsTest, Covered, DedupeUnits, ghosts
  <2>9. QED
    BY <2>4, <2>5, <2>6, <2>7, <2>8 DEF Inv
<1>4. QED
  BY <1>2, <1>3, DispatchAssumption DEF Inv, TypeOK

LEMMA ClaimPushKeeps ==
  ASSUME Inv, NEW t \in Tasks, ClaimPush(t)
  PROVE  Inv'
<1> DEFINE a == AgentOf[t]
           p == PushOf[t]
<1>0. a \in Agents /\ p \in Pushes /\ (IsTest(t) <=> a = "test-repair")
  BY DispatchAssumption DEF IsTest
<1>1. at[t] = "claim" /\ UNCHANGED <<fresh, groups, slots, stale, ghosts, faults>>
  BY DEF ClaimPush
<1>2. CASE Claimed(t)
  <2>1. PICK place \in {"dropSlot", "done"} :
          Goto(t, place) /\ (place = "dropSlot" <=> IsTest(t)) /\ UNCHANGED seen
    BY <1>2 DEF ClaimPush
  <2>2. at' \in [Tasks -> At] /\ at'[t] = place /\ \A u \in Tasks \ {t} : at'[u] = at[u]
    BY <2>1, Goes DEF At
  <2>3. TypeOK'
    BY <1>1, <2>1, <2>2 DEF Inv, TypeOK, ghosts
  <2>4. Places' /\ Claims'
    BY <1>1, <2>1, <2>2 DEF Inv, TypeOK, Places, Claims, Claimed, Holds, Siblings, IsTest, ghosts
  <2>5. OneRun'
    BY <1>1, <2>1, <2>2 DEF Inv, TypeOK, Places, OneRun, Claimed, Holds, Siblings, ghosts
  <2>6. Busy' = Busy
    BY <1>1, <2>1, <2>2 DEF Busy, IsTest
  <2>7. SlotsMatchRuns'
    BY <1>1, <2>6, SameBudget DEF ghosts
  <2>8. TestClaimsEarned' /\ Covered'
    BY <1>1, <2>1, <2>2 DEF Inv, TestClaimsEarned, IsTest, Covered, DedupeUnits, ghosts
  <2>9. QED
    BY <2>3, <2>4, <2>5, <2>7, <2>8 DEF Inv
<1>3. CASE ~Claimed(t)
  <2>1. PICK place \in {"cover", "trigger"} :
          Goto(t, place) /\ (place = "cover" <=> IsTest(t))
    BY <1>3 DEF ClaimPush
  <2>2. at' \in [Tasks -> At] /\ at'[t] = place /\ \A u \in Tasks \ {t} : at'[u] = at[u]
    BY <2>1, Goes DEF At
  <2>3. seen' = [seen EXCEPT ![a] = @ \cup {p}]
    BY <1>3 DEF ClaimPush
  <2>4. /\ seen' \in [Agents -> SUBSET Pushes]
        /\ seen'[a] = seen[a] \cup {p}
        /\ \A b \in Agents \ {a} : seen'[b] = seen[b]
    BY <1>0, <2>3 DEF Inv, TypeOK
  <2>5. \A u \in Tasks : AgentOf[u] \in Agents /\ (Claimed(u) => Claimed(u)')
    BY <2>4, DispatchAssumption DEF Claimed
  <2>6. TypeOK'
    BY <1>1, <2>2, <2>4 DEF Inv, TypeOK, ghosts
  <2>7. Places'
    BY <1>1, <2>1, <2>2 DEF Inv, TypeOK, Places, IsTest, ghosts
  <2>8. Claims'
    <3>1. \A u \in Tasks : Siblings(t, u) => ~Holds(u)
      BY <1>3 DEF Inv, Claims, Claimed, Siblings
    <3>2. Claimed(t)'
      BY <2>4 DEF Claimed
    <3>3. \A u \in Tasks \ {t} : Holds(u)' <=> Holds(u)
      BY <2>2 DEF Holds
    <3>4. QED
      BY <2>5, <3>1, <3>2, <3>3 DEF Inv, Claims, Siblings
  <2>9. OneRun'
    <3>1. SUFFICES ASSUME NEW r \in runs, PushOf[r] \notin Undated
                   PROVE  /\ \A u \in Tasks : Siblings(r, u) /\ u # r => ~Holds(u)' /\ u \notin runs
                          /\ \/ Claimed(r)'
                             \/ /\ PushOf[r] \in stale
                                /\ \A u \in Tasks : PushOf[u] = PushOf[r] => at'[u] \in {"queued", "done"}
      BY <1>1 DEF OneRun, Siblings, ghosts
    <3>2. r \in Tasks
      BY DEF Inv, TypeOK
    <3>3. /\ \A u \in Tasks : Siblings(r, u) /\ u # r => ~Holds(u) /\ u \notin runs
          /\ \/ Claimed(r)
             \/ /\ PushOf[r] \in stale
                /\ \A u \in Tasks : PushOf[u] = PushOf[r] => at[u] \in {"queued", "done"}
      BY <3>1 DEF Inv, OneRun
    <3>4. ~Siblings(r, t)
      BY <1>1, <1>3, <3>3 DEF Claimed, Siblings
    <3>5. PushOf[t] = PushOf[r] => Claimed(r)
      BY <1>1, <3>3
    <3>6. \A u \in Tasks \ {t} : Holds(u)' <=> Holds(u)
      BY <2>2 DEF Holds
    <3>7. QED
      BY <2>2, <2>5, <3>2, <3>3, <3>4, <3>5, <3>6
  <2>10. Busy' = Busy
    BY <1>1, <2>1, <2>2 DEF Busy, IsTest
  <2>11. SlotsMatchRuns'
    BY <1>1, <2>10, SameBudget DEF ghosts
  <2>12. TestClaimsEarned'
    <3>1. \A q \in seen'["test-repair"] : q \in seen["test-repair"] \/ (q = p /\ IsTest(t))
      BY <1>0, <2>4 DEF Agents
    <3>2. \A u \in Tasks : u # t => at'[u] = at[u]
      BY <2>2
    <3>3. QED
      BY <1>1, <2>1, <2>2, <3>1, <3>2 DEF Inv, TestClaimsEarned, IsTest, ghosts
  <2>13. Covered'
    BY <1>1, <2>1, <2>2 DEF Inv, Covered, DedupeUnits, IsTest, ghosts
  <2>14. QED
    BY <2>6, <2>7, <2>8, <2>9, <2>11, <2>12, <2>13 DEF Inv
<1>4. QED
  BY <1>2, <1>3

LEMMA ClaimGroupsKeeps ==
  ASSUME Inv, NEW t \in Tasks, ClaimGroups(t)
  PROVE  Inv'
<1>1. /\ at[t] = "cover" /\ groups' = groups \cup DedupeUnits(t) /\ Goto(t, "trigger") /\ IsTest(t)
      /\ UNCHANGED <<fresh, seen, slots, stale, ghosts, faults>>
  BY DEF ClaimGroups, Inv, Places
<1>2. at' \in [Tasks -> At] /\ at'[t] = "trigger" /\ \A u \in Tasks \ {t} : at'[u] = at[u]
  BY <1>1, Goes DEF At
<1>3. DedupeUnits(t) \subseteq Units
  BY DispatchAssumption DEF Inv, TypeOK, DedupeUnits
<1>4. TypeOK'
  BY <1>1, <1>2, <1>3 DEF Inv, TypeOK, ghosts
<1>5. Places'
  BY <1>1, <1>2 DEF Inv, TypeOK, Places, IsTest, ghosts
<1>6. \A u \in Tasks : Holds(u)' <=> Holds(u)
  BY <1>1, <1>2 DEF Holds
<1>7. Claims'
  BY <1>1, <1>6 DEF Inv, Claims, Claimed, Siblings
<1>8. OneRun'
  BY <1>1, <1>2, <1>6 DEF Inv, TypeOK, OneRun, Claimed, Siblings, ghosts
<1>9. Busy' = Busy
  BY <1>1, <1>2 DEF Busy, IsTest
<1>10. SlotsMatchRuns'
  BY <1>1, <1>9, SameBudget DEF ghosts
<1>11. TestClaimsEarned'
  BY <1>1, <1>2 DEF Inv, TestClaimsEarned, IsTest, ghosts
<1>12. Covered'
  BY <1>1, <1>2 DEF Inv, Covered, DedupeUnits, IsTest, ghosts
<1>13. QED
  BY <1>4, <1>5, <1>7, <1>8, <1>10, <1>11, <1>12 DEF Inv

LEMMA TriggerAnsweredKeeps ==
  ASSUME Inv, NEW t \in Tasks, TriggerAnswered(t)
  PROVE  Inv'
<1>1. /\ at[t] = "trigger" /\ runs' = runs \cup {t} /\ Goto(t, "done") /\ Holds(t) /\ Claimed(t)
      /\ UNCHANGED <<fresh, caches, stale, orphans, faults>>
  BY DEF TriggerAnswered, Holds, Inv, Claims
<1>2. at' \in [Tasks -> At] /\ at'[t] = "done" /\ \A u \in Tasks \ {t} : at'[u] = at[u]
  BY <1>1, Goes DEF At
<1>3. t \notin runs /\ t \notin window
  BY <1>1 DEF Inv, TypeOK, Places
<1>4. /\ IsTest(t) => window' = window \cup {t} /\ covered' = covered \cup DedupeUnits(t)
      /\ ~IsTest(t) => UNCHANGED <<window, covered>>
  BY DEF TriggerAnswered
<1>5. DedupeUnits(t) \subseteq Units
  BY DispatchAssumption DEF Inv, TypeOK, DedupeUnits
<1>6. TypeOK'
  BY <1>1, <1>2, <1>4, <1>5 DEF Inv, TypeOK, caches
<1>7. Places'
  BY <1>1, <1>2, <1>4 DEF Inv, TypeOK, Places, IsTest
<1>8. \A u \in Tasks : Holds(u)' <=> Holds(u) /\ u # t
  BY <1>1, <1>2 DEF Holds
<1>9. Claims'
  BY <1>1, <1>8 DEF Inv, Claims, Claimed, Siblings, caches
<1>10. OneRun'
  <2>1. ASSUME NEW r \in runs, PushOf[r] \notin Undated
        PROVE  /\ \A u \in Tasks : Siblings(r, u) /\ u # r => ~Holds(u)' /\ u \notin runs'
               /\ \/ Claimed(r)
                  \/ /\ PushOf[r] \in stale
                     /\ \A u \in Tasks : PushOf[u] = PushOf[r] => at'[u] \in {"queued", "done"}
    <3>1. /\ \A u \in Tasks : Siblings(r, u) /\ u # r => ~Holds(u) /\ u \notin runs
          /\ \/ Claimed(r)
             \/ /\ PushOf[r] \in stale
                /\ \A u \in Tasks : PushOf[u] = PushOf[r] => at[u] \in {"queued", "done"}
      BY <2>1 DEF Inv, OneRun
    <3>2. ~Siblings(r, t)
      BY <1>1, <1>3, <3>1
    <3>3. QED
      BY <1>1, <1>2, <1>8, <3>1, <3>2
  <2>2. \A u \in Tasks : Siblings(t, u) /\ u # t => ~Holds(u) /\ (PushOf[t] \notin Undated => u \notin runs)
    <3>1. \A u \in Tasks : Siblings(t, u) /\ u # t => ~Holds(u)
      BY <1>1 DEF Inv, Claims
    <3>2. ASSUME NEW u \in runs, Siblings(t, u), u # t, PushOf[t] \notin Undated
          PROVE  FALSE
      <4>1. PushOf[u] \notin Undated /\ Siblings(u, t)
        BY <3>2 DEF Siblings
      <4>2. QED
        BY <1>1, <3>2, <4>1 DEF Inv, OneRun
    <3>3. QED
      BY <3>1, <3>2
  <2>3. QED
    BY <1>1, <1>8, <2>1, <2>2 DEF OneRun, Claimed, Siblings, caches
<1>11. SlotsMatchRuns'
  <2>1. CASE IsTest(t)
    <3>1. t \in Busy /\ Busy' = Busy \ {t}
      BY <1>1, <1>2, <2>1 DEF Busy, IsTest
    <3>2. Cardinality(Busy') = Cardinality(Busy) - 1
      BY <3>1, Counts, FS_RemoveElement
    <3>3. Cardinality(window') = Cardinality(window) + 1
      BY <1>3, <1>4, <2>1, Counts, FS_AddElement
    <3>4. slots' = Cardinality(window') + Cardinality(Busy')
      BY <1>1, <3>2, <3>3, Counts DEF caches
    <3>5. QED
      BY <3>4 DEF SlotsMatchRuns, Busy
  <2>2. CASE ~IsTest(t)
    <3>1. Busy' = Busy
      BY <1>1, <1>2, <2>2 DEF Busy, IsTest
    <3>2. QED
      BY <1>1, <1>4, <2>2, <3>1, SameBudget DEF caches
  <2>3. QED
    BY <2>1, <2>2
<1>12. TestClaimsEarned'
  BY <1>1, <1>2 DEF Inv, TestClaimsEarned, IsTest, caches
<1>13. Covered'
  BY <1>1, <1>2, <1>4 DEF Inv, Covered, DedupeUnits, IsTest, caches
<1>14. QED
  BY <1>6, <1>7, <1>9, <1>10, <1>11, <1>12, <1>13 DEF Inv

\* A fault, after which nothing is said of what is covered.
LEMMA FaultKeeps ==
  ASSUME Inv, NEW t \in Tasks, NEW place \in {"dropPush", "done"}, Goto(t, place),
         at[t] = "trigger", faults < MaxFaults, faults' = faults + 1,
         place = "done" => ~IsTest(t),
         orphans' \in SUBSET Tasks,
         UNCHANGED <<fresh, caches, stale, runs, window, covered>>
  PROVE  Inv'
<1>1. at' \in [Tasks -> At] /\ at'[t] = place /\ \A u \in Tasks \ {t} : at'[u] = at[u]
  BY Goes DEF At
<1>2. faults' \in 0 .. MaxFaults /\ faults' # 0
  BY DispatchAssumption DEF Inv, TypeOK
<1>3. TypeOK'
  BY <1>1, <1>2 DEF Inv, TypeOK, caches
<1>4. Places'
  BY <1>1 DEF Inv, TypeOK, Places, IsTest
<1>5. \A u \in Tasks : Holds(u)' => Holds(u)
  BY <1>1 DEF Holds
<1>6. Claims'
  BY <1>5 DEF Inv, Claims, Claimed, Siblings, caches
<1>7. OneRun'
  BY <1>1, <1>5 DEF Inv, TypeOK, OneRun, Claimed, Siblings, caches
<1>8. Busy' = Busy
  BY <1>1 DEF Busy, IsTest
<1>9. SlotsMatchRuns'
  BY <1>8, SameBudget DEF caches
<1>10. TestClaimsEarned'
  BY <1>1 DEF Inv, TestClaimsEarned, IsTest, caches
<1>11. Covered'
  BY <1>2 DEF Covered
<1>12. QED
  BY <1>3, <1>4, <1>6, <1>7, <1>9, <1>10, <1>11 DEF Inv

LEMMA FaultsKeep ==
  ASSUME Inv, NEW t \in Tasks, TriggerFails(t) \/ MapRaises(t)
  PROVE  Inv'
<1>1. orphans' \in SUBSET Tasks
  BY DEF TriggerFails, MapRaises, Inv, TypeOK, ghosts
<1>2. CASE TriggerFails(t)
  BY <1>1, <1>2, FaultKeeps DEF TriggerFails
<1>3. CASE MapRaises(t)
  BY <1>1, <1>3, FaultKeeps DEF MapRaises, ghosts
<1>4. QED
  BY <1>2, <1>3

LEMMA DropPushKeeps ==
  ASSUME Inv, NEW t \in Tasks, DropPush(t)
  PROVE  Inv'
<1> DEFINE a == AgentOf[t]
           p == PushOf[t]
<1>0. a \in Agents /\ p \in Pushes /\ (IsTest(t) <=> a = "test-repair")
      /\ \A u \in Tasks : AgentOf[u] \in Agents
  BY DispatchAssumption DEF IsTest
<1>1. at[t] = "dropPush" /\ seen' = [seen EXCEPT ![a] = @ \ {p}] /\ Holds(t)
      /\ UNCHANGED <<fresh, groups, slots, stale, ghosts, faults>>
  BY DEF DropPush, Holds
<1>2. PICK place \in {"dropGroups", "done"} : Goto(t, place) /\ (place = "dropGroups" <=> IsTest(t))
  BY DEF DropPush
<1>3. at' \in [Tasks -> At] /\ at'[t] = place /\ \A u \in Tasks \ {t} : at'[u] = at[u]
  BY <1>2, Goes DEF At
<1>4. /\ seen' \in [Agents -> SUBSET Pushes]
      /\ seen'[a] = seen[a] \ {p}
      /\ \A b \in Agents \ {a} : seen'[b] = seen[b]
  BY <1>0, <1>1 DEF Inv, TypeOK
<1>5. \A u \in Tasks : ~Siblings(t, u) => (Claimed(u)' <=> Claimed(u))
  BY <1>0, <1>4 DEF Claimed, Siblings
<1>6. \A u \in Tasks : Holds(u)' <=> Holds(u) /\ u # t
  BY <1>1, <1>2, <1>3 DEF Holds
<1>7. TypeOK'
  BY <1>1, <1>3, <1>4 DEF Inv, TypeOK, ghosts
<1>8. Places'
  BY <1>1, <1>2, <1>3 DEF Inv, TypeOK, Places, IsTest, ghosts
<1>9. Claims'
  <2>1. \A u \in Tasks \ {t} : Siblings(t, u) => ~Holds(u)
    BY <1>1 DEF Inv, Claims
  <2>2. QED
    BY <1>5, <1>6, <2>1 DEF Inv, Claims, Siblings
<1>10. OneRun'
  <2>1. SUFFICES ASSUME NEW r \in runs, PushOf[r] \notin Undated
                 PROVE  /\ \A u \in Tasks : Siblings(r, u) /\ u # r => ~Holds(u)' /\ u \notin runs
                        /\ \/ Claimed(r)'
                           \/ /\ PushOf[r] \in stale
                              /\ \A u \in Tasks : PushOf[u] = PushOf[r] => at'[u] \in {"queued", "done"}
    BY <1>1 DEF OneRun, Siblings, ghosts
  <2>2. r \in Tasks /\ r # t
    BY <1>1 DEF Inv, TypeOK, Places
  <2>3. /\ \A u \in Tasks : Siblings(r, u) /\ u # r => ~Holds(u) /\ u \notin runs
        /\ \/ Claimed(r)
           \/ /\ PushOf[r] \in stale
              /\ \A u \in Tasks : PushOf[u] = PushOf[r] => at[u] \in {"queued", "done"}
    BY <2>1 DEF Inv, OneRun
  <2>4. ~Siblings(r, t) /\ ~Siblings(t, r)
    BY <1>1, <2>2, <2>3 DEF Siblings
  <2>5. QED
    BY <1>1, <1>3, <1>5, <1>6, <2>2, <2>3, <2>4
<1>11. Busy' = Busy
  BY <1>1, <1>2, <1>3 DEF Busy, IsTest
<1>12. SlotsMatchRuns'
  BY <1>1, <1>11, SameBudget DEF ghosts
<1>13. TestClaimsEarned'
  <2>1. \A q \in seen'["test-repair"] : q \in seen["test-repair"] /\ ~(q = p /\ IsTest(t))
    BY <1>0, <1>4 DEF Agents
  <2>2. QED
    BY <1>1, <1>3, <2>1 DEF Inv, TestClaimsEarned, IsTest, ghosts
<1>14. Covered'
  BY <1>1 DEF Inv, Covered, ghosts
<1>15. QED
  BY <1>7, <1>8, <1>9, <1>10, <1>12, <1>13, <1>14 DEF Inv

LEMMA DropGroupsKeeps ==
  ASSUME Inv, NEW t \in Tasks, DropGroups(t)
  PROVE  Inv'
<1>1. /\ at[t] = "dropGroups" /\ groups' = groups \ DedupeUnits(t) /\ Goto(t, "dropSlot") /\ IsTest(t)
      /\ UNCHANGED <<fresh, seen, slots, stale, ghosts, faults>>
  BY DEF DropGroups, Inv, Places
<1>2. at' \in [Tasks -> At] /\ at'[t] = "dropSlot" /\ \A u \in Tasks \ {t} : at'[u] = at[u]
  BY <1>1, Goes DEF At
<1>3. TypeOK'
  BY <1>1, <1>2 DEF Inv, TypeOK, ghosts
<1>4. Places'
  BY <1>1, <1>2 DEF Inv, TypeOK, Places, IsTest, ghosts
<1>5. \A u \in Tasks : Holds(u)' <=> Holds(u)
  BY <1>1, <1>2 DEF Holds
<1>6. Claims'
  BY <1>1, <1>5 DEF Inv, Claims, Claimed, Siblings
<1>7. OneRun'
  BY <1>1, <1>2, <1>5 DEF Inv, TypeOK, OneRun, Claimed, Siblings, ghosts
<1>8. Busy' = Busy
  BY <1>1, <1>2 DEF Busy, IsTest
<1>9. SlotsMatchRuns'
  BY <1>1, <1>8, SameBudget DEF ghosts
<1>10. TestClaimsEarned'
  BY <1>1, <1>2 DEF Inv, TestClaimsEarned, IsTest, ghosts
<1>11. Covered'
  BY <1>1 DEF Inv, Covered, ghosts
<1>12. QED
  BY <1>3, <1>4, <1>6, <1>7, <1>9, <1>10, <1>11 DEF Inv

LEMMA DropSlotKeeps ==
  ASSUME Inv, NEW t \in Tasks, DropSlot(t)
  PROVE  Inv'
<1>1. /\ at[t] = "dropSlot" /\ Goto(t, "done") /\ IsTest(t)
      /\ slots' = IF slots > 0 THEN slots - 1 ELSE slots
      /\ UNCHANGED <<fresh, seen, groups, stale, ghosts, faults>>
  BY DEF DropSlot, Inv, Places
<1>2. at' \in [Tasks -> At] /\ at'[t] = "done" /\ \A u \in Tasks \ {t} : at'[u] = at[u]
  BY <1>1, Goes DEF At
<1>3. slots' \in 0 .. Limit
  BY <1>1, DispatchAssumption DEF Inv, TypeOK
<1>4. TypeOK'
  BY <1>1, <1>2, <1>3 DEF Inv, TypeOK, ghosts
<1>5. Places'
  BY <1>1, <1>2 DEF Inv, TypeOK, Places, IsTest, ghosts
<1>6. \A u \in Tasks : Holds(u)' <=> Holds(u)
  BY <1>1, <1>2 DEF Holds
<1>7. Claims'
  BY <1>1, <1>6 DEF Inv, Claims, Claimed, Siblings
<1>8. OneRun'
  BY <1>1, <1>2, <1>6 DEF Inv, TypeOK, OneRun, Claimed, Siblings, ghosts
<1>9. SlotsMatchRuns'
  <2>1. t \in Busy /\ Busy' = Busy \ {t}
    BY <1>1, <1>2 DEF Busy, IsTest
  <2>2. Cardinality(Busy') = Cardinality(Busy) - 1 /\ Cardinality(Busy') \in Nat
    <3>1. IsFiniteSet(Busy')
      BY <2>1, Counts, FS_RemoveElement
    <3>2. QED
      BY <2>1, <3>1, Counts, FS_RemoveElement, FS_CardinalityType
  <2>3. slots' = Cardinality(window') + Cardinality(Busy')
    BY <1>1, <2>2, Counts DEF ghosts
  <2>4. QED
    BY <2>3 DEF SlotsMatchRuns, Busy
<1>10. TestClaimsEarned'
  BY <1>1, <1>2 DEF Inv, TestClaimsEarned, IsTest, ghosts
<1>11. Covered'
  BY <1>1, <1>2 DEF Inv, Covered, DedupeUnits, IsTest, ghosts
<1>12. QED
  BY <1>4, <1>5, <1>7, <1>8, <1>9, <1>10, <1>11 DEF Inv

-----------------------------------------------------------------------------
(* Time. *)

LEMMA GoesStaleKeeps ==
  ASSUME Inv, NEW p \in Pushes, GoesStale(p)
  PROVE  Inv'
<1>1. stale' = stale \cup {p} /\ UNCHANGED <<at, fresh, caches, ghosts, faults>>
  BY DEF GoesStale
<1>2. TypeOK' /\ Places' /\ Claims' /\ OneRun'
  BY <1>1 DEF Inv, TypeOK, Places, Claims, OneRun, Holds, Claimed, Siblings, IsTest, caches, ghosts
<1>3. Busy' = Busy
  BY <1>1 DEF Busy, IsTest
<1>4. SlotsMatchRuns'
  BY <1>1, <1>3, SameBudget DEF caches, ghosts
<1>5. TestClaimsEarned' /\ Covered'
  BY <1>1 DEF Inv, TestClaimsEarned, Covered, DedupeUnits, IsTest, caches, ghosts
<1>6. QED
  BY <1>2, <1>4, <1>5 DEF Inv

LEMMA ClaimLapsesKeeps ==
  ASSUME Inv, NEW p \in Pushes, NEW a \in Agents, ClaimLapses(a, p)
  PROVE  Inv'
<1>1. /\ p \in seen[a] \cap stale /\ seen' = [seen EXCEPT ![a] = @ \ {p}]
      /\ \A t \in Tasks : PushOf[t] = p => at[t] \in {"queued", "done"}
      /\ UNCHANGED <<at, fresh, groups, slots, stale, ghosts, faults>>
  BY DEF ClaimLapses
<1>2. /\ seen' \in [Agents -> SUBSET Pushes]
      /\ seen'[a] = seen[a] \ {p}
      /\ \A b \in Agents \ {a} : seen'[b] = seen[b]
  BY <1>1 DEF Inv, TypeOK
<1>3. \A t \in Tasks : Holds(t) => PushOf[t] # p
  BY <1>1 DEF Holds
<1>4. \A t \in Tasks : PushOf[t] # p => (Claimed(t)' <=> Claimed(t))
  BY <1>2, DispatchAssumption DEF Claimed
<1>5. TypeOK' /\ Places'
  BY <1>1, <1>2 DEF Inv, TypeOK, Places, IsTest, ghosts
<1>6. Claims'
  BY <1>1, <1>3, <1>4 DEF Inv, Claims, Holds, Siblings
<1>7. OneRun'
  <2>1. \A r \in runs : r \in Tasks
    BY DEF Inv, TypeOK
  <2>2. QED
    BY <1>1, <1>4, <2>1 DEF Inv, OneRun, Holds, Siblings, ghosts
<1>8. Busy' = Busy
  BY <1>1 DEF Busy, IsTest
<1>9. SlotsMatchRuns'
  BY <1>1, <1>8, SameBudget DEF ghosts
<1>10. TestClaimsEarned'
  <2>1. \A q \in seen'["test-repair"] : q \in seen["test-repair"]
    BY <1>2 DEF Agents
  <2>2. QED
    BY <1>1, <2>1 DEF Inv, TestClaimsEarned, IsTest, ghosts
<1>11. Covered'
  BY <1>1 DEF Inv, Covered, DedupeUnits, IsTest, ghosts
<1>12. QED
  BY <1>5, <1>6, <1>7, <1>9, <1>10, <1>11 DEF Inv

LEMMA GroupLapsesKeeps ==
  ASSUME Inv, NEW v \in Units, GroupLapses(v)
  PROVE  Inv'
<1>1. /\ groups' = groups \ {v} /\ covered' = covered \ {v}
      /\ \A t \in Tasks : at[t] = "trigger" => v \notin DedupeUnits(t)
      /\ UNCHANGED <<at, fresh, seen, slots, stale, runs, orphans, window, faults>>
  BY DEF GroupLapses
<1>2. TypeOK' /\ Places' /\ Claims' /\ OneRun'
  BY <1>1 DEF Inv, TypeOK, Places, Claims, OneRun, Holds, Claimed, Siblings, IsTest
<1>3. Busy' = Busy
  BY <1>1 DEF Busy, IsTest
<1>4. SlotsMatchRuns'
  BY <1>1, <1>3, SameBudget
<1>5. TestClaimsEarned' /\ Covered'
  BY <1>1 DEF Inv, TestClaimsEarned, Covered, DedupeUnits, IsTest
<1>6. QED
  BY <1>2, <1>4, <1>5 DEF Inv

LEMMA SlotLapsesKeeps ==
  ASSUME Inv, NEW t \in Tasks, SlotLapses(t)
  PROVE  Inv'
<1>1. /\ t \in window /\ slots > 0 /\ window' = window \ {t} /\ slots' = slots - 1
      /\ UNCHANGED <<at, fresh, seen, groups, stale, runs, orphans, covered, faults>>
  BY DEF SlotLapses
<1>2. slots' \in 0 .. Limit
  BY <1>1, DispatchAssumption DEF Inv, TypeOK
<1>3. TypeOK' /\ Places' /\ Claims' /\ OneRun'
  BY <1>1, <1>2 DEF Inv, TypeOK, Places, Claims, OneRun, Holds, Claimed, Siblings, IsTest
<1>4. SlotsMatchRuns'
  <2>1. Busy' = Busy
    BY <1>1 DEF Busy, IsTest
  <2>2. Cardinality(window') = Cardinality(window) - 1
    BY <1>1, Counts, FS_RemoveElement
  <2>3. slots' = Cardinality(window') + Cardinality(Busy')
    BY <1>1, <2>1, <2>2, Counts
  <2>4. QED
    BY <2>3 DEF SlotsMatchRuns, Busy
<1>5. TestClaimsEarned' /\ Covered'
  BY <1>1 DEF Inv, TestClaimsEarned, Covered, DedupeUnits, IsTest
<1>6. QED
  BY <1>3, <1>4, <1>5 DEF Inv

-----------------------------------------------------------------------------
(* The theorems. *)

LEMMA StepKeeps == Inv /\ [Next]_vars => Inv'
<1> SUFFICES ASSUME Inv, [Next]_vars PROVE Inv'
  OBVIOUS
<1>1. ASSUME NEW t \in Tasks, Work(t) \/ SlotLapses(t)
      PROVE  Inv'
  BY <1>1, AdmitKeeps, JudgeKeeps, ReserveKeeps, ClaimPushKeeps, ClaimGroupsKeeps,
     TriggerAnsweredKeeps, FaultsKeep, DropPushKeeps, DropGroupsKeeps, DropSlotKeeps,
     SlotLapsesKeeps DEF Work
<1>2. ASSUME NEW p \in Pushes, GoesStale(p) \/ \E a \in Agents : ClaimLapses(a, p)
      PROVE  Inv'
  BY <1>2, GoesStaleKeeps, ClaimLapsesKeeps
<1>3. ASSUME NEW u \in Units, GroupLapses(u)
      PROVE  Inv'
  BY <1>3, GroupLapsesKeeps
<1>4. CASE UNCHANGED vars
  <2>1. UNCHANGED <<at, fresh, seen, groups, slots, stale, runs, orphans, window, covered, faults>>
    BY <1>4 DEF vars, caches, ghosts
  <2>2. TypeOK' /\ Places' /\ Claims' /\ OneRun'
    BY <2>1 DEF Inv, TypeOK, Places, Claims, OneRun, Holds, Claimed, Siblings, IsTest
  <2>3. SlotsMatchRuns'
    BY <2>1, SameBudget DEF Busy, IsTest
  <2>4. TestClaimsEarned' /\ Covered'
    BY <2>1 DEF Inv, TestClaimsEarned, Covered, DedupeUnits, IsTest
  <2>5. QED
    BY <2>2, <2>3, <2>4 DEF Inv
<1>5. QED
  BY <1>1, <1>2, <1>3, <1>4 DEF Next

THEOREM Invariance == Spec => []Inv
BY InitInv, StepKeeps, PTL DEF Spec

\* The types of the workers and of the shared structures.
THEOREM TypesHold == Spec => []TypeOK
<1>1. Inv => TypeOK
  BY DEF Inv
<1>2. QED
  BY <1>1, Invariance, PTL

\* At most one answered run per push and agent, unless the push has no date
\* (_claim, _release and is_stale_push).
THEOREM OneRunEach == Spec => []OneRunPerPush
<1>1. ASSUME Inv PROVE OneRunPerPush
  BY <1>1 DEF Inv, TypeOK, OneRun, Siblings, OneRunPerPush
<1>2. QED
  BY <1>1, Invariance, PTL

\* The slots taken are those of the day's runs and of the workers on their way
\* to one (_reserve_test_run and _release_test_run).
THEOREM BudgetKept == Spec => []SlotsMatchRuns
<1>1. Inv => SlotsMatchRuns
  BY DEF Inv
<1>2. QED
  BY <1>1, Invariance, PTL

\* A push claimed for test-repair has a run, or a worker at its trigger.
THEOREM ClaimsEarned == Spec => []TestClaimsEarned
<1>1. Inv => TestClaimsEarned
  BY DEF Inv
<1>2. QED
  BY <1>1, Invariance, PTL

\* Until a trigger fails, no task gets past the check whose units are covered
\* (_groups_claimed and _claim_groups).
THEOREM InvestigatedSkipped == Spec => InvestigatedIsSkipped
<1>1. ASSUME Inv, [Next]_vars
      PROVE  [ \A t \in Tasks :
                 at[t] = "check" /\ at'[t] = "recheck" /\ faults = 0
                   => ~(DedupeUnits(t) \subseteq covered) ]_vars
  <2>1. SUFFICES ASSUME NEW t \in Tasks, at[t] = "check", at'[t] = "recheck", faults = 0
                 PROVE  ~(DedupeUnits(t) \subseteq covered)
    OBVIOUS
  <2>2. \E u \in Tasks : Work(u)
    BY <1>1, <2>1 DEF Next, vars, SlotLapses, GoesStale, ClaimLapses, GroupLapses
  <2>3. PICK u \in Tasks : Work(u)
    BY <2>2
  <2>4. \A x \in Tasks : x # u => at'[x] = at[x]
    BY <1>1, <2>3 DEF Inv, TypeOK, Work, Goto, Admit, Dismiss, JudgeBuildNew, JudgeTestNew,
       CheckGroups, Reserve, ClaimPush, ClaimGroups, TriggerAnswered, TriggerFails, MapRaises,
       DropPush, DropGroups, DropSlot
  <2>5. u = t
    BY <2>1, <2>4
  <2>6. CheckGroups(t) \/ Dismiss(t)
    BY <2>1, <2>3, <2>5 DEF Work, Admit, JudgeBuildNew, JudgeTestNew, Reserve, ClaimPush,
       ClaimGroups, TriggerAnswered, TriggerFails, MapRaises, DropPush, DropGroups, DropSlot
  <2>7. ~(DedupeUnits(t) \subseteq groups)
    BY <1>1, <2>1, <2>6 DEF CheckGroups, Dismiss, Goto, Inv, TypeOK
  <2>8. QED
    BY <1>1, <2>1, <2>7 DEF Inv, Covered
<1>2. QED
  BY <1>1, Invariance, PTL DEF Spec, InvestigatedIsSkipped

=============================================================================
