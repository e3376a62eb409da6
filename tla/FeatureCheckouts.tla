--------------------------- MODULE FeatureCheckouts ---------------------------
(***************************************************************************)
(* The checkout of a Feature and the command that creates a Feature        *)
(* (application/checkout.rs, application/workspace.rs and                  *)
(* execute_feature_create of cli/lib.rs).                                  *)
(*                                                                         *)
(* "feature create" inserts the Feature, prepares a Git worktree on a      *)
(* branch of its own next to the repository, marks the Feature and         *)
(* launches its planner; each step has a key made of the command's, so     *)
(* that the command can be repeated.  "feature use-checkout" gives the     *)
(* Feature another registered checkout, and planning at large registers    *)
(* that of the repository itself.  People move, restore and switch         *)
(* worktrees meanwhile.  One action is one transaction, one group of       *)
(* reads or one Git command.  The workflow of the Feature is that of       *)
(* Planning, the launch that of SessionLaunch.                             *)
(*                                                                         *)
(* All Features are of one repository.  Path and branch of a worktree are  *)
(* made of the Feature's slug, which is unique within its Epic, and a Git  *)
(* worktree is known by the place it was added at.                         *)
(***************************************************************************)
EXTENDS Naturals, FiniteSets

CONSTANTS Epics, Slugs,   \* Features are pairs of an Epic and a slug, no slug is "main" or "none"
          AdoptionKeys,   \* idempotency keys of "feature use-checkout"
          Callers,        \* commands that may run at the same time
          MaxCreations,   \* bound on commands
          MaxDisturbances,  \* bound on what people do with worktrees
          MaxFaults       \* bound on crashes

\* The working tree of the repository, on a branch that no Feature has.
Main == "main"
None == "none"
Pairs == Epics \X Slugs
Places == Slugs \cup {Main}

VARIABLES
  creation,   \* features.workflow_state
  intent,     \* operation_intents of the preparations, by the Feature of the command
  adoption,   \* operation_intents of adoptions: the keys that are used
  assigned,   \* feature_checkouts
  checkouts,  \* checkouts rows: availability, by the place of the worktree
  worktree,   \* what is at a place: nothing, or a worktree on its branch or another
  branches,   \* branches of the slugs that exist
  planner,    \* the launch intent of a Feature's planner: the checkout it is for
  caller,     \* what each command is doing
  alone,      \* the command, if any, that began in order and has acted alone since
  creations, disturbances, faults

rows == <<creation, intent, adoption, assigned, checkouts, planner>>
git == <<worktree, branches>>
checkoutVars == <<rows, git, caller, alone, creations, disturbances, faults>>

NoFeature == <<None, None>>
NoCaller == [pc |-> "idle", of |-> NoFeature, key |-> None, found |-> None]

Init ==
  /\ creation = [f \in Pairs |-> "absent"]
  /\ intent = [f \in Pairs |-> "absent"]
  /\ adoption = {}
  /\ assigned = [f \in Pairs |-> None]
  /\ checkouts = [c \in Places |-> "unknown"]
  /\ worktree = [c \in Places |-> IF c = Main THEN "own" ELSE "gone"]
  /\ branches = {}
  /\ planner = [f \in Pairs |-> None]
  /\ caller = [p \in Callers |-> NoCaller]
  /\ alone = {}
  /\ creations = 0 /\ disturbances = 0 /\ faults = 0

At(p, pc) == caller[p].pc = pc
Goto(p, pc) == caller' = [caller EXCEPT ![p].pc = pc]
Found(p, c, pc) == caller' = [caller EXCEPT ![p].pc = pc, ![p].found = c]
Return(p) == caller' = [caller EXCEPT ![p] = NoCaller]
Place(f) == f[2]

\* A command that takes a step is the only one that may still be alone.
Step(p) == alone' = alone \cap {p} /\ UNCHANGED <<creations, disturbances, faults>>
Start(p, call) ==
  /\ At(p, "idle")
  /\ creations < MaxCreations /\ creations' = creations + 1
  /\ caller' = [caller EXCEPT ![p] = call]
  /\ UNCHANGED <<disturbances, faults>>

-----------------------------------------------------------------------------
(* execute_feature_create.                                                 *)

\* Nothing stands in the way of the Feature's worktree, the checkout it has can be
\* used, and its planner has not been launched before.
InOrder(f) ==
  /\ planner[f] = None
  /\ worktree[Place(f)] = "own" \/ (worktree[Place(f)] = "gone" /\ Place(f) \notin branches)

\* create_feature, which returns the Feature an earlier command has made.
Create(p, f) ==
  /\ Start(p, [NoCaller EXCEPT !.pc = "current", !.of = f])
  /\ creation' = [creation EXCEPT ![f] = IF @ = "absent" THEN "worktree_pending" ELSE @]
  /\ alone' = IF InOrder(f) THEN {p} ELSE {}
  /\ UNCHANGED <<intent, adoption, assigned, checkouts, planner, git>>

\* current_feature_checkout, and Git finds a worktree at its path.
Current(p) ==
  LET c == assigned[caller[p].of]
  IN  /\ At(p, "current")
      /\ Step(p)
      /\ IF c # None /\ checkouts[c] = "available" /\ worktree[c] # "gone"
           THEN Found(p, c, "reuse") ELSE Goto(p, "intent")
      /\ UNCHANGED <<rows, git>>

\* record_reuse: an intent that is there is left as it is.
RecordReuse(p) ==
  /\ At(p, "reuse")
  /\ Step(p)
  /\ intent' = [intent EXCEPT ![caller[p].of] = IF @ = "absent" THEN "completed" ELSE @]
  /\ Goto(p, "mark")
  /\ UNCHANGED <<creation, adoption, assigned, checkouts, planner, git>>

\* ensure_pending_intent, under the same key with the same request.
EnsureIntent(p) ==
  /\ At(p, "intent")
  /\ Step(p)
  /\ intent' = [intent EXCEPT ![caller[p].of] = IF @ = "absent" THEN "pending" ELSE @]
  /\ Goto(p, "look")
  /\ UNCHANGED <<creation, adoption, assigned, checkouts, planner, git>>

\* Mistake: what an earlier command has left at the place is not looked at.
LookNowhere(p) ==
  /\ At(p, "look")
  /\ Step(p)
  /\ Goto(p, "add")
  /\ UNCHANGED <<rows, git>>

\* Whether a directory is at the place.
Look(p) ==
  /\ At(p, "look")
  /\ Step(p)
  /\ Goto(p, IF worktree[Place(caller[p].of)] = "gone" THEN "add" ELSE "resolve")
  /\ UNCHANGED <<rows, git>>

\* recreate: "git worktree add -b" makes the worktree and its branch, or neither.
Add(p) ==
  LET c == Place(caller[p].of)
  IN  /\ At(p, "add")
      /\ Step(p)
      /\ \/ /\ worktree[c] = "gone" /\ c \notin branches
            /\ worktree' = [worktree EXCEPT ![c] = "own"]
            /\ branches' = branches \cup {c}
            /\ Found(p, c, "persist")
         \/ /\ worktree[c] # "gone" \/ c \in branches
            /\ Goto(p, "failed")
            /\ UNCHANGED git
      /\ UNCHANGED rows

\* The worktree that is there must be on the branch that was asked for.
Resolve(p) ==
  LET c == Place(caller[p].of)
  IN  /\ At(p, "resolve")
      /\ Step(p)
      /\ IF worktree[c] = "own" THEN Found(p, c, "persist") ELSE Goto(p, "failed")
      /\ UNCHANGED <<rows, git>>

\* persist_checkout.
Persist(p) ==
  LET f == caller[p].of
  IN  /\ At(p, "persist")
      /\ Step(p)
      /\ checkouts' = [checkouts EXCEPT ![caller[p].found] = "available"]
      /\ assigned' = [assigned EXCEPT ![f] = caller[p].found]
      /\ intent' = [intent EXCEPT ![f] = "completed"]
      /\ Goto(p, "mark")
      /\ UNCHANGED <<creation, adoption, planner, git>>

\* mark_launch_pending, of the checkout the Feature has.
MarkLaunchPending(p) ==
  LET f == caller[p].of
  IN  /\ At(p, "mark")
      /\ Step(p)
      /\ \/ creation[f] = "planning_launch_pending" /\ Goto(p, "begin") /\ UNCHANGED creation
         \/ /\ creation[f] = "worktree_pending" /\ assigned[f] = caller[p].found
            /\ creation' = [creation EXCEPT ![f] = "planning_launch_pending"]
            /\ Goto(p, "begin")
         \/ /\ creation[f] = "worktree_pending" /\ assigned[f] # caller[p].found
            /\ Goto(p, "failed")
            /\ UNCHANGED creation
      /\ UNCHANGED <<intent, adoption, assigned, checkouts, planner, git>>

\* The reads of begin: the Feature still has the checkout, which is available, and
\* the key of its launch is unused.
Begin(p) ==
  LET f == caller[p].of
  IN  /\ At(p, "begin")
      /\ Step(p)
      /\ IF /\ assigned[f] = caller[p].found
            /\ checkouts[caller[p].found] = "available"
            /\ planner[f] = None
           THEN Goto(p, "insert") ELSE Goto(p, "failed")
      /\ UNCHANGED <<rows, git>>

\* insert_launch_intent, whose key is unique.
Insert(p) ==
  LET f == caller[p].of
  IN  /\ At(p, "insert")
      /\ Step(p)
      /\ \/ planner[f] = None /\ planner' = [planner EXCEPT ![f] = caller[p].found] /\ Return(p)
         \/ planner[f] # None /\ Goto(p, "failed") /\ UNCHANGED planner
      /\ UNCHANGED <<creation, intent, adoption, assigned, checkouts, git>>

\* The command tells the error and exits.
Fail(p) ==
  /\ At(p, "failed")
  /\ Step(p)
  /\ Return(p)
  /\ UNCHANGED <<rows, git>>

-----------------------------------------------------------------------------
(* Adoption and the checkout of the repository.                            *)

\* The reads of adopt_feature_checkout: a checkout that is available, under a key that
\* is new or was of the same adoption, which is then answered and not done again.
ReadAdoption(p, k, f, c) ==
  /\ creation[f] # "absent" /\ checkouts[c] = "available"
  /\ k \notin adoption
  /\ Start(p, [pc |-> "adopt", of |-> f, key |-> k, found |-> c])
  /\ alone' = {}
  /\ UNCHANGED <<rows, git>>

\* The intent and the assignment, in one transaction.
Adopt(p) ==
  LET k == caller[p].key
  IN  /\ At(p, "adopt")
      /\ Step(p)
      /\ \/ /\ k \notin adoption
            /\ adoption' = adoption \cup {k}
            /\ assigned' = [assigned EXCEPT ![caller[p].of] = caller[p].found]
         \/ k \in adoption /\ UNCHANGED <<adoption, assigned>>
      /\ Return(p)
      /\ UNCHANGED <<creation, intent, checkouts, planner, git>>

\* ensure_repository_checkout, of "epic continue" and "plan".
EnsureRepositoryCheckout ==
  /\ checkouts[Main] # "available"
  /\ checkouts' = [checkouts EXCEPT ![Main] = "available"]
  /\ alone' = {}
  /\ UNCHANGED <<creation, intent, adoption, assigned, planner, git, caller, creations,
                 disturbances, faults>>

\* reconcile_registered_checkout records whether the worktree of a checkout is there.
Reconcile(c) ==
  /\ checkouts[c] # "unknown"
  /\ checkouts' = [checkouts EXCEPT ![c] = IF worktree[c] = "gone" THEN "missing" ELSE "available"]
  /\ checkouts' # checkouts
  /\ alone' = {}
  /\ UNCHANGED <<creation, intent, adoption, assigned, planner, git, caller, creations,
                 disturbances, faults>>

-----------------------------------------------------------------------------
(* What happens around the commands.                                       *)

\* Somebody removes the directory, puts a worktree back, switches its branch, or
\* deletes a branch that no worktree has.
Disturb(s) ==
  /\ disturbances < MaxDisturbances /\ disturbances' = disturbances + 1
  /\ \/ \E there \in {"own", "gone", "other"} :
          /\ s \in branches \/ there = "other"
          /\ there # worktree[s]
          /\ worktree' = [worktree EXCEPT ![s] = there]
          /\ UNCHANGED branches
     \/ /\ worktree[s] # "own" /\ s \in branches
        /\ branches' = branches \ {s}
        /\ UNCHANGED worktree
  /\ alone' = {}
  /\ UNCHANGED <<rows, caller, creations, faults>>

Crash(p) ==
  /\ ~At(p, "idle")
  /\ faults < MaxFaults /\ faults' = faults + 1
  /\ Return(p)
  /\ alone' = {}
  /\ UNCHANGED <<rows, git, creations, disturbances>>

Next ==
  \/ \E p \in Callers :
       \/ \E f \in Pairs : Create(p, f)
       \/ Current(p) \/ RecordReuse(p) \/ EnsureIntent(p) \/ Look(p) \/ Add(p) \/ Resolve(p)
       \/ Persist(p) \/ MarkLaunchPending(p) \/ Begin(p) \/ Insert(p) \/ Fail(p)
       \/ \E k \in AdoptionKeys, f \in Pairs, c \in Places : ReadAdoption(p, k, f, c)
       \/ Adopt(p) \/ Crash(p)
  \/ EnsureRepositoryCheckout
  \/ \E c \in Places : Reconcile(c)
  \/ \E s \in Slugs : Disturb(s)

Spec == Init /\ [][Next]_checkoutVars

-----------------------------------------------------------------------------
(* Properties.                                                             *)

\* What the rows of a Feature tell of its creation goes together, wherever commands
\* crashed: a planner has a Feature that waits for it, such a Feature a checkout that
\* is registered and an intent, and an intent that is completed a checkout.
CreationsAreWhole ==
  \A f \in Pairs :
    /\ planner[f] # None => creation[f] = "planning_launch_pending"
    /\ creation[f] = "planning_launch_pending" => assigned[f] # None /\ intent[f] # "absent"
    /\ intent[f] = "completed" => assigned[f] # None
    /\ assigned[f] # None => creation[f] # "absent" /\ checkouts[assigned[f]] # "unknown"

\* From whatever earlier commands, crashes, people and adoptions have left, a creation
\* that begins in order and acts alone does not fail.
AloneSucceeds == \A p \in alone : ~At(p, "failed")

\* Two Features never work in one checkout by themselves.  Checked by hand and
\* violated: Features of one slug in two Epics have one worktree path and one branch,
\* and the second takes the worktree of the first as what it left there itself.
NotShared ==
  adoption = {} =>
    \A f, g \in Pairs : f # g /\ assigned[f] # None => assigned[f] # assigned[g]

\* An intent that is pending belongs to a preparation that is not over.  Checked by
\* hand and violated: a repeated preparation that finds a checkout leaves it pending.
PendingIsUnfinished ==
  \A f \in Pairs : creation[f] = "planning_launch_pending" => intent[f] # "pending"
=============================================================================
