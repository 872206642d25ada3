-------------------------- MODULE MembershipWatcher --------------------------
(***************************************************************************)
(* raft/membership.rs: a watcher that polls a MembershipSource and brings  *)
(* the cluster's voters to what it says.  reconcile_once reads the source  *)
(* and the node's metrics once, then makes one call to openraft after      *)
(* another on what it read, each of which may fail.                        *)
(***************************************************************************)
EXTENDS RaftCluster

CONSTANT Handle       \* the node whose Raft handle the watcher was given

ASSUME HandleAssumption == Handle \in Nodes

VARIABLES
    source,     \* the desired members, then the edits still to come
    unread,     \* how many more reads may fail: a file missing or half written
    watcher

watcherVars == <<source, unread, watcher>>

\* One poll: what was read and is still to do, and how far reconcile_once has come.
\* `index` is that of the entry it waits for.
Watcher == [at : {"sleep", "add_learner", "learner_wait", "change", "joint_wait", "uniform_wait", "returned"},
            joining : SUBSET Nodes, leaving : SUBSET Nodes, learned : SUBSET Nodes, index : 0..MaxLog]

Asleep == [at |-> "sleep", joining |-> {}, leaving |-> {}, learned |-> {}, index |-> 0]

WatcherInit(desired, failures) ==
    /\ source = desired
    /\ unread = failures
    /\ watcher = Asleep

members == Head(source)

\* Someone edits the file.
Edit ==
    /\ Len(source) > 1
    /\ source' = Tail(source)
    /\ UNCHANGED <<clusterVars, unread, watcher>>

\* run logs an error and polls again.
Fails == watcher' = Asleep

\* The poll interval has passed: members fails, or is compared with the voters.  If
\* they are the same, the poll changes nothing.
Unreadable ==
    /\ watcher.at = "sleep"
    /\ unread > 0
    /\ unread' = unread - 1
    /\ Fails
    /\ UNCHANGED <<clusterVars, source>>

Leaving_NotJoining(desired) == voter_ids(Handle) \ (desired \ voter_ids(Handle))
Leaving(desired) == voter_ids(Handle) \ desired
Compare ==
    LET joining == members \ voter_ids(Handle)
        leaving == Leaving(members)
    IN /\ watcher.at = "sleep"
       /\ joining \cup leaving # {}
       /\ watcher' = [Asleep EXCEPT !.joining = joining, !.leaving = leaving,
                        !.at = IF joining # {} THEN "add_learner" ELSE "change"]
       /\ UNCHANGED <<clusterVars, source, unread>>

\* openraft takes a membership change on the leader, once the one before is committed.
CanChange == leading[Handle] # {} /\ \A i \in DOMAIN store[Handle].log :
                store[Handle].log[i].payload.is = "Membership" => i <= commit[Handle]

\* The change is proposed and waited for.
Change(payload, next) ==
    /\ LeaderAppends(Handle, payload)
    /\ watcher' = [watcher EXCEPT !.at = next, !.index = LastLog(Handle).index + 1]

\* The change has been committed and applied, or the node no longer leads.
Changed == leading[Handle] # {} /\ LastApplied(Handle) >= watcher.index
Deposed == leading[Handle] = {}

Refused ==
    /\ \/ watcher.at \in {"add_learner", "change"} /\ ~CanChange
       \/ watcher.at \in {"learner_wait", "joint_wait", "uniform_wait"} /\ Deposed
    /\ Fails
    /\ UNCHANGED <<clusterVars, source, unread>>

\* add_learner, for each joining node in turn.  It returns when the learner lags by no
\* more than openraft's replication_lag_threshold, by default far more than MaxLog
\* entries: as soon as it is a learner, whatever its log has.
ToLearn == watcher.joining \ watcher.learned
Learner == Min(ToLearn)

add_learner ==
    /\ watcher.at = "add_learner" /\ CanChange
    /\ Change([membership_config(Handle) EXCEPT !.learners = @ \cup ({Learner} \ voter_ids(Handle))],
              "learner_wait")
    /\ UNCHANGED <<source, unread>>

LearnerAdded ==
    /\ watcher.at = "learner_wait" /\ Changed
    /\ watcher' = [watcher EXCEPT !.learned = @ \cup {Learner},
                                  !.at = IF ToLearn = {Learner} THEN "change" ELSE "add_learner"]
    /\ UNCHANGED <<clusterVars, source, unread>>

\* The membership openraft moves to on the way to `goal`: a joint one, or `goal` itself
\* if that is part of the present one.  With `retain`, a removed voter stays a learner.
NextCoherent(goal, retain) ==
    LET now == membership_config(Handle)
        configs == IF goal \in Range(now.configs) THEN <<goal>> ELSE <<Last(now.configs), goal>>
        nodes == now.learners \cup goal \cup IF retain THEN voter_ids(Handle) ELSE {}
    IN Membership(configs, nodes \ UNION Range(configs))

\* Joining nodes are promoted before leaving ones are removed.
Goal == IF watcher.joining # {} THEN Last(membership_config(Handle).configs) \cup watcher.joining
        ELSE Last(membership_config(Handle).configs) \ watcher.leaving

change_membership ==
    /\ watcher.at = "change" /\ CanChange
    /\ Goal # {}
    /\ LET next == NextCoherent(Goal, watcher.joining # {})
       IN Change(next, IF Len(next.configs) = 2 THEN "joint_wait" ELSE "uniform_wait")
    /\ UNCHANGED <<source, unread>>

\* openraft does not take a change that would leave no voter.
EmptyMembership ==
    /\ watcher.at = "change" /\ CanChange
    /\ Goal = {}
    /\ Fails
    /\ UNCHANGED <<clusterVars, source, unread>>

\* From the joint configuration to the last of its two.
LeaveJoint ==
    /\ watcher.at = "joint_wait" /\ Changed
    /\ Change(NextCoherent(Last(membership_config(Handle).configs), watcher.joining # {}), "uniform_wait")
    /\ UNCHANGED <<source, unread>>

\* The voters have been added, and those to remove are next; or all is done.
ChangeDone ==
    /\ watcher.at = "uniform_wait" /\ Changed
    /\ watcher' = IF watcher.joining # {} /\ watcher.leaving # {}
                  THEN [Asleep EXCEPT !.at = "change", !.leaving = watcher.leaving] ELSE Asleep
    /\ UNCHANGED <<clusterVars, source, unread>>

\* The shutdown signal ends run between two polls.
Stop ==
    /\ watcher.at = "sleep"
    /\ watcher' = [watcher EXCEPT !.at = "returned"]
    /\ UNCHANGED <<clusterVars, source, unread>>

\* What the watcher does by itself.
Reconcile ==
    \/ Unreadable \/ Compare \/ Refused \/ add_learner \/ LearnerAdded
    \/ change_membership \/ EmptyMembership \/ LeaveJoint \/ ChangeDone

=============================================================================
