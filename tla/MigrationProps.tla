---------------------------- MODULE MigrationProps ----------------------------
(* Correctness of the migration of one agent (AgentMigration). *)
EXTENDS AgentMigration

States == {"IDLE", "GETCODE_WAIT", "GETCODE_FAIL", "GETCODE_SUCCESS", "NOTIFY", "NOTIFY_FAIL", "NOTIFY_SUCCESS",
           "SUSPEND_SUCCESS", "FLUSH", "FLUSH_FAIL", "FLUSH_SUCCESS", "DOIT", "DOIT_WAIT", "DOIT_STATUS",
           "DOIT_ACK", "DOIT_FAIL", "DOIT_SUCCESS"}
Kinds == {"getCodeReq", "getCodeRep", "notify", "notifyAck", "migReq", "state", "migReply", "done", "ack", "nack",
          "failed"}

(* The values the variables may take. *)
TypeOK == /\ src \in [state : States, seqno : 0..Attempts, pings : 0..Pings, acks : 0..2,
                      flush : SUBSET {"parent", "child"}, timer : {"off", "now", "armed"},
                      task : BOOLEAN, kids : BOOLEAN]
          /\ here \in {"running", "suspending", "suspended", "gone"}
          /\ tgt \in [busy : BOOLEAN, fetching : BOOLEAN, asked : 0..Attempts, typed : BOOLEAN, slot : BOOLEAN,
                      reqSeq : 0..Attempts, hostSeq : 0..Attempts,
                      agents : Nat, runtime : {"none", "still", "running"}, kids : BOOLEAN]
          /\ parent \in [cmig : BOOLEAN, host : Hosts]
          /\ child \in [pmig : BOOLEAN, phost : Hosts]
          /\ DOMAIN net = Links
          /\ \A l \in Links : \A i \in DOMAIN net[l] : net[l][i] \in [kind : Kinds, seq : 0..Attempts, flag : BOOLEAN]
          /\ link \in {"up", "reset", "due"}
          /\ begun \in 0..Attempts
          /\ lost \in 0..MaxLost
          /\ mishaps \subseteq Mishaps

(* None of the events M has happened. *)
Spared(M) == mishaps \cap M = {}

(* The source lets go of the agent only when the target has it, with its state: whatever is refused, fails, *)
(* is lost or is tried again.  Four races lose the agent (each alone is enough): an acceptance is believed   *)
(* after its hand-over was given up (27439), the target's thirty seconds end before the parent has judged    *)
(* (27717), the report of an earlier migration uses up the notification of a later one, and a suspension     *)
(* that had failed ends in a later migration.                                                                *)
AgentSurvives == Spared({"lateReply", "dropped", "lateStop", "oldReport"})
                   => (here = "gone" => tgt.agents > 0 /\ tgt.runtime # "none")

(* The agent never runs at both hosts: the parent takes the report of one of them.  Four races double it: *)
(* the source gives a hand-over up while its messages or their answers are on their way (39796), the      *)
(* target loads the state of such a hand-over (27452), and the last two of AgentSurvives.                 *)
OneRuns == Spared({"latePing", "lateLoad", "lateStop", "oldReport"})
             => ~(here \in {"running", "suspending"} /\ tgt.runtime = "running")

(* While its state is on the way to the target the agent stands still: nothing it does is lost. *)
StillWhileMoved == src.task /\ src.state \in {"FLUSH", "DOIT", "DOIT_WAIT", "DOIT_STATUS"} => here = "suspended"

(* When nothing is on its way any more, the agent's parent and child know where it is, and hold back no  *)
(* messages for it; unless one of the six races above has happened, or a notification of the child could *)
(* not be prepared (24545) after the parent's was sent.                                                  *)
Settled == Quiet({}) /\ ~src.task /\ src.state = "IDLE" /\ ~tgt.slot
RelativesAgree ==
  Settled /\ Spared({"lateReply", "latePing", "dropped", "lateLoad", "lateStop", "oldReport", "childUntold"})
    => LET place == IF here = "gone" THEN "target" ELSE "source"
       IN  /\ parent = [cmig |-> FALSE, host |-> place]
           /\ src.kids => child = [pmig |-> FALSE, phost |-> place]

(* Every migration ends, unless its code request was refused and it waits for an answer to nothing (39513). *)
MigrationEnds == src.task ~> (~src.task \/ ~Spared({"unasked"}))

(* The agent runs again, here or there, whatever became of its migrations; unless it was lost, or was left *)
(* suspended by a suspension or a hand-over that failed (39632, 39778).                                    *)
RunsAgain == []<>(\/ here = "running" \/ tgt.runtime = "running"
                  \/ ~Spared({"lateReply", "dropped", "lateStop", "oldReport", "leftStopped"}))

(* The assertions of the target's AgentState handler (codes 68 and 69, "agent index not found"): the *)
(* state of an agent arrives only where a slot and the agent wait for it.                            *)
StateExpected == Receive("source", "target", {"state"}) => tgt.slot /\ tgt.agents > 0
=============================================================================
