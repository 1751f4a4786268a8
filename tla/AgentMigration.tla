--------------------------- MODULE AgentMigration ---------------------------
(***************************************************************************)
(* One agent migrates (PoUAMngrM): the source host, the target host, the   *)
(* host of the agent's parent and the host of the agent's only child.      *)
(* Handlers run on the event thread of their host, so each is one action.  *)
(* The reliable transport keeps the order of messages between two hosts;   *)
(* messages between source and target may be lost, which their sender is   *)
(* told, and the child may become unreachable.                             *)
(***************************************************************************)
EXTENDS Integers, Sequences, FiniteSets

CONSTANTS
  Attempts,      \* bound: migrations MigAlgTimer starts
  MaxLost,       \* bound: failures of the transport
  Pings,         \* pings sent while waiting (2) before giving up
  Refused        \* what may be refused at once: a subset of Refusals

ASSUME BoundsAssumption == Attempts \in Nat /\ MaxLost \in Nat /\ Pings \in Nat \ {0}
(* A message that is refused by sendMsg or by a full list, a node descriptor for the child's host, and *)
(* the suspension of an agent whose timers cannot be read.                                             *)
Refusals == {"getCodeReq", "notify", "childNode", "suspend", "migReq", "state"}
ASSUME RefusedAssumption == Refused \subseteq Refusals

Hosts == {"source", "target", "parent", "child"}
Links == {<<"source", "target">>, <<"target", "source">>, <<"source", "parent">>, <<"parent", "source">>,
          <<"source", "child">>, <<"child", "source">>, <<"target", "parent">>, <<"parent", "target">>,
          <<"target", "child">>}

VARIABLES
  src,     \* the source: mig_state, mig_seqno, mig_ping_cnt, acks and marked messages awaited, timer, task
  here,    \* the agent at the source
  tgt,     \* the target: hostMig..., the slot of mig_data, mig_host_seqno, the agent's descriptors and runtime
  parent,  \* the entry for the agent in its parent's list of children
  child,   \* the child's entry for its parent
  net,     \* net[<<x, y>>]: messages on their way from x to y, the ones queued at x included
  link,    \* source to target: "up", "reset" by the target, "due": a failure will be reported
  begun, lost,    \* counters for the bounds
  mishaps         \* history: what went amiss so far, a subset of Mishaps

vars == <<src, here, tgt, parent, child, net, link, begun, lost, mishaps>>

(* Events of the code that the properties except; no action depends on them.                            *)
(*   lateReply    a positive MigReply is taken while no hand-over waits for it                          *)
(*   latePing     the hand-over's timer spends its last ping, or gives up, with something on its way    *)
(*   dropped      the target's thirty seconds end while its report or the parent's answer is on its way *)
(*   lateLoad     the target loads the agent of a hand-over that was refused or given up                *)
(*   oldReport    the parent is notified while the target's report of an earlier migration is on its way *)
(*   lateStop     an earlier suspension, one that failed, ends during a later migration                 *)
(*   childUntold  the child was not notified, and the source does not wait for its ack                  *)
(*   leftStopped  a suspension, or the hand-over's messages, failed, and the agent is not resumed       *)
(*   unasked      the code request was refused, and the task waits for an answer to it                  *)
Mishaps == {"lateReply", "latePing", "dropped", "lateLoad", "oldReport", "lateStop", "childUntold",
            "leftStopped", "unasked"}
Amiss(m, happens) == mishaps' = IF happens THEN mishaps \cup {m} ELSE mishaps

Msg(kind, seq, flag) == [kind |-> kind, seq |-> seq, flag |-> flag]

Init == /\ src = [state |-> "IDLE", seqno |-> 0, pings |-> 0, acks |-> 0, flush |-> {},
                  timer |-> "off", task |-> FALSE, kids |-> TRUE]
        /\ here = "running"
        /\ tgt = [busy |-> FALSE, fetching |-> FALSE, asked |-> 0, typed |-> FALSE, slot |-> FALSE,
                  reqSeq |-> 0, hostSeq |-> 0, agents |-> 0, runtime |-> "none", kids |-> FALSE]
        /\ parent = [cmig |-> FALSE, host |-> "source"]
        /\ child = [pmig |-> FALSE, phost |-> "source"]
        /\ net = [l \in Links |-> <<>>]
        /\ link = "up"
        /\ begun = 0
        /\ lost = 0
        /\ mishaps = {}

-----------------------------------------------------------------------------
(* Messages.  out[y] is what a handler sends to y.  A ping changes nothing where it arrives; *)
(* only its failure matters, so it is not put on its way.                                   *)

Nothing == [y \in Hosts |-> <<>>]
Tell(H, m) == [y \in Hosts |-> IF y \in H THEN <<m>> ELSE <<>>]
Ping == Msg("ping", 0, FALSE)
Posted(ms) == IF ms = <<Ping>> THEN <<>> ELSE ms

Sent(x, n, out) == [l \in Links |-> IF l[1] = x THEN n[l] \o Posted(out[l[2]]) ELSE n[l]]
Receive(x, y, kinds) == net[<<x, y>>] # <<>> /\ Head(net[<<x, y>>]).kind \in kinds
Taken(x, y) == [net EXCEPT ![<<x, y>>] = Tail(@)]

(* Nothing is on its way, but for the links except. *)
Quiet(except) == \A l \in Links \ except : net[l] = <<>>

-----------------------------------------------------------------------------
(* The source: handleMig.  Each operator gives the outcomes of one of its branches for a source s *)
(* and an agent h: the new ones, and what is sent.                                                *)

Outcome(s, h, out) == [src |-> s, here |-> h, out |-> out, amiss |-> {}]
Mishap(m, s, h, out) == [Outcome(s, h, out) EXCEPT !.amiss = {m}]
Relatives(s) == {"parent"} \cup IF s.kids THEN {"child"} ELSE {}

(* Mutant of Failed: only the parent is told. *)
FailedAbove(s) == Tell({"parent"}, Msg("failed", s.seqno, FALSE))
Failed(s) == Tell(Relatives(s), Msg("failed", s.seqno, FALSE))     \* sendMigFailed

(* migFailure takes the task off the list; every caller but one goes to MIG_IDLE. *)
Ended(s) == [s EXCEPT !.state = "IDLE", !.task = FALSE]

(* Mutant of Resumed: the agent is left as it is. *)
NotResumed(h) == h
(* resumeAgent: only an agent that is suspended, not one that is being suspended, is resumed. *)
Resumed(h) == IF h = "suspended" THEN "running" ELSE h

RequestCode(s, h) ==
  {Outcome([s EXCEPT !.state = "GETCODE_WAIT", !.seqno = @ + 1, !.timer = "armed", !.pings = 0], h,
           Tell({"target"}, Msg("getCodeReq", s.seqno + 1, FALSE)))}
  \cup IF "getCodeReq" \in Refused THEN {Mishap("unasked", s, h, Nothing)} ELSE {}

(* Mutant of WaitOn: the pings are not counted against their limit. *)
WaitAlways(s, h, pinged, fail) == {Outcome([s EXCEPT !.pings = @ + 1], h, Tell(pinged, Ping))}
(* Two pings, one each time the timer fires, and then the migration has failed. *)
WaitOn(s, h, pinged, fail) ==
  IF s.pings < Pings
  THEN {Outcome([s EXCEPT !.pings = @ + 1], h, Tell(pinged, Ping))}
  ELSE {Outcome([s EXCEPT !.state = fail], h, Nothing)}

(* Sending the notifications may fail at the first or the second: then the task is gone, the state is not. *)
Notify(s, h) ==
  LET n == [s EXCEPT !.state = "NOTIFY", !.timer = "off"]
      m == Msg("notify", s.seqno, FALSE)
  IN  {Outcome([n EXCEPT !.timer = "armed", !.pings = 0, !.acks = Cardinality(Relatives(s))], h,
               Tell(Relatives(s), m))}
      \cup (IF "notify" \in Refused THEN {Outcome([n EXCEPT !.task = FALSE, !.acks = 1], h, Nothing)} ELSE {})
      \cup (IF s.kids /\ "notify" \in Refused
            THEN {Outcome([n EXCEPT !.task = FALSE, !.acks = 2], h, Tell({"parent"}, m))} ELSE {})
      \cup (IF s.kids /\ "childNode" \in Refused
            THEN {Mishap("childUntold", [n EXCEPT !.task = FALSE, !.acks = 1], h, Tell({"parent"}, m))} ELSE {})

(* Mutant of Suspend: the agent's events are not waited for. *)
SuspendAtOnce(s, h) == {Outcome([s EXCEPT !.state = "SUSPEND_SUCCESS", !.timer = "now"], "suspending", Nothing)}
(* suspendAgent; suspendDone comes when the agent's events are done, also when the agent's timers could *)
(* not be read: then the migration ends, and nothing resumes the agent.                                 *)
Suspend(s, h) ==
  {Outcome([s EXCEPT !.timer = "off"], "suspending", Nothing)}
  \cup IF "suspend" \in Refused
       THEN {Mishap("leftStopped", [Ended(s) EXCEPT !.timer = "off"], "suspending", Failed(s))} ELSE {}

(* A pending creation request of the agent ends the migration; otherwise the messages of the agent *)
(* that are queued for relatives are marked, and have to be out before the agent is.               *)
Flush(s, h) ==
  {Outcome(Ended(s), Resumed(h), Failed(s))}
  \cup {Outcome([s EXCEPT !.state = IF F = {} THEN "DOIT" ELSE "FLUSH",
                          !.timer = IF F = {} THEN "now" ELSE @, !.flush = F], h, Nothing) :
         F \in SUBSET Relatives(s)}

(* The agent's state goes to the target.  If it cannot be saved the migration ends, and the agent is *)
(* sent all the same; if the request or the state is refused, the agent is not resumed.              *)
HandOver(s, h) ==
  LET transfer == <<Msg("migReq", s.seqno, FALSE), Msg("state", s.seqno, s.kids)>>
      given(s1) == [s1 EXCEPT !.timer = "armed", !.pings = 0]
  IN  IF h # "suspended"
      THEN {Outcome(given(Ended(s)), h, [Failed(s) EXCEPT !["target"] = transfer])}
      ELSE {Outcome(given([s EXCEPT !.state = "DOIT_WAIT"]), h, [Nothing EXCEPT !["target"] = transfer])}
           \cup {Mishap("leftStopped", Ended(s), h, [Failed(s) EXCEPT !["target"] = SubSeq(transfer, 1, k)]) :
                   k \in {i \in 0..1 : transfer[i + 1].kind \in Refused}}

HandleMig(s, h) ==
  IF ~s.task THEN {Outcome(s, h, Nothing)}
  ELSE CASE s.state = "IDLE" -> RequestCode(s, h)
         [] s.state = "GETCODE_WAIT" -> WaitOn(s, h, {"target"}, "GETCODE_FAIL")
         [] s.state = "GETCODE_FAIL" -> {Outcome([Ended(s) EXCEPT !.timer = "off"], h, Nothing)}
         [] s.state = "GETCODE_SUCCESS" -> Notify(s, h)
         [] s.state = "NOTIFY" -> WaitOn(s, h, Relatives(s), "NOTIFY_FAIL")
         [] s.state = "NOTIFY_FAIL" -> {Outcome([Ended(s) EXCEPT !.timer = "off"], h, Failed(s))}
         [] s.state = "NOTIFY_SUCCESS" -> Suspend(s, h)
         [] s.state = "SUSPEND_SUCCESS" -> Flush(s, h)
         [] s.state = "FLUSH_FAIL" -> {Outcome([Ended(s) EXCEPT !.flush = {}], Resumed(h), Failed(s))}
         [] s.state \in {"FLUSH_SUCCESS", "DOIT"} -> HandOver(s, h)
         [] s.state = "DOIT_WAIT" -> WaitOn(s, h, {"target"}, "DOIT_FAIL")
         [] s.state = "DOIT_STATUS" -> {Outcome(s, h, Tell({"parent"}, Msg("done", s.seqno, FALSE)))}
         [] s.state = "DOIT_ACK" ->
              {Outcome(Ended(s), Resumed(h), Tell(Relatives(s) \ {"parent"}, Msg("done", s.seqno, FALSE)))}
         [] s.state = "DOIT_FAIL" -> {Outcome(Ended(s), Resumed(h), Failed(s))}
         [] OTHER -> {Outcome(Ended(s), "gone", Nothing)}     \* FLUSH and DOIT_SUCCESS

(* handleMig runs at s; n is the network after what led to it, m the mishaps of that. *)
Handled(s, h, n, m) == \E r \in HandleMig(s, h) :
                         /\ src' = r.src
                         /\ here' = r.here
                         /\ net' = Sent("source", n, r.out)
                         /\ link' = IF link = "reset" /\ r.out["target"] # <<>> THEN "due" ELSE link
                         /\ mishaps' = mishaps \cup r.amiss \cup m

-----------------------------------------------------------------------------
(* The source: timers, answers, and what the runtime and the transport report. *)

(* MigAlgTimer fires every ten seconds, and leaves an agent out once after its migration failed. *)
BeginMigration == /\ ~src.task /\ here # "gone" /\ begun < Attempts
                  /\ src' = [src EXCEPT !.task = TRUE, !.timer = "now"]
                  /\ begun' = begun + 1
                  /\ UNCHANGED <<here, tgt, parent, child, net, link, lost, mishaps>>

(* Mutant of Fired: the timer is not armed again. *)
FiredOnce(s) == [s EXCEPT !.timer = "off"]
(* What the timer does before it calls handleMig. *)
Fired(s) ==
  CASE s.state \in {"GETCODE_WAIT", "DOIT_WAIT"} -> [s EXCEPT !.timer = "armed"]
    [] s.state = "NOTIFY" /\ s.acks # 0 -> [s EXCEPT !.timer = "armed"]
    [] s.state = "NOTIFY" /\ s.acks = 0 -> [s EXCEPT !.timer = "off", !.state = "NOTIFY_SUCCESS"]
    [] OTHER -> [s EXCEPT !.timer = "off"]

MigTimerFired == /\ src.timer # "off"
                 /\ LET late == /\ src.timer = "armed" /\ src.task /\ src.state = "DOIT_WAIT" /\ src.pings >= Pings - 1
                                /\ ~Quiet({}) \/ link = "due"
                    IN  Handled(Fired(src), here, net, IF late THEN {"latePing"} ELSE {})
                 /\ UNCHANGED <<tgt, parent, child, begun, lost>>

(* The state an answer leads to; the same state if the answer is not the one waited for. *)
Answered(s, m) ==
  LET current == m.seq = s.seqno
  IN  CASE m.kind = "getCodeRep" /\ current /\ s.state = "GETCODE_WAIT" ->
             [s EXCEPT !.state = IF m.flag THEN "GETCODE_SUCCESS" ELSE "GETCODE_FAIL"]
        [] m.kind = "notifyAck" /\ current /\ s.state = "NOTIFY" ->
             [s EXCEPT !.state = IF ~m.flag THEN "NOTIFY_FAIL" ELSE IF s.acks = 1 THEN "NOTIFY_SUCCESS" ELSE @,
                       !.acks = IF m.flag THEN @ - 1 ELSE @]
        [] m.kind = "migReply" -> [s EXCEPT !.state = IF m.flag THEN "DOIT_SUCCESS" ELSE "DOIT_FAIL"]
        [] m.kind = "ack" /\ s.task /\ current /\ s.state = "DOIT_STATUS" -> [s EXCEPT !.state = "DOIT_ACK"]
        [] m.kind = "nack" /\ s.task /\ current /\ s.state = "DOIT_STATUS" -> [s EXCEPT !.state = "DOIT_SUCCESS"]
        [] OTHER -> s

(* A MigReply is believed in any state; the other answers lead to handleMig when they change the state. *)
SourceReceives(x) ==
  /\ Receive(x, "source", {"getCodeRep", "notifyAck", "migReply", "ack", "nack"})
  /\ LET m == Head(net[<<x, "source">>])
         s == Answered(src, m)
         late == m.kind = "migReply" /\ m.flag /\ ~(src.task /\ src.state = "DOIT_WAIT")
     IN  IF s.state # src.state \/ m.kind = "migReply"
         THEN Handled(s, here, Taken(x, "source"), IF late THEN {"lateReply"} ELSE {})
         ELSE src' = s /\ net' = Taken(x, "source") /\ UNCHANGED <<here, link, mishaps>>
  /\ UNCHANGED <<tgt, parent, child, begun, lost>>

SuspendDone == /\ here = "suspending"
               /\ LET late == src.state # "NOTIFY_SUCCESS" \/ src.timer # "off"
                  IN  IF src.task THEN Handled([src EXCEPT !.state = "SUSPEND_SUCCESS"], "suspended", net,
                                               IF late THEN {"lateStop"} ELSE {})
                                  ELSE here' = "suspended" /\ UNCHANGED <<src, net, link, mishaps>>
               /\ UNCHANGED <<tgt, parent, child, begun, lost>>

(* The marked messages for h are out. *)
Flushed(h) == /\ h \in src.flush
              /\ h = "child" => src.kids
              /\ LET s == [src EXCEPT !.flush = @ \ {h}]
                 IN  IF s.flush = {} THEN Handled([s EXCEPT !.state = "FLUSH_SUCCESS"], here, net, {})
                                     ELSE src' = s /\ UNCHANGED <<here, net, link, mishaps>>
              /\ UNCHANGED <<tgt, parent, child, begun, lost>>

(* The transport gives up the target: what is on its way is lost, and what was received may not have been *)
(* acknowledged.  One message at a time is with the transport: as long as agent state is queued behind    *)
(* the one that failed, the target cannot have the agent.                                                 *)
GivenUp(s, n) ==
  LET kinds == {n[i].kind : i \in DOMAIN n}
  IN  CASE s.state = "GETCODE_WAIT" -> {"GETCODE_FAIL"}
        [] s.state = "DOIT_WAIT" -> {st \in {"DOIT_STATUS", "DOIT_FAIL"} :
                                       IF st = "DOIT_STATUS" THEN "migReq" \notin kinds ELSE "state" \in kinds}
        [] OTHER -> {s.state}

SendFails ==
  /\ link = "due" \/ (link = "up" /\ lost < MaxLost)
  /\ LET n == [net EXCEPT ![<<"source", "target">>] = <<>>]
     IN  \E st \in GivenUp(src, net[<<"source", "target">>]) :
           IF src.task /\ st # src.state
           THEN \E r \in HandleMig([src EXCEPT !.state = st], here) :
                  /\ src' = r.src /\ here' = r.here
                  /\ net' = Sent("source", n, r.out)
                  /\ mishaps' = mishaps \cup r.amiss
           ELSE net' = n /\ UNCHANGED <<src, here, mishaps>>
  /\ link' = "up"
  /\ lost' = IF link = "up" THEN lost + 1 ELSE lost
  /\ UNCHANGED <<tgt, parent, child, begun>>

(* The target gives up the source: its answers are lost, and the source will be told that it reset. *)
LoseAnswer == /\ net[<<"target", "source">>] # <<>> /\ lost < MaxLost
              /\ net' = [net EXCEPT ![<<"target", "source">>] = <<>>]
              /\ link' = "reset"
              /\ lost' = lost + 1
              /\ UNCHANGED <<src, here, tgt, parent, child, begun, mishaps>>

(* The source gives up the child: a migration that needs it fails, and the child is taken off the agent's list. *)
ChildUnreachable ==
  /\ src.kids /\ here # "gone" /\ lost < MaxLost
  /\ \E r \in HandleMig([src EXCEPT !.state = CASE @ = "NOTIFY" -> "NOTIFY_FAIL" [] @ = "FLUSH" -> "FLUSH_FAIL" [] OTHER -> @], here) :
       LET needed == src.task /\ src.state \in {"NOTIFY", "FLUSH"}
       IN  /\ src' = [IF needed THEN r.src ELSE src EXCEPT !.kids = FALSE]
           /\ here' = IF needed THEN r.here ELSE here
           /\ net' = [IF needed THEN Sent("source", net, r.out) ELSE net EXCEPT ![<<"source", "child">>] = <<>>]
  /\ lost' = lost + 1
  /\ UNCHANGED <<tgt, parent, child, link, begun, mishaps>>

-----------------------------------------------------------------------------
(* The target. *)

SourceKeeps == UNCHANGED <<src, here, parent, child, link, begun, lost>>
TargetKeeps == SourceKeeps /\ UNCHANGED mishaps

(* The seqno to answer with is replaced before the request is found to come at a bad time.  A request   *)
(* the node cannot serve (it is the pill, or lacks resources) is refused, and no other is served again. *)
TargetGetCode ==
  /\ Receive("source", "target", {"getCodeReq"})
  /\ LET m == Head(net[<<"source", "target">>])
         n == Taken("source", "target")
         refused == Sent("target", n, Tell({"source"}, Msg("getCodeRep", m.seq, FALSE)))
     IN  \/ /\ tgt.busy
            /\ tgt' = [tgt EXCEPT !.asked = m.seq]
            /\ net' = refused
         \/ /\ ~tgt.busy
            /\ tgt' = [tgt EXCEPT !.asked = m.seq, !.busy = TRUE]
            /\ net' = refused
         \/ /\ ~tgt.busy
            /\ tgt' = [tgt EXCEPT !.asked = m.seq, !.busy = TRUE, !.fetching = TRUE, !.typed = @ \/ ~tgt.slot]
            /\ net' = n
  /\ TargetKeeps

(* The settings were checked and the code was looked for. *)
CodeFetched == /\ tgt.fetching
               /\ tgt' = [tgt EXCEPT !.busy = FALSE, !.fetching = FALSE]
               /\ \E found \in BOOLEAN : net' = Sent("target", net, Tell({"source"}, Msg("getCodeRep", tgt.asked, found)))
               /\ TargetKeeps

(* Mutant of Reply: a refusal reads like an acceptance. *)
ReplyOK(m, seq, ok) == Sent("target", Taken("source", "target"), Tell({"source"}, Msg("migReply", seq, TRUE)))
Reply(m, seq, ok) == Sent("target", Taken("source", "target"), Tell({"source"}, Msg("migReply", seq, ok)))

(* rmvMigAgent removes one descriptor of the agent, if there is one. *)
Fewer(k) == IF k = 0 THEN 0 ELSE k - 1

(* A slot without an agent takes the request.  A descriptor is created, or there is no room for it or for *)
(* what belongs to it: in the latter case the first descriptor of the agent goes.                         *)
TargetMigReq ==
  /\ Receive("source", "target", {"migReq"})
  /\ LET m == Head(net[<<"source", "target">>])
         kept == [tgt EXCEPT !.slot = TRUE, !.reqSeq = m.seq]
     IN  IF tgt.slot \/ ~tgt.typed
         THEN tgt' = tgt /\ net' = Reply(m, m.seq, FALSE)
         ELSE \/ tgt' = [kept EXCEPT !.agents = @ + 1] /\ net' = Taken("source", "target")
              \/ /\ \E k \in {tgt.agents, Fewer(tgt.agents)} : tgt' = [kept EXCEPT !.agents = k]
                 /\ net' = Reply(m, m.seq, FALSE)
  /\ TargetKeeps

(* An agent is loaded only if the runtime does not have it; rmvMigAgent leaves it there. *)
Loads == tgt.runtime = "none"

(* The agent's state: without a slot it is dropped, without a descriptor it is refused. *)
TargetState ==
  /\ Receive("source", "target", {"state"})
  /\ LET m == Head(net[<<"source", "target">>])
     IN  CASE ~tgt.slot -> tgt' = tgt /\ net' = Taken("source", "target")
           [] tgt.slot /\ tgt.agents = 0 -> tgt' = tgt /\ net' = Reply(m, tgt.reqSeq, FALSE)
           [] OTHER ->
                \/ /\ Loads
                   /\ tgt' = [tgt EXCEPT !.runtime = "still", !.kids = m.flag, !.hostSeq = @ + 1]
                   /\ net' = Sent("target", Reply(m, tgt.reqSeq, TRUE),
                                  Tell({"parent"}, Msg("done", tgt.hostSeq + 1, FALSE)))
                \/ tgt' = [tgt EXCEPT !.agents = @ - 1] /\ net' = Reply(m, tgt.reqSeq, FALSE)
  /\ Amiss("lateLoad", /\ tgt'.hostSeq # tgt.hostSeq
                       /\ \/ src.state # "DOIT_WAIT" \/ src.seqno # Head(net[<<"source", "target">>]).seq
                          \/ \E i \in DOMAIN net[<<"target", "source">>] : ~net[<<"target", "source">>][i].flag)
  /\ SourceKeeps

Cleared(t) == [t EXCEPT !.slot = FALSE, !.typed = FALSE]      \* init_mig_data

(* The parent accepted the move, and the agent starts; or the parent knows it elsewhere. *)
TargetJudged ==
  /\ Receive("parent", "target", {"ack", "nack"})
  /\ LET m == Head(net[<<"parent", "target">>])
         n == Taken("parent", "target")
         known == tgt.slot /\ tgt.hostSeq = m.seq /\ tgt.agents > 0
     IN  CASE ~known -> tgt' = tgt /\ net' = n
           [] known /\ m.kind = "ack" ->
                /\ tgt' = Cleared([tgt EXCEPT !.runtime = IF @ = "still" THEN "running" ELSE @])
                /\ net' = Sent("target", n, Tell(IF tgt.kids THEN {"child"} ELSE {}, Msg("done", tgt.hostSeq, FALSE)))
           [] OTHER -> tgt' = Cleared([tgt EXCEPT !.agents = @ - 1]) /\ net' = n
  /\ TargetKeeps

(* MigReqHostTimer: thirty seconds after the request, or after the state, the agent is dropped. *)
Reap == /\ tgt.slot
        /\ tgt' = Cleared([tgt EXCEPT !.agents = Fewer(@)])
        /\ net' = net
        /\ Amiss("dropped", net[<<"target", "parent">>] # <<>> \/ net[<<"parent", "target">>] # <<>>)
        /\ SourceKeeps

-----------------------------------------------------------------------------
(* The hosts of the parent and of the child. *)

RelativesKeep == UNCHANGED <<src, here, tgt, link, begun, lost, mishaps>>

(* The parent refuses when it is itself about to migrate. *)
ParentNotified ==
  /\ Receive("source", "parent", {"notify"})
  /\ \E ok \in BOOLEAN :
       /\ parent' = IF ok THEN [parent EXCEPT !.cmig = TRUE] ELSE parent
       /\ net' = Sent("parent", Taken("source", "parent"),
                      Tell({"source"}, Msg("notifyAck", Head(net[<<"source", "parent">>]).seq, ok)))
  /\ Amiss("oldReport", net[<<"target", "parent">>] # <<>>)
  /\ UNCHANGED <<src, here, tgt, link, begun, lost, child>>

(* Mutant of Moved: the parent goes on believing that its child migrates. *)
MovedAgain(x) == [parent EXCEPT !.host = x]
(* The first host that reports the child there has it. *)
Moved(x) == [parent EXCEPT !.host = x, !.cmig = FALSE]

ParentDone(x) ==
  /\ Receive(x, "parent", {"done"})
  /\ LET answer(kind) == Sent("parent", Taken(x, "parent"), Tell({x}, Msg(kind, Head(net[<<x, "parent">>]).seq, FALSE)))
     IN  IF parent.cmig THEN parent' = Moved(x) /\ net' = answer("ack")
                        ELSE parent' = parent /\ net' = answer("nack")
  /\ UNCHANGED child /\ RelativesKeep

ParentFailed == /\ Receive("source", "parent", {"failed"})
                /\ parent' = [parent EXCEPT !.cmig = FALSE]
                /\ net' = Taken("source", "parent")
                /\ UNCHANGED child /\ RelativesKeep

ChildNotified == /\ Receive("source", "child", {"notify"})
                 /\ child' = [child EXCEPT !.pmig = TRUE]
                 /\ net' = Sent("child", Taken("source", "child"),
                                Tell({"source"}, Msg("notifyAck", Head(net[<<"source", "child">>]).seq, TRUE)))
                 /\ UNCHANGED parent /\ RelativesKeep

ChildDone(x) == /\ Receive(x, "child", {"done"})
                /\ child' = IF child.pmig THEN [pmig |-> FALSE, phost |-> x] ELSE child
                /\ net' = Taken(x, "child")
                /\ UNCHANGED parent /\ RelativesKeep

ChildFailed == /\ Receive("source", "child", {"failed"})
               /\ child' = [child EXCEPT !.pmig = FALSE]
               /\ net' = Taken("source", "child")
               /\ UNCHANGED parent /\ RelativesKeep

-----------------------------------------------------------------------------
Answering == \E x \in {"target", "parent", "child"} : SourceReceives(x)
Flushing == \E h \in {"parent", "child"} : Flushed(h)
ParentTold == \E x \in {"source", "target"} : ParentDone(x)
ChildTold == \E x \in {"source", "target"} : ChildDone(x)

Next == \/ BeginMigration \/ MigTimerFired \/ Answering \/ SuspendDone \/ Flushing
        \/ SendFails \/ LoseAnswer \/ ChildUnreachable
        \/ TargetGetCode \/ CodeFetched \/ TargetMigReq \/ TargetState \/ TargetJudged \/ Reap
        \/ ParentNotified \/ ParentTold \/ ParentFailed
        \/ ChildNotified \/ ChildTold \/ ChildFailed

(* Timers fire, agents finish their events, queues are flushed, and the messages to and from the parent  *)
(* arrive.  Nothing is assumed of the messages between the source, the target and the child.             *)
Fairness == /\ WF_vars(MigTimerFired) /\ WF_vars(SuspendDone) /\ WF_vars(Flushing)
            /\ WF_vars(ParentNotified \/ ParentFailed \/ ParentDone("source")) /\ WF_vars(ParentDone("target"))
            /\ WF_vars(SourceReceives("parent")) /\ WF_vars(TargetJudged)

Spec == Init /\ [][Next]_vars /\ Fairness

=============================================================================
