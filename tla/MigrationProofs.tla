--------------------------- MODULE MigrationProofs ---------------------------
(* Theorems about the migration of an agent, for any number of attempts and failures, any refusals and  *)
(* messages of any age: what each handler may do, the types, and that the agent stands still while it   *)
(* is moved.                                                                                            *)
EXTENDS MigrationProps, FiniteSetTheorems, SequenceTheorems, TLAPS

-----------------------------------------------------------------------------
(* What handleMig may do. *)

(* The outcome r: a source s, an agent h, what is sent, and what went amiss. *)
Gives(r, M, s, h, out) == r.src = s /\ r.here = h /\ r.out = out /\ r.amiss = M

LEMMA OutcomeFields == \A s, h, out : Gives(Outcome(s, h, out), {}, s, h, out)
  BY DEF Outcome, Gives
LEMMA MishapFields == \A m, s, h, out : Gives(Mishap(m, s, h, out), {m}, s, h, out)
  BY DEF Outcome, Mishap, Gives

(* The source after it has asked for the code, told its relatives, marked their messages, handed over. *)
Requested(s) == [s EXCEPT !.state = "GETCODE_WAIT", !.seqno = @ + 1, !.timer = "armed", !.pings = 0]
Pinged(s) == [s EXCEPT !.pings = @ + 1]
AllTold(s) == [s EXCEPT !.state = "NOTIFY", !.timer = "armed", !.pings = 0, !.acks = Cardinality(Relatives(s))]
PartTold(s, k) == [s EXCEPT !.state = "NOTIFY", !.timer = "off", !.task = FALSE, !.acks = k]
Marked(s, F) == [s EXCEPT !.state = IF F = {} THEN "DOIT" ELSE "FLUSH", !.timer = IF F = {} THEN "now" ELSE @, !.flush = F]
HandedOver(s) == [s EXCEPT !.state = "DOIT_WAIT", !.timer = "armed", !.pings = 0]
GivenAnyway(s) == [Ended(s) EXCEPT !.timer = "armed", !.pings = 0]
TransferOf(s) == <<Msg("migReq", s.seqno, FALSE), Msg("state", s.seqno, s.kids)>>
Handing(out, q) == [out EXCEPT !["target"] = q]
Begun(s) == {<<>>, <<Msg("migReq", s.seqno, FALSE)>>}
Notice(s) == Msg("notify", s.seqno, FALSE)
Done(s) == Msg("done", s.seqno, FALSE)

(* handleMig waits in three of its states. *)
Awaiting == {"GETCODE_WAIT", "NOTIFY", "DOIT_WAIT"}

LEMMA Prefixes == \A x, y : SubSeq(<<x, y>>, 1, 0) = <<>> /\ SubSeq(<<x, y>>, 1, 1) = <<x>>
<1>1. ASSUME NEW S, NEW q \in Seq(S), Len(q) = 2  PROVE SubSeq(q, 1, 0) = <<>> /\ SubSeq(q, 1, 1) = <<q[1]>>
  <2>1. \A a, b \in Int : (\A i \in a..b : q[i] \in S)
           => /\ SubSeq(q, a, b) \in Seq(S) /\ Len(SubSeq(q, a, b)) = IF a <= b THEN b - a + 1 ELSE 0
              /\ \A i \in 1..(b - a + 1) : SubSeq(q, a, b)[i] = q[a + i - 1]
    BY SubSeqProperties
  <2>2. SubSeq(q, 1, 0) \in Seq(S) /\ Len(SubSeq(q, 1, 0)) = 0  BY <2>1
  <2>3. \A i \in 1..1 : q[i] \in S  BY <1>1
  <2>4. SubSeq(q, 1, 1) \in Seq(S) /\ Len(SubSeq(q, 1, 1)) = 1 /\ SubSeq(q, 1, 1)[1] = q[1]  BY <2>1, <2>3
  <2>5. \A p \in Seq(S) : (Len(p) = 0 => p = <<>>) /\ (Len(p) = 1 => p = <<p[1]>>)  OBVIOUS
  <2>6. SubSeq(q, 1, 0) = <<>>  BY <2>2, <2>5
  <2>7. SubSeq(q, 1, 1) = <<SubSeq(q, 1, 1)[1]>>  BY <2>4, <2>5
  <2> QED  BY <2>4, <2>6, <2>7
<1>2. \A x, y : <<x, y>> \in Seq({x, y}) /\ Len(<<x, y>>) = 2 /\ <<x, y>>[1] = x  OBVIOUS
<1>3. TAKE x, y
<1>4. SubSeq(<<x, y>>, 1, 1) = <<<<x, y>>[1]>> /\ SubSeq(<<x, y>>, 1, 0) = <<>>
  <2> DEFINE q == <<x, y>>
  <2>1. q \in Seq({x, y}) /\ Len(q) = 2  BY <1>2
  <2> HIDE DEF q
  <2>2. SubSeq(q, 1, 1) = <<q[1]>> /\ SubSeq(q, 1, 0) = <<>>  BY <1>1, <2>1
  <2> QED  BY <2>2 DEF q
<1> QED  BY <1>2, <1>4

(* Each outcome of handleMig, with the state in which it may come about. *)
LEMMA HandleMigIs ==
  ASSUME NEW s, s.state \in States, NEW h, NEW r \in HandleMig(s, h), s.task \in BOOLEAN
  PROVE  \/ ~s.task /\ Gives(r, {}, s, h, Nothing)
         \/ s.task /\ \/ /\ s.state = "IDLE"
                         /\ \/ Gives(r, {}, Requested(s), h, Tell({"target"}, Msg("getCodeReq", s.seqno + 1, FALSE)))
                            \/ Gives(r, {"unasked"}, s, h, Nothing)
                      \/ /\ s.state \in Awaiting /\ s.pings < Pings
                         /\ \E H \in {{"target"}, Relatives(s)} :
                              /\ s.state # "NOTIFY" => H = {"target"}
                              /\ s.state = "NOTIFY" => H = Relatives(s)
                              /\ Gives(r, {}, Pinged(s), h, Tell(H, Ping))
                      \/ /\ s.state \in Awaiting /\ ~(s.pings < Pings)
                         /\ \E st \in {"GETCODE_FAIL", "NOTIFY_FAIL", "DOIT_FAIL"} :
                              /\ st = "GETCODE_FAIL" <=> s.state = "GETCODE_WAIT"
                              /\ Gives(r, {}, [s EXCEPT !.state = st], h, Nothing)
                      \/ /\ s.state = "GETCODE_SUCCESS"
                         /\ \/ Gives(r, {}, AllTold(s), h, Tell(Relatives(s), Notice(s)))
                            \/ Gives(r, {}, PartTold(s, 1), h, Nothing)
                            \/ s.kids /\ Gives(r, {}, PartTold(s, 2), h, Tell({"parent"}, Notice(s)))
                            \/ s.kids /\ Gives(r, {"childUntold"}, PartTold(s, 1), h, Tell({"parent"}, Notice(s)))
                      \/ /\ s.state = "NOTIFY_SUCCESS"
                         /\ \/ Gives(r, {}, [s EXCEPT !.timer = "off"], "suspending", Nothing)
                            \/ Gives(r, {"leftStopped"}, [Ended(s) EXCEPT !.timer = "off"], "suspending", Failed(s))
                      \/ /\ s.state = "SUSPEND_SUCCESS"
                         /\ \E F \in SUBSET Relatives(s) : Gives(r, {}, Marked(s, F), h, Nothing)
                      \/ /\ s.state \in {"FLUSH_SUCCESS", "DOIT"} /\ h = "suspended"
                         /\ \/ Gives(r, {}, HandedOver(s), h, Handing(Nothing, TransferOf(s)))
                            \/ \E q \in Begun(s) : Gives(r, {"leftStopped"}, Ended(s), h, Handing(Failed(s), q))
                      \/ /\ s.state \in {"FLUSH_SUCCESS", "DOIT"} /\ h # "suspended"
                         /\ Gives(r, {}, GivenAnyway(s), h, Handing(Failed(s), TransferOf(s)))
                      \/ s.state = "GETCODE_FAIL" /\ Gives(r, {}, [Ended(s) EXCEPT !.timer = "off"], h, Nothing)
                      \/ s.state = "NOTIFY_FAIL" /\ Gives(r, {}, [Ended(s) EXCEPT !.timer = "off"], h, Failed(s))
                      \/ s.state = "FLUSH_FAIL" /\ Gives(r, {}, [Ended(s) EXCEPT !.flush = {}], Resumed(h), Failed(s))
                      \/ s.state \in {"DOIT_FAIL", "SUSPEND_SUCCESS"} /\ Gives(r, {}, Ended(s), Resumed(h), Failed(s))
                      \/ s.state = "DOIT_STATUS" /\ Gives(r, {}, s, h, Tell({"parent"}, Done(s)))
                      \/ s.state = "DOIT_ACK" /\ Gives(r, {}, Ended(s), Resumed(h), Tell(Relatives(s) \ {"parent"}, Done(s)))
                      \/ s.state \in {"FLUSH", "DOIT_SUCCESS"} /\ Gives(r, {}, Ended(s), "gone", Nothing)
<1>1. CASE ~s.task  BY <1>1, OutcomeFields DEF HandleMig
<1>2. CASE s.task /\ s.state = "IDLE"
  <2>1. HandleMig(s, h) = RequestCode(s, h)  BY <1>2 DEF HandleMig
  <2> DEFINE e == [s EXCEPT !.state = "GETCODE_WAIT", !.seqno = @ + 1, !.timer = "armed", !.pings = 0]
  <2>2. e = Requested(s)  BY DEF Requested
  <2>3. r = Outcome(e, h, Tell({"target"}, Msg("getCodeReq", s.seqno + 1, FALSE))) \/ r = Mishap("unasked", s, h, Nothing)
    BY <2>1 DEF RequestCode
  <2> HIDE DEF e
  <2>4. \/ Gives(r, {}, e, h, Tell({"target"}, Msg("getCodeReq", s.seqno + 1, FALSE)))
        \/ Gives(r, {"unasked"}, s, h, Nothing)
    BY <2>3, OutcomeFields, MishapFields
  <2> QED  BY <2>2, <2>4, <1>2
<1>3. CASE s.task /\ s.state \in Awaiting
  <2>1. PICK H \in {{"target"}, Relatives(s)}, st \in {"GETCODE_FAIL", "NOTIFY_FAIL", "DOIT_FAIL"} :
          /\ HandleMig(s, h) = WaitOn(s, h, H, st)
          /\ s.state # "NOTIFY" => H = {"target"}
          /\ s.state = "NOTIFY" => H = Relatives(s)
          /\ st = "GETCODE_FAIL" <=> s.state = "GETCODE_WAIT"
    BY <1>3 DEF HandleMig, Awaiting
  <2>2. CASE s.pings < Pings
    <3>1. r = Outcome(Pinged(s), h, Tell(H, Ping))  BY <2>1, <2>2 DEF WaitOn, Pinged
    <3> QED  BY <1>3, <2>1, <2>2, <3>1, OutcomeFields
  <2>3. CASE ~(s.pings < Pings)
    <3>1. r = Outcome([s EXCEPT !.state = st], h, Nothing)  BY <2>1, <2>3 DEF WaitOn
    <3>2. Gives(r, {}, [s EXCEPT !.state = st], h, Nothing)  BY <3>1, OutcomeFields
    <3> QED  BY <1>3, <2>1, <2>3, <3>2
  <2> QED  BY <2>2, <2>3
<1>4. CASE s.task /\ s.state = "GETCODE_SUCCESS"
  <2> DEFINE n == [s EXCEPT !.state = "NOTIFY", !.timer = "off"]
             a == [n EXCEPT !.timer = "armed", !.pings = 0, !.acks = Cardinality(Relatives(s))]
             f1 == [n EXCEPT !.task = FALSE, !.acks = 1]
             f2 == [n EXCEPT !.task = FALSE, !.acks = 2]
  <2>1. HandleMig(s, h) = Notify(s, h)  BY <1>4 DEF HandleMig
  <2>2. \/ r = Outcome(a, h, Tell(Relatives(s), Notice(s)))
        \/ r = Outcome(f1, h, Nothing)
        \/ s.kids /\ r = Outcome(f2, h, Tell({"parent"}, Notice(s)))
        \/ s.kids /\ r = Mishap("childUntold", f1, h, Tell({"parent"}, Notice(s)))
    <3> HIDE DEF a, f1, f2
    <3>1. r \in {Outcome(a, h, Tell(Relatives(s), Notice(s)))}
                  \cup (IF "notify" \in Refused THEN {Outcome(f1, h, Nothing)} ELSE {})
                  \cup (IF s.kids /\ "notify" \in Refused THEN {Outcome(f2, h, Tell({"parent"}, Notice(s)))} ELSE {})
                  \cup (IF s.kids /\ "childNode" \in Refused
                        THEN {Mishap("childUntold", f1, h, Tell({"parent"}, Notice(s)))} ELSE {})
      BY <2>1 DEF Notify, Notice, a, f1, f2
    <3> QED  BY <3>1
  <2>3. a = AllTold(s) /\ f1 = PartTold(s, 1) /\ f2 = PartTold(s, 2)  BY DEF AllTold, PartTold
  <2> HIDE DEF a, f1, f2
  <2> QED  BY <1>4, <2>2, <2>3, OutcomeFields, MishapFields
<1>5. CASE s.task /\ s.state = "NOTIFY_SUCCESS"
  <2>1. HandleMig(s, h) = Suspend(s, h)  BY <1>5 DEF HandleMig
  <2> DEFINE o == [s EXCEPT !.timer = "off"]
             e == [Ended(s) EXCEPT !.timer = "off"]
  <2>2. r = Outcome(o, "suspending", Nothing) \/ r = Mishap("leftStopped", e, "suspending", Failed(s))
    BY <2>1 DEF Suspend
  <2>3. Gives(r, {}, o, "suspending", Nothing) \/ Gives(r, {"leftStopped"}, e, "suspending", Failed(s))
    BY <2>2, OutcomeFields, MishapFields
  <2> QED  BY <2>3, <1>5
<1>6. CASE s.task /\ s.state = "SUSPEND_SUCCESS"
  <2>1. HandleMig(s, h) = Flush(s, h)  BY <1>6 DEF HandleMig
  <2>2. Flush(s, h) = {Outcome(Ended(s), Resumed(h), Failed(s))}
                      \cup {Outcome(Marked(s, F), h, Nothing) : F \in SUBSET Relatives(s)}
    BY DEF Flush, Marked
  <2> QED  BY <2>1, <2>2, <1>6, OutcomeFields
<1>7. CASE s.task /\ s.state \in {"FLUSH_SUCCESS", "DOIT"}
  <2>1. HandleMig(s, h) = HandOver(s, h)  BY <1>7 DEF HandleMig
  <2> DEFINE g == [[s EXCEPT !.state = "DOIT_WAIT"] EXCEPT !.timer = "armed", !.pings = 0]
  <2>2. g = HandedOver(s)  BY DEF HandedOver
  <2>3. /\ Handing(Nothing, TransferOf(s)) = [Nothing EXCEPT !["target"] = TransferOf(s)]
        /\ Handing(Failed(s), TransferOf(s)) = [Failed(s) EXCEPT !["target"] = TransferOf(s)]
        /\ \A k \in 0..1 : SubSeq(TransferOf(s), 1, k) \in Begun(s)
    <3>1. SubSeq(TransferOf(s), 1, 0) \in Begun(s) /\ SubSeq(TransferOf(s), 1, 1) \in Begun(s)
      BY Prefixes DEF TransferOf, Begun
    <3>2. \A k \in 0..1 : k = 0 \/ k = 1  OBVIOUS
    <3>3. \A k \in 0..1 : SubSeq(TransferOf(s), 1, k) \in Begun(s)  BY <3>1, <3>2
    <3> QED  BY <3>3 DEF Handing
  <2>4. CASE h = "suspended"
    <3>1. \/ r = Outcome(g, h, [Nothing EXCEPT !["target"] = TransferOf(s)])
          \/ \E k \in 0..1 : r = Mishap("leftStopped", Ended(s), h, [Failed(s) EXCEPT !["target"] = SubSeq(TransferOf(s), 1, k)])
      BY <2>1, <2>4 DEF HandOver, TransferOf
    <3> HIDE DEF g
    <3>2. \/ Gives(r, {}, g, h, Handing(Nothing, TransferOf(s)))
          \/ \E q \in Begun(s) : Gives(r, {"leftStopped"}, Ended(s), h, Handing(Failed(s), q))
      <4>1. CASE r = Outcome(g, h, [Nothing EXCEPT !["target"] = TransferOf(s)])  BY <2>3, <4>1, OutcomeFields
      <4>2. ASSUME NEW k \in 0..1, r = Mishap("leftStopped", Ended(s), h, [Failed(s) EXCEPT !["target"] = SubSeq(TransferOf(s), 1, k)])
            PROVE  \E q \in Begun(s) : Gives(r, {"leftStopped"}, Ended(s), h, Handing(Failed(s), q))
        <5>1. r = Mishap("leftStopped", Ended(s), h, Handing(Failed(s), SubSeq(TransferOf(s), 1, k)))  BY <4>2 DEF Handing
        <5>2. Gives(r, {"leftStopped"}, Ended(s), h, Handing(Failed(s), SubSeq(TransferOf(s), 1, k)))  BY <5>1, MishapFields
        <5> QED  BY <2>3, <5>2
      <4> QED  BY <3>1, <4>1, <4>2
    <3> QED  BY <1>7, <2>2, <2>4, <3>2
  <2>5. CASE h # "suspended"
    <3>1. r = Outcome(GivenAnyway(s), h, [Failed(s) EXCEPT !["target"] = TransferOf(s)])
      BY <2>1, <2>5 DEF HandOver, TransferOf, GivenAnyway
    <3>2. Gives(r, {}, GivenAnyway(s), h, Handing(Failed(s), TransferOf(s)))  BY <2>3, <3>1, OutcomeFields
    <3> QED  BY <1>7, <2>5, <3>2
  <2> QED  BY <2>4, <2>5
<1>8. CASE s.task /\ s.state \in {"GETCODE_FAIL", "NOTIFY_FAIL", "FLUSH_FAIL", "DOIT_STATUS", "DOIT_ACK", "DOIT_FAIL"}
  <2>1. \/ s.state = "GETCODE_FAIL" /\ r = Outcome([Ended(s) EXCEPT !.timer = "off"], h, Nothing)
        \/ s.state = "NOTIFY_FAIL" /\ r = Outcome([Ended(s) EXCEPT !.timer = "off"], h, Failed(s))
        \/ s.state = "FLUSH_FAIL" /\ r = Outcome([Ended(s) EXCEPT !.flush = {}], Resumed(h), Failed(s))
        \/ s.state = "DOIT_FAIL" /\ r = Outcome(Ended(s), Resumed(h), Failed(s))
        \/ s.state = "DOIT_STATUS" /\ r = Outcome(s, h, Tell({"parent"}, Done(s)))
        \/ s.state = "DOIT_ACK" /\ r = Outcome(Ended(s), Resumed(h), Tell(Relatives(s) \ {"parent"}, Done(s)))
    BY <1>8 DEF HandleMig, Done
  <2> DEFINE t == [Ended(s) EXCEPT !.timer = "off"]
             u == [Ended(s) EXCEPT !.flush = {}]
  <2>2. \/ s.state = "GETCODE_FAIL" /\ Gives(r, {}, t, h, Nothing)
        \/ s.state = "NOTIFY_FAIL" /\ Gives(r, {}, t, h, Failed(s))
        \/ s.state = "FLUSH_FAIL" /\ Gives(r, {}, u, Resumed(h), Failed(s))
        \/ s.state = "DOIT_FAIL" /\ Gives(r, {}, Ended(s), Resumed(h), Failed(s))
        \/ s.state = "DOIT_STATUS" /\ Gives(r, {}, s, h, Tell({"parent"}, Done(s)))
        \/ s.state = "DOIT_ACK" /\ Gives(r, {}, Ended(s), Resumed(h), Tell(Relatives(s) \ {"parent"}, Done(s)))
    <3> HIDE DEF t, u
    <3> QED  BY <2>1, OutcomeFields DEF t, u
  <2> QED  BY <1>8, <2>2
<1>9. CASE s.task /\ s.state \in {"FLUSH", "DOIT_SUCCESS"}
  BY <1>9, OutcomeFields DEF HandleMig
<1> QED
  BY <1>1, <1>2, <1>3, <1>4, <1>5, <1>6, <1>7, <1>8, <1>9 DEF States, Awaiting
-----------------------------------------------------------------------------
(* Types. *)

Message == [kind : Kinds, seq : 0..Attempts, flag : BOOLEAN]
UpTo(k) == {m \in Message : m.seq <= k}
Source == [state : States, seqno : 0..Attempts, pings : 0..Pings, acks : 0..2, flush : SUBSET {"parent", "child"},
           timer : {"off", "now", "armed"}, task : BOOLEAN, kids : BOOLEAN]
Place == {"running", "suspending", "suspended", "gone"}
Target == [busy : BOOLEAN, fetching : BOOLEAN, asked : 0..Attempts, typed : BOOLEAN, slot : BOOLEAN,
           reqSeq : 0..Attempts, hostSeq : 0..Attempts,
           agents : Nat, runtime : {"none", "still", "running"}, kids : BOOLEAN]

(* The links at whose ends the source is: what is on them bears a number the source has used. *)
SourceLinks == {<<"source", "target">>, <<"target", "source">>, <<"source", "parent">>, <<"parent", "source">>,
                <<"source", "child">>, <<"child", "source">>}

(* A source that has been started b times: each attempt takes at most one number, when the code is asked for. *)
SourceOk(s, b) == /\ s \in Source
                  /\ s.seqno <= b
                  /\ s.task /\ s.state = "IDLE" => s.seqno < b
                  /\ s.state = "NOTIFY" => s.acks >= 1
TargetOk(t, k) == /\ t \in Target
                  /\ t.asked <= k /\ t.reqSeq <= k
                  /\ t.hostSeq = IF t.runtime # "none" THEN 1 ELSE 0
NetOk(n, k) == /\ n \in [Links -> Seq(Message)]
               /\ \A l \in SourceLinks : n[l] \in Seq(UpTo(k))

TypeInv == /\ begun \in 0..Attempts /\ lost \in 0..MaxLost
           /\ SourceOk(src, begun) /\ here \in Place
           /\ TargetOk(tgt, src.seqno)
           /\ parent \in [cmig : BOOLEAN, host : Hosts]
           /\ child \in [pmig : BOOLEAN, phost : Hosts]
           /\ NetOk(net, src.seqno)
           /\ link \in {"up", "reset", "due"}
           /\ begun = 0 => ~src.task /\ ~tgt.fetching /\ \A l \in Links : net[l] = <<>>

(* What the links join. *)
LEMMA LinkFacts ==
  /\ SourceLinks \subseteq Links
  /\ \A l \in Links : l[1] \in Hosts /\ l[2] \in Hosts /\ l = <<l[1], l[2]>> /\ l[1] # l[2]
  /\ \A l \in SourceLinks : l[1] = "source" \/ l[2] = "source"
<1>1. SourceLinks \subseteq Links  BY DEF SourceLinks, Links
<1>2. \A l \in Links : l[1] \in Hosts /\ l[2] \in Hosts /\ l = <<l[1], l[2]>> /\ l[1] # l[2]
  BY DEF Links, Hosts
<1>3. \A l \in SourceLinks : l[1] = "source" \/ l[2] = "source"  BY DEF SourceLinks
<1> QED  BY <1>1, <1>2, <1>3

LEMMA UpToGrows ==
  ASSUME NEW k \in Nat, NEW j \in Nat, k <= j
  PROVE  UpTo(k) \subseteq UpTo(j) /\ Seq(UpTo(k)) \subseteq Seq(UpTo(j)) /\ UpTo(k) \subseteq Message
<1>1. UpTo(k) \subseteq UpTo(j) /\ UpTo(k) \subseteq Message  BY DEF UpTo, Message
<1> HIDE DEF UpTo
<1> QED  BY <1>1

(* What Sent and Taken do to a link. *)
LEMMA SentIs ==
  ASSUME NEW x, NEW n, NEW out
  PROVE  /\ DOMAIN Sent(x, n, out) = Links
         /\ \A l \in Links : Sent(x, n, out)[l] = IF l[1] = x THEN n[l] \o Posted(out[l[2]]) ELSE n[l]
  BY DEF Sent

LEMMA ToldIs ==
  ASSUME NEW x, NEW n, NEW k, NetOk(n, k), NEW H, NEW m \in Message
  PROVE  \A l \in Links : Sent(x, n, Tell(H, m))[l] = IF l[1] = x /\ l[2] \in H THEN Append(n[l], m) ELSE n[l]
<1>1. m # Ping  BY DEF Message, Kinds, Ping, Msg
<1>2. TAKE l \in Links
<1>3. n[l] \in Seq(Message) /\ l[2] \in Hosts  BY LinkFacts DEF NetOk
<1>4. Posted(Tell(H, m)[l[2]]) = IF l[2] \in H THEN <<m>> ELSE <<>>
  BY <1>1, <1>3 DEF Posted, Tell
<1>5. n[l] \o <<m>> = Append(n[l], m) /\ n[l] \o <<>> = n[l]  BY <1>3
<1>6. Sent(x, n, Tell(H, m))[l] = IF l[1] = x THEN n[l] \o Posted(Tell(H, m)[l[2]]) ELSE n[l]  BY SentIs
<1>7. CASE l[2] \in H
  <2>1. Posted(Tell(H, m)[l[2]]) = <<m>>  BY <1>4, <1>7
  <2> QED  BY <2>1, <1>5, <1>6, <1>7
<1>8. CASE l[2] \notin H
  <2>1. Posted(Tell(H, m)[l[2]]) = <<>>  BY <1>4, <1>8
  <2> QED  BY <2>1, <1>5, <1>6, <1>8
<1> QED  BY <1>7, <1>8

LEMMA ToldOk ==
  ASSUME NEW x, NEW n, NEW k \in 0..Attempts, NetOk(n, k), NEW H, NEW m \in Message,
         x = "source" \/ "source" \in H => m \in UpTo(k)
  PROVE  NetOk(Sent(x, n, Tell(H, m)), k)
<1> DEFINE n2 == Sent(x, n, Tell(H, m))
<1>1. DOMAIN n2 = Links /\ n2 = [l \in Links |-> n2[l]]  BY DEF Sent
<1>2. \A l \in Links : n2[l] = IF l[1] = x /\ l[2] \in H THEN Append(n[l], m) ELSE n[l]  BY ToldIs
<1> HIDE DEF n2
<1>3. ASSUME NEW l \in Links  PROVE n2[l] \in Seq(Message)
  <2>1. n[l] \in Seq(Message)  BY DEF NetOk
  <2>2. Append(n[l], m) \in Seq(Message)  BY <2>1
  <2> QED  BY <1>2, <2>1, <2>2
<1>4. ASSUME NEW l \in SourceLinks  PROVE n2[l] \in Seq(UpTo(k))
  <2>1. l \in Links /\ n[l] \in Seq(UpTo(k)) /\ (l[1] = "source" \/ l[2] = "source")
    BY LinkFacts DEF NetOk
  <2>2. l[1] = x /\ l[2] \in H => Append(n[l], m) \in Seq(UpTo(k))
    <3>1. l[1] = x /\ l[2] \in H => m \in UpTo(k)  BY <2>1
    <3> QED  BY <2>1, <3>1
  <2> QED  BY <1>2, <2>1, <2>2
<1> QED  BY <1>1, <1>3, <1>4 DEF NetOk, n2

LEMMA TakenOk ==
  ASSUME NEW n, NEW k, NetOk(n, k), NEW l \in Links, n[l] # <<>>
  PROVE  /\ NetOk([n EXCEPT ![l] = Tail(@)], k)
         /\ Head(n[l]) \in Message
         /\ l \in SourceLinks => Head(n[l]) \in UpTo(k)
<1>1. n[l] \in Seq(Message)  BY DEF NetOk
<1>2. l \in SourceLinks => n[l] \in Seq(UpTo(k))  BY DEF NetOk
<1>3. Tail(n[l]) \in Seq(Message) /\ Head(n[l]) \in Message  BY <1>1
<1>4. l \in SourceLinks => Tail(n[l]) \in Seq(UpTo(k)) /\ Head(n[l]) \in UpTo(k)  BY <1>2
<1> QED  BY <1>3, <1>4, LinkFacts DEF NetOk

(* A link that loses all that is on it. *)
LEMMA EmptiedOk ==
  ASSUME NEW n, NEW k, NetOk(n, k), NEW l \in Links
  PROVE  NetOk([n EXCEPT ![l] = <<>>], k)
  BY LinkFacts DEF NetOk

(* What is sent bears no number above k. *)
Sends(out, k) == \A y \in Hosts : Posted(out[y]) \in Seq(UpTo(k))

LEMMA SendsTell ==
  ASSUME NEW H, NEW m, NEW k, m \in UpTo(k) \/ m = Ping
  PROVE  Sends(Tell(H, m), k)
<1>1. ASSUME NEW y \in Hosts  PROVE Posted(Tell(H, m)[y]) \in Seq(UpTo(k))
  <2>1. Tell(H, m)[y] = <<m>> \/ Tell(H, m)[y] = <<>>  BY DEF Tell
  <2>2. Posted(<<>>) = <<>> /\ (m # Ping => Posted(<<m>>) = <<m>>) /\ Posted(<<Ping>>) = <<>>  BY DEF Posted
  <2>3. <<>> \in Seq(UpTo(k)) /\ (m \in UpTo(k) => <<m>> \in Seq(UpTo(k)))  OBVIOUS
  <2> QED  BY <2>1, <2>2, <2>3
<1> QED  BY <1>1 DEF Sends

LEMMA SendsNothing == \A k : Sends(Nothing, k) /\ \A y \in Hosts : Posted(Nothing[y]) = <<>>
<1>1. \A y \in Hosts : Posted(Nothing[y]) = <<>>  BY DEF Nothing, Posted
<1>2. \A k : <<>> \in Seq(UpTo(k))  OBVIOUS
<1> QED  BY <1>1, <1>2 DEF Sends

LEMMA SendsTransfer ==
  ASSUME NEW s, NEW k \in 0..Attempts, s.seqno = k, s.kids \in BOOLEAN,
         NEW out, Sends(out, k), DOMAIN out = Hosts, NEW q \in Begun(s) \cup {TransferOf(s)}
  PROVE  Sends(Handing(out, q), k)
<1>1. Msg("migReq", s.seqno, FALSE) \in UpTo(k) /\ Msg("state", s.seqno, s.kids) \in UpTo(k)
  BY DEF UpTo, Message, Kinds, Msg
<1>2. q \in Seq(UpTo(k)) /\ q # <<Ping>>
  <2>1. \A x, y \in UpTo(k) : <<x>> \in Seq(UpTo(k)) /\ <<x, y>> \in Seq(UpTo(k)) /\ <<x, y>> # <<Ping>>  OBVIOUS
  <2>2. Msg("migReq", s.seqno, FALSE) # Ping /\ <<>> \in Seq(UpTo(k)) /\ <<>> # <<Ping>>  BY DEF Msg, Ping
  <2>3. \A x : <<x>> = <<Ping>> => x = Ping  OBVIOUS
  <2> QED  BY <1>1, <2>1, <2>2, <2>3 DEF TransferOf, Begun
<1>3. Posted(q) = q  BY <1>2 DEF Posted
<1>4. ASSUME NEW y \in Hosts  PROVE Handing(out, q)[y] \in {out[y], q}
  BY DEF Handing
<1>5. ASSUME NEW y \in Hosts  PROVE Posted(Handing(out, q)[y]) \in Seq(UpTo(k))
  BY <1>2, <1>3, <1>4 DEF Sends
<1> QED  BY <1>5 DEF Sends

(* What handleMig may be called with, and what it leaves. *)
HandledOk(s, b, x, y, out) == /\ SourceOk(x, b) /\ y \in Place
                              /\ x.seqno >= s.seqno /\ Sends(out, x.seqno)
LEMMA SourceUpdate ==
  ASSUME NEW s \in Source
  PROVE  /\ \A v \in States : [s EXCEPT !.state = v] \in Source
         /\ \A v \in 0..Attempts : [s EXCEPT !.seqno = v] \in Source
         /\ \A v \in 0..Pings : [s EXCEPT !.pings = v] \in Source
         /\ \A v \in 0..2 : [s EXCEPT !.acks = v] \in Source
         /\ \A v \in SUBSET {"parent", "child"} : [s EXCEPT !.flush = v] \in Source
         /\ \A v \in {"off", "now", "armed"} : [s EXCEPT !.timer = v] \in Source
         /\ \A v \in BOOLEAN : [s EXCEPT !.task = v] \in Source /\ [s EXCEPT !.kids = v] \in Source
  BY DEF Source

LEMMA HandleMigTypes ==
  ASSUME NEW b \in 0..Attempts, NEW s, SourceOk(s, b), NEW h \in Place, NEW r \in HandleMig(s, h)
  PROVE  HandledOk(s, b, r.src, r.here, r.out)
<1> DEFINE k == s.seqno
<1>1. /\ s \in Source /\ k \in 0..Attempts /\ k \in Nat /\ k <= b /\ b \in Nat /\ b <= Attempts /\ Attempts \in Nat /\ Pings \in Nat
      /\ s.task /\ s.state = "IDLE" => k < b
      /\ s.state = "NOTIFY" => s.acks >= 1
      /\ s.state \in States /\ s.task \in BOOLEAN /\ s.kids \in BOOLEAN /\ s.pings \in 0..Pings
  BY BoundsAssumption DEF SourceOk, Source
<1>a. /\ {"GETCODE_WAIT", "NOTIFY", "FLUSH", "DOIT", "DOIT_WAIT"} \subseteq States /\ 0 \in 0..Pings
      /\ {TRUE, FALSE} \subseteq BOOLEAN /\ 1..2 \subseteq 0..2
  BY <1>1 DEF States
<1>2. ASSUME NEW x, NEW y, NEW o, SourceOk(x, b), x.seqno = k, y \in Place, Sends(o, k)
      PROVE  HandledOk(s, b, x, y, o)
  BY <1>1, <1>2 DEF HandledOk
(* What is sent. *)
<1>3. \A c \in {"getCodeReq", "notify", "done", "failed", "migReq", "state"} : Msg(c, k, FALSE) \in UpTo(k)
  BY <1>1 DEF UpTo, Message, Kinds, Msg
<1>4. \A H : /\ Sends(Tell(H, Notice(s)), k) /\ Sends(Tell(H, Done(s)), k) /\ Sends(Tell(H, Ping), k)
             /\ Sends(Tell(H, Msg("failed", k, FALSE)), k)
  BY <1>3, SendsTell DEF Notice, Done
<1>5. Sends(Failed(s), k) /\ Sends(Nothing, k)  BY <1>4, SendsNothing DEF Failed
<1>6. \A q \in Begun(s) \cup {TransferOf(s)} : Sends(Handing(Nothing, q), k) /\ Sends(Handing(Failed(s), q), k)
  <2>1. DOMAIN Nothing = Hosts /\ DOMAIN Failed(s) = Hosts  BY DEF Nothing, Failed, Tell
  <2> QED  BY <1>1, <1>5, <2>1, SendsTransfer
(* What is left. *)
<1>7. h \in Place /\ Resumed(h) \in Place /\ "suspending" \in Place /\ "gone" \in Place  BY DEF Place, Resumed
<1>8. SourceOk(s, b) /\ s.seqno = k  OBVIOUS
<1>9. SourceOk(Ended(s), b) /\ Ended(s).seqno = k  BY <1>1 DEF SourceOk, Source, Ended, States
<1>10. \A st \in {"GETCODE_FAIL", "NOTIFY_FAIL", "DOIT_FAIL"} :
          SourceOk([s EXCEPT !.state = st], b) /\ [s EXCEPT !.state = st].seqno = k
  BY <1>1 DEF SourceOk, Source, States
<1>11. s.pings < Pings => SourceOk(Pinged(s), b) /\ Pinged(s).seqno = k
  BY <1>1 DEF SourceOk, Source, Pinged
<1>12. SourceOk(AllTold(s), b) /\ AllTold(s).seqno = k
  <2>1. s.kids => Relatives(s) = {"parent"} \cup {"child"}  BY DEF Relatives
  <2>2. ~s.kids => Relatives(s) = {"parent"}  BY DEF Relatives
  <2>3. IsFiniteSet({"parent"}) /\ Cardinality({"parent"}) = 1  BY FS_Singleton
  <2>4. Cardinality({"parent"} \cup {"child"}) = 2  BY <2>3, FS_AddElement
  <2>5. Cardinality(Relatives(s)) \in 1..2  BY <1>1, <2>1, <2>2, <2>3, <2>4
  <2>6. AllTold(s) \in Source  BY <1>1, <2>5, <1>a, SourceUpdate DEF AllTold
  <2> QED  BY <1>1, <2>5, <2>6 DEF SourceOk, Source, AllTold
<1>13. \A c \in 1..2 : SourceOk(PartTold(s, c), b) /\ PartTold(s, c).seqno = k
  <2> TAKE c \in 1..2
  <2>1. PartTold(s, c) \in Source  BY <1>1, <1>a, SourceUpdate DEF PartTold
  <2> QED  BY <1>1, <2>1 DEF SourceOk, Source, PartTold
<1>14. s.state # "IDLE" => SourceOk([s EXCEPT !.timer = "off"], b) /\ [s EXCEPT !.timer = "off"].seqno = k
  BY <1>1 DEF SourceOk, Source
<1>15. \A F \in SUBSET Relatives(s) : SourceOk(Marked(s, F), b) /\ Marked(s, F).seqno = k
  <2> TAKE F \in SUBSET Relatives(s)
  <2>1. F \in SUBSET {"parent", "child"}  BY DEF Relatives
  <2> HIDE DEF k
  <2>2. CASE F = {}
    <3>1. Marked(s, F) = [s EXCEPT !.state = "DOIT", !.timer = "now", !.flush = F]  BY <2>2 DEF Marked
    <3>2. [s EXCEPT !.state = "DOIT", !.timer = "now", !.flush = F] \in Source  BY <1>1, <2>1, <1>a, SourceUpdate
    <3> QED  BY <1>1, <3>1, <3>2 DEF SourceOk, Source, k
  <2>3. CASE F # {}
    <3>1. Marked(s, F) = [s EXCEPT !.state = "FLUSH", !.flush = F]  BY <1>1, <2>3 DEF Marked, Source
    <3>2. [s EXCEPT !.state = "FLUSH", !.flush = F] \in Source  BY <1>1, <2>1, <1>a, SourceUpdate
    <3> QED  BY <1>1, <3>1, <3>2 DEF SourceOk, Source, k
  <2> QED  BY <2>2, <2>3
<1>16. SourceOk(HandedOver(s), b) /\ HandedOver(s).seqno = k
  <2>1. HandedOver(s) \in Source  BY <1>1, <1>a, SourceUpdate DEF HandedOver
  <2> QED  BY <1>1, <2>1 DEF SourceOk, Source, HandedOver
<1>17. SourceOk(GivenAnyway(s), b) /\ GivenAnyway(s).seqno = k
  <2>1. GivenAnyway(s) = [Ended(s) EXCEPT !.timer = "armed", !.pings = 0] /\ Ended(s) \in Source /\ ~Ended(s).task
    BY <1>9 DEF GivenAnyway, SourceOk, Ended, Source
  <2>2. [Ended(s) EXCEPT !.timer = "armed", !.pings = 0] \in Source  BY <1>a, <2>1, SourceUpdate
  <2> QED  BY <1>1, <1>9, <2>1, <2>2 DEF SourceOk, Source
<1>18. /\ SourceOk([Ended(s) EXCEPT !.timer = "off"], b) /\ [Ended(s) EXCEPT !.timer = "off"].seqno = k
       /\ SourceOk([Ended(s) EXCEPT !.flush = {}], b) /\ [Ended(s) EXCEPT !.flush = {}].seqno = k
  BY <1>1, <1>9 DEF SourceOk, Source
<1>19. s.task /\ s.state = "IDLE" => HandledOk(s, b, Requested(s), h, Tell({"target"}, Msg("getCodeReq", k + 1, FALSE)))
  <2> SUFFICES ASSUME s.task, s.state = "IDLE"
               PROVE  HandledOk(s, b, Requested(s), h, Tell({"target"}, Msg("getCodeReq", k + 1, FALSE)))
    OBVIOUS
  <2>1. k + 1 \in 0..Attempts /\ k + 1 <= b  BY <1>1
  <2>2. Requested(s) \in Source /\ Requested(s).seqno = k + 1
    <3>1. Requested(s) = [s EXCEPT !.state = "GETCODE_WAIT", !.seqno = k + 1, !.timer = "armed", !.pings = 0]  BY DEF Requested
    <3>2. \A v \in 0..Attempts : [s EXCEPT !.state = "GETCODE_WAIT", !.seqno = v, !.timer = "armed", !.pings = 0] \in Source
      BY <1>1, <1>a, SourceUpdate
    <3> QED  BY <1>1, <2>1, <3>1, <3>2 DEF Source
  <2>3. SourceOk(Requested(s), b)  BY <1>1, <2>1, <2>2 DEF SourceOk, Source, Requested
  <2>4. Msg("getCodeReq", k + 1, FALSE) \in UpTo(k + 1)  BY <2>1 DEF UpTo, Message, Kinds, Msg
  <2>5. Sends(Tell({"target"}, Msg("getCodeReq", k + 1, FALSE)), k + 1)  BY <2>4, SendsTell
  <2>6. Requested(s).seqno >= k  BY <1>1, <2>2
  <2> QED  BY <2>2, <2>3, <2>5, <2>6, <1>7 DEF HandledOk
<1>20. /\ HandledOk(s, b, s, h, Nothing)
       /\ s.pings < Pings => \A H : HandledOk(s, b, Pinged(s), h, Tell(H, Ping))
       /\ \A st \in {"GETCODE_FAIL", "NOTIFY_FAIL", "DOIT_FAIL"} : HandledOk(s, b, [s EXCEPT !.state = st], h, Nothing)
  BY <1>2, <1>4, <1>5, <1>7, <1>8, <1>10, <1>11
<1>21. /\ HandledOk(s, b, AllTold(s), h, Tell(Relatives(s), Notice(s)))
       /\ \A c \in 1..2 : HandledOk(s, b, PartTold(s, c), h, Nothing) /\ HandledOk(s, b, PartTold(s, c), h, Tell({"parent"}, Notice(s)))
  BY <1>2, <1>4, <1>5, <1>7, <1>12, <1>13
<1>22. /\ s.state # "IDLE" => HandledOk(s, b, [s EXCEPT !.timer = "off"], "suspending", Nothing)
       /\ \A F \in SUBSET Relatives(s) : HandledOk(s, b, Marked(s, F), h, Nothing)
       /\ HandledOk(s, b, HandedOver(s), h, Handing(Nothing, TransferOf(s)))
       /\ HandledOk(s, b, GivenAnyway(s), h, Handing(Failed(s), TransferOf(s)))
       /\ \A q \in Begun(s) : HandledOk(s, b, Ended(s), h, Handing(Failed(s), q))
  BY <1>2, <1>5, <1>6, <1>7, <1>9, <1>14, <1>15, <1>16, <1>17
<1>23. /\ HandledOk(s, b, Ended(s), h, Failed(s)) /\ HandledOk(s, b, Ended(s), Resumed(h), Failed(s)) /\ HandledOk(s, b, Ended(s), "gone", Nothing)
       /\ HandledOk(s, b, [Ended(s) EXCEPT !.timer = "off"], h, Nothing) /\ HandledOk(s, b, [Ended(s) EXCEPT !.timer = "off"], h, Failed(s))
       /\ HandledOk(s, b, [Ended(s) EXCEPT !.timer = "off"], "suspending", Failed(s))
       /\ HandledOk(s, b, [Ended(s) EXCEPT !.flush = {}], Resumed(h), Failed(s))
       /\ HandledOk(s, b, Ended(s), Resumed(h), Tell(Relatives(s) \ {"parent"}, Done(s))) /\ HandledOk(s, b, s, h, Tell({"parent"}, Done(s)))
  BY <1>2, <1>4, <1>5, <1>7, <1>8, <1>9, <1>18
<1>24. ASSUME NEW M, NEW x, NEW y, NEW o, Gives(r, M, x, y, o), HandledOk(s, b, x, y, o)  PROVE HandledOk(s, b, r.src, r.here, r.out)
  BY <1>24 DEF Gives
<1>25. CASE ~s.task  BY <1>1, <1>20, <1>24, <1>25, HandleMigIs
<1>26. CASE s.task /\ s.state \in {"IDLE"} \cup Awaiting
  BY <1>1, <1>19, <1>20, <1>24, <1>26, HandleMigIs DEF Awaiting
<1>27. CASE s.task /\ s.state = "GETCODE_SUCCESS"
  <2>1. \/ Gives(r, {}, AllTold(s), h, Tell(Relatives(s), Notice(s)))
        \/ Gives(r, {}, PartTold(s, 1), h, Nothing)
        \/ Gives(r, {}, PartTold(s, 2), h, Tell({"parent"}, Notice(s)))
        \/ Gives(r, {"childUntold"}, PartTold(s, 1), h, Tell({"parent"}, Notice(s)))
    BY <1>1, <1>27, HandleMigIs DEF Awaiting
  <2>2. 1 \in 1..2 /\ 2 \in 1..2  OBVIOUS
  <2> QED  BY <1>21, <1>24, <2>1, <2>2
<1>28. CASE s.task /\ s.state \in {"NOTIFY_SUCCESS", "SUSPEND_SUCCESS", "FLUSH_SUCCESS", "DOIT"}
  <2>1. \/ Gives(r, {}, [s EXCEPT !.timer = "off"], "suspending", Nothing)
        \/ Gives(r, {"leftStopped"}, [Ended(s) EXCEPT !.timer = "off"], "suspending", Failed(s))
        \/ \E F \in SUBSET Relatives(s) : Gives(r, {}, Marked(s, F), h, Nothing)
        \/ Gives(r, {}, HandedOver(s), h, Handing(Nothing, TransferOf(s)))
        \/ \E q \in Begun(s) : Gives(r, {"leftStopped"}, Ended(s), h, Handing(Failed(s), q))
        \/ Gives(r, {}, GivenAnyway(s), h, Handing(Failed(s), TransferOf(s)))
        \/ Gives(r, {}, Ended(s), Resumed(h), Failed(s))
    BY <1>1, <1>28, HandleMigIs DEF Awaiting
  <2> QED  BY <1>1, <1>22, <1>23, <1>24, <1>28, <2>1
<1>29. CASE s.task /\ s.state \in {"GETCODE_FAIL", "NOTIFY_FAIL", "FLUSH_FAIL", "DOIT_FAIL", "DOIT_STATUS", "DOIT_ACK", "FLUSH", "DOIT_SUCCESS"}
  BY <1>1, <1>23, <1>24, <1>29, HandleMigIs DEF Awaiting
<1>30. HandledOk(s, b, r.src, r.here, r.out)
  <2>1. s.state \in {"IDLE"} \cup Awaiting \cup {"GETCODE_SUCCESS", "NOTIFY_SUCCESS", "SUSPEND_SUCCESS", "FLUSH_SUCCESS", "DOIT",
          "GETCODE_FAIL", "NOTIFY_FAIL", "FLUSH_FAIL", "DOIT_FAIL", "DOIT_STATUS", "DOIT_ACK", "FLUSH", "DOIT_SUCCESS"}
    BY <1>1 DEF States, Awaiting
  <2> QED  BY <2>1, <1>1, <1>25, <1>26, <1>27, <1>28, <1>29
<1> QED  BY <1>30

(* A step in which handleMig is called for s and h with the network n. *)
LEMMA HandledTypes ==
  ASSUME TypeInv, NEW s, SourceOk(s, begun), s.seqno = src.seqno, s.task = src.task, NEW h \in Place,
         NEW n, NetOk(n, s.seqno), begun = 0 => \A l \in Links : n[l] = <<>>,
         NEW r \in HandleMig(s, h)
  PROVE  /\ SourceOk(r.src, begun) /\ r.here \in Place /\ TargetOk(tgt, r.src.seqno)
         /\ NetOk(Sent("source", n, r.out), r.src.seqno)
         /\ begun = 0 => ~r.src.task /\ \A l \in Links : Sent("source", n, r.out)[l] = <<>>
<1> DEFINE k == r.src.seqno
           n2 == Sent("source", n, r.out)
<1>1. begun \in 0..Attempts /\ TargetOk(tgt, s.seqno)  BY DEF TypeInv
<1>2. HandledOk(s, begun, r.src, r.here, r.out)  BY <1>1, HandleMigTypes
<1>3. s.seqno \in 0..Attempts /\ k \in 0..Attempts /\ s.seqno <= k /\ s.seqno \in Nat /\ k \in Nat
  BY <1>2, BoundsAssumption DEF HandledOk, SourceOk, Source
<1>4. TargetOk(tgt, k)  BY <1>1, <1>3 DEF TargetOk, Target
<1>5. \A l \in Links : n2[l] = IF l[1] = "source" THEN n[l] \o Posted(r.out[l[2]]) ELSE n[l]  BY SentIs
<1>6. n2 = [l \in Links |-> n2[l]]  BY DEF Sent
<1>7. ASSUME NEW y \in Hosts  PROVE Posted(r.out[y]) \in Seq(UpTo(k)) /\ Posted(r.out[y]) \in Seq(Message)
  <2>1. Posted(r.out[y]) \in Seq(UpTo(k))  BY <1>2 DEF HandledOk, Sends
  <2>2. UpTo(k) \subseteq Message  BY <1>3, UpToGrows
  <2> QED  BY <2>1, <2>2
<1> HIDE DEF n2, k
<1>8. ASSUME NEW l \in Links  PROVE n2[l] \in Seq(Message)
  <2>1. n[l] \in Seq(Message) /\ l[2] \in Hosts  BY LinkFacts DEF NetOk
  <2>2. n[l] \o Posted(r.out[l[2]]) \in Seq(Message)  BY <2>1, <1>7
  <2> QED  BY <1>5, <2>1, <2>2
<1>9. ASSUME NEW l \in SourceLinks  PROVE n2[l] \in Seq(UpTo(k))
  <2>1. l \in Links /\ n[l] \in Seq(UpTo(s.seqno)) /\ l[2] \in Hosts  BY LinkFacts DEF NetOk
  <2>2. n[l] \in Seq(UpTo(k))  BY <2>1, <1>3, UpToGrows
  <2>3. n[l] \o Posted(r.out[l[2]]) \in Seq(UpTo(k))  BY <2>1, <2>2, <1>7
  <2> QED  BY <1>5, <2>1, <2>2, <2>3
<1>10. NetOk(n2, k)  BY <1>6, <1>8, <1>9 DEF NetOk
<1>11. begun = 0 => ~r.src.task /\ \A l \in Links : n2[l] = <<>>
  <2> SUFFICES ASSUME begun = 0  PROVE ~r.src.task /\ \A l \in Links : n2[l] = <<>>
    OBVIOUS
  <2>1. ~s.task  BY DEF TypeInv
  <2>2. r = Outcome(s, h, Nothing)  BY <2>1 DEF HandleMig
  <2>3. r.src = s /\ r.out = Nothing  BY <2>2, OutcomeFields DEF Gives
  <2>4. \A l \in Links : Posted(r.out[l[2]]) = <<>>  BY <2>3, SendsNothing, LinkFacts
  <2>5. \A l \in Links : n[l] = <<>>  OBVIOUS
  <2>6. \A l \in Links : n[l] \o Posted(r.out[l[2]]) = <<>>
    <3>1. <<>> \o <<>> = <<>>  OBVIOUS
    <3> QED  BY <2>4, <2>5, <3>1
  <2> QED  BY <2>1, <2>3, <2>5, <2>6, <1>5
<1> QED  BY <1>2, <1>4, <1>10, <1>11 DEF HandledOk, n2, k

(* An answer leads to a state that some source can be in, and to no other number or task. *)
LEMMA AnsweredOk ==
  ASSUME NEW b \in 0..Attempts, NEW q, SourceOk(q, b), NEW m \in Message
  PROVE  SourceOk(Answered(q, m), b) /\ Answered(q, m).seqno = q.seqno /\ Answered(q, m).task = q.task
<1> DEFINE s == Answered(q, m)
<1>1. q \in Source  BY DEF SourceOk
<1>2. \A v \in States : \/ v \in {"IDLE", "NOTIFY"}
                        \/ /\ SourceOk([q EXCEPT !.state = v], b)
                           /\ [q EXCEPT !.state = v].seqno = q.seqno
                           /\ [q EXCEPT !.state = v].task = q.task
  BY <1>1 DEF SourceOk, Source
<1>3. CASE m.kind = "notifyAck" /\ m.seq = q.seqno /\ q.state = "NOTIFY"
  <2>1. q.acks \in 1..2  BY <1>1, <1>3 DEF SourceOk, Source
  <2> DEFINE v == IF ~m.flag THEN "NOTIFY_FAIL" ELSE IF q.acks = 1 THEN "NOTIFY_SUCCESS" ELSE q.state
             a == IF m.flag THEN q.acks - 1 ELSE q.acks
  <2>2. s = [q EXCEPT !.state = v, !.acks = a]  BY <1>3 DEF Answered
  <2>3. v \in States /\ a \in 0..2 /\ (v = "NOTIFY" => a >= 1) /\ v # "IDLE"  BY <1>3, <2>1 DEF States
  <2> HIDE DEF v, a, s
  <2>4. [q EXCEPT !.state = v, !.acks = a] \in Source  BY <1>1, <2>3, SourceUpdate
  <2>5. SourceOk(s, b) /\ s.seqno = q.seqno /\ s.task = q.task  BY <1>1, <2>2, <2>3, <2>4 DEF SourceOk, Source
  <2> QED  BY <2>5 DEF s
<1>4. CASE ~(m.kind = "notifyAck" /\ m.seq = q.seqno /\ q.state = "NOTIFY")
  <2>1. s = q \/ \E v \in {"GETCODE_SUCCESS", "GETCODE_FAIL", "DOIT_SUCCESS", "DOIT_FAIL", "DOIT_ACK"} : s = [q EXCEPT !.state = v]
    BY <1>4 DEF Answered
  <2> HIDE DEF s
  <2>2. CASE s = q  BY <2>2 DEF s
  <2>3. CASE s # q
    <3>1. PICK v \in {"GETCODE_SUCCESS", "GETCODE_FAIL", "DOIT_SUCCESS", "DOIT_FAIL", "DOIT_ACK"} : s = [q EXCEPT !.state = v]
      BY <2>1, <2>3
    <3>2. v \in States /\ v \notin {"IDLE", "NOTIFY"}  BY DEF States
    <3>3. SourceOk(s, b) /\ s.seqno = q.seqno /\ s.task = q.task  BY <1>2, <3>1, <3>2
    <3> QED  BY <3>3 DEF s
  <2> QED  BY <2>2, <2>3
<1> QED  BY <1>3, <1>4

LEMMA TypeInit == Init => TypeInv
<1> SUFFICES ASSUME Init PROVE TypeInv  OBVIOUS
<1>1. SourceOk(src, begun) /\ src.seqno = 0 /\ begun = 0 /\ ~src.task
  BY BoundsAssumption DEF Init, SourceOk, Source, States
<1>2. TargetOk(tgt, 0) /\ ~tgt.fetching  BY BoundsAssumption DEF Init, TargetOk, Target
<1>3. NetOk(net, 0)  BY LinkFacts DEF Init, NetOk
<1> QED  BY <1>1, <1>2, <1>3, BoundsAssumption DEF Init, TypeInv, Place, Hosts

LEMMA TypeStep == TypeInv /\ [Next]_vars => TypeInv'
<1> SUFFICES ASSUME TypeInv, [Next]_vars PROVE TypeInv'
  OBVIOUS
<1> DEFINE k == src.seqno
           EmptyNet(n) == begun = 0 => ~src.task /\ ~tgt.fetching /\ \A l \in Links : n[l] = <<>>
<1>1. /\ begun \in 0..Attempts /\ lost \in 0..MaxLost /\ SourceOk(src, begun) /\ here \in Place
      /\ TargetOk(tgt, k) /\ NetOk(net, k) /\ k \in 0..Attempts /\ k \in Nat /\ link \in {"up", "reset", "due"}
      /\ begun = 0 => ~src.task /\ ~tgt.fetching /\ \A l \in Links : net[l] = <<>>
      /\ parent \in [cmig : BOOLEAN, host : Hosts] /\ child \in [pmig : BOOLEAN, phost : Hosts]
      /\ Attempts \in Nat /\ MaxLost \in Nat
  BY BoundsAssumption DEF TypeInv, SourceOk, Source
<1>2. src \in Source /\ tgt \in Target  BY <1>1 DEF SourceOk, TargetOk
(* The source. *)
<1>3. ASSUME NEW s, SourceOk(s, begun), s.seqno = k, s.task = src.task, NEW h \in Place, NEW n, NetOk(n, k),
             begun = 0 => \A l \in Links : n[l] = <<>>, NEW M, Handled(s, h, n, M),
             UNCHANGED <<tgt, parent, child, begun, lost>>
      PROVE  TypeInv'
  <2>1. PICK r \in HandleMig(s, h) : /\ src' = r.src /\ here' = r.here /\ net' = Sent("source", n, r.out)
                                     /\ link' \in {"due", link}
    BY <1>3 DEF Handled
  <2>2. /\ SourceOk(r.src, begun) /\ r.here \in Place /\ TargetOk(tgt, r.src.seqno)
        /\ NetOk(Sent("source", n, r.out), r.src.seqno)
        /\ begun = 0 => ~r.src.task /\ \A l \in Links : Sent("source", n, r.out)[l] = <<>>
    BY <1>3, HandledTypes
  <2> QED  BY <1>1, <1>3, <2>1, <2>2 DEF TypeInv
<1>4. CASE BeginMigration
  <2>1. begun' = begun + 1 /\ begun < Attempts /\ src' = [src EXCEPT !.task = TRUE, !.timer = "now"]
    BY <1>4 DEF BeginMigration
  <2>2. src' \in Source
    <3>1. [src EXCEPT !.task = TRUE, !.timer = "now"] \in Source  BY <1>2, SourceUpdate
    <3> QED  BY <2>1, <3>1
  <2>3. SourceOk(src', begun') /\ src'.seqno = k  BY <1>1, <1>2, <2>1, <2>2 DEF SourceOk, Source
  <2> QED  BY <1>1, <1>4, <2>1, <2>3 DEF BeginMigration, TypeInv
<1>5. CASE MigTimerFired
  <2> DEFINE s == Fired(src)
  <2>1. SourceOk(s, begun) /\ s.seqno = k /\ s.task = src.task
    <3>1. /\ [src EXCEPT !.timer = "armed"] \in Source /\ [src EXCEPT !.timer = "off"] \in Source
          /\ [src EXCEPT !.timer = "off", !.state = "NOTIFY_SUCCESS"] \in Source
      BY <1>2, SourceUpdate DEF States
    <3>2. s \in {[src EXCEPT !.timer = "armed"], [src EXCEPT !.timer = "off"], [src EXCEPT !.timer = "off", !.state = "NOTIFY_SUCCESS"]}
      BY DEF Fired
    <3> QED  BY <1>1, <1>2, <3>1, <3>2 DEF SourceOk, Source
  <2> HIDE DEF s
  <2>2. (\E M : Handled(s, here, net, M)) /\ UNCHANGED <<tgt, parent, child, begun, lost>>  BY <1>5 DEF MigTimerFired, s
  <2> QED  BY <1>1, <1>3, <2>1, <2>2
<1>6. ASSUME NEW x \in {"target", "parent", "child"}, SourceReceives(x)  PROVE TypeInv'
  <2> DEFINE l == <<x, "source">>
             m == Head(net[l])
             s == Answered(src, m)
             n == Taken(x, "source")
  <2>1. l \in SourceLinks /\ l \in Links /\ net[l] # <<>>  BY <1>6, LinkFacts DEF SourceReceives, Receive, SourceLinks
  <2>2. NetOk(n, k) /\ begun # 0  BY <1>1, <2>1, TakenOk DEF Taken
  <2>3. SourceOk(s, begun) /\ s.seqno = k /\ s.task = src.task
    <3>1. m \in Message  BY <1>1, <2>1, TakenOk
    <3> QED  BY <1>1, <3>1, AnsweredOk
  <2> HIDE DEF s, n
  <2>4. CASE (\E M : Handled(s, here, n, M)) /\ UNCHANGED <<tgt, parent, child, begun, lost>>
    BY <1>1, <1>3, <2>2, <2>3, <2>4
  <2>5. CASE src' = s /\ net' = n /\ UNCHANGED <<here, link, tgt, parent, child, begun, lost>>
    BY <1>1, <2>2, <2>3, <2>5 DEF TypeInv
  <2> QED  BY <1>6, <2>4, <2>5 DEF SourceReceives, s, n
<1>7. CASE SuspendDone
  <2>1. CASE src.task
    <3>1. (\E M : Handled([src EXCEPT !.state = "SUSPEND_SUCCESS"], "suspended", net, M)) /\ UNCHANGED <<tgt, parent, child, begun, lost>>
      BY <1>7, <2>1 DEF SuspendDone
    <3>2. /\ SourceOk([src EXCEPT !.state = "SUSPEND_SUCCESS"], begun) /\ [src EXCEPT !.state = "SUSPEND_SUCCESS"].seqno = k
          /\ [src EXCEPT !.state = "SUSPEND_SUCCESS"].task = src.task
      BY <1>1, <1>2 DEF SourceOk, Source, States
    <3> QED  BY <1>1, <1>3, <3>1, <3>2 DEF Place
  <2>2. CASE ~src.task
    BY <1>1, <1>7, <2>2 DEF SuspendDone, TypeInv, Place
  <2> QED  BY <2>1, <2>2
<1>8. ASSUME NEW h \in {"parent", "child"}, Flushed(h)  PROVE TypeInv'
  <2> DEFINE s == [src EXCEPT !.flush = @ \ {h}]
  <2>1. /\ SourceOk(s, begun) /\ s.seqno = k /\ s.task = src.task
        /\ SourceOk([s EXCEPT !.state = "FLUSH_SUCCESS"], begun) /\ [s EXCEPT !.state = "FLUSH_SUCCESS"].seqno = k
        /\ [s EXCEPT !.state = "FLUSH_SUCCESS"].task = src.task
    <3>1. s = [src EXCEPT !.flush = src.flush \ {h}] /\ src.flush \ {h} \in SUBSET {"parent", "child"}  BY <1>2 DEF Source
    <3>2. s \in Source  BY <1>2, <3>1, SourceUpdate
    <3>3. SourceOk(s, begun) /\ s.seqno = k /\ s.task = src.task  BY <1>1, <1>2, <3>1, <3>2 DEF SourceOk, Source
    <3> HIDE DEF s
    <3> QED  BY <1>1, <3>2, <3>3 DEF SourceOk, Source, States
  <2> HIDE DEF s
  <2>2. CASE Handled([s EXCEPT !.state = "FLUSH_SUCCESS"], here, net, {}) /\ UNCHANGED <<tgt, parent, child, begun, lost>>
    BY <1>1, <1>3, <2>1, <2>2
  <2>3. CASE src' = s /\ UNCHANGED <<net, here, link, tgt, parent, child, begun, lost>>
    BY <1>1, <2>1, <2>3 DEF TypeInv
  <2> QED  BY <1>8, <2>2, <2>3 DEF Flushed, s
<1>9. CASE SendFails
  <2> DEFINE n == [net EXCEPT ![<<"source", "target">>] = <<>>]
  <2>1. NetOk(n, k) /\ (begun = 0 => \A l \in Links : n[l] = <<>>)
    <3>1. <<"source", "target">> \in Links  BY DEF Links
    <3>2. NetOk(n, k)  BY <1>1, <3>1, EmptiedOk
    <3> QED  BY <1>1, <3>1, <3>2 DEF NetOk
  <2>2. lost' \in 0..MaxLost  BY <1>1, <1>9 DEF SendFails
  <2>3. UNCHANGED <<tgt, parent, child, begun>> /\ link' = "up"  BY <1>9 DEF SendFails
  <2>4. \/ \E st \in GivenUp(src, net[<<"source", "target">>]) :
             /\ src.task /\ st # src.state
             /\ \E r \in HandleMig([src EXCEPT !.state = st], here) :
                  src' = r.src /\ here' = r.here /\ net' = Sent("source", n, r.out)
        \/ net' = n /\ UNCHANGED <<src, here>>
    BY <1>9 DEF SendFails
  <2> HIDE DEF n
  <2>5. CASE net' = n /\ UNCHANGED <<src, here>>
    BY <1>1, <2>1, <2>2, <2>3, <2>5 DEF TypeInv
  <2>6. ASSUME NEW st \in GivenUp(src, net[<<"source", "target">>]), src.task, st # src.state,
               NEW r \in HandleMig([src EXCEPT !.state = st], here),
               src' = r.src, here' = r.here, net' = Sent("source", n, r.out)
        PROVE  TypeInv'
    <3>1. st \in {"GETCODE_FAIL", "DOIT_STATUS", "DOIT_FAIL"}  BY <2>6 DEF GivenUp
    <3>2. SourceOk([src EXCEPT !.state = st], begun) /\ [src EXCEPT !.state = st].seqno = k /\ [src EXCEPT !.state = st].task = src.task
      BY <1>1, <1>2, <3>1 DEF SourceOk, Source, States
    <3>3. /\ SourceOk(r.src, begun) /\ r.here \in Place /\ TargetOk(tgt, r.src.seqno)
          /\ NetOk(Sent("source", n, r.out), r.src.seqno)
          /\ begun = 0 => ~r.src.task /\ \A l \in Links : Sent("source", n, r.out)[l] = <<>>
      BY <1>1, <2>1, <2>6, <3>2, HandledTypes
    <3> QED  BY <1>1, <2>2, <2>3, <2>6, <3>3 DEF TypeInv
  <2> QED  BY <2>4, <2>5, <2>6
<1>10. CASE LoseAnswer
  <2>1. <<"target", "source">> \in Links  BY DEF Links
  <2>2. NetOk([net EXCEPT ![<<"target", "source">>] = <<>>], k)  BY <1>1, <2>1, EmptiedOk
  <2>3. net' = [net EXCEPT ![<<"target", "source">>] = <<>>] /\ lost' = lost + 1 /\ lost < MaxLost /\ link' = "reset" /\ begun # 0
    BY <1>1, <1>10, <2>1 DEF LoseAnswer
  <2>4. lost' \in 0..MaxLost  BY <1>1, <2>3
  <2> QED  BY <1>1, <1>10, <2>2, <2>3, <2>4 DEF LoseAnswer, TypeInv
<1>11. CASE ChildUnreachable
  <2> DEFINE st == CASE src.state = "NOTIFY" -> "NOTIFY_FAIL" [] src.state = "FLUSH" -> "FLUSH_FAIL" [] OTHER -> src.state
             e == <<"source", "child">>
             s == [src EXCEPT !.state = st]
  <2>1. SourceOk(s, begun) /\ s.seqno = k /\ s.task = src.task
    <3>1. st \in States /\ (st # src.state => st \notin {"IDLE", "NOTIFY"})  BY <1>2 DEF Source, States
    <3> HIDE DEF st
    <3> QED  BY <1>1, <1>2, <3>1 DEF SourceOk, Source
  <2>2. \E r \in HandleMig(s, here) :
          \/ src' = [r.src EXCEPT !.kids = FALSE] /\ here' = r.here /\ net' = [Sent("source", net, r.out) EXCEPT ![e] = <<>>]
          \/ src' = [src EXCEPT !.kids = FALSE] /\ here' = here /\ net' = [net EXCEPT ![e] = <<>>]
    BY <1>11 DEF ChildUnreachable
  <2> HIDE DEF s
  <2>3. ASSUME NEW r \in HandleMig(s, here)
        PROVE  /\ SourceOk(r.src, begun) /\ r.here \in Place /\ TargetOk(tgt, r.src.seqno)
               /\ NetOk(Sent("source", net, r.out), r.src.seqno)
               /\ begun = 0 => ~r.src.task /\ \A l \in Links : Sent("source", net, r.out)[l] = <<>>
    BY <1>1, <2>1, HandledTypes
  <2>4. PICK x, y, n : /\ SourceOk(x, begun) /\ y \in Place /\ TargetOk(tgt, x.seqno) /\ NetOk(n, x.seqno)
                       /\ begun = 0 => ~x.task /\ \A l \in Links : n[l] = <<>>
                       /\ src' = [x EXCEPT !.kids = FALSE] /\ here' = y /\ net' = [n EXCEPT ![e] = <<>>]
    <3>1. PICK r \in HandleMig(s, here) :
            \/ src' = [r.src EXCEPT !.kids = FALSE] /\ here' = r.here /\ net' = [Sent("source", net, r.out) EXCEPT ![e] = <<>>]
            \/ src' = [src EXCEPT !.kids = FALSE] /\ here' = here /\ net' = [net EXCEPT ![e] = <<>>]
      BY <2>2
    <3> HIDE DEF e
    <3>2. CASE src' = [r.src EXCEPT !.kids = FALSE] /\ here' = r.here /\ net' = [Sent("source", net, r.out) EXCEPT ![e] = <<>>]
      BY <2>3, <3>2
    <3>3. CASE src' = [src EXCEPT !.kids = FALSE] /\ here' = here /\ net' = [net EXCEPT ![e] = <<>>]
      BY <1>1, <3>3
    <3> QED  BY <3>1, <3>2, <3>3
  <2>5. SourceOk(src', begun) /\ src'.seqno = x.seqno /\ src'.task = x.task
    BY <2>4 DEF SourceOk, Source
  <2>6. NetOk(net', x.seqno) /\ (begun = 0 => \A l \in Links : net'[l] = <<>>)
    <3>1. e \in Links  BY DEF Links
    <3>2. NetOk(net', x.seqno)  BY <2>4, <3>1, EmptiedOk
    <3> QED  BY <2>4, <3>1, <3>2 DEF NetOk
  <2>7. lost' \in 0..MaxLost /\ UNCHANGED <<tgt, parent, child, link, begun>>  BY <1>1, <1>11 DEF ChildUnreachable
  <2> HIDE DEF e
  <2> QED  BY <1>1, <2>4, <2>5, <2>6, <2>7 DEF TypeInv
(* The target. *)
<1>12. ASSUME TargetOk(tgt', k), NetOk(net', k), SourceKeeps,
              begun = 0 => ~tgt'.fetching /\ \A l \in Links : net'[l] = <<>>
       PROVE  TypeInv'
  BY <1>1, <1>12 DEF SourceKeeps, TypeInv
<1>13. ASSUME Receive("source", "target", {"getCodeReq", "migReq", "state"})
       PROVE  /\ begun # 0 /\ Attempts >= 1
              /\ Head(net[<<"source", "target">>]) \in UpTo(k) /\ NetOk(Taken("source", "target"), k)
              /\ \A c \in Kinds, j \in 0..Attempts, f \in BOOLEAN :
                    j <= k => NetOk(Sent("target", Taken("source", "target"), Tell({"source"}, Msg(c, j, f))), k)
  <2>1. <<"source", "target">> \in SourceLinks /\ <<"source", "target">> \in Links /\ net[<<"source", "target">>] # <<>>
    BY <1>13, LinkFacts DEF Receive, SourceLinks
  <2>2. \A c \in Kinds, j \in 0..Attempts, f \in BOOLEAN : j <= k => Msg(c, j, f) \in UpTo(k) /\ Msg(c, j, f) \in Message
    BY DEF UpTo, Message, Msg
  <2>3. NetOk(Taken("source", "target"), k) /\ Head(net[<<"source", "target">>]) \in UpTo(k)
    BY <1>1, <2>1, TakenOk DEF Taken
  <2>4. begun # 0 /\ Attempts >= 1  BY <1>1, <2>1
  <2> QED  BY <1>1, <2>2, <2>3, <2>4, ToldOk
<1>14. CASE TargetGetCode
  <2> DEFINE m == Head(net[<<"source", "target">>])
  <2>1. Receive("source", "target", {"getCodeReq"})  BY <1>14 DEF TargetGetCode
  <2>2. begun # 0 /\ m.seq \in 0..Attempts /\ m.seq <= k /\ NetOk(Taken("source", "target"), k)
        /\ NetOk(Sent("target", Taken("source", "target"), Tell({"source"}, Msg("getCodeRep", m.seq, FALSE))), k)
    BY <1>13, <2>1 DEF Receive, UpTo, Message, Kinds
  <2> HIDE DEF m
  <2>3. TargetOk(tgt', k)
    <3>1. /\ tgt' \in Target /\ tgt'.asked = m.seq
          /\ tgt'.reqSeq = tgt.reqSeq /\ tgt'.runtime = tgt.runtime /\ tgt'.hostSeq = tgt.hostSeq
      BY <1>2, <1>14, <2>2 DEF TargetGetCode, Target, m
    <3> QED  BY <1>1, <2>2, <3>1 DEF TargetOk
  <2>4. NetOk(net', k)  BY <1>14, <2>2 DEF TargetGetCode, m
  <2> QED  BY <1>12, <1>14, <2>2, <2>3, <2>4 DEF TargetGetCode, TargetKeeps
<1>15. CASE CodeFetched
  <2>1. PICK found \in BOOLEAN : net' = Sent("target", net, Tell({"source"}, Msg("getCodeRep", tgt.asked, found)))
    BY <1>15 DEF CodeFetched
  <2>2. Msg("getCodeRep", tgt.asked, found) \in UpTo(k) /\ Msg("getCodeRep", tgt.asked, found) \in Message
    BY <1>1 DEF TargetOk, Target, UpTo, Message, Msg, Kinds
  <2>3. NetOk(net', k)  BY <1>1, <2>1, <2>2, ToldOk
  <2>4. TargetOk(tgt', k)  BY <1>1, <1>15 DEF CodeFetched, TargetOk, Target
  <2>5. begun # 0  BY <1>1, <1>15 DEF CodeFetched
  <2> QED  BY <1>12, <1>15, <2>3, <2>4, <2>5 DEF CodeFetched, TargetKeeps
<1>16. CASE TargetMigReq
  <2> DEFINE m == Head(net[<<"source", "target">>])
  <2>1. Receive("source", "target", {"migReq"})  BY <1>16 DEF TargetMigReq
  <2>2. begun # 0 /\ m.seq \in 0..Attempts /\ m.seq <= k /\ NetOk(Taken("source", "target"), k)
        /\ NetOk(Reply(m, m.seq, FALSE), k)
    BY <1>13, <2>1 DEF Receive, UpTo, Message, Kinds, Reply
  <2> HIDE DEF m
  <2>3. TargetOk(tgt', k)
    <3> DEFINE kept == [tgt EXCEPT !.slot = TRUE, !.reqSeq = m.seq]
    <3>0. tgt' = tgt \/ \E j \in {tgt.agents, tgt.agents + 1, Fewer(tgt.agents)} : tgt' = [kept EXCEPT !.agents = j]
      BY <1>16 DEF TargetMigReq, m
    <3>1. /\ tgt' \in Target /\ tgt'.reqSeq \in {tgt.reqSeq, m.seq}
          /\ tgt'.asked = tgt.asked /\ tgt'.runtime = tgt.runtime /\ tgt'.hostSeq = tgt.hostSeq
      <4>1. tgt.agents \in Nat /\ tgt.agents + 1 \in Nat /\ Fewer(tgt.agents) \in Nat  BY <1>2 DEF Target, Fewer
      <4>2. kept \in Target /\ kept.reqSeq = m.seq /\ kept.asked = tgt.asked /\ kept.runtime = tgt.runtime /\ kept.hostSeq = tgt.hostSeq
        BY <1>2, <2>2 DEF Target
      <4> HIDE DEF kept
      <4>3. ASSUME NEW j \in Nat
            PROVE  LET t == [kept EXCEPT !.agents = j]
                   IN  t \in Target /\ t.reqSeq = m.seq /\ t.asked = tgt.asked /\ t.runtime = tgt.runtime /\ t.hostSeq = tgt.hostSeq
        BY <4>2 DEF Target
      <4>4. CASE tgt' = tgt  BY <1>2, <4>4
      <4>5. ASSUME NEW j \in Nat, tgt' = [kept EXCEPT !.agents = j]
            PROVE  /\ tgt' \in Target /\ tgt'.reqSeq = m.seq /\ tgt'.asked = tgt.asked
                   /\ tgt'.runtime = tgt.runtime /\ tgt'.hostSeq = tgt.hostSeq
        BY <4>3, <4>5
      <4> QED  BY <3>0, <4>1, <4>4, <4>5
    <3> QED  BY <1>1, <2>2, <3>1 DEF TargetOk
  <2>4. NetOk(net', k)  BY <1>16, <2>2 DEF TargetMigReq, m
  <2> QED  BY <1>12, <1>16, <2>2, <2>3, <2>4 DEF TargetMigReq, TargetKeeps
<1>17. CASE TargetState
  <2> DEFINE m == Head(net[<<"source", "target">>])
             report == Msg("done", tgt.hostSeq + 1, FALSE)
  <2>1. Receive("source", "target", {"state"})  BY <1>17 DEF TargetState
  <2>2. /\ begun # 0 /\ Attempts >= 1 /\ m.flag \in BOOLEAN /\ NetOk(Taken("source", "target"), k)
        /\ \A f \in BOOLEAN : NetOk(Reply(m, tgt.reqSeq, f), k)
    BY <1>1, <1>13, <2>1 DEF Receive, UpTo, Message, Kinds, Reply, TargetOk, Target
  <2> HIDE DEF m
  <2>3. TargetOk(tgt', k) /\ (Loads => NetOk(Sent("target", Reply(m, tgt.reqSeq, TRUE), Tell({"parent"}, report)), k))
    <3>1. tgt.hostSeq = (IF tgt.runtime # "none" THEN 1 ELSE 0)  BY <1>1 DEF TargetOk
    <3>2. Loads => tgt.hostSeq = 0 /\ report \in Message  BY <3>1, <2>2, <1>1 DEF Loads, Message, Msg, Kinds
    <3>3. Loads => NetOk(Sent("target", Reply(m, tgt.reqSeq, TRUE), Tell({"parent"}, report)), k)
      BY <1>1, <2>2, <3>2, ToldOk
    <3>4. tgt' = tgt \/ (tgt.agents # 0 /\ tgt' = [tgt EXCEPT !.agents = @ - 1])
          \/ (Loads /\ tgt' = [tgt EXCEPT !.runtime = "still", !.kids = m.flag, !.hostSeq = @ + 1])
      BY <1>17 DEF TargetState, m
    <3>5. ASSUME tgt' = tgt \/ (tgt.agents # 0 /\ tgt' = [tgt EXCEPT !.agents = @ - 1])
          PROVE  TargetOk(tgt', k)
      <4>1. /\ tgt' \in Target /\ tgt'.asked = tgt.asked /\ tgt'.reqSeq = tgt.reqSeq
            /\ tgt'.runtime = tgt.runtime /\ tgt'.hostSeq = tgt.hostSeq
        BY <1>2, <3>5 DEF Target
      <4> QED  BY <1>1, <4>1 DEF TargetOk
    <3>6. ASSUME Loads, tgt' = [tgt EXCEPT !.runtime = "still", !.kids = m.flag, !.hostSeq = @ + 1]
          PROVE  TargetOk(tgt', k)
      <4>1. tgt.hostSeq + 1 = 1 /\ 1 \in 0..Attempts  BY <1>1, <2>2, <3>2, <3>6
      <4>2. tgt' = [tgt EXCEPT !.runtime = "still", !.kids = m.flag, !.hostSeq = 1]  BY <3>6, <4>1
      <4>3. tgt' \in Target  BY <1>2, <2>2, <4>1, <4>2 DEF Target
      <4>4. tgt'.hostSeq = 1 /\ tgt'.runtime = "still" /\ tgt'.asked = tgt.asked /\ tgt'.reqSeq = tgt.reqSeq
        BY <1>2, <4>2 DEF Target
      <4> QED  BY <1>1, <4>3, <4>4 DEF TargetOk
    <3> QED  BY <3>3, <3>4, <3>5, <3>6
  <2>4. NetOk(net', k)
    <3>1. \/ net' = Taken("source", "target") \/ net' = Reply(m, tgt.reqSeq, FALSE)
          \/ (Loads /\ net' = Sent("target", Reply(m, tgt.reqSeq, TRUE), Tell({"parent"}, report)))
      BY <1>17 DEF TargetState, m
    <3> QED  BY <2>2, <2>3, <3>1
  <2> QED  BY <1>12, <1>17, <2>2, <2>3, <2>4 DEF TargetState
<1>18. CASE TargetJudged
  <2> DEFINE n == Taken("parent", "target")
             m == Msg("done", tgt.hostSeq, FALSE)
  <2>1. <<"parent", "target">> \in Links /\ net[<<"parent", "target">>] # <<>>
    BY <1>18 DEF TargetJudged, Receive, Links
  <2>2. NetOk(n, k) /\ begun # 0  BY <1>1, <2>1, TakenOk DEF Taken
  <2>3. m \in Message  BY <1>1 DEF TargetOk, Target, Message, Kinds, Msg
  <2>4. ASSUME NEW H \in {{"child"}, {}}  PROVE NetOk(Sent("target", n, Tell(H, m)), k)
    <3>1. "source" \notin H  OBVIOUS
    <3> HIDE DEF n, m
    <3> QED  BY <1>1, <2>2, <2>3, <3>1, ToldOk
  <2>5. TargetOk(tgt', k)
    <3>1. \/ tgt' = tgt
          \/ tgt' = Cleared([tgt EXCEPT !.runtime = IF @ = "still" THEN "running" ELSE @])
          \/ tgt.agents > 0 /\ tgt' = Cleared([tgt EXCEPT !.agents = @ - 1])
      BY <1>18 DEF TargetJudged
    <3>2. /\ TargetOk([tgt EXCEPT !.runtime = IF @ = "still" THEN "running" ELSE @], k)
          /\ tgt.agents > 0 => TargetOk([tgt EXCEPT !.agents = @ - 1], k)
      BY <1>1 DEF TargetOk, Target
    <3>3. \A t : TargetOk(t, k) => TargetOk(Cleared(t), k)
      BY DEF TargetOk, Target, Cleared
    <3> QED  BY <1>1, <3>1, <3>2, <3>3
  <2> HIDE DEF n, m
  <2>6. net' = n \/ \E H \in {{"child"}, {}} : net' = Sent("target", n, Tell(H, m))
    BY <1>18 DEF TargetJudged, n, m
  <2> QED  BY <1>12, <1>18, <2>2, <2>4, <2>5, <2>6 DEF TargetJudged, TargetKeeps
<1>19. CASE Reap
  <2>1. TargetOk(tgt', k) /\ net' = net /\ tgt'.fetching = tgt.fetching
    <3>1. Fewer(tgt.agents) \in Nat  BY <1>2 DEF Target, Fewer
    <3>2. \A j \in Nat : TargetOk(Cleared([tgt EXCEPT !.agents = j]), k) /\ Cleared([tgt EXCEPT !.agents = j]).fetching = tgt.fetching
      BY <1>1 DEF TargetOk, Target, Cleared
    <3>3. tgt' = Cleared([tgt EXCEPT !.agents = Fewer(@)]) /\ net' = net  BY <1>19 DEF Reap
    <3>4. tgt' = Cleared([tgt EXCEPT !.agents = Fewer(tgt.agents)])  BY <3>3
    <3> QED  BY <3>1, <3>2, <3>3, <3>4
  <2> QED  BY <1>1, <1>12, <1>19, <2>1 DEF Reap
(* The relatives. *)
<1>20. ASSUME parent' \in [cmig : BOOLEAN, host : Hosts], child' \in [pmig : BOOLEAN, phost : Hosts],
              NetOk(net', k), begun # 0, UNCHANGED <<src, here, tgt, link, begun, lost>>
       PROVE  TypeInv'
  BY <1>1, <1>20 DEF TypeInv
<1>21. ASSUME NEW x \in {"source", "target"}, NEW y \in {"parent", "child"}, net[<<x, y>>] # <<>>
       PROVE  /\ begun # 0 /\ NetOk(Taken(x, y), k)
              /\ \A c \in Kinds, f \in BOOLEAN : NetOk(Sent(y, Taken(x, y), Tell({x}, Msg(c, Head(net[<<x, y>>]).seq, f))), k)
  <2> DEFINE l == <<x, y>>
             m(c, f) == Msg(c, Head(net[l]).seq, f)
  <2>1. l \in Links /\ (x = "source" => l \in SourceLinks)  BY DEF Links, SourceLinks
  <2>2. NetOk(Taken(x, y), k) /\ Head(net[l]) \in Message /\ (x = "source" => Head(net[l]) \in UpTo(k))
    BY <1>1, <1>21, <2>1, TakenOk DEF Taken
  <2>3. \A c \in Kinds, f \in BOOLEAN : m(c, f) \in Message /\ (x = "source" => m(c, f) \in UpTo(k))
    BY <2>2 DEF UpTo, Message, Msg
  <2>4. begun # 0  BY <1>1, <1>21, <2>1
  <2> HIDE DEF m
  <2>5. \A c \in Kinds, f \in BOOLEAN : NetOk(Sent(y, Taken(x, y), Tell({x}, m(c, f))), k)
    BY <1>1, <2>2, <2>3, ToldOk
  <2> QED  BY <2>2, <2>4, <2>5 DEF m
<1>22. CASE ParentNotified
  <2>1. net[<<"source", "parent">>] # <<>>  BY <1>22 DEF ParentNotified, Receive
  <2>2. PICK ok \in BOOLEAN :
          /\ parent' = IF ok THEN [parent EXCEPT !.cmig = TRUE] ELSE parent
          /\ net' = Sent("parent", Taken("source", "parent"),
                         Tell({"source"}, Msg("notifyAck", Head(net[<<"source", "parent">>]).seq, ok)))
    BY <1>22 DEF ParentNotified
  <2>3. begun # 0 /\ NetOk(net', k)  BY <1>21, <2>1, <2>2 DEF Kinds
  <2>4. parent' \in [cmig : BOOLEAN, host : Hosts]  BY <1>1, <2>2
  <2> QED  BY <1>1, <1>20, <1>22, <2>3, <2>4 DEF ParentNotified, RelativesKeep
<1>23. ASSUME NEW x \in {"source", "target"}, ParentDone(x)  PROVE TypeInv'
  <2>1. net[<<x, "parent">>] # <<>>  BY <1>23 DEF ParentDone, Receive
  <2>2. PICK kind \in {"ack", "nack"} :
          /\ net' = Sent("parent", Taken(x, "parent"), Tell({x}, Msg(kind, Head(net[<<x, "parent">>]).seq, FALSE)))
          /\ parent' \in {parent, Moved(x)}
    BY <1>23 DEF ParentDone
  <2>3. begun # 0 /\ NetOk(net', k)  BY <1>21, <2>1, <2>2 DEF Kinds
  <2>4. parent' \in [cmig : BOOLEAN, host : Hosts]  BY <1>1, <2>2 DEF Moved, Hosts
  <2> QED  BY <1>1, <1>20, <1>23, <2>3, <2>4 DEF ParentDone, RelativesKeep
<1>24. CASE ParentFailed
  <2>1. net[<<"source", "parent">>] # <<>>  BY <1>24 DEF ParentFailed, Receive
  <2>2. begun # 0 /\ NetOk(net', k)  BY <1>21, <1>24, <2>1 DEF ParentFailed
  <2> QED  BY <1>1, <1>20, <1>24, <2>2 DEF ParentFailed, RelativesKeep
<1>25. CASE ChildNotified
  <2>1. net[<<"source", "child">>] # <<>>  BY <1>25 DEF ChildNotified, Receive
  <2>2. net' = Sent("child", Taken("source", "child"), Tell({"source"}, Msg("notifyAck", Head(net[<<"source", "child">>]).seq, TRUE)))
    BY <1>25 DEF ChildNotified
  <2>3. begun # 0 /\ NetOk(net', k)  BY <1>21, <2>1, <2>2 DEF Kinds
  <2> QED  BY <1>1, <1>20, <1>25, <2>3 DEF ChildNotified, RelativesKeep
<1>26. ASSUME NEW x \in {"source", "target"}, ChildDone(x)  PROVE TypeInv'
  <2>1. net[<<x, "child">>] # <<>>  BY <1>26 DEF ChildDone, Receive
  <2>2. begun # 0 /\ NetOk(net', k)  BY <1>21, <1>26, <2>1 DEF ChildDone
  <2>3. child' \in [pmig : BOOLEAN, phost : Hosts]  BY <1>1, <1>26 DEF ChildDone, Hosts
  <2> QED  BY <1>1, <1>20, <1>26, <2>2, <2>3 DEF ChildDone, RelativesKeep
<1>27. CASE ChildFailed
  <2>1. net[<<"source", "child">>] # <<>>  BY <1>27 DEF ChildFailed, Receive
  <2>2. begun # 0 /\ NetOk(net', k)  BY <1>21, <1>27, <2>1 DEF ChildFailed
  <2> QED  BY <1>1, <1>20, <1>27, <2>2 DEF ChildFailed, RelativesKeep
<1>28. CASE UNCHANGED vars  BY <1>28 DEF vars, TypeInv
<1> QED
  BY <1>4, <1>5, <1>6, <1>7, <1>8, <1>9, <1>10, <1>11, <1>14, <1>15, <1>16, <1>17, <1>18, <1>19, <1>22, <1>23,
     <1>24, <1>25, <1>26, <1>27, <1>28
  DEF Next, Answering, Flushing, ParentTold, ChildTold

LEMMA AmissTypes ==
  ASSUME NEW s, s.state \in States, s.task \in BOOLEAN, NEW h, NEW r \in HandleMig(s, h)
  PROVE  r.amiss \subseteq Mishaps
<1>1. r.amiss \in {{}, {"unasked"}, {"childUntold"}, {"leftStopped"}}  BY HandleMigIs DEF Gives
<1> QED  BY <1>1 DEF Mishaps

(* What has gone amiss stays recorded. *)
LEMMA MishapsGrow ==
  TypeInv /\ [Next]_vars => mishaps \subseteq mishaps' /\ (mishaps \subseteq Mishaps => mishaps' \subseteq Mishaps)
<1> SUFFICES ASSUME TypeInv, [Next]_vars
             PROVE  \E M \in SUBSET Mishaps : mishaps' = mishaps \cup M
  OBVIOUS
<1>1. src.state \in States /\ src.task \in BOOLEAN  BY DEF TypeInv, SourceOk, Source
<1>2. ASSUME NEW s, s.state \in States, s.task = src.task, NEW h, NEW r \in HandleMig(s, h), NEW M \in SUBSET Mishaps,
             mishaps' = mishaps \cup r.amiss \cup M
      PROVE  \E N \in SUBSET Mishaps : mishaps' = mishaps \cup N
  <2>1. r.amiss \in SUBSET Mishaps  BY <1>1, <1>2, AmissTypes
  <2>2. r.amiss \cup M \in SUBSET Mishaps /\ mishaps' = mishaps \cup (r.amiss \cup M)  BY <1>2, <2>1
  <2> QED  BY <2>2
<1>3. ASSUME NEW s, s.state \in States, s.task = src.task, NEW h, NEW n, NEW M \in SUBSET Mishaps, Handled(s, h, n, M)
      PROVE  \E N \in SUBSET Mishaps : mishaps' = mishaps \cup N
  BY <1>1, <1>2, <1>3 DEF Handled
<1>4. \A m \in Mishaps : \A c : {} \in SUBSET Mishaps /\ {m} \in SUBSET Mishaps /\ (IF c THEN {m} ELSE {}) \in SUBSET Mishaps
  OBVIOUS
<1>5. "latePing" \in Mishaps /\ "lateReply" \in Mishaps /\ "lateStop" \in Mishaps /\ "lateLoad" \in Mishaps
      /\ "dropped" \in Mishaps /\ "oldReport" \in Mishaps
  BY DEF Mishaps
<1>6. ASSUME NEW m \in Mishaps, NEW c, Amiss(m, c)  PROVE \E N \in SUBSET Mishaps : mishaps' = mishaps \cup N
  <2>1. mishaps' = mishaps \cup {m} \/ mishaps' = mishaps \cup {}  BY <1>6 DEF Amiss
  <2>2. {} \in SUBSET Mishaps /\ {m} \in SUBSET Mishaps  OBVIOUS
  <2> QED  BY <2>1, <2>2
<1>7. ASSUME UNCHANGED mishaps  PROVE \E N \in SUBSET Mishaps : mishaps' = mishaps \cup N
  <2>1. mishaps' = mishaps \cup {} /\ {} \in SUBSET Mishaps  BY <1>7
  <2> QED  BY <2>1
<1>8. CASE MigTimerFired
  <2>1. Fired(src).state \in States /\ Fired(src).task = src.task
    <3>1. src \in Source  BY DEF TypeInv, SourceOk
    <3> QED  BY <3>1 DEF Fired, Source, States
  <2> HIDE DEF Fired
  <2>2. \E M \in {{"latePing"}, {}} : Handled(Fired(src), here, net, M)  BY <1>8 DEF MigTimerFired
  <2> QED  BY <1>3, <1>4, <1>5, <2>1, <2>2
<1>9. ASSUME NEW x, SourceReceives(x)  PROVE \E N \in SUBSET Mishaps : mishaps' = mishaps \cup N
  <2> DEFINE m == Head(net[<<x, "source">>])
             s == Answered(src, m)
  <2>1. s.state \in States /\ s.task = src.task
    <3>1. src \in Source  BY DEF TypeInv, SourceOk
    <3> QED  BY <3>1 DEF Answered, Source, States
  <2> HIDE DEF s
  <2>2. UNCHANGED mishaps \/ \E M \in {{"lateReply"}, {}} : Handled(s, here, Taken(x, "source"), M)
    BY <1>9 DEF SourceReceives, s
  <2> QED  BY <1>3, <1>4, <1>5, <1>7, <2>1, <2>2
<1>10. CASE SuspendDone
  <2> DEFINE s == [src EXCEPT !.state = "SUSPEND_SUCCESS"]
  <2>1. s.state \in States /\ s.task = src.task
    <3>1. src \in Source  BY DEF TypeInv, SourceOk
    <3> QED  BY <3>1 DEF Source, States
  <2> HIDE DEF s
  <2>2. UNCHANGED mishaps \/ \E M \in {{"lateStop"}, {}} : Handled(s, "suspended", net, M)
    BY <1>10 DEF SuspendDone, s
  <2> QED  BY <1>3, <1>4, <1>5, <1>7, <2>1, <2>2
<1>11. ASSUME NEW h, Flushed(h)  PROVE \E N \in SUBSET Mishaps : mishaps' = mishaps \cup N
  <2> DEFINE s == [[src EXCEPT !.flush = @ \ {h}] EXCEPT !.state = "FLUSH_SUCCESS"]
  <2>1. s.state \in States /\ s.task = src.task
    <3>1. src \in Source  BY DEF TypeInv, SourceOk
    <3> QED  BY <3>1 DEF Source, States
  <2>2. UNCHANGED mishaps \/ Handled(s, here, net, {})  BY <1>11 DEF Flushed
  <2> HIDE DEF s
  <2> QED  BY <1>3, <1>4, <1>7, <2>1, <2>2
<1>12. CASE SendFails
  <2>1. UNCHANGED mishaps \/ \E st \in GivenUp(src, net[<<"source", "target">>]) :
          \E r \in HandleMig([src EXCEPT !.state = st], here) : mishaps' = mishaps \cup r.amiss
    BY <1>12 DEF SendFails
  <2>2. ASSUME NEW st \in GivenUp(src, net[<<"source", "target">>])
        PROVE  [src EXCEPT !.state = st].state \in States /\ [src EXCEPT !.state = st].task = src.task
    <3>1. src \in Source /\ st \in States  BY <1>1 DEF TypeInv, SourceOk, GivenUp, States
    <3> QED  BY <3>1 DEF Source
  <2>3. ASSUME NEW st \in GivenUp(src, net[<<"source", "target">>]),
               NEW r \in HandleMig([src EXCEPT !.state = st], here), mishaps' = mishaps \cup r.amiss
        PROVE  \E N \in SUBSET Mishaps : mishaps' = mishaps \cup N
    <3>1. r.amiss \subseteq Mishaps  BY <1>1, <2>2, AmissTypes
    <3> QED  BY <2>3, <3>1
  <2> QED  BY <1>7, <2>1, <2>3
<1>13. CASE TargetState  BY <1>5, <1>6, <1>13 DEF TargetState
<1>14. CASE Reap  BY <1>5, <1>6, <1>14 DEF Reap
<1>15. CASE ParentNotified  BY <1>5, <1>6, <1>15 DEF ParentNotified
<1>16. CASE \/ BeginMigration \/ LoseAnswer \/ ChildUnreachable \/ TargetGetCode \/ CodeFetched \/ TargetMigReq \/ TargetJudged
            \/ ParentTold \/ ParentFailed \/ ChildNotified \/ ChildTold \/ ChildFailed \/ UNCHANGED vars
  BY <1>7, <1>16
  DEF BeginMigration, LoseAnswer, ChildUnreachable, TargetGetCode, CodeFetched, TargetMigReq, TargetJudged, TargetKeeps,
      ParentTold, ParentDone, ParentFailed, ChildNotified, ChildTold, ChildDone, ChildFailed, RelativesKeep, vars
<1> QED
  BY <1>8, <1>9, <1>10, <1>11, <1>12, <1>13, <1>14, <1>15, <1>16 DEF Next, Answering, Flushing

(* TypeOK: whatever is lost, refused or late, numbers stay within what was begun, and the runtime loads the *)
(* agent once.                                                                                             *)
THEOREM MigrationTypeCorrect == Spec => []TypeOK
<1>1. TypeInv /\ mishaps \subseteq Mishaps => TypeOK
  <2> SUFFICES ASSUME TypeInv, mishaps \subseteq Mishaps PROVE TypeOK  OBVIOUS
  <2>1. DOMAIN net = Links /\ \A l \in Links : \A i \in DOMAIN net[l] : net[l][i] \in Message
    BY DEF TypeInv, NetOk
  <2> QED  BY <2>1 DEF TypeInv, TypeOK, SourceOk, TargetOk, Source, Target, Message, Place
<1>2. Init => mishaps \subseteq Mishaps  BY DEF Init
<1>3. TypeInv /\ [Next]_vars /\ mishaps \subseteq Mishaps => (mishaps \subseteq Mishaps)'  BY MishapsGrow
<1> QED  BY <1>1, <1>2, <1>3, TypeInit, TypeStep, PTL DEF Spec
-----------------------------------------------------------------------------
(* What StillWhileMoved rests on: it holds without a task too, and from the moment the agent has been *)
(* reported to stand still.                                                                           *)
Moving == {"SUSPEND_SUCCESS", "FLUSH", "DOIT", "DOIT_WAIT", "DOIT_STATUS"}
Still(s, h) == s.state \in Moving => h = "suspended"
StillInv == Still(src, here)

(* Whatever handleMig does keeps the source still while it moves the agent. *)
LEMMA HandleMigStill ==
  ASSUME NEW s \in Source, NEW h, Still(s, h), NEW r \in HandleMig(s, h)
  PROVE  Still(r.src, r.here)
<1>1. s.state \in States /\ s.task \in BOOLEAN  BY DEF Source
<1>2. /\ Ended(s).state = "IDLE" /\ [Ended(s) EXCEPT !.timer = "off"].state = "IDLE"
      /\ [Ended(s) EXCEPT !.flush = {}].state = "IDLE" /\ GivenAnyway(s).state = "IDLE"
      /\ Requested(s).state = "GETCODE_WAIT" /\ Pinged(s).state = s.state /\ AllTold(s).state = "NOTIFY"
      /\ \A k : PartTold(s, k).state = "NOTIFY"
      /\ \A st : [s EXCEPT !.state = st].state = st
      /\ [s EXCEPT !.timer = "off"].state = s.state
      /\ HandedOver(s).state = "DOIT_WAIT"
  BY DEF Source, Ended, GivenAnyway, Requested, Pinged, AllTold, PartTold, HandedOver
<1>3. Resumed(h) \in {"running", h}  BY DEF Resumed
<1>4. ASSUME NEW M, NEW x, NEW y, NEW o, Gives(r, M, x, y, o), Still(x, y)  PROVE Still(r.src, r.here)
  BY <1>4 DEF Gives
<1>5. /\ \A y : /\ Still(Ended(s), y) /\ Still([Ended(s) EXCEPT !.timer = "off"], y)
                /\ Still([Ended(s) EXCEPT !.flush = {}], y) /\ Still(GivenAnyway(s), y)
                /\ Still(Requested(s), y) /\ Still(AllTold(s), y)
                /\ \A k : Still(PartTold(s, k), y)
                /\ \A st \in {"GETCODE_FAIL", "NOTIFY_FAIL", "DOIT_FAIL"} : Still([s EXCEPT !.state = st], y)
                /\ s.state = "NOTIFY_SUCCESS" => Still([s EXCEPT !.timer = "off"], y)
      /\ Still(s, h) /\ Still(Pinged(s), h) /\ (h = "suspended" => Still(HandedOver(s), h))
      /\ s.state = "SUSPEND_SUCCESS" => \A F : Still(Marked(s, F), h)
  BY <1>2 DEF Still, Moving
<1>6. CASE ~s.task \/ s.state \in {"IDLE", "GETCODE_SUCCESS", "NOTIFY_SUCCESS"}
  BY <1>1, <1>4, <1>5, <1>6, HandleMigIs DEF Awaiting
<1>7. CASE s.task /\ s.state \in Awaiting
  BY <1>1, <1>4, <1>5, <1>7, HandleMigIs DEF Awaiting
<1>8. CASE s.task /\ s.state \in {"SUSPEND_SUCCESS", "FLUSH_SUCCESS", "DOIT"}
  BY <1>1, <1>4, <1>5, <1>8, HandleMigIs DEF Awaiting
<1>9. CASE s.task /\ s.state \in {"GETCODE_FAIL", "NOTIFY_FAIL", "FLUSH_FAIL", "DOIT_STATUS"}
  BY <1>1, <1>4, <1>5, <1>9, HandleMigIs DEF Awaiting
<1>10. CASE s.task /\ s.state \in {"DOIT_ACK", "DOIT_FAIL", "FLUSH", "DOIT_SUCCESS"}
  BY <1>1, <1>4, <1>5, <1>10, HandleMigIs DEF Awaiting
<1> QED  BY <1>1, <1>6, <1>7, <1>8, <1>9, <1>10 DEF States, Awaiting

LEMMA StillStep == TypeInv /\ StillInv /\ [Next]_vars => StillInv'
<1> SUFFICES ASSUME TypeInv, StillInv, [Next]_vars PROVE StillInv'
  OBVIOUS
<1> USE DEF StillInv
<1>1. src \in Source  BY DEF TypeInv, SourceOk
<1>2. ASSUME NEW s \in Source, NEW h, NEW n, NEW M, Still(s, h), Handled(s, h, n, M) PROVE StillInv'
  BY <1>2, HandleMigStill DEF Handled
<1>3. CASE BeginMigration
  BY <1>1, <1>3 DEF BeginMigration, Still, Source
<1>4. CASE MigTimerFired
  <2>1. Still(Fired(src), here) /\ Fired(src) \in Source  BY <1>1 DEF Fired, Still, States, Moving, Source
  <2> HIDE DEF Fired
  <2>2. \E M : Handled(Fired(src), here, net, M)  BY <1>4 DEF MigTimerFired
  <2> QED  BY <1>2, <2>1, <2>2
<1>5. ASSUME NEW x \in {"target", "parent", "child"}, SourceReceives(x) PROVE StillInv'
  <2> DEFINE s == Answered(src, Head(net[<<x, "source">>]))
  <2>1. Still(s, here)  BY <1>1 DEF Answered, Still, States, Moving, Source
  <2>2. s \in Source
    <3>1. <<x, "source">> \in Links /\ net[<<x, "source">>] # <<>>  BY <1>5 DEF SourceReceives, Receive, Links
    <3>2. Head(net[<<x, "source">>]) \in Message  BY <3>1, TakenOk DEF TypeInv
    <3> QED  BY <3>2, AnsweredOk DEF TypeInv, SourceOk
  <2> HIDE DEF s
  <2>3. (src' = s /\ here' = here) \/ \E M : Handled(s, here, Taken(x, "source"), M)  BY <1>5 DEF SourceReceives, s
  <2> QED  BY <1>2, <2>1, <2>2, <2>3
<1>6. CASE SuspendDone
  <2> DEFINE s == [src EXCEPT !.state = "SUSPEND_SUCCESS"]
  <2>1. Still(s, "suspended") /\ s \in Source  BY <1>1 DEF Still, States, Moving, Source
  <2> HIDE DEF s
  <2>2. (src' = src /\ here' = "suspended") \/ \E M : Handled(s, "suspended", net, M)  BY <1>6 DEF SuspendDone, s
  <2> QED  BY <1>2, <2>1, <2>2 DEF Still
<1>7. ASSUME NEW h, Flushed(h) PROVE StillInv'
  <2> DEFINE s == [src EXCEPT !.flush = @ \ {h}]
             t == [s EXCEPT !.state = "FLUSH_SUCCESS"]
  <2>1. Still(s, here) /\ Still(t, here) /\ s \in Source /\ t \in Source
    BY <1>1 DEF Still, States, Moving, Source
  <2>2. (src' = s /\ here' = here) \/ Handled(t, here, net, {})  BY <1>7 DEF Flushed
  <2> HIDE DEF s, t
  <2> QED  BY <1>2, <2>1, <2>2
<1>8. CASE SendFails
  <2>1. PICK st \in GivenUp(src, net[<<"source", "target">>]) :
          \/ \E r \in HandleMig([src EXCEPT !.state = st], here) : src' = r.src /\ here' = r.here
          \/ UNCHANGED <<src, here>>
    BY <1>8 DEF SendFails
  <2>2. Still([src EXCEPT !.state = st], here) /\ [src EXCEPT !.state = st] \in Source
    BY <1>1 DEF GivenUp, Still, States, Moving, Source
  <2> QED  BY <2>1, <2>2, HandleMigStill
<1>9. CASE ChildUnreachable
  <2> DEFINE st == CASE src.state = "NOTIFY" -> "NOTIFY_FAIL" [] src.state = "FLUSH" -> "FLUSH_FAIL" [] OTHER -> src.state
             s == [src EXCEPT !.state = st]
  <2>1. PICK r \in HandleMig(s, here) :
          \/ src' = [r.src EXCEPT !.kids = FALSE] /\ here' = r.here
          \/ src' = [src EXCEPT !.kids = FALSE] /\ here' = here
    BY <1>9 DEF ChildUnreachable
  <2>2. Still(s, here) /\ s \in Source  BY <1>1 DEF Still, States, Moving, Source
  <2> HIDE DEF s
  <2>3. Still(r.src, r.here)  BY <2>2, HandleMigStill
  <2>4. r.src \in Source
    <3>1. begun \in 0..Attempts /\ SourceOk(s, begun) /\ here \in Place
      BY <1>1, <2>2 DEF TypeInv, SourceOk, s, Source
    <3>2. HandledOk(s, begun, r.src, r.here, r.out)  BY <3>1, HandleMigTypes
    <3> QED  BY <3>2 DEF HandledOk, SourceOk
  <2>5. \A q \in Source : [q EXCEPT !.kids = FALSE].state = q.state  BY DEF Source
  <2>6. CASE src' = [r.src EXCEPT !.kids = FALSE] /\ here' = r.here
    <3>1. src'.state = r.src.state  BY <2>4, <2>5, <2>6
    <3> QED  BY <2>3, <2>6, <3>1 DEF Still
  <2>7. CASE src' = [src EXCEPT !.kids = FALSE] /\ here' = here
    <3>1. src'.state = src.state  BY <1>1, <2>5, <2>7
    <3> QED  BY <2>7, <3>1 DEF Still
  <2> QED  BY <2>1, <2>6, <2>7
<1>10. CASE UNCHANGED <<src, here>>
  BY <1>10
<1> QED
  BY <1>3, <1>4, <1>5, <1>6, <1>7, <1>8, <1>9, <1>10
  DEF Next, Answering, Flushing, ParentTold, ChildTold, LoseAnswer, TargetGetCode, CodeFetched, TargetMigReq,
      TargetState, TargetJudged, Reap, ParentNotified, ParentDone, ParentFailed, ChildNotified, ChildDone,
      ChildFailed, SourceKeeps, TargetKeeps, RelativesKeep, vars

(* StillWhileMoved: while its state is on the way to the target the agent stands still, whatever answer, *)
(* timeout or failure reaches the source, and in whatever state.                                        *)
THEOREM StillWhileMovedHolds == Spec => []StillWhileMoved
<1>1. Init => StillInv
  BY DEF Init, StillInv, Still, Moving
<1>2. StillInv => StillWhileMoved
  BY DEF StillInv, Still, StillWhileMoved, Moving
<1> QED
  BY <1>1, <1>2, TypeInit, TypeStep, StillStep, PTL DEF Spec
=============================================================================
