---------------------------- MODULE QueriesProofs ----------------------------
(***************************************************************************)
(* Theorems about queries and the end of a process, for every number of    *)
(* nodes, whatever members each of them is told of, and of calls.          *)
(***************************************************************************)
EXTENDS Queries, TLAPS

(* Who is waited for waits for the one that says so.                       *)
Linked(c) ==
    call[c] # NoCall /\ call[c].from # 0 =>
        /\ call[c].from \in Slot
        /\ call[call[c].from] # NoCall
        /\ call[call[c].from].pc = "wait"
        /\ call[call[c].from].peer = c

Links == \A c \in Slot : Linked(c)

StateTyped ==
    /\ published \in BOOLEAN
    /\ known \subseteq Node
    /\ call \in [Slot -> Call \cup {NoCall}]
    /\ phase \in [Node -> {"up", "draining", "stopping", "ended"}]

QueriesInv == StateTyped /\ Links /\ AnswersKnown /\ ApplicationsFirst

-----------------------------------------------------------------------------
LEMMA CallFields ==
    ASSUME NEW r \in Call
    PROVE  /\ r # NoCall /\ r.op \in Operation /\ r.node \in Node
           /\ r.pc \in {"lookup", "members", "ask", "wait", "late", "read",
                       "answer"}
           /\ r.job \in 1 .. 3 /\ r.todo \in SUBSET Node
           /\ r.peer \in 0 .. MaxCalls /\ r.from \in 0 .. MaxCalls
           /\ r.found \in BOOLEAN /\ r.cid \in BOOLEAN
  BY DEF Call, NoCall, Operation

LEMMA NewCallTyped ==
    ASSUME NEW op \in Operation, NEW n \in Node, NEW from \in 0 .. MaxCalls
    PROVE  NewCall(op, n, from) \in Call
  BY QueriesAssumption DEF NewCall, Call

(* A call that goes on after its job is the same call, and it waits for    *)
(* nobody.                                                                 *)
LEMMA AfterTyped ==
    ASSUME NEW r \in Call, NEW found \in BOOLEAN
    PROVE  /\ After(r, found) \in Call
           /\ After(r, found).op = r.op /\ After(r, found).node = r.node
           /\ After(r, found).from = r.from
           /\ After(r, found).found => found \/ r.found
<1> DEFINE done == [r EXCEPT !.todo = {}, !.peer = 0]
           same(x) == /\ x \in Call /\ x.op = r.op /\ x.node = r.node
                      /\ x.from = r.from /\ (x.found => found \/ r.found)
<1>0. ASSUME NEW d \in Call, NEW s \in {"lookup", "members"}, NEW j \in 1 .. 3
      PROVE  LET x == [d EXCEPT !.pc = s, !.job = j]
             IN  /\ x \in Call /\ x.op = d.op /\ x.node = d.node
                 /\ x.from = d.from /\ (x.found => d.found)
  <2>1. [d EXCEPT !.pc = s, !.job = j] \in Call
    BY DEF Call
  <2> QED
    BY <2>1 DEF Call
<1>1. same(done)
  <2>1. 0 \in 0 .. MaxCalls /\ {} \in SUBSET Node
    BY QueriesAssumption
  <2>2. done \in Call
    BY <2>1 DEF Call
  <2>3. done.op = r.op /\ done.node = r.node /\ done.from = r.from
    BY DEF Call
  <2>4. done.found => r.found
    BY DEF Call
  <2> QED
    BY <2>2, <2>3, <2>4
<1>2. CASE r.op # "Read"
  <2>1. After(r, found) = [done EXCEPT !.pc = "answer", !.found = found]
    BY <1>2 DEF After
  <2> HIDE DEF done
  <2> QED
    BY <1>1, <2>1 DEF Call
<1>3. CASE r.op = "Read" /\ r.job = 2
  <2> DEFINE x == [done EXCEPT !.pc = "lookup", !.job = 3, !.found = found]
  <2>1. After(r, found) = x
    BY <1>3 DEF After
  <2> HIDE DEF done
  <2>2. done \in Call /\ 3 \in 1 .. 3
    BY <1>1
  <2>3. /\ x \in Call /\ x.op = done.op /\ x.node = done.node
        /\ x.from = done.from
    BY <2>2 DEF Call
  <2>4. x.found => found
    BY <2>2 DEF Call
  <2>5. same(x)
    BY <1>1, <2>3, <2>4, Zenon
  <2> QED
    BY <2>1, <2>5
<1>4. CASE r.op = "Read" /\ r.job # 2 /\ found
  <2>1. After(r, found) = [done EXCEPT !.pc = "read", !.cid = (r.job = 1)]
    BY <1>4 DEF After
  <2>2. PICK b \in BOOLEAN : b = (r.job = 1)
    OBVIOUS
  <2>3. After(r, found) = [done EXCEPT !.pc = "read", !.cid = b]
    BY <2>1, <2>2
  <2> HIDE DEF done
  <2> QED
    BY <1>1, <2>3 DEF Call
<1>5. CASE r.op = "Read" /\ r.job = 1 /\ ~found
  <2>1. After(r, found) = [done EXCEPT !.pc = "members", !.job = 2]
    BY <1>5 DEF After
  <2> HIDE DEF done
  <2> DEFINE x == [done EXCEPT !.pc = "members", !.job = 2]
  <2>2. /\ x \in Call /\ x.op = done.op /\ x.node = done.node
        /\ x.from = done.from /\ (x.found => done.found)
    <3>1. 2 \in 1 .. 3 /\ 3 \in 1 .. 3 /\ done \in Call
      BY <1>1
    <3> QED
      BY <1>0, <3>1, Zenon
  <2>3. same(x)
    BY <1>1, <2>2, Zenon
  <2> QED
    BY <2>1, <2>3
<1>6. CASE r.op = "Read" /\ r.job # 2 /\ r.job # 1 /\ ~found
  <2>1. After(r, found) = [done EXCEPT !.pc = "answer"]
    BY <1>6 DEF After
  <2> HIDE DEF done
  <2> DEFINE x == [done EXCEPT !.pc = "answer"]
  <2>2. same(x)
    BY <1>1 DEF Call
  <2> QED
    BY <2>1, <2>2
<1> QED
  BY <1>2, <1>3, <1>4, <1>5, <1>6

(* A slot without a call has no job that could end.                        *)
LEMMA AfterNone == \A found : After(NoCall, found) = NoCall
<1> SUFFICES ASSUME NEW found PROVE After(NoCall, found) = NoCall
  OBVIOUS
<1>1. [NoCall EXCEPT !.todo = {}] = NoCall
  BY DEF NoCall
<1>2. [[NoCall EXCEPT !.todo = {}] EXCEPT !.peer = 0] = NoCall
  BY <1>1 DEF NoCall
<1>3. [NoCall EXCEPT !.pc = "answer"] = NoCall
  BY DEF NoCall
<1>4. [[NoCall EXCEPT !.pc = "answer"] EXCEPT !.found = found] = NoCall
  BY <1>3 DEF NoCall
<1>5. NoCall.op # "Read"
  BY DEF NoCall
<1> QED
  BY <1>2, <1>4, <1>5 DEF After

LEMMA InitQueries == Init => QueriesInv
<1> SUFFICES ASSUME Init PROVE QueriesInv
  OBVIOUS
<1>1. StateTyped
  BY DEF Init, StateTyped
<1>2. Links /\ Active = {}
  BY DEF Init, Links, Linked, Active
<1>3. AnswersKnown /\ ApplicationsFirst
  BY <1>2 DEF Init, AnswersKnown, ApplicationsFirst, Applications
<1> QED
  BY <1>1, <1>2, <1>3 DEF QueriesInv

(* Calls that were there before, and calls that begin.                     *)
GoesOn(x) ==
    /\ call[x] # NoCall
    /\ call'[x].op = call[x].op
    /\ call'[x].node = call[x].node
    /\ call'[x].found => call[x].found \/ call[x].node \in known'

Begins(x) ==
    /\ ~call'[x].found
    /\ call'[x].op = "Sync" \/ phase[call'[x].node] = "up"

LEMMA CallsGoOn ==
    ASSUME QueriesInv, call' \in [Slot -> Call \cup {NoCall}],
           UNCHANGED <<published, phase>>,
           known \subseteq known', known' \subseteq Node,
           ~published => known' = {},
           Links',
           \A x \in Slot : call'[x] # NoCall => GoesOn(x) \/ Begins(x)
    PROVE  QueriesInv'
<1>1. StateTyped'
  BY DEF QueriesInv, StateTyped
<1>2. AnswersKnown'
  BY DEF QueriesInv, AnswersKnown, Active, GoesOn, Begins
<1>3. ApplicationsFirst'
  BY DEF QueriesInv, ApplicationsFirst, Applications, Active, GoesOn, Begins
<1> QED
  BY <1>1, <1>2, <1>3 DEF QueriesInv

LEMMA Waited ==
    ASSUME QueriesInv, NEW x \in Slot, call[x] # NoCall, call[x].from # 0
    PROVE  /\ call[x].from \in Slot /\ call[call[x].from] # NoCall
           /\ call[call[x].from].pc = "wait" /\ call[call[x].from].peer = x
  BY DEF QueriesInv, Links, Linked

(* A call that does not wait changes, and nothing else does.               *)
LEMMA OwnStep ==
    ASSUME QueriesInv, NEW c \in Slot, call[c] \in Call, call[c].pc # "wait",
           NEW r \in Call, r.op = call[c].op, r.node = call[c].node,
           r.from = call[c].from, r.found => call[c].found,
           call' = [call EXCEPT ![c] = r], UNCHANGED <<published, phase, known>>
    PROVE  QueriesInv'
<1>1. /\ call \in [Slot -> Call \cup {NoCall}] /\ known \subseteq Node
      /\ ~published => known = {}
  BY DEF QueriesInv, StateTyped, AnswersKnown
<1>2. /\ call' \in [Slot -> Call \cup {NoCall}] /\ call'[c] = r
      /\ \A x \in Slot \ {c} : call'[x] = call[x]
  BY <1>1
<1>3. Links'
  <2> SUFFICES ASSUME NEW x \in Slot, call'[x] # NoCall, call'[x].from # 0
               PROVE  /\ call'[x].from \in Slot
                      /\ call'[call'[x].from] # NoCall
                      /\ call'[call'[x].from].pc = "wait"
                      /\ call'[call'[x].from].peer = x
    BY DEF Links, Linked, Slot
  <2>1. call[x] # NoCall /\ call'[x].from = call[x].from
    BY <1>2, CallFields
  <2>2. call[x].from # c
    BY <2>1, Waited
  <2> QED
    BY <1>2, <2>1, <2>2, Waited
<1>4. \A x \in Slot : call'[x] # NoCall => GoesOn(x)
  BY <1>2, CallFields DEF GoesOn
<1> QED
  BY <1>1, <1>2, <1>3, <1>4, CallsGoOn

(* Call c goes on as a, and what it waited for answers nobody any more.    *)
BecomesCall(c, a) ==
    /\ call[c] = NoCall => a = NoCall
    /\ call[c] # NoCall =>
           /\ a \in Call /\ a.op = call[c].op /\ a.node = call[c].node
           /\ a.from = call[c].from
           /\ a.found => call[c].found \/ call[c].node \in known

LetsGo(c, a) == call' = Orphaned([call EXCEPT ![c] = a], c)

LEMMA LetsGoStep ==
    ASSUME QueriesInv, NEW c \in Slot, NEW a, BecomesCall(c, a), LetsGo(c, a),
           UNCHANGED <<published, known, phase>>
    PROVE  QueriesInv'
<1> DEFINE calls == [call EXCEPT ![c] = a]
<1>1. /\ call \in [Slot -> Call \cup {NoCall}] /\ known \subseteq Node
      /\ ~published => known = {}
  BY DEF QueriesInv, StateTyped, AnswersKnown
<1>2. known' = known
  OBVIOUS
<1>3. call' = Orphaned(calls, c)
  BY DEF LetsGo
<1>4. /\ call[c] = NoCall => a = NoCall
      /\ call[c] # NoCall =>
            /\ a \in Call /\ a.op = call[c].op /\ a.node = call[c].node
            /\ a.from = call[c].from
            /\ a.found => call[c].found \/ call[c].node \in known
  BY DEF BecomesCall
<1>5. /\ calls \in [Slot -> Call \cup {NoCall}] /\ calls[c] = a
      /\ \A x \in Slot \ {c} : calls[x] = call[x]
  BY <1>1, <1>4
<1> HIDE DEF calls
<1>6. ASSUME NEW x \in Slot, calls[x] # NoCall
      PROVE  /\ call'[x] \in Call /\ call'[x] # NoCall
             /\ call'[x].op = calls[x].op /\ call'[x].node = calls[x].node
             /\ call'[x].found => calls[x].found
             /\ call'[x].pc = calls[x].pc /\ call'[x].peer = calls[x].peer
             /\ call'[x].from # 0 => call'[x].from = calls[x].from
             /\ call'[x].from # c
  <2>1. calls[x] \in Call
    BY <1>5, <1>6
  <2>2. 0 \in 0 .. MaxCalls /\ c # 0
    BY QueriesAssumption DEF Slot
  <2>3. CASE calls[x].from = c
    <3> DEFINE r == [calls[x] EXCEPT !.from = 0]
    <3>1. call'[x] = r
      BY <1>3, <1>6, <2>3 DEF Orphaned
    <3>2. /\ r \in Call /\ r.op = calls[x].op /\ r.node = calls[x].node
          /\ r.pc = calls[x].pc /\ r.peer = calls[x].peer /\ r.from = 0
      BY <2>1, <2>2 DEF Call
    <3>3. r.found => calls[x].found
      BY <2>1 DEF Call
    <3> HIDE DEF r
    <3> QED
      BY <2>2, <3>1, <3>2, <3>3, CallFields
  <2>4. CASE calls[x].from # c
    <3>1. call'[x] = calls[x]
      BY <1>3, <1>6, <2>4 DEF Orphaned
    <3> QED
      BY <2>1, <2>4, <3>1, CallFields
  <2> QED
    BY <2>3, <2>4
<1>7. ASSUME NEW x \in Slot, calls[x] = NoCall PROVE call'[x] = NoCall
  BY <1>3, <1>7 DEF Orphaned
<1>8. call' \in [Slot -> Call \cup {NoCall}]
  <2>1. call' = [x \in Slot |-> call'[x]]
    BY <1>3 DEF Orphaned
  <2> QED
    BY <1>6, <1>7, <2>1
<1>9. ASSUME NEW x \in Slot, call'[x] # NoCall
      PROVE  call[x] # NoCall /\ calls[x] # NoCall /\ calls[x].from = call[x].from
  BY <1>4, <1>5, <1>7, <1>9
<1>10. Links'
  <2> SUFFICES ASSUME NEW x \in Slot, call'[x] # NoCall, call'[x].from # 0
               PROVE  /\ call'[x].from \in Slot
                      /\ call'[call'[x].from] # NoCall
                      /\ call'[call'[x].from].pc = "wait"
                      /\ call'[call'[x].from].peer = x
    BY DEF Links, Linked, Slot
  <2>1. call'[x].from = call[x].from /\ call[x].from # c /\ call[x] # NoCall
    BY <1>6, <1>9
  <2>2. calls[call[x].from] = call[call[x].from] /\ call[x].from \in Slot
    BY <1>5, <2>1, Waited
  <2> QED
    BY <1>6, <2>1, <2>2, Waited
<1>11. \A x \in Slot : call'[x] # NoCall => GoesOn(x)
  BY <1>2, <1>4, <1>5, <1>6, <1>9 DEF GoesOn
<1> QED
  BY <1>1, <1>2, <1>8, <1>10, <1>11, CallsGoOn

LEMMA EndJobStep ==
    ASSUME QueriesInv, NEW c \in Slot, NEW found \in BOOLEAN, EndJob(c, found),
           found => call[c] # NoCall /\ call[c].node \in known,
           UNCHANGED <<published, phase>>
    PROVE  QueriesInv'
<1> DEFINE a == After(call[c], found)
<1>1. call \in [Slot -> Call \cup {NoCall}]
  BY DEF QueriesInv, StateTyped
<1>2. known' = known /\ LetsGo(c, a)
  BY <1>1 DEF EndJob, LetsGo
<1>3. BecomesCall(c, a)
  BY <1>1, AfterNone, AfterTyped DEF BecomesCall
<1> HIDE DEF a
<1> QED
  BY <1>2, <1>3, LetsGoStep

LEMMA LateTyped ==
    ASSUME NEW r \in Call
    PROVE  /\ Late(r) \in Call /\ Late(r).op = r.op /\ Late(r).node = r.node
           /\ Late(r).from = r.from /\ (Late(r).found => r.found)
<1>1. 0 \in 0 .. MaxCalls /\ {} \in SUBSET Node
  BY QueriesAssumption
<1>2. Late(r) \in Call
  BY <1>1 DEF Late, Call
<1>3. Late(r).op = r.op /\ Late(r).node = r.node /\ Late(r).from = r.from
  BY DEF Late, Call
<1>4. Late(r).found => r.found
  BY DEF Late, Call
<1> QED
  BY <1>2, <1>3, <1>4

LEMMA ExpireStep ==
    ASSUME QueriesInv, NEW c \in Slot, Expire(c)
    PROVE  QueriesInv'
<1> DEFINE a == Late(call[c])
<1>1. call \in [Slot -> Call \cup {NoCall}] /\ call[c] # NoCall
  BY DEF QueriesInv, StateTyped, Expire, Due, Jobs, Active
<1>2. LetsGo(c, a) /\ UNCHANGED <<published, known, phase>>
  BY <1>1 DEF Expire, LetsGo
<1>3. BecomesCall(c, a)
  BY <1>1, LateTyped DEF BecomesCall
<1> HIDE DEF a
<1> QED
  BY <1>2, <1>3, LetsGoStep

LEMMA JobSteps ==
    ASSUME QueriesInv, NEW c \in Slot,
           Known(c) \/ GiveUp(c) \/ Expire(c)
    PROVE  QueriesInv'
<1>1. CASE Known(c)
  BY <1>1, EndJobStep DEF Known, At
<1>2. CASE GiveUp(c)
  BY <1>2, EndJobStep DEF GiveUp
<1>3. CASE Expire(c)
  BY <1>3, ExpireStep
<1> QED
  BY <1>1, <1>2, <1>3

LEMMA OwnSteps ==
    ASSUME QueriesInv, NEW c \in Slot,
           StartJob(c) \/ MembersFail(c) \/ Dial(c) \/ ReadMessage(c)
    PROVE  QueriesInv'
<1> DEFINE d == call[c]
<1>0. /\ call \in [Slot -> Call \cup {NoCall}]
      /\ d \in Call /\ d.pc # "wait" /\ UNCHANGED <<published, phase, known>>
  BY DEF QueriesInv, StateTyped, StartJob, MembersFail, Asks, Dial, ReadMessage, At
<1>1. CASE StartJob(c)
  <2> DEFINE r == [d EXCEPT !.pc = "ask", !.todo = Member[d.node]]
  <2>1. Member[d.node] \in SUBSET Node
    BY <1>0, QueriesAssumption, CallFields
  <2>2. call' = [call EXCEPT ![c] = r]
    BY <1>0, <1>1 DEF StartJob, Call
  <2> HIDE DEF d
  <2>3. r \in Call /\ r.op = d.op /\ r.node = d.node /\ r.from = d.from
    BY <1>0, <2>1 DEF Call
  <2>4. r.found => d.found
    BY <1>0 DEF Call
  <2> HIDE DEF r
  <2> QED
    BY <1>0, <2>2, <2>3, <2>4, OwnStep DEF d
<1>2. CASE MembersFail(c)
  <2> DEFINE r == [d EXCEPT !.pc = "answer"]
  <2>1. \/ call' = [call EXCEPT ![c] = r]
        \/ call' = [call EXCEPT ![c] = After(d, FALSE)]
    BY <1>2 DEF MembersFail
  <2> HIDE DEF d
  <2>2. r \in Call /\ r.op = d.op /\ r.node = d.node /\ r.from = d.from
    BY <1>0 DEF Call
  <2>3. r.found => d.found
    BY <1>0 DEF Call
  <2> HIDE DEF r
  <2>4. CASE call' = [call EXCEPT ![c] = r]
    BY <1>0, <2>2, <2>3, <2>4, OwnStep DEF d
  <2>5. CASE call' = [call EXCEPT ![c] = After(d, FALSE)]
    BY <1>0, <2>5, AfterTyped, OwnStep DEF d
  <2> QED
    BY <2>1, <2>4, <2>5
<1>3. CASE Dial(c)
  <2>1. PICK m \in Node : call' = [call EXCEPT ![c].pc = "wait", ![c].todo = @ \ {m}]
    BY <1>3 DEF Dial
  <2> DEFINE r == [d EXCEPT !.pc = "wait", !.todo = d.todo \ {m}]
  <2>2. call' = [call EXCEPT ![c] = r]
    BY <1>0, <2>1 DEF Call
  <2>3. d.todo \ {m} \in SUBSET Node
    BY <1>0, CallFields
  <2> HIDE DEF d
  <2>4. r \in Call /\ r.op = d.op /\ r.node = d.node /\ r.from = d.from
    BY <1>0, <2>3 DEF Call
  <2>5. r.found => d.found
    BY <1>0 DEF Call
  <2> HIDE DEF r
  <2> QED
    BY <1>0, <2>2, <2>4, <2>5, OwnStep DEF d
<1>4. CASE ReadMessage(c)
  <2> DEFINE r == [d EXCEPT !.pc = "answer"]
  <2>1. call' = [call EXCEPT ![c] = r]
    BY <1>0, <1>4 DEF ReadMessage, Call
  <2> HIDE DEF d
  <2>2. r \in Call /\ r.op = d.op /\ r.node = d.node /\ r.from = d.from
    BY <1>0 DEF Call
  <2>3. r.found => d.found
    BY <1>0 DEF Call
  <2> HIDE DEF r
  <2> QED
    BY <1>0, <2>1, <2>2, <2>3, OwnStep DEF d
<1> QED
  BY <1>1, <1>2, <1>3, <1>4

LEMMA QueryStep ==
    ASSUME QueriesInv, NEW n \in Asker, Query(n)
    PROVE  QueriesInv'
<1>1. /\ call \in [Slot -> Call \cup {NoCall}] /\ known \subseteq Node
      /\ ~published => known = {}
      /\ UNCHANGED <<published, phase, known>> /\ phase[n] = "up"
  BY DEF QueriesInv, StateTyped, AnswersKnown, Query
<1>2. PICK c \in Free, op \in Op : call' = [call EXCEPT ![c] = NewCall(op, n, 0)]
  BY DEF Query
<1>3. c \in Slot /\ call[c] = NoCall
  BY DEF Free, Active
<1> DEFINE r == NewCall(op, n, 0)
<1>4. r \in Call
  BY NewCallTyped, QueriesAssumption DEF Operation
<1>5. r.from = 0 /\ r.found = FALSE /\ r.node = n
  BY DEF NewCall
<1> HIDE DEF r
<1>6. /\ call' \in [Slot -> Call \cup {NoCall}] /\ call'[c] = r
      /\ \A x \in Slot \ {c} : call'[x] = call[x]
  BY <1>1, <1>2, <1>3, <1>4 DEF r
<1>7. Links'
  <2> SUFFICES ASSUME NEW x \in Slot, call'[x] # NoCall, call'[x].from # 0
               PROVE  /\ call'[x].from \in Slot
                      /\ call'[call'[x].from] # NoCall
                      /\ call'[call'[x].from].pc = "wait"
                      /\ call'[call'[x].from].peer = x
    BY DEF Links, Linked, Slot
  <2>1. x # c /\ call'[x] = call[x]
    BY <1>5, <1>6
  <2>2. call[x].from # c
    BY <1>3, <2>1, Waited
  <2> QED
    BY <1>6, <2>1, <2>2, Waited
<1>8. \A x \in Slot : call'[x] # NoCall => GoesOn(x) \/ Begins(x)
  BY <1>1, <1>5, <1>6 DEF GoesOn, Begins
<1> QED
  BY <1>1, <1>6, <1>7, <1>8, CallsGoOn

LEMMA AskStep ==
    ASSUME QueriesInv, NEW c \in Slot, Ask(c)
    PROVE  QueriesInv'
<1>1. /\ call \in [Slot -> Call \cup {NoCall}] /\ known \subseteq Node
      /\ ~published => known = {}
      /\ UNCHANGED <<published, phase, known>>
      /\ call[c] \in Call /\ call[c].pc = "ask"
  BY DEF QueriesInv, StateTyped, AnswersKnown, Ask, At
<1>2. PICK m \in Node, s \in Free :
          call' = [call EXCEPT ![c].pc = "wait", ![c].peer = s,
                               ![c].todo = @ \ {m}, ![s] = NewCall("Sync", m, c)]
  BY DEF Ask
<1>3. s \in Slot /\ call[s] = NoCall /\ s # c
  BY <1>1, CallFields DEF Free, Active
<1> DEFINE d == call[c]
           r == [d EXCEPT !.pc = "wait", !.peer = s, !.todo = d.todo \ {m}]
           new == NewCall("Sync", m, c)
<1>4. call' = [[call EXCEPT ![c] = r] EXCEPT ![s] = new]
  BY <1>1, <1>2, <1>3 DEF Call
<1>5. c \in 0 .. MaxCalls /\ s \in 0 .. MaxCalls /\ c # 0
  BY <1>3, QueriesAssumption DEF Slot
<1>6. new \in Call
  BY <1>5, NewCallTyped DEF Operation
<1>7. new.from = c /\ new.found = FALSE /\ new.op = "Sync"
  BY DEF NewCall
<1> HIDE DEF new
<1>8. d \in Call /\ d.todo \ {m} \in SUBSET Node
  BY <1>1, CallFields
<1> HIDE DEF d
<1>9. /\ r \in Call /\ r.op = d.op /\ r.node = d.node /\ r.from = d.from
      /\ r.pc = "wait" /\ r.peer = s
  BY <1>5, <1>8 DEF Call
<1>10. r.found => d.found
  BY <1>8 DEF Call
<1> HIDE DEF r
<1>11. /\ call' \in [Slot -> Call \cup {NoCall}]
       /\ call'[c] = r /\ call'[s] = new
       /\ \A x \in Slot \ {c, s} : call'[x] = call[x]
  BY <1>1, <1>3, <1>4, <1>6, <1>9
<1>12. Links'
  <2> SUFFICES ASSUME NEW x \in Slot, call'[x] # NoCall, call'[x].from # 0
               PROVE  /\ call'[x].from \in Slot
                      /\ call'[call'[x].from] # NoCall
                      /\ call'[call'[x].from].pc = "wait"
                      /\ call'[call'[x].from].peer = x
    BY DEF Links, Linked, Slot
  <2>1. CASE x = s
    BY <1>7, <1>9, <1>11, <2>1, CallFields
  <2>2. CASE x # s
    <3>1. call[x] # NoCall /\ call'[x].from = call[x].from
      BY <1>1, <1>9, <1>11, <2>2, CallFields DEF d
    <3>2. call[x].from # c /\ call[x].from # s
      BY <1>1, <1>3, <3>1, Waited
    <3> QED
      BY <1>11, <3>1, <3>2, Waited
  <2> QED
    BY <2>1, <2>2
<1>13. \A x \in Slot : call'[x] # NoCall => GoesOn(x) \/ Begins(x)
  <2>1. GoesOn(c)
    BY <1>1, <1>9, <1>10, <1>11, CallFields DEF GoesOn, d
  <2>2. Begins(s)
    BY <1>7, <1>11 DEF Begins
  <2>3. \A x \in Slot \ {c, s} : call'[x] # NoCall => GoesOn(x)
    BY <1>11 DEF GoesOn
  <2> QED
    BY <2>1, <2>2, <2>3
<1> QED
  BY <1>1, <1>11, <1>12, <1>13, CallsGoOn

LEMMA AnswerStep ==
    ASSUME QueriesInv, NEW c \in Slot, Answer(c)
    PROVE  QueriesInv'
<1>1. /\ call \in [Slot -> Call \cup {NoCall}] /\ known \subseteq Node
      /\ ~published => known = {}
      /\ UNCHANGED <<published, phase, known>>
      /\ call[c].pc = "answer" /\ call' = [call EXCEPT ![c] = NoCall]
  BY DEF QueriesInv, StateTyped, AnswersKnown, Answer, At
<1>2. /\ call' \in [Slot -> Call \cup {NoCall}] /\ call'[c] = NoCall
      /\ \A x \in Slot \ {c} : call'[x] = call[x]
  BY <1>1
<1>3. Links'
  <2> SUFFICES ASSUME NEW x \in Slot, call'[x] # NoCall, call'[x].from # 0
               PROVE  /\ call'[x].from \in Slot
                      /\ call'[call'[x].from] # NoCall
                      /\ call'[call'[x].from].pc = "wait"
                      /\ call'[call'[x].from].peer = x
    BY DEF Links, Linked, Slot
  <2>1. x # c /\ call'[x] = call[x]
    BY <1>2
  <2>2. call[x].from # c
    BY <1>1, <2>1, Waited
  <2> QED
    BY <1>2, <2>1, <2>2, Waited
<1>4. \A x \in Slot : call'[x] # NoCall => GoesOn(x)
  BY <1>2 DEF GoesOn
<1> QED
  BY <1>1, <1>2, <1>3, <1>4, CallsGoOn

(* The caller p takes the answer of c and becomes r.                       *)
LEMMA CallerGoesOn ==
    ASSUME QueriesInv, NEW c \in Slot, NEW p \in Slot,
           call[c] # NoCall, call[c].pc = "answer", call[c].from = p, p # 0,
           NEW r \in Call, r.op = call[p].op, r.node = call[p].node,
           r.from = call[p].from,
           r.found => call[p].found \/ call[p].node \in known',
           call' = [[call EXCEPT ![c] = NoCall] EXCEPT ![p] = r],
           UNCHANGED <<published, phase>>,
           known \subseteq known', known' \subseteq Node,
           ~published => known' = {}
    PROVE  QueriesInv'
<1>1. /\ call[p] # NoCall /\ call[p].pc = "wait" /\ call[p].peer = c /\ p # c
      /\ call \in [Slot -> Call \cup {NoCall}]
  BY Waited DEF QueriesInv, StateTyped
<1>2. /\ call' \in [Slot -> Call \cup {NoCall}]
      /\ call'[c] = NoCall /\ call'[p] = r
      /\ \A x \in Slot \ {c, p} : call'[x] = call[x]
  BY <1>1
<1>3. Links'
  <2> SUFFICES ASSUME NEW x \in Slot, call'[x] # NoCall, call'[x].from # 0
               PROVE  /\ call'[x].from \in Slot
                      /\ call'[call'[x].from] # NoCall
                      /\ call'[call'[x].from].pc = "wait"
                      /\ call'[call'[x].from].peer = x
    BY DEF Links, Linked, Slot
  <2>1. x # c /\ call[x] # NoCall /\ call'[x].from = call[x].from
    BY <1>1, <1>2
  <2>2. call[x].from # c /\ call[x].from # p
    BY <1>1, <2>1, Waited
  <2> QED
    BY <1>2, <2>1, <2>2, Waited
<1>4. \A x \in Slot : call'[x] # NoCall => GoesOn(x)
  BY <1>1, <1>2 DEF GoesOn
<1> QED
  BY <1>2, <1>3, <1>4, CallsGoOn

LEMMA AnswerPeerStep ==
    ASSUME QueriesInv, NEW c \in Slot, AnswerPeer(c)
    PROVE  QueriesInv'
<1> DEFINE p == call[c].from
           d == call[p]
           freed == [call EXCEPT ![c] = NoCall]
<1>1. /\ call \in [Slot -> Call \cup {NoCall}] /\ known \subseteq Node
      /\ ~published => known = {}
      /\ UNCHANGED <<published, phase>>
      /\ call[c] # NoCall /\ call[c].pc = "answer" /\ p # 0
  BY DEF QueriesInv, StateTyped, AnswersKnown, AnswerPeer, At
<1>2. p \in Slot /\ d \in Call /\ d.pc = "wait" /\ p # c
  BY <1>1, Waited
<1>3. d.node \in Node
  BY <1>2, CallFields
<1>4. freed[p] = d
  BY <1>1, <1>2
<1>5. CASE Found(c)
  <2>1. /\ call' = [freed EXCEPT ![p] = After(d, TRUE)]
        /\ known' = known \cup {d.node}
    BY <1>2, <1>4, <1>5 DEF AnswerPeer
  <2>2. known # {}
    BY <1>1, <1>5 DEF QueriesInv, AnswersKnown, Active, Found
  <2> HIDE DEF p, d
  <2>3. /\ After(d, TRUE) \in Call /\ After(d, TRUE).op = d.op
        /\ After(d, TRUE).node = d.node /\ After(d, TRUE).from = d.from
    BY <1>2, AfterTyped
  <2> QED
    BY <1>1, <1>2, <1>3, <2>1, <2>2, <2>3, CallerGoesOn DEF p, d
<1>6. CASE ~Found(c)
  <2> DEFINE r == [d EXCEPT !.pc = "ask", !.peer = 0]
  <2>1. call' = [freed EXCEPT ![p] = r] /\ known' = known
    BY <1>2, <1>4, <1>6 DEF AnswerPeer, Call
  <2>2. 0 \in 0 .. MaxCalls
    BY QueriesAssumption
  <2> HIDE DEF p, d
  <2>3. r \in Call /\ r.op = d.op /\ r.node = d.node /\ r.from = d.from
    BY <1>2, <2>2 DEF Call
  <2>4. r.found => d.found
    BY <1>2 DEF Call
  <2> HIDE DEF r
  <2> QED
    BY <1>1, <1>2, <2>1, <2>3, <2>4, CallerGoesOn DEF p, d
<1> QED
  BY <1>5, <1>6

-----------------------------------------------------------------------------
LEMMA DiscoverStep ==
    ASSUME QueriesInv, NEW n \in Puller, Discover(n)
    PROVE  QueriesInv'
<1>1. /\ UNCHANGED <<published, call, phase>> /\ published
      /\ known' = known \cup {n} /\ known \subseteq Node
      /\ call \in [Slot -> Call \cup {NoCall}] /\ n \in Node
  BY QueriesAssumption DEF QueriesInv, StateTyped, Discover
<1>2. Links'
  BY <1>1 DEF QueriesInv, Links, Linked
<1>3. \A x \in Slot : call'[x] # NoCall => GoesOn(x)
  BY <1>1 DEF GoesOn
<1> QED
  BY <1>1, <1>2, <1>3, CallsGoOn

(* The process may go on to stop when no application waits.                *)
LEMMA SignalSteps ==
    ASSUME QueriesInv, NEW n \in Asker, Interrupt(n) \/ CtrlC(n)
    PROVE  QueriesInv'
<1>1. UNCHANGED <<published, known, call>>
  BY DEF Interrupt, CtrlC
<1>2. StateTyped'
  BY <1>1 DEF QueriesInv, StateTyped, Interrupt, CtrlC
<1>3. Links' /\ AnswersKnown'
  BY <1>1 DEF QueriesInv, Links, Linked, AnswersKnown, Active
<1>4. ApplicationsFirst'
  <2>1. \A m \in Node : Applications(m)' = Applications(m)
    BY <1>1 DEF Applications, Active
  <2>2. /\ \A m \in Node \ {n} : phase'[m] = phase[m]
        /\ phase'[n] = "draining" \/ Applications(n) = {}
    BY QueriesAssumption
       DEF QueriesInv, StateTyped, Interrupt, CtrlC, Drained
  <2> QED
    BY <2>1, <2>2 DEF QueriesInv, ApplicationsFirst
<1> QED
  BY <1>2, <1>3, <1>4 DEF QueriesInv

(* A process ends with its index and with every call on it.                *)
LEMMA EndStep ==
    ASSUME QueriesInv, NEW n \in Node, End(n)
    PROVE  QueriesInv'
<1> DEFINE lost == {c \in Active : call[c].node = n}
<1>1. /\ call \in [Slot -> Call \cup {NoCall}] /\ known \subseteq Node
      /\ known' = known \ {n} /\ published' = published
      /\ phase' = [phase EXCEPT ![n] = "ended"]
  BY DEF QueriesInv, StateTyped, End
<1>2. ASSUME NEW x \in Slot, call[x] = NoCall \/ x \in lost
      PROVE  call'[x] = NoCall
  BY <1>2 DEF End
<1>3. ASSUME NEW x \in Slot, call[x] # NoCall, x \notin lost
      PROVE  /\ call'[x] \in Call
             /\ call'[x].op = call[x].op /\ call'[x].node = call[x].node
             /\ call'[x].found => call[x].found
             /\ call'[x].from # 0 =>
                    call'[x].from = call[x].from /\ call[x].from \notin lost
             /\ call[x].peer \notin lost =>
                    call'[x].peer = call[x].peer /\ call'[x].pc = call[x].pc
  <2> DEFINE d == call[x]
             s == IF d.peer \in lost THEN "ask" ELSE d.pc
             e == IF d.peer \in lost THEN 0 ELSE d.peer
             f == IF d.from \in lost THEN 0 ELSE d.from
             r == [d EXCEPT !.pc = s, !.peer = e, !.from = f]
  <2>1. d \in Call
    BY <1>1, <1>3
  <2>2. call'[x] = r
    BY <1>3, <2>1 DEF End, Call
  <2>3. 0 \in 0 .. MaxCalls
    BY QueriesAssumption
  <2>4. /\ s \in {"lookup", "members", "ask", "wait", "late", "read", "answer"}
        /\ e \in 0 .. MaxCalls /\ f \in 0 .. MaxCalls
    BY <2>1, <2>3, CallFields
  <2>5. /\ f # 0 => f = d.from /\ d.from \notin lost
        /\ d.peer \notin lost => e = d.peer /\ s = d.pc
    OBVIOUS
  <2> HIDE DEF d, s, e, f
  <2>6. /\ r \in Call /\ r.op = d.op /\ r.node = d.node /\ r.from = f
        /\ r.peer = e /\ r.pc = s
    BY <2>1, <2>4 DEF Call
  <2>7. r.found => d.found
    BY <2>1 DEF Call
  <2> HIDE DEF r, lost
  <2> QED
    BY <2>2, <2>5, <2>6, <2>7 DEF d
<1>4. call' \in [Slot -> Call \cup {NoCall}]
  <2>1. call' = [x \in Slot |-> call'[x]]
    BY DEF End
  <2> QED
    BY <1>2, <1>3, <2>1
<1> HIDE DEF lost
<1>5. Links'
  <2> SUFFICES ASSUME NEW x \in Slot, call'[x] # NoCall, call'[x].from # 0
               PROVE  /\ call'[x].from \in Slot
                      /\ call'[call'[x].from] # NoCall
                      /\ call'[call'[x].from].pc = "wait"
                      /\ call'[call'[x].from].peer = x
    BY DEF Links, Linked, Slot
  <2>1. call[x] # NoCall /\ x \notin lost
    BY <1>2
  <2>2. call'[x].from = call[x].from /\ call[x].from \notin lost
    BY <1>3, <2>1
  <2>3. /\ call[x].from \in Slot /\ call[call[x].from] # NoCall
        /\ call[call[x].from].pc = "wait" /\ call[call[x].from].peer = x /\ x # 0
    BY <2>1, <2>2, Waited DEF Slot
  <2> QED
    BY <1>3, <2>1, <2>2, <2>3, CallFields
<1>6. AnswersKnown'
  <2>1. ASSUME NEW x \in Slot, call'[x] # NoCall, call'[x].found
        PROVE  call'[x].node \in known'
    <3>1. call[x] # NoCall /\ x \notin lost /\ call[x].found
      BY <1>2, <1>3, <2>1
    <3>2. call[x].node \in known /\ call[x].node # n
      BY <3>1 DEF QueriesInv, AnswersKnown, Active, lost
    <3> QED
      BY <1>1, <1>3, <3>1, <3>2
  <2> QED
    BY <1>1, <2>1 DEF QueriesInv, AnswersKnown, Active
<1>7. ApplicationsFirst'
  <2>1. ASSUME NEW m \in Node, NEW x \in Slot, call'[x] # NoCall,
               call'[x].node = m, call'[x].op # "Sync"
        PROVE  m # n /\ x \in Applications(m)
    BY <1>2, <1>3, <2>1 DEF Applications, Active, lost
  <2> QED
    BY <1>1, <2>1
       DEF QueriesInv, StateTyped, ApplicationsFirst, Applications, Active
<1>8. StateTyped'
  BY <1>1, <1>4 DEF QueriesInv, StateTyped
<1> QED
  BY <1>5, <1>6, <1>7, <1>8 DEF QueriesInv

LEMMA StepQueries == QueriesInv /\ [Next]_vars => QueriesInv'
<1> SUFFICES ASSUME QueriesInv, [Next]_vars PROVE QueriesInv'
  OBVIOUS
<1>1. CASE UNCHANGED vars
  <2>1. UNCHANGED <<published, known, call, phase>>
    BY <1>1 DEF vars
  <2> QED
    BY <2>1 DEF QueriesInv, StateTyped, Links, Linked, AnswersKnown,
                ApplicationsFirst, Applications, Active
<1>2. CASE \E c \in Slot : Work(c) \/ MembersFail(c) \/ Expire(c)
  BY <1>2, JobSteps, OwnSteps, AskStep, AnswerStep, AnswerPeerStep DEF Work
<1>3. ASSUME NEW n \in Asker,
             Query(n) \/ QueryShort(n) \/ Interrupt(n) \/ Stop(n)
      PROVE  QueriesInv'
  BY <1>3, QueryStep, SignalSteps, EndStep, QueriesAssumption
     DEF QueryShort, Stop, Exit
<1>4. ASSUME NEW n \in Puller, Discover(n) PROVE QueriesInv'
  BY <1>4, DiscoverStep
<1> QED
  BY <1>1, <1>2, <1>3, <1>4 DEF Next, Deadline

(* The inductive invariant of the calls under way, the answers they have   *)
(* and what their nodes know.                                              *)
THEOREM QueriesInvariant == Spec => []QueriesInv
  BY InitQueries, StepQueries, PTL DEF Spec

(* Nobody finds a key that was never stored, whatever circles of members   *)
(* ask each other for it, and a positive answer comes from an index that   *)
(* has the key.                                                            *)
THEOREM AnswersAreKnown == Spec => []AnswersKnown
<1>1. QueriesInv => AnswersKnown
  BY DEF QueriesInv
<1> QED
  BY <1>1, QueriesInvariant, PTL

(* No process ends by SIGINT before its applications have been answered.   *)
THEOREM ApplicationsAreFirst == Spec => []ApplicationsFirst
<1>1. QueriesInv => ApplicationsFirst
  BY DEF QueriesInv
<1> QED
  BY <1>1, QueriesInvariant, PTL
=============================================================================
