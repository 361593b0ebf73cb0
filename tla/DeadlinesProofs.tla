--------------------------- MODULE DeadlinesProofs ---------------------------
(***************************************************************************)
(* Theorems about the jobs of queries and the order of their deadlines,    *)
(* for every number of nodes and calls: what a waiting job is told of, and *)
(* why its first member decides.                                           *)
(***************************************************************************)
EXTENDS QueriesProofs, FiniteSetTheorems, WellFoundedInduction

Bounded == queries \in 0 .. MaxQueries /\ events \in 0 .. MaxEvents

(* As long as nothing has failed: all nodes are up, a job has asked none   *)
(* of its members, or waits for the first, and a member that is asked      *)
(* answers before its deadline, and never without having found the key.    *)
Undisturbed == events = 0 /\ \A n \in Node : Member[n] # {}

Answering(c) ==
    /\ call[c].op = "Sync"
    /\ call[c].pc \in {"lookup", "ask", "wait", "answer"}
    /\ call[c].pc = "answer" => call[c].found
    /\ c \in Jobs => call[c].from \in earlier[c]

FirstOnly(c) ==
    /\ call[c].pc = "ask" => call[c].todo = Member[call[c].node]
    /\ call[c].pc = "wait" =>
           \E m \in Member[call[c].node] : call[c].todo = Member[call[c].node] \ {m}
    /\ call[c].from # 0 => Answering(c)

Decisive ==
    Undisturbed => /\ \A n \in Node : phase[n] = "up"
                   /\ \A c \in Active : FirstOnly(c)

JobsInv == DeadlinesOrdered /\ PeersAnswer /\ Bounded /\ Decisive

-----------------------------------------------------------------------------
(* The order of the deadlines: nothing ends or begins, some jobs end, one  *)
(* begins.                                                                 *)

LEMMA SameJobs ==
    ASSUME DeadlinesOrdered, Jobs' = Jobs, earlier' = earlier
    PROVE  DeadlinesOrdered'
  BY DEF DeadlinesOrdered, Slot

LEMMA JobsEnd ==
    ASSUME DeadlinesOrdered, NEW gone, Jobs' = Jobs \ gone,
           earlier' = Without(gone)
    PROVE  DeadlinesOrdered'
<1>1. Slot' = Slot
  BY DEF Slot
<1>0. /\ earlier \in [Slot -> SUBSET Slot]
      /\ \A x \in Slot : \A y \in earlier[x] : x \in Jobs /\ y \in Jobs \ {x}
      /\ \A x, y \in Jobs : x = y \/ x \in earlier[y] \/ y \in earlier[x]
      /\ \A x \in Slot : \A y \in earlier[x] : earlier[y] \subseteq earlier[x] \ {y}
  BY DEF DeadlinesOrdered
<1>2. /\ earlier' \in [Slot -> SUBSET Slot]
      /\ \A x \in Slot \cap gone : earlier'[x] = {}
      /\ \A x \in Slot \ gone : earlier'[x] = earlier[x] \ gone
  BY <1>0 DEF Without
<1>3. Jobs' \subseteq Slot
  BY DEF Jobs, Active
<1>4. \A c \in Slot : earlier'[c] \subseteq (IF c \in Jobs' THEN Jobs' \ {c} ELSE {})
  BY <1>0, <1>2
<1>5. ASSUME NEW x \in Jobs', NEW y \in Jobs'
      PROVE  x = y \/ x \in earlier'[y] \/ y \in earlier'[x]
  BY <1>0, <1>2, <1>3, <1>5
<1>6. ASSUME NEW x \in Slot, NEW y \in earlier'[x]
      PROVE  earlier'[y] \subseteq earlier'[x] \ {y}
  <2>1. x \notin gone /\ y \in earlier[x] /\ y \notin gone /\ y \in Slot
    BY <1>0, <1>2, <1>6
  <2> QED
    BY <1>0, <1>2, <2>1
<1> QED
  BY <1>1, <1>2, <1>4, <1>5, <1>6 DEF DeadlinesOrdered

LEMMA JobBegins ==
    ASSUME DeadlinesOrdered, NEW c \in Slot, c \notin Jobs,
           Jobs' = Jobs \cup {c}, earlier' = [earlier EXCEPT ![c] = Jobs]
    PROVE  DeadlinesOrdered'
<1>1. Slot' = Slot /\ Jobs \subseteq Slot
  BY DEF Slot, Jobs, Active
<1>2. /\ earlier'[c] = Jobs
      /\ \A x \in Slot \ {c} : earlier'[x] = earlier[x]
  BY DEF DeadlinesOrdered
<1>3. \A x \in Slot : c \notin earlier[x] /\ earlier[x] \subseteq Jobs
  BY DEF DeadlinesOrdered
<1>4. earlier' \in [Slot -> SUBSET Slot]
  BY <1>1 DEF DeadlinesOrdered
<1>5. \A x \in Slot : earlier'[x] \subseteq (IF x \in Jobs' THEN Jobs' \ {x} ELSE {})
  BY <1>2, <1>3 DEF DeadlinesOrdered
<1>6. ASSUME NEW x \in Jobs', NEW y \in Jobs'
      PROVE  x = y \/ x \in earlier'[y] \/ y \in earlier'[x]
  BY <1>1, <1>2, <1>6 DEF DeadlinesOrdered
<1>7. ASSUME NEW x \in Slot, NEW y \in earlier'[x]
      PROVE  earlier'[y] \subseteq earlier'[x] \ {y}
  <2>1. y \in Jobs /\ y # c /\ earlier'[y] = earlier[y]
    BY <1>1, <1>2, <1>3, <1>7
  <2>2. CASE x = c
    BY <1>1, <1>2, <1>3, <2>1, <2>2 DEF DeadlinesOrdered
  <2>3. CASE x # c
    BY <1>2, <1>7, <2>1, <2>3 DEF DeadlinesOrdered
  <2> QED
    BY <2>2, <2>3
<1> QED
  BY <1>1, <1>4, <1>5, <1>6, <1>7 DEF DeadlinesOrdered
-----------------------------------------------------------------------------
(* A job that has ended waits for nobody; that of a Sync call is answered. *)
LEMMA AfterEnds ==
    ASSUME NEW r \in Call, NEW found \in BOOLEAN
    PROVE  /\ After(r, found).pc \notin {"ask", "wait"}
           /\ After(r, found).peer = 0
           /\ r.op = "Sync" =>
                  /\ After(r, found).pc = "answer"
                  /\ found => After(r, found).found
<1> DEFINE done == [r EXCEPT !.todo = {}, !.peer = 0]
<1>1. done \in Call /\ done.peer = 0
  <2>1. 0 \in 0 .. MaxCalls /\ {} \in SUBSET Node
    BY QueriesAssumption
  <2> QED
    BY <2>1 DEF Call
<1>2. CASE r.op # "Read"
  <2>1. After(r, found) = [done EXCEPT !.pc = "answer", !.found = found]
    BY <1>2 DEF After
  <2> HIDE DEF done
  <2> QED
    BY <1>1, <2>1 DEF Call
<1>3. CASE r.op = "Read"
  <2>1. PICK s \in {"lookup", "read", "members", "answer"} :
            After(r, found).pc = s /\ After(r, found).peer = done.peer
    <3>1. \/ After(r, found) =
                  [done EXCEPT !.pc = "lookup", !.job = 3, !.found = found]
          \/ After(r, found) = [done EXCEPT !.pc = "read", !.cid = (r.job = 1)]
          \/ After(r, found) = [done EXCEPT !.pc = "members", !.job = 2]
          \/ After(r, found) = [done EXCEPT !.pc = "answer"]
      BY <1>3 DEF After
    <3> HIDE DEF done
    <3> QED
      BY <1>1, <3>1 DEF Call
  <2> QED
    BY <1>1, <1>3, <2>1
<1> QED
  BY <1>2, <1>3

(* What is the same of a call that another one has no effect on, but that  *)
(* its caller may have gone.                                               *)
Kept(x) ==
    /\ call[x] # NoCall /\ call'[x] # NoCall
    /\ call'[x].op = call[x].op /\ call'[x].node = call[x].node
    /\ call'[x].pc = call[x].pc /\ call'[x].todo = call[x].todo
    /\ call'[x].peer = call[x].peer /\ call'[x].found = call[x].found

(* Call c has no job any more when it goes on as a; and as long as nothing *)
(* has failed, a is an answer if somebody waits for it.                    *)
JobLess(c, a) ==
    /\ call[c] = NoCall => a = NoCall
    /\ call[c] # NoCall =>
           /\ a \in Call /\ a.from = call[c].from
           /\ a.pc \notin {"ask", "wait"} /\ a.peer = 0

Answers(c, a) ==
    Undisturbed /\ call[c] # NoCall /\ call[c].from # 0 =>
        a.op = "Sync" /\ a.pc = "answer" /\ a.found

LEMMA LetsGoEffect ==
    ASSUME QueriesInv, NEW c \in Slot, NEW a, JobLess(c, a), LetsGo(c, a)
    PROVE  /\ \A x \in Slot : call[x] = NoCall <=> call'[x] = NoCall
           /\ \A x \in Slot \ {c} : call[x] # NoCall =>
                  /\ Kept(x)
                  /\ call'[x].from = IF call[x].from = c THEN 0 ELSE call[x].from
           /\ call[c] # NoCall =>
                  /\ call'[c].pc = a.pc /\ call'[c].pc \notin {"ask", "wait"}
                  /\ call'[c].peer = 0
                  /\ call'[c].from = IF call[c].from = c THEN 0 ELSE call[c].from
                  /\ call'[c].op = a.op /\ call'[c].found = a.found
<1> DEFINE calls == [call EXCEPT ![c] = a]
<1>1. call \in [Slot -> Call \cup {NoCall}]
  BY DEF QueriesInv, StateTyped
<1>2. call' = Orphaned(calls, c)
  BY DEF LetsGo
<1>3. /\ call[c] = NoCall => a = NoCall
      /\ call[c] # NoCall =>
            /\ a \in Call /\ a.from = call[c].from
            /\ a.pc \notin {"ask", "wait"} /\ a.peer = 0
  BY DEF JobLess
<1>4. /\ calls \in [Slot -> Call \cup {NoCall}] /\ calls[c] = a
      /\ \A x \in Slot \ {c} : calls[x] = call[x]
  BY <1>1, <1>3
<1> HIDE DEF calls
<1>5. ASSUME NEW x \in Slot, calls[x] # NoCall
      PROVE  /\ call'[x] # NoCall
             /\ call'[x].op = calls[x].op /\ call'[x].node = calls[x].node
             /\ call'[x].pc = calls[x].pc /\ call'[x].todo = calls[x].todo
             /\ call'[x].peer = calls[x].peer /\ call'[x].found = calls[x].found
             /\ call'[x].from = IF calls[x].from = c THEN 0 ELSE calls[x].from
  <2>1. calls[x] \in Call
    BY <1>4, <1>5
  <2>2. CASE calls[x].from = c
    <3> DEFINE r == [calls[x] EXCEPT !.from = 0]
    <3>1. call'[x] = r
      BY <1>2, <1>5, <2>2 DEF Orphaned
    <3>2. 0 \in 0 .. MaxCalls
      BY QueriesAssumption
    <3>3. /\ r \in Call /\ r.op = calls[x].op /\ r.node = calls[x].node
          /\ r.pc = calls[x].pc /\ r.todo = calls[x].todo
          /\ r.peer = calls[x].peer /\ r.from = 0
      BY <2>1, <3>2 DEF Call
    <3>4. r.found = calls[x].found
      BY <2>1 DEF Call
    <3> HIDE DEF r
    <3> QED
      BY <2>2, <3>1, <3>3, <3>4, CallFields
  <2>3. CASE calls[x].from # c
    BY <1>2, <1>5, <2>3 DEF Orphaned
  <2> QED
    BY <2>2, <2>3
<1>6. ASSUME NEW x \in Slot, calls[x] = NoCall PROVE call'[x] = NoCall
  BY <1>2, <1>6 DEF Orphaned
<1>7. \A x \in Slot : call[x] = NoCall <=> calls[x] = NoCall
  BY <1>3, <1>4, CallFields
<1>8. \A x \in Slot : call[x] = NoCall <=> call'[x] = NoCall
  BY <1>5, <1>6, <1>7
<1>9. ASSUME NEW x \in Slot \ {c}, call[x] # NoCall
      PROVE  /\ Kept(x)
             /\ call'[x].from = IF call[x].from = c THEN 0 ELSE call[x].from
  <2>1. calls[x] = call[x] /\ calls[x] # NoCall
    BY <1>4, <1>9
  <2> QED
    BY <1>5, <1>9, <2>1 DEF Kept
<1>10. ASSUME call[c] # NoCall
       PROVE  /\ call'[c].pc = a.pc /\ call'[c].pc \notin {"ask", "wait"}
              /\ call'[c].peer = 0
              /\ call'[c].from = IF call[c].from = c THEN 0 ELSE call[c].from
              /\ call'[c].op = a.op /\ call'[c].found = a.found
  <2>1. a = calls[c] /\ calls[c] # NoCall
    BY <1>4, <1>7, <1>10
  <2> QED
    BY <1>3, <1>5, <1>10, <2>1
<1> QED
  BY <1>8, <1>9, <1>10

LEMMA LetsGoJobs ==
    ASSUME QueriesInv, JobsInv, NEW c \in Slot, NEW a, JobLess(c, a),
           LetsGo(c, a), Answers(c, a), earlier' = Without({c}),
           UNCHANGED <<phase, queries, events>>
    PROVE  JobsInv'
<1>1. earlier' = Without({c})
  OBVIOUS
<1>2. \A x \in Slot : call[x] = NoCall <=> call'[x] = NoCall
  BY LetsGoEffect
<1>3. \A x \in Slot \ {c} : call[x] # NoCall =>
          /\ Kept(x)
          /\ call'[x].from = IF call[x].from = c THEN 0 ELSE call[x].from
  BY LetsGoEffect
<1>4. call[c] # NoCall =>
          /\ call'[c].pc = a.pc /\ call'[c].pc \notin {"ask", "wait"}
          /\ call'[c].peer = 0
          /\ call'[c].from = IF call[c].from = c THEN 0 ELSE call[c].from
          /\ call'[c].op = a.op /\ call'[c].found = a.found
  BY LetsGoEffect
<1>5. Jobs' = Jobs \ {c} /\ Active' = Active
  <2>1. Slot' = Slot
    BY DEF Slot
  <2>2. Active' = Active
    BY <1>2, <2>1 DEF Active
  <2> QED
    BY <1>3, <1>4, <2>1, <2>2 DEF Jobs, Active, Kept
<1>6. DeadlinesOrdered'
  BY <1>1, <1>5, JobsEnd DEF JobsInv
<1>7. PeersAnswer'
  <2> SUFFICES ASSUME NEW x \in Active, call'[x].peer # 0
               PROVE  /\ call'[x].pc = "wait" /\ call'[x].peer \in Active
                      /\ call'[call'[x].peer].from = x
    BY <1>5 DEF PeersAnswer
  <2>1. x \in Slot /\ call[x] # NoCall /\ x # c
    BY <1>4 DEF Active
  <2>2. Kept(x)
    BY <1>3, <2>1
  <2>3. /\ call[x].peer \in Active /\ call[call[x].peer].from = x
        /\ call[x].pc = "wait" /\ x # 0
    BY <2>2 DEF JobsInv, PeersAnswer, Kept, Active, Slot
  <2> DEFINE y == call[x].peer
  <2>4. y \in Slot /\ call[y] # NoCall
    BY <2>3 DEF Active
  <2>5. call'[y].from = x
    <3>1. CASE y # c
      BY <1>3, <2>1, <2>3, <2>4, <3>1
    <3>2. CASE y = c
      BY <1>4, <2>1, <2>3, <2>4, <3>2
    <3> QED
      BY <3>1, <3>2
  <2> QED
    BY <2>2, <2>3, <2>5 DEF Kept
<1>8. Bounded'
  BY DEF JobsInv, Bounded
<1>9. Decisive'
  <2> SUFFICES ASSUME Undisturbed
               PROVE  /\ \A n \in Node : phase[n] = "up"
                      /\ \A x \in Active : FirstOnly(x)'
    BY <1>5 DEF Decisive, Undisturbed
  <2>1. /\ \A n \in Node : phase[n] = "up"
        /\ \A x \in Active : FirstOnly(x)
    BY DEF JobsInv, Decisive
  <2>2. ASSUME NEW x \in Active, x # c PROVE FirstOnly(x)'
    <3>1. /\ Kept(x) /\ x \in Slot
          /\ call'[x].from # 0 => call'[x].from = call[x].from /\ call[x].from # c
      BY <1>3, <2>2 DEF Active
    <3>2. FirstOnly(x)
      BY <2>1, <2>2
    <3>3. ASSUME call'[x].from # 0 PROVE Answering(x)'
      <4>1. Answering(x) /\ call'[x].from = call[x].from /\ call[x].from # c
        BY <3>1, <3>2, <3>3 DEF FirstOnly
      <4>2. earlier'[x] = earlier[x] \ {c}
        BY <1>1, <2>2, <3>1 DEF Without
      <4> QED
        BY <1>5, <3>1, <4>1, <4>2 DEF Answering, Kept
    <3> QED
      BY <3>1, <3>2, <3>3 DEF FirstOnly, Kept
  <2>3. ASSUME c \in Active PROVE FirstOnly(c)'
    <3>1. call[c] # NoCall /\ FirstOnly(c)
      BY <2>1, <2>3 DEF Active
    <3>2. ASSUME call'[c].from # 0 PROVE Answering(c)'
      <4>1. a.op = "Sync" /\ a.pc = "answer" /\ a.found
        BY <1>4, <3>1, <3>2 DEF Answers
      <4> QED
        BY <1>4, <1>5, <3>1, <4>1 DEF Answering
    <3> QED
      BY <1>4, <3>1, <3>2 DEF FirstOnly
  <2> QED
    BY <2>1, <2>2, <2>3
<1> QED
  BY <1>6, <1>7, <1>8, <1>9 DEF JobsInv

LEMMA EndJobJobs ==
    ASSUME QueriesInv, JobsInv, NEW c \in Slot, NEW found \in BOOLEAN,
           EndJob(c, found), UNCHANGED <<phase, queries, events>>,
           Undisturbed /\ call[c] # NoCall /\ call[c].from # 0 => found
    PROVE  JobsInv'
<1> DEFINE a == After(call[c], found)
<1>1. call \in [Slot -> Call \cup {NoCall}]
  BY DEF QueriesInv, StateTyped
<1>2. LetsGo(c, a) /\ earlier' = Without({c})
  BY DEF EndJob, LetsGo
<1>3. JobLess(c, a)
  BY <1>1, AfterNone, AfterTyped, AfterEnds DEF JobLess
<1>4. Answers(c, a)
  <2> SUFFICES ASSUME Undisturbed, call[c] # NoCall, call[c].from # 0
               PROVE  a.op = "Sync" /\ a.pc = "answer" /\ a.found
    BY DEF Answers
  <2>1. call[c].op = "Sync" /\ call[c] \in Call
    BY <1>1 DEF JobsInv, Decisive, FirstOnly, Answering, Active
  <2> QED
    BY <2>1, AfterTyped, AfterEnds
<1> HIDE DEF a
<1> QED
  BY <1>2, <1>3, <1>4, LetsGoJobs

LEMMA JobsEndSteps ==
    ASSUME QueriesInv, JobsInv, NEW c \in Slot,
           Known(c) \/ GiveUp(c) \/ Expire(c)
    PROVE  JobsInv'
<1>0. call \in [Slot -> Call \cup {NoCall}]
  BY DEF QueriesInv, StateTyped
<1>1. CASE Known(c)
  BY <1>1, EndJobJobs DEF Known
<1>2. ASSUME Undisturbed, call[c] # NoCall, call[c].from # 0
      PROVE  FirstOnly(c) /\ Answering(c) /\ call[c].from \in Slot
  BY <1>2, Waited DEF JobsInv, Decisive, FirstOnly, Active
<1>3. CASE GiveUp(c)
  <2>1. ASSUME Undisturbed, call[c] # NoCall, call[c].from # 0 PROVE FALSE
    <3>1. call[c].pc = "ask" /\ call[c].todo = {} /\ call[c] \in Call
      BY <1>0, <1>2, <1>3, <2>1 DEF GiveUp, At, Answering
    <3>2. Member[call[c].node] = {} /\ call[c].node \in Node
      BY <1>2, <2>1, <3>1, CallFields DEF FirstOnly
    <3> QED
      BY <2>1, <3>2 DEF Undisturbed
  <2> QED
    BY <1>3, <2>1, EndJobJobs DEF GiveUp
<1>4. CASE Expire(c)
  <2> DEFINE a == Late(call[c])
  <2>1. call[c] # NoCall /\ call[c] \in Call
    BY <1>0, <1>4 DEF Expire, Due, Jobs, Active
  <2>2. LetsGo(c, a) /\ earlier' = Without({c})
    BY <1>4 DEF Expire, LetsGo
  <2>3. a.pc = "late" /\ a.peer = 0
    BY <2>1 DEF Late, Call
  <2>4. JobLess(c, a)
    BY <2>1, <2>3, LateTyped DEF JobLess
  <2>5. Answers(c, a)
    BY <1>2, <1>4 DEF Expire, Due, Answering, Answers
  <2> HIDE DEF a
  <2>6. UNCHANGED <<phase, queries, events>>
    BY <1>4 DEF Expire
  <2> QED
    BY <2>2, <2>4, <2>5, <2>6, LetsGoJobs
<1> QED
  BY <1>1, <1>3, <1>4
-----------------------------------------------------------------------------
LEMMA FirstStays ==
    ASSUME NEW x \in Slot, FirstOnly(x), call'[x] = call[x],
           x \in Jobs' => x \in Jobs, earlier'[x] = earlier[x]
    PROVE  FirstOnly(x)'
  BY DEF FirstOnly, Answering

(* A call that does not wait changes, and nothing else does.               *)
LEMMA OwnEffect ==
    ASSUME QueriesInv, PeersAnswer, NEW c \in Slot, call[c] \in Call,
           call[c].pc # "wait", NEW r \in Call, r.peer = 0,
           r.from = call[c].from, call' = [call EXCEPT ![c] = r]
    PROVE  /\ PeersAnswer' /\ Active' = Active
           /\ call'[c] = r /\ \A x \in Slot \ {c} : call'[x] = call[x]
           /\ Jobs' = IF r.pc \in {"ask", "wait"} THEN Jobs \cup {c} ELSE Jobs \ {c}
<1>1. call \in [Slot -> Call \cup {NoCall}] /\ Slot' = Slot /\ r # NoCall
  BY CallFields DEF QueriesInv, StateTyped, Slot
<1>2. call'[c] = r /\ \A x \in Slot \ {c} : call'[x] = call[x]
  BY <1>1
<1>3. Active' = Active /\ c \in Active
  BY <1>1, <1>2, CallFields DEF Active
<1>4. Jobs' = IF r.pc \in {"ask", "wait"} THEN Jobs \cup {c} ELSE Jobs \ {c}
  BY <1>1, <1>2, <1>3 DEF Jobs, Active
<1>5. PeersAnswer'
  <2> SUFFICES ASSUME NEW x \in Active, call'[x].peer # 0
               PROVE  /\ call'[x].pc = "wait" /\ call'[x].peer \in Active
                      /\ call'[call'[x].peer].from = x
    BY <1>3 DEF PeersAnswer
  <2>1. x # c /\ call'[x] = call[x] /\ x \in Slot
    BY <1>2 DEF Active
  <2>2. /\ call[x].pc = "wait" /\ call[x].peer \in Active
        /\ call[call[x].peer].from = x
    BY <2>1 DEF PeersAnswer
  <2> QED
    BY <1>2, <2>1, <2>2 DEF Active
<1> QED
  BY <1>2, <1>3, <1>4, <1>5

LEMMA StartJobJobs ==
    ASSUME QueriesInv, JobsInv, NEW c \in Slot, StartJob(c)
    PROVE  JobsInv'
<1> DEFINE d == call[c]
           r == [d EXCEPT !.pc = "ask", !.todo = Member[d.node]]
<1>1. /\ call \in [Slot -> Call \cup {NoCall}]
      /\ d \in Call /\ d.pc \in {"lookup", "members"}
      /\ c \in Active /\ c \notin Jobs
  BY DEF QueriesInv, StateTyped, StartJob, Asks, At, Active, Jobs
<1>2. d.peer = 0
  BY <1>1 DEF JobsInv, PeersAnswer
<1>3. Member[d.node] \in SUBSET Node
  BY <1>1, QueriesAssumption, CallFields
<1>4. call' = [call EXCEPT ![c] = r]
  BY <1>1 DEF StartJob, Call
<1>5. /\ r \in Call /\ r.op = d.op /\ r.node = d.node /\ r.from = d.from
      /\ r.pc = "ask" /\ r.todo = Member[d.node] /\ r.peer = 0
  <2> HIDE DEF d
  <2> QED
    BY <1>1, <1>2, <1>3 DEF Call
<1> HIDE DEF r
<1>6. /\ PeersAnswer' /\ Active' = Active /\ Jobs' = Jobs \cup {c}
      /\ call'[c] = r /\ \A x \in Slot \ {c} : call'[x] = call[x]
  BY <1>1, <1>4, <1>5, OwnEffect DEF JobsInv
<1>7. earlier' = [earlier EXCEPT ![c] = Jobs] /\ UNCHANGED <<phase, queries, events>>
  BY DEF StartJob
<1>8. DeadlinesOrdered' /\ Bounded'
  BY <1>1, <1>6, <1>7, JobBegins DEF JobsInv, Bounded
<1>9. Decisive'
  <2> SUFFICES ASSUME Undisturbed
               PROVE  /\ \A n \in Node : phase[n] = "up"
                      /\ \A x \in Active : FirstOnly(x)'
    BY <1>6, <1>7 DEF Decisive, Undisturbed
  <2>1. /\ \A n \in Node : phase[n] = "up"
        /\ \A x \in Active : FirstOnly(x)
    BY DEF JobsInv, Decisive
  <2>2. earlier'[c] = Jobs /\ \A x \in Slot \ {c} : earlier'[x] = earlier[x]
    BY <1>7 DEF JobsInv, DeadlinesOrdered
  <2>3. ASSUME NEW x \in Active, x # c PROVE FirstOnly(x)'
    BY <1>6, <2>1, <2>2, <2>3, FirstStays DEF Active
  <2>4. FirstOnly(c)'
    <3>1. ASSUME d.from # 0 PROVE Answering(c)'
      <4>1. d.from \in Jobs
        BY <1>1, <3>1, Waited DEF Jobs, Active
      <4> QED
        BY <1>1, <1>5, <1>6, <2>1, <2>2, <3>1, <4>1 DEF FirstOnly, Answering
    <3> QED
      BY <1>5, <1>6, <3>1 DEF FirstOnly
  <2> QED
    BY <2>1, <2>3, <2>4
<1> QED
  BY <1>6, <1>8, <1>9 DEF JobsInv

(* The other steps of a call on its own end no job and begin none.         *)
LEMMA OwnJobs ==
    ASSUME QueriesInv, JobsInv, NEW c \in Slot,
           MembersFail(c) \/ Dial(c) \/ ReadMessage(c)
    PROVE  JobsInv'
<1> DEFINE d == call[c]
<1>1. /\ call \in [Slot -> Call \cup {NoCall}]
      /\ d \in Call /\ d.pc # "wait" /\ c \in Active /\ earlier' = earlier
  BY DEF QueriesInv, StateTyped, MembersFail, Asks, Dial, ReadMessage, At, Active
<1>2. d.peer = 0
  BY <1>1 DEF JobsInv, PeersAnswer
<1>3. PICK r \in Call :
          /\ call' = [call EXCEPT ![c] = r]
          /\ r.from = d.from /\ r.peer = 0
          /\ r.pc \in {"ask", "wait"} <=> c \in Jobs
  <2>1. CASE MembersFail(c)
    <3> DEFINE r == [d EXCEPT !.pc = "answer"]
    <3>1. \/ call' = [call EXCEPT ![c] = r]
          \/ call' = [call EXCEPT ![c] = After(d, FALSE)]
      BY <2>1 DEF MembersFail
    <3>2. c \notin Jobs
      BY <2>1 DEF MembersFail, Asks, At, Jobs
    <3> HIDE DEF d
    <3>3. r \in Call /\ r.from = d.from /\ r.peer = 0 /\ r.pc = "answer"
      BY <1>1, <1>2 DEF Call
    <3> HIDE DEF r
    <3>4. /\ After(d, FALSE) \in Call /\ After(d, FALSE).from = d.from
          /\ After(d, FALSE).peer = 0 /\ After(d, FALSE).pc \notin {"ask", "wait"}
      BY <1>1, AfterTyped, AfterEnds
    <3> QED
      BY <3>1, <3>2, <3>3, <3>4
  <2>2. CASE Dial(c)
    <3>1. PICK m \in Node : call' = [call EXCEPT ![c].pc = "wait", ![c].todo = @ \ {m}]
      BY <2>2 DEF Dial
    <3> DEFINE r == [d EXCEPT !.pc = "wait", !.todo = d.todo \ {m}]
    <3>2. call' = [call EXCEPT ![c] = r]
      BY <1>1, <3>1 DEF Call
    <3>3. d.todo \ {m} \in SUBSET Node /\ c \in Jobs
      BY <1>1, <2>2, CallFields DEF Dial, At, Jobs, Active
    <3> HIDE DEF d
    <3>4. r \in Call /\ r.from = d.from /\ r.peer = 0 /\ r.pc = "wait"
      BY <1>1, <1>2, <3>3 DEF Call
    <3> QED
      BY <3>2, <3>3, <3>4
  <2>3. CASE ReadMessage(c)
    <3> DEFINE r == [d EXCEPT !.pc = "answer"]
    <3>1. call' = [call EXCEPT ![c] = r] /\ c \notin Jobs
      BY <1>1, <2>3 DEF ReadMessage, Call, At, Jobs
    <3> HIDE DEF d
    <3>2. r \in Call /\ r.from = d.from /\ r.peer = 0 /\ r.pc = "answer"
      BY <1>1, <1>2 DEF Call
    <3> QED
      BY <3>1, <3>2
  <2> QED
    BY <2>1, <2>2, <2>3
<1> HIDE DEF d
<1>4. /\ PeersAnswer' /\ Active' = Active /\ Jobs' = Jobs
      /\ call'[c] = r /\ \A x \in Slot \ {c} : call'[x] = call[x]
  <2>1. /\ PeersAnswer' /\ Active' = Active
        /\ call'[c] = r /\ \A x \in Slot \ {c} : call'[x] = call[x]
        /\ Jobs' = IF r.pc \in {"ask", "wait"} THEN Jobs \cup {c} ELSE Jobs \ {c}
    BY <1>1, <1>3, OwnEffect DEF JobsInv, d
  <2>2. Jobs' = Jobs
    BY <1>3, <2>1
  <2> QED
    BY <2>1, <2>2
<1>5. DeadlinesOrdered'
  BY <1>1, <1>4, SameJobs DEF JobsInv
<1>6. Bounded' /\ events' >= events
  <2>1. /\ queries' = queries
        /\ events' = events \/ (events < MaxEvents /\ events' = events + 1)
    BY DEF MembersFail, Dial, ReadMessage, Event
  <2> QED
    BY <2>1, QueriesAssumption DEF JobsInv, Bounded
<1>7. Decisive'
  <2> SUFFICES ASSUME Undisturbed' PROVE /\ \A n \in Node : phase'[n] = "up"
                                         /\ \A x \in Active : FirstOnly(x)'
    BY <1>4 DEF Decisive
  <2>1. events = 0 /\ events' = 0
    BY <1>6 DEF Undisturbed, JobsInv, Bounded
  <2>2. ReadMessage(c) \/ Dial(c)
    BY <2>1, QueriesAssumption DEF MembersFail, Event
  <2>3. /\ Undisturbed
        /\ \A n \in Node : phase[n] = "up"
        /\ \A x \in Active : FirstOnly(x)
    BY <2>1 DEF JobsInv, Decisive, Undisturbed
  <2>4. ReadMessage(c) /\ UNCHANGED phase
    BY <2>2, <2>3 DEF Dial, ReadMessage
  <2>5. d.pc = "read" /\ d.from = 0 /\ c \notin Jobs
    BY <1>1, <2>3, <2>4 DEF ReadMessage, At, FirstOnly, Answering, Jobs, d
  <2>6. FirstOnly(c)'
    BY <1>1, <1>3, <1>4, <2>4, <2>5 DEF FirstOnly, Jobs
  <2>7. ASSUME NEW x \in Active, x # c PROVE FirstOnly(x)'
    BY <1>1, <1>4, <2>3, <2>7, FirstStays DEF Active
  <2> QED
    BY <2>3, <2>4, <2>6, <2>7
<1> QED
  BY <1>4, <1>5, <1>6, <1>7 DEF JobsInv
LEMMA QueryJobs ==
    ASSUME QueriesInv, JobsInv, NEW n \in Asker, Query(n)
    PROVE  JobsInv'
<1>1. /\ call \in [Slot -> Call \cup {NoCall}] /\ Slot' = Slot
      /\ queries < MaxQueries /\ queries' = queries + 1
      /\ UNCHANGED <<earlier, phase, events>>
  BY DEF QueriesInv, StateTyped, Query, Slot
<1>2. PICK c \in Free, op \in Op : call' = [call EXCEPT ![c] = NewCall(op, n, 0)]
  BY DEF Query
<1> DEFINE r == NewCall(op, n, 0)
<1>3. /\ r # NoCall /\ r.from = 0 /\ r.peer = 0 /\ r.pc = "lookup"
      /\ c \in Slot /\ call[c] = NoCall
  BY DEF NewCall, NoCall, Free, Active
<1> HIDE DEF r
<1>4. call'[c] = r /\ \A x \in Slot \ {c} : call'[x] = call[x]
  BY <1>1, <1>2, <1>3 DEF r
<1>5. Active' = Active \cup {c} /\ Jobs' = Jobs /\ c \notin Active
  BY <1>1, <1>3, <1>4 DEF Active, Jobs
<1>6. DeadlinesOrdered'
  BY <1>1, <1>5, SameJobs DEF JobsInv
<1>7. PeersAnswer'
  BY <1>3, <1>4, <1>5 DEF JobsInv, PeersAnswer, Active
<1>8. Bounded'
  BY <1>1, QueriesAssumption DEF JobsInv, Bounded
<1>9. Decisive'
  <2>1. FirstOnly(c)'
    BY <1>3, <1>4 DEF FirstOnly
  <2>2. ASSUME NEW x \in Active, FirstOnly(x) PROVE FirstOnly(x)'
    BY <1>1, <1>4, <1>5, <2>2, FirstStays DEF Active
  <2> QED
    BY <1>1, <1>5, <2>1, <2>2 DEF JobsInv, Decisive, Undisturbed
<1> QED
  BY <1>6, <1>7, <1>8, <1>9 DEF JobsInv

LEMMA AskJobs ==
    ASSUME QueriesInv, JobsInv, NEW c \in Slot, Ask(c)
    PROVE  JobsInv'
<1> DEFINE d == call[c]
<1>1. /\ call \in [Slot -> Call \cup {NoCall}] /\ Slot' = Slot
      /\ d \in Call /\ d.pc = "ask" /\ c \in Jobs
      /\ UNCHANGED <<earlier, phase, queries, events>>
  BY DEF QueriesInv, StateTyped, Ask, At, Jobs, Active, Slot
<1>2. PICK m \in Node, s \in Free :
          /\ m \in d.todo
          /\ call' = [call EXCEPT ![c].pc = "wait", ![c].peer = s,
                                  ![c].todo = @ \ {m}, ![s] = NewCall("Sync", m, c)]
  BY DEF Ask
<1> DEFINE r == [d EXCEPT !.pc = "wait", !.peer = s, !.todo = d.todo \ {m}]
           q == NewCall("Sync", m, c)
<1>3. s \in Slot /\ call[s] = NoCall /\ s # c /\ c # 0
  BY <1>1, CallFields DEF Free, Active, Slot
<1>4. call' = [[call EXCEPT ![c] = r] EXCEPT ![s] = q]
  BY <1>1, <1>2, <1>3 DEF Call
<1>5. /\ r \in Call /\ r.node = d.node /\ r.from = d.from /\ r.op = d.op
      /\ r.pc = "wait" /\ r.peer = s /\ r.todo = d.todo \ {m}
  <2>1. s \in 0 .. MaxCalls /\ d.todo \ {m} \in SUBSET Node
    BY <1>1, <1>3, CallFields, QueriesAssumption DEF Slot
  <2> HIDE DEF d
  <2> QED
    BY <1>1, <2>1 DEF Call
<1>6. /\ q # NoCall /\ q.op = "Sync" /\ q.from = c /\ q.peer = 0 /\ q.pc = "lookup"
  BY DEF NewCall, NoCall
<1> HIDE DEF r, q
<1>7. call'[c] = r /\ call'[s] = q /\ \A x \in Slot \ {c, s} : call'[x] = call[x]
  BY <1>1, <1>3, <1>4
<1>8. Active' = Active \cup {s} /\ s \notin Active /\ c \in Active
  BY <1>1, <1>3, <1>5, <1>6, <1>7, CallFields DEF Active
<1>9. Jobs' = Jobs
  BY <1>1, <1>3, <1>5, <1>6, <1>7, CallFields DEF Active, Jobs
<1>10. DeadlinesOrdered' /\ Bounded'
  BY <1>1, <1>9, SameJobs DEF JobsInv, Bounded
<1>11. PeersAnswer'
  <2> SUFFICES ASSUME NEW x \in Active', call'[x].peer # 0
               PROVE  /\ call'[x].pc = "wait" /\ call'[x].peer \in Active'
                      /\ call'[call'[x].peer].from = x
    BY DEF PeersAnswer
  <2>1. CASE x = c
    BY <1>5, <1>6, <1>7, <1>8, <2>1
  <2>2. CASE x # c
    <3>1. x \in Active /\ x \in Slot /\ call'[x] = call[x]
      BY <1>6, <1>7, <1>8, <2>2 DEF Active
    <3>2. /\ call[x].pc = "wait" /\ call[x].peer \in Active
          /\ call[call[x].peer].from = x
      BY <3>1 DEF JobsInv, PeersAnswer
    <3>3. call[x].peer \in Slot /\ call[x].peer # s
      BY <1>8, <3>2 DEF Active
    <3>4. call'[call[x].peer].from = call[call[x].peer].from
      BY <1>5, <1>7, <3>3
    <3> QED
      BY <1>8, <3>1, <3>2, <3>4
  <2> QED
    BY <2>1, <2>2
<1>12. Decisive'
  <2> SUFFICES ASSUME Undisturbed
               PROVE  /\ \A n \in Node : phase[n] = "up"
                      /\ \A x \in Active' : FirstOnly(x)'
    BY <1>1 DEF Decisive, Undisturbed
  <2>1. /\ \A n \in Node : phase[n] = "up"
        /\ \A x \in Active : FirstOnly(x)
    BY DEF JobsInv, Decisive
  <2>2. FirstOnly(s)'
    BY <1>3, <1>6, <1>7, <1>9 DEF FirstOnly, Answering, Jobs, Active
  <2>3. FirstOnly(c)'
    <3>1. d.todo = Member[d.node] /\ (d.from # 0 => Answering(c))
      BY <1>1, <1>8, <2>1 DEF FirstOnly
    <3>2. r.from # 0 => Answering(c)'
      BY <1>1, <1>5, <1>7, <1>9, <3>1 DEF Answering
    <3>3. m \in Member[d.node] /\ r.todo = Member[d.node] \ {m}
      BY <1>2, <1>5, <3>1
    <3>4. \E k \in Member[r.node] : r.todo = Member[r.node] \ {k}
      BY <1>5, <3>3
    <3> QED
      BY <1>5, <1>7, <3>2, <3>4 DEF FirstOnly
  <2>4. ASSUME NEW x \in Active, x # c PROVE FirstOnly(x)'
    BY <1>1, <1>7, <1>8, <1>9, <2>1, <2>4, FirstStays DEF Active
  <2> QED
    BY <1>8, <2>1, <2>2, <2>3, <2>4
<1> QED
  BY <1>10, <1>11, <1>12 DEF JobsInv

LEMMA AnswerJobs ==
    ASSUME QueriesInv, JobsInv, NEW c \in Slot, Answer(c)
    PROVE  JobsInv'
<1>1. /\ call \in [Slot -> Call \cup {NoCall}] /\ Slot' = Slot
      /\ call[c] # NoCall /\ call[c].pc = "answer" /\ call[c].from = 0
      /\ call' = [call EXCEPT ![c] = NoCall]
      /\ UNCHANGED <<earlier, phase, queries, events>>
  BY DEF QueriesInv, StateTyped, Answer, At, Slot
<1>2. call'[c] = NoCall /\ \A x \in Slot \ {c} : call'[x] = call[x]
  BY <1>1
<1>3. Active' = Active \ {c} /\ Jobs' = Jobs
  BY <1>1, <1>2 DEF Active, Jobs
<1>4. DeadlinesOrdered' /\ Bounded'
  BY <1>1, <1>3, SameJobs DEF JobsInv, Bounded
<1>5. PeersAnswer'
  BY <1>1, <1>2, <1>3 DEF JobsInv, PeersAnswer, Active, Slot
<1>6. Decisive'
  <2>1. ASSUME NEW x \in Active', FirstOnly(x) PROVE FirstOnly(x)'
    BY <1>1, <1>2, <1>3, <2>1, FirstStays DEF Active
  <2> QED
    BY <1>1, <1>3, <2>1 DEF JobsInv, Decisive, Undisturbed
<1> QED
  BY <1>4, <1>5, <1>6 DEF JobsInv

LEMMA AnswerPeerJobs ==
    ASSUME QueriesInv, JobsInv, NEW c \in Slot, AnswerPeer(c)
    PROVE  JobsInv'
<1>1. /\ call \in [Slot -> Call \cup {NoCall}] /\ Slot' = Slot
      /\ c \in Active /\ call[c].pc = "answer" /\ call[c].from # 0
      /\ UNCHANGED <<phase, queries, events>>
  BY DEF QueriesInv, StateTyped, AnswerPeer, At, Active, Slot
<1>p. PICK p \in Slot : p = call[c].from
  BY <1>1, Waited DEF Active
<1>d. PICK d \in Call : d = call[p]
  BY <1>1, <1>p, Waited DEF Active
<1> DEFINE freed == [call EXCEPT ![c] = NoCall]
<1>2. /\ d.pc = "wait" /\ d.peer = c /\ p # c /\ p # 0
      /\ p \in Jobs /\ c \notin Jobs
  BY <1>1, <1>p, <1>d, Waited DEF Active, Jobs
<1>3. freed[p] = d /\ freed \in [Slot -> Call \cup {NoCall}]
  BY <1>1, <1>2, <1>d
<1>4. PICK r \in Call :
          /\ call' = [freed EXCEPT ![p] = r]
          /\ r.from = d.from /\ r.peer = 0
          /\ \/ /\ Found(c) /\ r.pc \notin {"ask", "wait"}
                /\ d.op = "Sync" => r.op = "Sync" /\ r.pc = "answer" /\ r.found
                /\ earlier' = Without({p})
             \/ /\ ~Found(c) /\ r.pc = "ask" /\ earlier' = earlier
  <2>1. CASE Found(c)
    <3>1. call' = [freed EXCEPT ![p] = After(d, TRUE)] /\ earlier' = Without({p})
      BY <1>2, <1>3, <1>p, <2>1 DEF AnswerPeer
    <3> DEFINE r == After(d, TRUE)
    <3>2. /\ r \in Call /\ r.from = d.from /\ r.op = d.op
          /\ r.pc \notin {"ask", "wait"} /\ r.peer = 0
      BY AfterTyped, AfterEnds
    <3>3. d.op = "Sync" => r.pc = "answer" /\ r.found
      BY AfterEnds, Zenon
    <3> HIDE DEF r
    <3>4. d.op = "Sync" => r.op = "Sync" /\ r.pc = "answer" /\ r.found
      BY <3>2, <3>3, Zenon
    <3> QED
      BY <2>1, <3>1, <3>2, <3>4, Zenon DEF r
  <2>2. CASE ~Found(c)
    <3> DEFINE r == [d EXCEPT !.pc = "ask", !.peer = 0]
    <3>1. call' = [freed EXCEPT ![p] = r] /\ earlier' = earlier
      <4>1. /\ call' = [freed EXCEPT ![p].pc = "ask", ![p].peer = 0]
            /\ earlier' = earlier
        BY <1>p, <2>2 DEF AnswerPeer
      <4> HIDE DEF freed
      <4> QED
        BY <1>3, <4>1 DEF Call
    <3>2. 0 \in 0 .. MaxCalls
      BY QueriesAssumption
    <3>3. r \in Call /\ r.from = d.from /\ r.peer = 0 /\ r.pc = "ask"
      BY <1>2, <3>2 DEF Call
    <3> QED
      BY <2>2, <3>1, <3>3
  <2> QED
    BY <2>1, <2>2
<1>5. call'[c] = NoCall /\ call'[p] = r /\ r # NoCall
  BY <1>2, <1>3, <1>4, CallFields
<1>6. \A x \in Slot \ {c, p} : call'[x] = call[x]
  BY <1>2, <1>3, <1>4
<1> HIDE DEF freed
<1>7. Active' = Active \ {c} /\ p \in Active
  BY <1>1, <1>2, <1>5, <1>6 DEF Active, Jobs
<1>8. Jobs' = IF Found(c) THEN Jobs \ {p} ELSE Jobs
  <2>1. \A x \in Slot \ {c, p} : x \in Jobs' <=> x \in Jobs
    BY <1>1, <1>6 DEF Jobs, Active
  <2>2. c \notin Jobs' /\ (p \in Jobs' <=> ~Found(c))
    BY <1>1, <1>2, <1>4, <1>5 DEF Jobs, Active
  <2>3. Jobs \subseteq Slot /\ Jobs' \subseteq Slot
    BY <1>1 DEF Jobs, Active
  <2> QED
    BY <1>2, <2>1, <2>2, <2>3
<1>9. DeadlinesOrdered'
  BY <1>4, <1>8, JobsEnd, SameJobs DEF JobsInv
<1>10. Bounded'
  BY <1>1 DEF JobsInv, Bounded
<1>11. PeersAnswer'
  <2> SUFFICES ASSUME NEW x \in Active', call'[x].peer # 0
               PROVE  /\ call'[x].pc = "wait" /\ call'[x].peer \in Active'
                      /\ call'[call'[x].peer].from = x
    BY DEF PeersAnswer
  <2>1. x \in Active /\ x # c /\ x # p /\ x \in Slot /\ call'[x] = call[x]
    BY <1>4, <1>5, <1>6, <1>7 DEF Active
  <2> DEFINE y == call[x].peer
  <2>2. call[x].pc = "wait" /\ y \in Active /\ call[y].from = x
    BY <2>1 DEF JobsInv, PeersAnswer
  <2>3. y # c /\ y \in Slot
    BY <1>p, <2>1, <2>2 DEF Active
  <2>4. call'[y].from = call[y].from
    BY <1>4, <1>5, <1>6, <1>d, <2>3
  <2> QED
    BY <1>7, <2>1, <2>2, <2>3, <2>4
<1>12. Decisive'
  <2> SUFFICES ASSUME Undisturbed
               PROVE  /\ \A n \in Node : phase[n] = "up"
                      /\ \A x \in Active' : FirstOnly(x)'
    BY <1>1 DEF Decisive, Undisturbed
  <2>1. /\ \A n \in Node : phase[n] = "up"
        /\ \A x \in Active : FirstOnly(x)
    BY DEF JobsInv, Decisive
  <2>2. Found(c)
    BY <1>1, <2>1 DEF FirstOnly, Answering, Found
  <2>3. FirstOnly(p)'
    <3>1. ASSUME r.from # 0 PROVE Answering(p)'
      <4>1. d.op = "Sync"
        BY <1>4, <1>7, <1>d, <2>1, <3>1 DEF FirstOnly, Answering
      <4>2. r.op = "Sync" /\ r.pc = "answer" /\ r.found
        BY <1>4, <2>2, <4>1, Zenon
      <4>3. p \notin Jobs'
        BY <1>8, <2>2
      <4>4. /\ call'[p].op = "Sync" /\ call'[p].found
            /\ call'[p].pc \in {"lookup", "ask", "wait", "answer"}
        BY <1>5, <4>2, Zenon
      <4> QED
        BY <4>3, <4>4, Zenon DEF Answering
    <3> QED
      BY <1>4, <1>5, <1>p, <2>2, <3>1 DEF FirstOnly
  <2>4. ASSUME NEW x \in Active, x # c, x # p PROVE FirstOnly(x)'
    <3>1. x \in Slot /\ call'[x] = call[x] /\ FirstOnly(x)
      BY <1>6, <2>1, <2>4 DEF Active
    <3>2. ASSUME call[x].from # 0 PROVE Answering(x)'
      <4>1. Answering(x)
        BY <3>1, <3>2 DEF FirstOnly
      <4>2. call[x].from # p
        BY <1>2, <1>d, <2>4, <3>1, <3>2, Waited DEF Active
      <4>3. earlier'[x] = earlier[x] \ {p}
        BY <1>4, <2>2, <2>4, <3>1 DEF Without
      <4> QED
        BY <1>8, <2>2, <3>1, <4>1, <4>2, <4>3 DEF Answering
    <3> QED
      BY <3>1, <3>2 DEF FirstOnly
  <2> QED
    BY <1>7, <2>1, <2>3, <2>4
<1> QED
  BY <1>9, <1>10, <1>11, <1>12 DEF JobsInv
-----------------------------------------------------------------------------
LEMMA CallsUnchanged ==
    ASSUME JobsInv, UNCHANGED <<call, earlier>>, Bounded',
           events' = 0 => events = 0,
           events' = 0 /\ (\A n \in Node : phase[n] = "up") =>
               \A n \in Node : phase'[n] = "up"
    PROVE  JobsInv'
<1>1. Active' = Active /\ Jobs' = Jobs /\ Slot' = Slot
  BY DEF Active, Jobs, Slot
<1>2. DeadlinesOrdered'
  BY <1>1, SameJobs DEF JobsInv
<1>3. PeersAnswer'
  BY <1>1 DEF JobsInv, PeersAnswer
<1>4. \A x \in Active : FirstOnly(x) => FirstOnly(x)'
  BY <1>1, FirstStays DEF Active
<1>5. Decisive'
  BY <1>1, <1>4 DEF JobsInv, Decisive, Undisturbed
<1> QED
  BY <1>2, <1>3, <1>5 DEF JobsInv

LEMMA NodeJobs ==
    ASSUME JobsInv, NEW n \in Asker \cup Puller,
           Discover(n) \/ Interrupt(n) \/ CtrlC(n)
    PROVE  JobsInv'
<1>1. n \in Node
  BY QueriesAssumption
<1>2. UNCHANGED <<call, earlier, queries>>
  BY DEF Discover, Interrupt, CtrlC
<1>3. \/ UNCHANGED <<phase, events>>
      \/ events < MaxEvents /\ events' = events + 1
      \/ phase[n] = "draining" /\ events' = events
  BY DEF Discover, Interrupt, CtrlC, Event
<1>4. Bounded' /\ (events' = 0 => events = 0 /\ events' # events + 1)
  BY <1>2, <1>3, QueriesAssumption DEF JobsInv, Bounded
<1> QED
  BY <1>1, <1>2, <1>3, <1>4, CallsUnchanged

(* A process ends: nobody waits for a call that is lost any more.          *)
LEMMA EndJobs ==
    ASSUME QueriesInv, JobsInv, NEW n \in Node, End(n), Bounded',
           Undisturbed' => Undisturbed /\ phase[n] # "up"
    PROVE  JobsInv'
<1> DEFINE gone == {c \in Active : call[c].node = n}
<1>1. PICK lost \in SUBSET Slot : lost = gone
  BY DEF Active
<1> HIDE DEF gone
<1>2. /\ call \in [Slot -> Call \cup {NoCall}] /\ Slot' = Slot
      /\ earlier' = Without(lost) /\ lost \subseteq Active
  BY <1>1 DEF QueriesInv, StateTyped, End, Slot, gone
<1>3. call' = [c \in Slot |->
               IF call[c] = NoCall \/ c \in lost THEN NoCall
               ELSE [call[c] EXCEPT
                        !.pc = IF call[c].peer \in lost THEN "ask" ELSE @,
                        !.peer = IF @ \in lost THEN 0 ELSE @,
                        !.from = IF @ \in lost THEN 0 ELSE @]]
  BY <1>1 DEF End, gone
<1>4. ASSUME NEW x \in Slot, call[x] = NoCall \/ x \in lost
      PROVE  call'[x] = NoCall
  BY <1>3, <1>4
<1>5. ASSUME NEW x \in Slot, call[x] # NoCall, x \notin lost
      PROVE  /\ call'[x] # NoCall
             /\ call'[x].pc = IF call[x].peer \in lost THEN "ask" ELSE call[x].pc
             /\ call'[x].peer = IF call[x].peer \in lost THEN 0 ELSE call[x].peer
             /\ call'[x].from = IF call[x].from \in lost THEN 0 ELSE call[x].from
  <2> DEFINE d == call[x]
             s == IF d.peer \in lost THEN "ask" ELSE d.pc
             e == IF d.peer \in lost THEN 0 ELSE d.peer
             f == IF d.from \in lost THEN 0 ELSE d.from
             r == [d EXCEPT !.pc = s, !.peer = e, !.from = f]
  <2>1. d \in Call
    BY <1>2, <1>5
  <2>2. call'[x] = r
    BY <1>3, <1>5, <2>1 DEF Call
  <2>3. 0 \in 0 .. MaxCalls
    BY QueriesAssumption
  <2>4. /\ s \in {"lookup", "members", "ask", "wait", "late", "read", "answer"}
        /\ e \in 0 .. MaxCalls /\ f \in 0 .. MaxCalls
    BY <2>1, <2>3, CallFields
  <2> HIDE DEF d, s, e, f
  <2>5. r \in Call /\ r.from = f /\ r.peer = e /\ r.pc = s
    BY <2>1, <2>4 DEF Call
  <2> HIDE DEF r
  <2> QED
    BY <2>2, <2>5, CallFields DEF d, s, e, f
<1>6. Active' = Active \ lost
  BY <1>2, <1>4, <1>5 DEF Active
<1>7. ASSUME NEW x \in Active \ lost PROVE x \in Jobs' <=> x \in Jobs
  <2>1. x \in Slot /\ call[x] # NoCall /\ x \in Active' /\ 0 \notin lost
    BY <1>6, <1>7 DEF Active, Slot
  <2>2. call[x].peer \in lost => call[x].pc = "wait"
    BY <1>7, <2>1 DEF JobsInv, PeersAnswer
  <2> QED
    BY <1>5, <1>7, <2>1, <2>2 DEF Jobs
<1>8. Jobs' = Jobs \ lost
  <2>1. Jobs \subseteq Active /\ Jobs' \subseteq Active'
    BY DEF Jobs
  <2> QED
    BY <1>6, <1>7, <2>1
<1>9. DeadlinesOrdered'
  BY <1>2, <1>8, JobsEnd DEF JobsInv
<1>10. PeersAnswer'
  <2> SUFFICES ASSUME NEW x \in Active', call'[x].peer # 0
               PROVE  /\ call'[x].pc = "wait" /\ call'[x].peer \in Active'
                      /\ call'[call'[x].peer].from = x
    BY DEF PeersAnswer
  <2>1. x \in Active /\ x \notin lost /\ x \in Slot /\ call[x] # NoCall
    BY <1>6 DEF Active
  <2>2. /\ call[x].peer \notin lost /\ call[x].peer # 0
        /\ call'[x].peer = call[x].peer /\ call'[x].pc = call[x].pc
    BY <1>5, <2>1
  <2>3. /\ call[x].pc = "wait" /\ call[x].peer \in Active
        /\ call[call[x].peer].from = x
    BY <2>1, <2>2 DEF JobsInv, PeersAnswer
  <2>4. call[x].peer \in Slot /\ call[call[x].peer] # NoCall
    BY <2>3 DEF Active
  <2> QED
    BY <1>5, <1>6, <2>1, <2>2, <2>3, <2>4
<1>11. Decisive'
  BY DEF JobsInv, Decisive
<1> QED
  BY <1>9, <1>10, <1>11 DEF JobsInv

LEMMA EndNodeJobs ==
    ASSUME QueriesInv, JobsInv, NEW n \in Asker, QueryShort(n) \/ Exit(n)
    PROVE  JobsInv'
<1>1. n \in Node /\ End(n) /\ queries' = queries
  BY QueriesAssumption DEF QueryShort, Exit, End
<1>2. \/ events < MaxEvents /\ events' = events + 1
      \/ phase[n] = "stopping" /\ events' = events
  BY DEF QueryShort, Exit, Event
<1>3. Bounded'
  BY <1>1, <1>2, QueriesAssumption DEF JobsInv, Bounded
<1>4. Undisturbed' => Undisturbed /\ phase[n] # "up"
  BY <1>2 DEF JobsInv, Bounded, Undisturbed
<1> QED
  BY <1>1, <1>3, <1>4, EndJobs

LEMMA InitJobs == Init => JobsInv
<1> SUFFICES ASSUME Init PROVE JobsInv
  OBVIOUS
<1>1. Active = {} /\ Jobs = {}
  BY DEF Init, Active, Jobs
<1>2. DeadlinesOrdered
  BY <1>1 DEF Init, DeadlinesOrdered
<1>3. PeersAnswer /\ Decisive
  BY <1>1 DEF Init, PeersAnswer, Decisive
<1>4. Bounded
  BY QueriesAssumption DEF Init, Bounded
<1> QED
  BY <1>2, <1>3, <1>4 DEF JobsInv

LEMMA StepJobs == QueriesInv /\ JobsInv /\ [Next]_vars => JobsInv'
<1> SUFFICES ASSUME QueriesInv, JobsInv, [Next]_vars PROVE JobsInv'
  OBVIOUS
<1>1. CASE UNCHANGED vars
  <2>1. UNCHANGED <<call, earlier, phase, queries, events>>
    BY <1>1 DEF vars
  <2>2. Bounded'
    BY <2>1 DEF JobsInv, Bounded
  <2> QED
    BY <2>1, <2>2, CallsUnchanged
<1>2. CASE \E c \in Slot : Work(c) \/ MembersFail(c) \/ Expire(c)
  BY <1>2, JobsEndSteps, StartJobJobs, OwnJobs, AskJobs, AnswerJobs,
     AnswerPeerJobs DEF Work
<1>3. ASSUME NEW n \in Asker,
             Query(n) \/ QueryShort(n) \/ Interrupt(n) \/ Stop(n)
      PROVE  JobsInv'
  BY <1>3, QueryJobs, NodeJobs, EndNodeJobs DEF Stop
<1>4. ASSUME NEW n \in Puller, Discover(n) PROVE JobsInv'
  BY <1>4, NodeJobs
<1> QED
  BY <1>1, <1>2, <1>3, <1>4 DEF Next, Deadline

(* The inductive invariant of the jobs: how their deadlines are ordered,   *)
(* whom they are answered by, and that an undisturbed one waits for its    *)
(* first member only.                                                      *)
THEOREM JobsInvariant == Spec => [](QueriesInv /\ JobsInv)
<1>1. Init => QueriesInv /\ JobsInv
  BY InitQueries, InitJobs
<1>2. QueriesInv /\ JobsInv /\ [Next]_vars => (QueriesInv /\ JobsInv)'
  BY StepQueries, StepJobs
<1> QED
  BY <1>1, <1>2, PTL DEF Spec

(* Every job under way has one place in the order of the deadlines, and no *)
(* call waits for one that is gone or answers somebody else.               *)
THEOREM TypeCorrect == Spec => []TypeOK
<1>1. QueriesInv => CallersWait
  BY DEF QueriesInv, Links, Linked, CallersWait, Active
<1>2. QueriesInv /\ JobsInv => TypeOK
  BY <1>1 DEF QueriesInv, StateTyped, JobsInv, Bounded, TypeOK
<1> QED
  BY <1>2, JobsInvariant, PTL

(* When nothing fails and every node has members, a job asks one member    *)
(* and no other, in whatever circles the members ask each other: the       *)
(* answer of the first one comes before its deadline.                      *)
THEOREM FirstMember == Spec => []FirstMemberDecides
<1>1. ASSUME QueriesInv, JobsInv PROVE FirstMemberDecides
  <2> SUFFICES ASSUME Undisturbed, NEW c \in Jobs
               PROVE  Cardinality(Asked(c)) = Waiting(c)
    BY DEF FirstMemberDecides, Undisturbed
  <2>1. FirstOnly(c)
    BY <1>1 DEF JobsInv, Decisive, Jobs
  <2>2. CASE call[c].pc = "ask"
    <3>1. Asked(c) = {}
      BY <2>1, <2>2 DEF FirstOnly, Asked
    <3> QED
      BY <2>2, <3>1, FS_EmptySet DEF Waiting
  <2>3. CASE call[c].pc = "wait"
    <3>1. PICK m \in Member[call[c].node] :
              call[c].todo = Member[call[c].node] \ {m}
      BY <2>1, <2>3 DEF FirstOnly
    <3>2. Asked(c) = {m}
      BY <3>1 DEF Asked
    <3> QED
      BY <2>3, <3>2, FS_Singleton DEF Waiting
  <2> QED
    BY <2>2, <2>3 DEF Jobs
<1> QED
  BY <1>1, JobsInvariant, PTL

-----------------------------------------------------------------------------
(* Of finite sets there is always one that none of the others is part of.  *)
LEMMA SmallestSet ==
    ASSUME NEW S, IsFiniteSet(S), NEW T, T \subseteq SUBSET S, T # {}
    PROVE  \E X \in T : \A Y \in T : ~(Y \subseteq X /\ Y # X)
<1>1. \A R, B, X : IsWellFoundedOn(R, B) /\ X \subseteq B /\ X # {} =>
          \E x \in X : \A y \in X : ~(<<y, x>> \in R)
  BY WFMin
<1>2. IsWellFoundedOn(StrictSubsetOrdering(S), FiniteSubsetsOf(S))
  BY FS_StrictSubsetOrderingWellFounded
<1>3. T \subseteq FiniteSubsetsOf(S)
  BY FS_FiniteSubsetsOfFinite
<1>4. PICK X \in T : \A Y \in T : <<Y, X>> \notin StrictSubsetOrdering(S)
  BY <1>1, <1>2, <1>3
<1>5. ASSUME NEW Y \in T, Y \subseteq X, Y # X PROVE FALSE
  BY <1>4, <1>5 DEF StrictSubsetOrdering
<1> QED
  BY <1>5

(* Whatever circles the calls wait in, the deadline of one of their jobs   *)
(* is the next: no job has to wait for another one to end first.           *)
THEOREM SomeDeadlineIsDue == Spec => [](Jobs # {} => \E c \in Slot : Due(c))
<1>1. ASSUME QueriesInv, JobsInv, Jobs # {} PROVE \E c \in Slot : Due(c)
  <2> DEFINE T == {earlier[c] : c \in Jobs}
  <2>1. Jobs \subseteq Slot /\ IsFiniteSet(Slot)
    BY QueriesAssumption, FS_Interval DEF Jobs, Active, Slot
  <2>2. T \subseteq SUBSET Slot /\ T # {}
    BY <1>1, <2>1 DEF JobsInv, DeadlinesOrdered
  <2>3. PICK X \in T : \A Y \in T : ~(Y \subseteq X /\ Y # X)
    <3> HIDE DEF T
    <3> QED
      BY <2>1, <2>2, SmallestSet
  <2>4. PICK c \in Jobs : X = earlier[c]
    BY <2>3
  <2>5. ASSUME NEW d \in earlier[c] PROVE FALSE
    <3>1. d \in Jobs /\ earlier[d] \subseteq earlier[c] /\ d \notin earlier[d]
      BY <1>1, <2>1, <2>4, <2>5 DEF JobsInv, DeadlinesOrdered
    <3> QED
      BY <2>3, <2>4, <2>5, <3>1
  <2> QED
    BY <2>1, <2>4, <2>5 DEF Due
<1>2. QueriesInv /\ JobsInv => (Jobs # {} => \E c \in Slot : Due(c))
  BY <1>1
<1> QED
  BY <1>2, JobsInvariant, PTL
=============================================================================
