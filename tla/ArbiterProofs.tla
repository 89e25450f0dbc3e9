----------------------------- MODULE ArbiterProofs -----------------------------
(***************************************************************************)
(* Mutual exclusion, the recording of requests and the hand-over of the    *)
(* resource, for any number of writes the bus may hold.  IInv (Arbiter) is *)
(* inductive: the steps of an agent move only the ends of its own queue,   *)
(* and the arrival of a write meets a register that its predecessors in    *)
(* the queue have left in the opposite state.                              *)
(***************************************************************************)
EXTENDS Arbiter, SequenceTheorems, TLAPS

\* The five state names are distinct, and an agent and its rival are both.
LEMMA AgentFacts ==
  /\ Agents = {0, 1}
  /\ \A a \in Agents : Other(a) \in Agents /\ Other(a) # a /\ Other(Other(a)) = a
  /\ \A a, b \in Agents : b = a \/ b = Other(a)
  /\ \A a, b \in Agents : REQ_SEQ(a) = REQ_SEQ(b) <=> a = b
  /\ \A a, b \in Agents : WAIT_REQ_END(a) = WAIT_REQ_END(b) <=> a = b
  /\ \A a, b \in Agents : REQ_SEQ(a) # WAIT_REQ_END(b)
  /\ \A a \in Agents : REQ_SEQ(a) # "IDLE" /\ WAIT_REQ_END(a) # "IDLE"
BY DEF Agents, Other, REQ_SEQ, WAIT_REQ_END

Fields == {"REQ", "DONE"}

\* What Append and Tail do to a queue of writes.
LEMMA AppendFacts ==
  ASSUME NEW q \in Seq(Fields), NEW x \in Fields
  PROVE  /\ Append(q, x) \in Seq(Fields)
         /\ Append(q, x) # << >>
         /\ Len(q) \in Nat
         /\ Len(Append(q, x)) = Len(q) + 1
         /\ Append(q, x)[Len(q) + 1] = x
         /\ \A i \in 1 .. Len(q) : Append(q, x)[i] = q[i]
         /\ q # << >> <=> Len(q) > 0
OBVIOUS

LEMMA TailFacts ==
  ASSUME NEW q \in Seq(Fields), q # << >>
  PROVE  /\ Tail(q) \in Seq(Fields)
         /\ Len(q) \in Nat \ {0}
         /\ Len(Tail(q)) = Len(q) - 1
         /\ Tail(q) = << >> <=> Len(q) = 1
         /\ \A i \in 1 .. Len(q) - 1 : Tail(q)[i] = q[i + 1]
         /\ Head(q) = q[1] /\ Head(q) \in Fields
<1>1. Len(q) \in Nat \ {0}
  BY EmptySeq
<1>2. /\ Head(q) \in Fields
      /\ Tail(q) \in Seq(Fields)
      /\ Len(Tail(q)) = Len(q) - 1
      /\ \A i \in 1 .. Len(Tail(q)) : Tail(q)[i] = q[i + 1]
  BY HeadTailProperties
<1>3. Tail(q) = << >> <=> Len(q) = 1
  <2>1. /\ Len(<< >>) = 0
        /\ \A z \in Seq(Fields) : z # << >> => Len(z) \in Nat \ {0}
    BY EmptySeq
  <2> QED
    BY <1>1, <1>2, <2>1
<1>4. Head(q) = q[1]
  OBVIOUS
<1> QED
  BY <1>1, <1>2, <1>3, <1>4

\* An agent that posts the write its program calls for keeps its link in order.
LEMMA PostKeepsLink ==
  ASSUME NEW q \in Seq(Fields), NEW rec \in BOOLEAN,
         NEW s \in {"idle", "asking", "using"}, LinkOK(q, rec, s), NEW x \in Fields, (x = "REQ") <=> (s = "idle")
  PROVE  LinkOK(Append(q, x), rec, IF x = "REQ" THEN "asking" ELSE "idle")
<1> DEFINE r == Append(q, x)
<1>1. r # << >> /\ Len(q) \in Nat /\ Len(r) = Len(q) + 1 /\ r[Len(r)] = x
  BY AppendFacts
<1>2. (r[1] = "DONE") <=> rec
  <2>1. CASE q = << >>
    BY <1>1, <2>1, AppendFacts DEF LinkOK, Fields
  <2>2. CASE q # << >>
    BY <1>1, <2>2, AppendFacts DEF LinkOK
  <2> QED
    BY <2>1, <2>2
<1>3. ASSUME NEW i \in 1 .. Len(r) - 1 PROVE r[i] # r[i + 1]
  <2>1. CASE i < Len(q)
    BY <1>1, <2>1, AppendFacts DEF LinkOK
  <2>2. CASE i = Len(q)
    <3>1. q # << >> /\ r[i] = q[Len(q)] /\ r[i + 1] = x
      BY <1>1, <2>2, AppendFacts
    <3>2. q[Len(q)] \in Fields
      BY <1>1, <2>2, ElementOfSeq
    <3> QED
      BY <3>1, <3>2 DEF LinkOK, Fields
  <2> QED
    BY <1>1, <2>1, <2>2
<1> QED
  BY <1>1, <1>2, <1>3 DEF LinkOK, Fields

\* The write that arrives first asks for the opposite of what REC says.
LEMMA ArriveKeepsLink ==
  ASSUME NEW q \in Seq(Fields), q # << >>, NEW rec \in BOOLEAN, NEW s, LinkOK(q, rec, s)
  PROVE  /\ Head(q) = "REQ" <=> ~rec
         /\ Head(q) = "DONE" <=> rec
         /\ s # "using"
         /\ s \in {"idle", "asking"} => LinkOK(Tail(q), ~rec, s)
<1> DEFINE t == Tail(q)
<1>1. /\ t \in Seq(Fields) /\ Len(q) \in Nat \ {0} /\ Len(t) = Len(q) - 1
      /\ t = << >> <=> Len(q) = 1
      /\ \A i \in 1 .. Len(q) - 1 : t[i] = q[i + 1]
      /\ Head(q) = q[1] /\ q[1] \in Fields
  BY TailFacts
<1>2. /\ Head(q) = "REQ" <=> ~rec
      /\ Head(q) = "DONE" <=> rec
      /\ s # "using"
  BY <1>1 DEF LinkOK, Fields
<1>3. ASSUME s \in {"idle", "asking"} PROVE LinkOK(t, ~rec, s)
  <2>1. CASE t = << >>
    BY <1>1, <1>2, <1>3, <2>1 DEF LinkOK, Fields
  <2>2. CASE t # << >>
    <3>1. Len(q) > 1 /\ t[1] = q[2] /\ t[Len(t)] = q[Len(q)]
      BY <1>1, <2>2
    <3>2. q[2] \in Fields /\ q[1] # q[2]
      <4>1. 2 \in 1 .. Len(q) /\ 1 \in 1 .. Len(q) - 1
        BY <1>1, <3>1
      <4> QED
        BY <4>1, ElementOfSeq DEF LinkOK
    <3>3. ASSUME NEW i \in 1 .. Len(t) - 1 PROVE t[i] # t[i + 1]
      <4>1. /\ i \in 1 .. Len(q) - 1 /\ i + 1 \in 1 .. Len(q) - 1
        BY <1>1
      <4> QED
        BY <1>1, <4>1 DEF LinkOK
    <3> QED
      BY <1>1, <1>2, <2>2, <3>1, <3>2, <3>3 DEF LinkOK, Fields
  <2> QED
    BY <2>1, <2>2
<1> QED
  BY <1>2, <1>3

\* The initial state satisfies the invariant.
LEMMA InitInv == Init => IInv
<1> SUFFICES ASSUME Init PROVE IInv
  OBVIOUS
<1>1. TypeOK
  BY MaxPostedAssumption, EmptySeq DEF Init, TypeOK, Agents
<1>2. RegistersDecode
  BY DEF Init, RegistersDecode, Agents, REQ_SEQ, WAIT_REQ_END
<1>3. WritesAlternate
  BY EmptySeq DEF Init, WritesAlternate, LinkOK, Agents
<1>4. UserHasAck
  BY DEF Init, UserHasAck
<1> QED
  BY <1>1, <1>2, <1>3, <1>4 DEF IInv

--------------------------------------------------------------------------------
(* One step *)

\* A step of an agent's program posts at most one write and touches no register.
LEMMA ProgramStep ==
  ASSUME IInv, NEW a \in Agents, Request(a) \/ Poll(a) \/ Finish(a) \/ Cancel(a)
  PROVE  IInv'
<1> USE DEF IInv, TypeOK
<1>1. CASE Poll(a)
  <2>1. /\ UNCHANGED <<arb_state, alternate_start, AGENT_REC, AGENT_ACK, posted>>
        /\ agent' = [agent EXCEPT ![a] = "using"]
        /\ agent[a] = "asking" /\ posted[a] = << >> /\ AGENT_ACK[a]
    BY <1>1 DEF Poll, Become, arbVars
  <2>2. TypeOK'
    BY <2>1
  <2>3. RegistersDecode'
    BY <2>1 DEF RegistersDecode
  <2>4. WritesAlternate'
    <3>1. ASSUME NEW b \in Agents PROVE LinkOK(posted'[b], AGENT_REC'[b], agent'[b])
      <4>1. LinkOK(posted[b], AGENT_REC[b], agent[b])
        BY DEF WritesAlternate
      <4>2. CASE b # a
        BY <2>1, <4>1, <4>2
      <4>3. CASE b = a
        BY <2>1, <4>1, <4>3 DEF LinkOK
      <4> QED
        BY <4>2, <4>3
    <3> QED
      BY <3>1 DEF WritesAlternate
  <2>5. UserHasAck'
    BY <2>1 DEF UserHasAck
  <2> QED
    BY <2>2, <2>3, <2>4, <2>5
<1>2. CASE Request(a) \/ Finish(a) \/ Cancel(a)
  <2> USE DEF Fields
  <2>1. PICK x \in Fields :
          /\ (x = "REQ") <=> (agent[a] = "idle")
          /\ posted' = [posted EXCEPT ![a] = Append(@, x)]
          /\ Len(posted[a]) < MaxPosted
          /\ agent' = [agent EXCEPT ![a] = IF x = "REQ" THEN "asking" ELSE "idle"]
          /\ UNCHANGED <<arb_state, alternate_start, AGENT_REC, AGENT_ACK>>
    <3>1. CASE Request(a)
      <4> WITNESS "REQ" \in Fields
      <4> QED
        BY <3>1 DEF Request, Post, Become, arbVars
    <3>2. CASE Finish(a) \/ Cancel(a)
      <4> WITNESS "DONE" \in Fields
      <4> QED
        BY <3>2 DEF Finish, Cancel, Post, Become, arbVars
    <3> QED
      BY <1>2, <3>1, <3>2 DEF Fields
  <2>2. /\ posted[a] \in Seq(Fields) /\ AGENT_REC[a] \in BOOLEAN
        /\ agent[a] \in {"idle", "asking", "using"}
        /\ LinkOK(posted[a], AGENT_REC[a], agent[a])
    BY DEF WritesAlternate, Fields
  <2>3. TypeOK'
    <3>1. /\ Append(posted[a], x) \in Seq(Fields)
          /\ Len(Append(posted[a], x)) = Len(posted[a]) + 1 /\ Len(posted[a]) \in Nat
      BY <2>2, AppendFacts
    <3>2. Len(Append(posted[a], x)) <= MaxPosted
      BY <2>1, <3>1, MaxPostedAssumption
    <3> QED
      BY <2>1, <3>1, <3>2 DEF Fields
  <2>4. RegistersDecode'
    BY <2>1 DEF RegistersDecode
  <2>5. WritesAlternate'
    <3>1. ASSUME NEW b \in Agents PROVE LinkOK(posted'[b], AGENT_REC'[b], agent'[b])
      <4>1. CASE b # a
        BY <2>1, <4>1 DEF WritesAlternate
      <4>2. CASE b = a
        BY <2>1, <2>2, <4>2, PostKeepsLink
      <4> QED
        BY <4>1, <4>2
    <3> QED
      BY <3>1 DEF WritesAlternate
  <2>6. UserHasAck'
    BY <2>1 DEF UserHasAck
  <2> QED
    BY <2>3, <2>4, <2>5, <2>6
<1> QED
  BY <1>1, <1>2

\* The registers agree with the state after each kind of branch.
LEMMA BranchDecodes ==
  /\ Free => RegistersDecode'
  /\ \A a \in Agents : Grant(a) \/ Queue(a) => RegistersDecode'
BY AgentFacts DEF RegistersDecode, Free, Grant, Queue

\* Which branch the write of one agent takes, when it asks for what REC lacks.
LEMMA ClockBranch ==
  ASSUME TypeOK, RegistersDecode, NEW a \in Agents,
         ArbClock([b \in Agents |-> b = a /\ ~AGENT_REC[a]],
                  [b \in Agents |-> b = a /\ AGENT_REC[a]])
  PROVE  LET b == Other(a) IN
         /\ alternate_start' \in {0, 1}
         /\ \/ ~AGENT_REC[a] /\ ~AGENT_REC[b] /\ ~AGENT_ACK[b] /\ Grant(a)
            \/ AGENT_REC[a] /\ ~AGENT_REC[b] /\ ~AGENT_ACK[b] /\ Free
            \/ ~AGENT_REC[a] /\ AGENT_REC[b] /\ ~AGENT_ACK[a] /\ Queue(b)
            \/ AGENT_REC[a] /\ AGENT_REC[b] /\ Grant(b)
<1> DEFINE b == Other(a)
           req == [c \in Agents |-> c = a /\ ~AGENT_REC[a]]
           done == [c \in Agents |-> c = a /\ AGENT_REC[a]]
<1>1. /\ b \in Agents /\ b # a /\ Other(b) = a
      /\ AGENT_REC[a] \in BOOLEAN /\ AGENT_REC[b] \in BOOLEAN
      /\ (req[a] <=> ~AGENT_REC[a]) /\ ~req[b] /\ (done[a] <=> AGENT_REC[a]) /\ ~done[b]
      /\ alternate_start \in {a, b}
  BY AgentFacts DEF TypeOK
<1>2. CASE arb_state = "IDLE"
  <2>1. IDLE(req) /\ ~AGENT_REC[a] /\ ~AGENT_REC[b] /\ ~AGENT_ACK[b]
    BY <1>1, <1>2, AgentFacts DEF ArbClock, RegistersDecode
  <2>2. Grant(a) /\ Turn(a)
    BY <1>1, <2>1, AgentFacts DEF IDLE
  <2> QED
    BY <1>1, <2>1, <2>2 DEF Turn, Agents
<1>3. CASE arb_state = REQ_SEQ(a)
  <2>1. InUse(a, req, done) /\ AGENT_REC[a] /\ ~AGENT_REC[b] /\ ~AGENT_ACK[b]
    BY <1>1, <1>3, AgentFacts DEF ArbClock, RegistersDecode
  <2>2. Free /\ UNCHANGED alternate_start
    BY <1>1, <2>1 DEF InUse
  <2> QED
    BY <1>1, <2>1, <2>2 DEF TypeOK
<1>4. CASE arb_state = REQ_SEQ(b)
  <2>1. InUse(b, req, done) /\ ~AGENT_REC[a] /\ AGENT_REC[b] /\ ~AGENT_ACK[a]
    BY <1>1, <1>4, AgentFacts DEF ArbClock, RegistersDecode
  <2>2. Queue(b) /\ alternate_start' = b
    BY <1>1, <2>1 DEF InUse
  <2> QED
    BY <1>1, <2>1, <2>2 DEF Agents
<1>5. CASE arb_state = WAIT_REQ_END(a)
  <2>1. Contended(a, done) /\ AGENT_REC[a] /\ AGENT_REC[b]
    BY <1>1, <1>5, AgentFacts DEF ArbClock, RegistersDecode
  <2>2. Grant(b) /\ UNCHANGED alternate_start
    BY <1>1, <2>1 DEF Contended
  <2> QED
    BY <1>1, <2>1, <2>2 DEF TypeOK
<1>6. CASE arb_state = WAIT_REQ_END(b)
  <2>1. Contended(b, done) /\ AGENT_REC[a] /\ AGENT_REC[b]
    BY <1>1, <1>6, AgentFacts DEF ArbClock, RegistersDecode
  <2>2. Grant(b) /\ UNCHANGED alternate_start
    BY <1>1, <2>1 DEF Contended
  <2> QED
    BY <1>1, <2>1, <2>2 DEF TypeOK
<1>7. \/ arb_state = "IDLE"
      \/ \E h \in {a, b} : arb_state = REQ_SEQ(h) \/ arb_state = WAIT_REQ_END(h)
  BY <1>1, AgentFacts DEF ArbClock
<1> QED
  BY <1>2, <1>3, <1>4, <1>5, <1>6, <1>7

\* The write of one agent turns its REC, and never takes the other one's ACK.
LEMMA ClockStep ==
  ASSUME TypeOK, RegistersDecode, NEW a \in Agents,
         ArbClock([b \in Agents |-> b = a /\ ~AGENT_REC[a]],
                  [b \in Agents |-> b = a /\ AGENT_REC[a]])
  PROVE  /\ RegistersDecode'
         /\ AGENT_REC' = [AGENT_REC EXCEPT ![a] = ~@]
         /\ AGENT_ACK' \in [Agents -> BOOLEAN]
         /\ AGENT_ACK[Other(a)] => AGENT_ACK'[Other(a)]
         /\ AGENT_ACK[a] /\ ~AGENT_ACK'[a] => AGENT_REC[a]
         /\ AGENT_ACK[a] /\ AGENT_REC[Other(a)] /\ ~AGENT_ACK'[a] => AGENT_ACK'[Other(a)]
         /\ arb_state' \in {"IDLE", "REQ_0_SEQ", "WAIT_REQ0_END", "REQ_1_SEQ", "WAIT_REQ1_END"}
         /\ alternate_start' \in {0, 1}
<1> DEFINE b == Other(a)
<1>1. /\ b \in Agents /\ b # a /\ \A c \in Agents : c = a \/ c = b
      /\ AGENT_REC \in [Agents -> BOOLEAN]
  BY AgentFacts DEF TypeOK
<1>2. /\ alternate_start' \in {0, 1}
      /\ \/ ~AGENT_REC[a] /\ ~AGENT_REC[b] /\ ~AGENT_ACK[b] /\ Grant(a)
         \/ AGENT_REC[a] /\ ~AGENT_REC[b] /\ ~AGENT_ACK[b] /\ Free
         \/ ~AGENT_REC[a] /\ AGENT_REC[b] /\ ~AGENT_ACK[a] /\ Queue(b)
         \/ AGENT_REC[a] /\ AGENT_REC[b] /\ Grant(b)
  BY ClockBranch
<1>3. RegistersDecode'
  BY <1>1, <1>2, BranchDecodes
<1>4. arb_state' \in {"IDLE", "REQ_0_SEQ", "WAIT_REQ0_END", "REQ_1_SEQ", "WAIT_REQ1_END"}
  BY <1>2 DEF Free, Grant, Queue, REQ_SEQ, WAIT_REQ_END
<1>5. AGENT_REC' = [AGENT_REC EXCEPT ![a] = ~@]
  BY <1>1, <1>2 DEF Free, Grant, Queue
<1>6. AGENT_ACK' \in [Agents -> BOOLEAN]
  BY <1>2 DEF Free, Grant, Queue
<1>7. /\ AGENT_ACK[b] => AGENT_ACK'[b]
      /\ AGENT_ACK[a] /\ ~AGENT_ACK'[a] => AGENT_REC[a]
      /\ AGENT_ACK[a] /\ AGENT_REC[b] /\ ~AGENT_ACK'[a] => AGENT_ACK'[b]
  BY <1>1, <1>2 DEF Free, Grant, Queue
<1> QED
  BY <1>2, <1>3, <1>4, <1>5, <1>6, <1>7

\* The arrival of a write, with what it does to both registers of the agents.
LEMMA ArriveStep ==
  ASSUME IInv, NEW a \in Agents, Arrive(a)
  PROVE  /\ IInv'
         /\ AGENT_ACK[Other(a)] => AGENT_ACK'[Other(a)]
         /\ AGENT_ACK[a] /\ ~AGENT_ACK'[a] =>
              /\ posted[a] # << >> /\ Head(posted[a]) = "DONE"
              /\ AGENT_REC[Other(a)] => AGENT_ACK'[Other(a)]
<1> USE DEF IInv, Fields
<1>1. /\ posted \in [Agents -> Seq(Fields)] /\ posted[a] # << >>
      /\ \A c \in Agents : Len(posted[c]) <= MaxPosted
      /\ agent \in [Agents -> {"idle", "asking", "using"}] /\ AGENT_REC[a] \in BOOLEAN
      /\ LinkOK(posted[a], AGENT_REC[a], agent[a])
  BY DEF TypeOK, WritesAlternate, Arrive
<1>2. /\ Head(posted[a]) = "REQ" <=> ~AGENT_REC[a]
      /\ Head(posted[a]) = "DONE" <=> AGENT_REC[a]
      /\ agent[a] # "using"
      /\ LinkOK(Tail(posted[a]), ~AGENT_REC[a], agent[a])
  BY <1>1, ArriveKeepsLink
<1>3. /\ posted' = [posted EXCEPT ![a] = Tail(@)]
      /\ UNCHANGED agent
      /\ ArbClock([b \in Agents |-> b = a /\ ~AGENT_REC[a]],
                  [b \in Agents |-> b = a /\ AGENT_REC[a]])
  BY <1>2 DEF Arrive
<1>4. /\ RegistersDecode'
      /\ AGENT_REC' = [AGENT_REC EXCEPT ![a] = ~@]
      /\ AGENT_ACK' \in [Agents -> BOOLEAN]
      /\ AGENT_ACK[Other(a)] => AGENT_ACK'[Other(a)]
      /\ AGENT_ACK[a] /\ ~AGENT_ACK'[a] => AGENT_REC[a]
      /\ AGENT_ACK[a] /\ AGENT_REC[Other(a)] /\ ~AGENT_ACK'[a] => AGENT_ACK'[Other(a)]
      /\ arb_state' \in {"IDLE", "REQ_0_SEQ", "WAIT_REQ0_END", "REQ_1_SEQ", "WAIT_REQ1_END"}
      /\ alternate_start' \in {0, 1}
  BY <1>3, ClockStep
<1>5. TypeOK'
  <2>1. /\ Tail(posted[a]) \in Seq(Fields) /\ Len(posted[a]) \in Nat
        /\ Len(Tail(posted[a])) = Len(posted[a]) - 1
    BY <1>1, TailFacts
  <2>2. Len(Tail(posted[a])) <= MaxPosted
    BY <1>1, <2>1, MaxPostedAssumption
  <2>3. AGENT_REC' \in [Agents -> BOOLEAN]
    BY <1>4 DEF TypeOK
  <2> QED
    BY <1>1, <1>3, <1>4, <2>1, <2>2, <2>3 DEF TypeOK
<1>6. WritesAlternate'
  <2>1. ASSUME NEW c \in Agents PROVE LinkOK(posted'[c], AGENT_REC'[c], agent'[c])
    <3>1. CASE c # a
      BY <1>1, <1>3, <1>4, <3>1 DEF WritesAlternate, TypeOK
    <3>2. CASE c = a
      <4>1. posted'[c] = Tail(posted[a]) /\ AGENT_REC'[c] = ~AGENT_REC[a] /\ agent'[c] = agent[a]
        BY <1>1, <1>3, <1>4, <3>2 DEF TypeOK
      <4> QED
        BY <1>2, <4>1
    <3> QED
      BY <3>1, <3>2
  <2> QED
    BY <2>1 DEF WritesAlternate
<1>7. UserHasAck'
  BY <1>2, <1>3, <1>4, AgentFacts DEF UserHasAck
<1> QED
  BY <1>1, <1>2, <1>4, <1>5, <1>6, <1>7

\* A clock without a write leaves the arbiter as it is.
LEMMA QuietStep == IInv /\ Quiet => UNCHANGED vars
<1> SUFFICES ASSUME IInv, Quiet PROVE UNCHANGED vars
  OBVIOUS
<1> DEFINE none == [b \in Agents |-> FALSE]
<1>1. /\ TypeOK /\ RegistersDecode /\ ArbClock(none, none) /\ UNCHANGED <<agent, posted>>
      /\ ~none[0] /\ ~none[1]
  BY DEF IInv, Quiet, Agents
<1> HIDE DEF none
<1>2. UNCHANGED <<arb_state, alternate_start>>
  BY <1>1, AgentFacts DEF ArbClock, IDLE, InUse, Contended, Free, Grant, Queue, TypeOK
<1>3. UNCHANGED <<AGENT_REC, AGENT_ACK>>
  <2>1. CASE arb_state = "IDLE"
    <3>1. Free /\ \A b \in Agents : ~AGENT_REC[b] /\ ~AGENT_ACK[b]
      BY <1>1, <2>1, AgentFacts DEF ArbClock, IDLE, RegistersDecode, TypeOK
    <3> QED
      BY <1>1, <3>1 DEF Free, TypeOK
  <2>2. ASSUME NEW a \in Agents, arb_state = REQ_SEQ(a) PROVE UNCHANGED <<AGENT_REC, AGENT_ACK>>
    <3>1. Grant(a) /\ \A b \in Agents : AGENT_REC[b] = (b = a) /\ AGENT_ACK[b] = (b = a)
      BY <1>1, <2>2, AgentFacts DEF ArbClock, InUse, RegistersDecode
    <3> QED
      BY <1>1, <3>1 DEF Grant, TypeOK
  <2>3. ASSUME NEW a \in Agents, arb_state = WAIT_REQ_END(a) PROVE UNCHANGED <<AGENT_REC, AGENT_ACK>>
    <3>1. Queue(a) /\ \A b \in Agents : AGENT_REC[b] /\ AGENT_ACK[b] = (b = a)
      BY <1>1, <2>3, AgentFacts DEF ArbClock, Contended, RegistersDecode
    <3> QED
      BY <1>1, <3>1 DEF Queue, TypeOK
  <2> QED
    BY <1>1, <2>1, <2>2, <2>3 DEF ArbClock
<1> QED
  BY <1>1, <1>2, <1>3 DEF vars, arbVars

LEMMA NextInv == IInv /\ [Next]_vars => IInv'
<1> SUFFICES ASSUME IInv, [Next]_vars PROVE IInv'
  OBVIOUS
<1>1. ASSUME NEW a \in Agents, Request(a) \/ Poll(a) \/ Finish(a) \/ Cancel(a) PROVE IInv'
  BY <1>1, ProgramStep
<1>2. ASSUME NEW a \in Agents, Arrive(a) PROVE IInv'
  BY <1>2, ArriveStep
<1>3. CASE UNCHANGED vars
  BY <1>3 DEF vars, arbVars, IInv, TypeOK, RegistersDecode, WritesAlternate, UserHasAck
<1>4. CASE Quiet
  BY <1>3, <1>4, QuietStep
<1> QED
  BY <1>1, <1>2, <1>3, <1>4 DEF Next

--------------------------------------------------------------------------------
(* The theorems *)

\* IInv holds in every reachable state.
THEOREM Invariance == Spec => []IInv
BY InitInv, NextInv, PTL DEF Spec

\* Two agents never use the resource of arbiter.vhd at once.
THEOREM Exclusion == Spec => []MutualExclusion
<1>1. IInv => MutualExclusion
  <2> SUFFICES ASSUME IInv, agent[0] = "using", agent[1] = "using" PROVE FALSE
    BY DEF MutualExclusion
  <2>1. AGENT_ACK[0] /\ AGENT_ACK[1]
    BY DEF IInv, UserHasAck, Agents
  <2>2. \/ arb_state = "IDLE"
        \/ \E a \in Agents : arb_state = REQ_SEQ(a) \/ arb_state = WAIT_REQ_END(a)
    BY DEF IInv, TypeOK, Agents, REQ_SEQ, WAIT_REQ_END
  <2> QED
    BY <2>1, <2>2, AgentFacts DEF IInv, RegistersDecode
<1> QED
  BY <1>1, Invariance, PTL

\* REC tells, once an agent's writes have arrived, whether it wants the resource.
THEOREM RequestsRecorded == Spec => []RequestRecorded
<1>1. IInv => RequestRecorded
  BY DEF IInv, WritesAlternate, LinkOK, RequestRecorded
<1> QED
  BY <1>1, Invariance, PTL

\* The resource leaves its holder by the holder's DONE, straight to who waits.
THEOREM HandedOver == Spec => HandOver
<1> DEFINE A(a) == AGENT_ACK[a] /\ ~AGENT_ACK'[a] =>
                     /\ posted[a] # << >> /\ Head(posted[a]) = "DONE"
                     /\ AGENT_REC[Other(a)] => AGENT_ACK'[Other(a)]
<1>1. IInv /\ [Next]_vars => [\A a \in Agents : A(a)]_vars
  <2> SUFFICES ASSUME IInv, Next, NEW a \in Agents PROVE A(a) \/ UNCHANGED vars
    OBVIOUS
  <2>1. ASSUME NEW c \in Agents, Request(c) \/ Poll(c) \/ Finish(c) \/ Cancel(c) PROVE A(a)
    BY <2>1 DEF Request, Poll, Finish, Cancel, arbVars
  <2>2. CASE Arrive(a)
    BY <2>2, ArriveStep
  <2>3. CASE Arrive(Other(a))
    BY <2>3, ArriveStep, AgentFacts
  <2>4. CASE Quiet
    BY <2>4, QuietStep
  <2> QED
    BY <2>1, <2>2, <2>3, <2>4, AgentFacts DEF Next
<1> QED
  BY <1>1, Invariance, PTL DEF Spec, HandOver
================================================================================
