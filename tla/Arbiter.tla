-------------------------------- MODULE Arbiter --------------------------------
(***************************************************************************)
(* The two-agent arbiter (arbiter.vhd, in pcie2AxiMaster and in the Ares   *)
(* FPGA) and the agents that share a resource through it.  An agent writes *)
(* REQ or DONE to its register and reads REC and ACK back.  Its writes are *)
(* posted on the bus; they arrive in order, one register write per clock,  *)
(* and a read pushes the agent's own writes ahead of it.                   *)
(***************************************************************************)
EXTENDS Naturals, Sequences

CONSTANT MaxPosted   \* writes of one agent that the bus may hold

ASSUME MaxPostedAssumption == MaxPosted \in Nat \ {0}

VARIABLES arb_state, alternate_start,
          AGENT_REC, AGENT_ACK, \* the read-only fields, one bit per agent
          agent,                \* what each agent's program does: idle, asking or using
          posted                \* its register writes still on the bus
arbVars == <<arb_state, alternate_start, AGENT_REC, AGENT_ACK>>
vars    == <<arbVars, agent, posted>>

Agents   == {0, 1}
Other(a) == 1 - a

\* REQ_a_SEQ: agent a holds the resource; WAIT_REQa_END: and the other waits.
REQ_SEQ(a)      == IF a = 0 THEN "REQ_0_SEQ" ELSE "REQ_1_SEQ"
WAIT_REQ_END(a) == IF a = 0 THEN "WAIT_REQ0_END" ELSE "WAIT_REQ1_END"

\* The registers written by the branches that go to each kind of state.
Free ==
  /\ arb_state' = "IDLE"
  /\ AGENT_REC' = [a \in Agents |-> FALSE]
  /\ AGENT_ACK' = [a \in Agents |-> FALSE]

Grant(a) ==
  /\ arb_state' = REQ_SEQ(a)
  /\ AGENT_REC' = [b \in Agents |-> b = a]
  /\ AGENT_ACK' = [b \in Agents |-> b = a]

\* Mutant: The waiting state's registers copied from the granted states.
QueueAcked(a) ==
  /\ arb_state' = WAIT_REQ_END(a)
  /\ AGENT_REC' = [b \in Agents |-> TRUE] /\ AGENT_ACK' = [b \in Agents |-> TRUE]

Queue(a) ==   \* a keeps the resource, the other's request is recorded
  /\ arb_state' = WAIT_REQ_END(a)
  /\ AGENT_REC' = [b \in Agents |-> TRUE]
  /\ AGENT_ACK' = [b \in Agents |-> b = a]

\* alternate_start = 0: agent 0 is looked at first, and a grant turns it over.
Turn(a) == alternate_start' = 1 - a

IDLE(req) ==
  LET first == alternate_start IN
  \/ req[first] /\ Grant(first) /\ Turn(first)
  \/ ~req[first] /\ req[Other(first)] /\ Grant(Other(first)) /\ Turn(Other(first))
  \/ ~req[0] /\ ~req[1] /\ Free /\ UNCHANGED alternate_start

\* Mutant: A request that arrives while the resource is used takes it over.
InUsePreempted(a, req, done) ==
  LET b == Other(a) IN
  \/ req[b] /\ Grant(b) /\ Turn(b)
  \/ done[a] /\ ~req[b] /\ Free /\ UNCHANGED alternate_start
  \/ ~done[a] /\ ~req[b] /\ Grant(a) /\ UNCHANGED alternate_start

InUse(a, req, done) ==
  LET b == Other(a) IN
  \/ done[a] /\ req[b] /\ Grant(b) /\ Turn(b)
  \/ done[a] /\ ~req[b] /\ Free /\ UNCHANGED alternate_start
  \/ ~done[a] /\ req[b] /\ Queue(a) /\ alternate_start' = a
  \/ ~done[a] /\ ~req[b] /\ Grant(a) /\ UNCHANGED alternate_start

\* Mutant: The abort of a waiting request is not looked at.
ContendedNoAbort(a, done) ==
  LET b == Other(a) IN
  /\ UNCHANGED alternate_start
  /\ \/ done[a] /\ Grant(b)
     \/ ~done[a] /\ Queue(a)

Contended(a, done) ==
  LET b == Other(a) IN
  /\ UNCHANGED alternate_start
  /\ \/ done[b] /\ Grant(a)              \* aborted request
     \/ ~done[b] /\ done[a] /\ Grant(b)
     \/ ~done[b] /\ ~done[a] /\ Queue(a)

\* A clock on which the registers REQ and DONE are written as given.
ArbClock(req, done) ==
  \/ arb_state = "IDLE" /\ IDLE(req)
  \/ \E a \in Agents : arb_state = REQ_SEQ(a) /\ InUse(a, req, done)
  \/ \E a \in Agents : arb_state = WAIT_REQ_END(a) /\ Contended(a, done)

--------------------------------------------------------------------------------
(* The agents *)

Post(a, field) ==
  /\ Len(posted[a]) < MaxPosted
  /\ posted' = [posted EXCEPT ![a] = Append(@, field)]

Become(a, s) == agent' = [agent EXCEPT ![a] = s]

Request(a) == agent[a] = "idle" /\ Post(a, "REQ") /\ Become(a, "asking") /\ UNCHANGED arbVars

\* The agent reads its register until ACK is set.
Poll(a) ==
  /\ agent[a] = "asking" /\ posted[a] = << >>
  /\ AGENT_ACK[a]
  /\ Become(a, "using")
  /\ UNCHANGED <<arbVars, posted>>

Finish(a) == agent[a] = "using" /\ Post(a, "DONE") /\ Become(a, "idle") /\ UNCHANGED arbVars

\* An agent that waits too long writes DONE without having read ACK.
Cancel(a) == agent[a] = "asking" /\ Post(a, "DONE") /\ Become(a, "idle") /\ UNCHANGED arbVars

\* A posted write reaches its register; the other agent's fields are not written.
Arrive(a) ==
  /\ posted[a] # << >>
  /\ posted' = [posted EXCEPT ![a] = Tail(@)]
  /\ ArbClock([b \in Agents |-> b = a /\ Head(posted[a]) = "REQ"],
              [b \in Agents |-> b = a /\ Head(posted[a]) = "DONE"])
  /\ UNCHANGED agent

\* A clock on which neither register is written.
Quiet ==
  /\ ArbClock([b \in Agents |-> FALSE], [b \in Agents |-> FALSE])
  /\ UNCHANGED <<agent, posted>>

Init ==
  /\ arb_state = "IDLE" /\ alternate_start = 0
  /\ AGENT_REC = [a \in Agents |-> FALSE]
  /\ AGENT_ACK = [a \in Agents |-> FALSE]
  /\ agent = [a \in Agents |-> "idle"]
  /\ posted = [a \in Agents |-> << >>]

Next ==
  \/ \E a \in Agents : Request(a) \/ Poll(a) \/ Finish(a) \/ Cancel(a) \/ Arrive(a)
  \/ Quiet

\* The bus delivers; an agent polls while it asks and stops using the resource.
Fairness == \A a \in Agents : WF_vars(Arrive(a)) /\ WF_vars(Poll(a)) /\ WF_vars(Finish(a))

Spec == Init /\ [][Next]_vars /\ Fairness

--------------------------------------------------------------------------------
TypeOK ==
  /\ arb_state \in {"IDLE", "REQ_0_SEQ", "WAIT_REQ0_END", "REQ_1_SEQ", "WAIT_REQ1_END"}
  /\ alternate_start \in {0, 1}
  /\ AGENT_REC \in [Agents -> BOOLEAN] /\ AGENT_ACK \in [Agents -> BOOLEAN]
  /\ agent \in [Agents -> {"idle", "asking", "using"}]
  /\ posted \in [Agents -> Seq({"REQ", "DONE"})]
  /\ \A a \in Agents : Len(posted[a]) <= MaxPosted

(* The two agents never use the resource at once, whatever writes are      *)
(* still on the bus and however often requests are aborted (arbiter.vhd's  *)
(* reason to exist).                                                       *)
MutualExclusion == ~(agent[0] = "using" /\ agent[1] = "using")

(* A request is never lost: once an agent's writes have all arrived, REC   *)
(* tells exactly whether it still wants the resource, although its request *)
(* may have met a release, an abort or a request of the other agent        *)
(* (the REC field of the header, arbiter.vhd:13).                          *)
RequestRecorded ==
  \A a \in Agents : posted[a] = << >> => (AGENT_REC[a] <=> agent[a] # "idle")

(* The resource leaves its holder only by the holder's own DONE, and goes  *)
(* straight to the other agent when that one's request is recorded: no     *)
(* later request overtakes it (WAIT_REQ0_END, WAIT_REQ1_END).              *)
HandOver ==
  [][\A a \in Agents :
       AGENT_ACK[a] /\ ~AGENT_ACK'[a] =>
         /\ posted[a] # << >> /\ Head(posted[a]) = "DONE"
         /\ AGENT_REC[Other(a)] => AGENT_ACK'[Other(a)]]_vars

(* Every request is granted or given up: no order of arrivals leaves the   *)
(* resource with an agent that has already let it go.                      *)
EveryRequestEnds ==
  \A a \in Agents : agent[a] = "asking" ~> agent[a] # "asking"

(* The inductive invariant: the registers decode the state, the writes of  *)
(* an agent on the bus alternate from what its REC says to what it wants,  *)
(* and who uses the resource has its ACK.                                  *)
RegistersDecode ==
  /\ arb_state = "IDLE" => \A b \in Agents : ~AGENT_REC[b] /\ ~AGENT_ACK[b]
  /\ \A a \in Agents :
       /\ arb_state = REQ_SEQ(a) => \A b \in Agents : AGENT_REC[b] = (b = a) /\ AGENT_ACK[b] = (b = a)
       /\ arb_state = WAIT_REQ_END(a) => \A b \in Agents : AGENT_REC[b] /\ AGENT_ACK[b] = (b = a)

LinkOK(q, rec, s) ==   \* an agent in state s, its writes q and its REC
  /\ q = << >> => (rec <=> s # "idle")
  /\ q # << >> => /\ (q[1] = "DONE") <=> rec
                  /\ (q[Len(q)] = "REQ") <=> (s = "asking")
                  /\ s # "using"
  /\ \A i \in 1 .. Len(q) - 1 : q[i] # q[i + 1]

WritesAlternate == \A a \in Agents : LinkOK(posted[a], AGENT_REC[a], agent[a])

UserHasAck == \A a \in Agents : agent[a] = "using" => AGENT_ACK[a]

IInv == TypeOK /\ RegistersDecode /\ WritesAlternate /\ UserHasAck
================================================================================
