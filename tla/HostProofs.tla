------------------------------- MODULE HostProofs -------------------------------
(***************************************************************************)
(* That the invariant of HostInvariant is inductive, and what follows from *)
(* it for any number of abort threads and any times: with no assumption    *)
(* about them for the register writes and the sequencer, and under Timely  *)
(* for the aborts, the buffer and the mutex.                               *)
(***************************************************************************)
EXTENDS HostInvariant, FiniteSetTheorems, TLAPS

-----------------------------------------------------------------------------
(* The controller: what the events and the commands of GrabPath do. *)

LEMMA ArmMoves ==
  ASSUME NEW p \in Paths, NEW q \in Arm(p)
  PROVE  /\ q \in Paths /\ p.phase = "queued" /\ q.phase = "armed"
         /\ q.active = p.active /\ q.pending = p.pending
         /\ q.readout = p.readout /\ q.aborting = p.aborting
BY DEF Arm, Paths

LEMMA CancelMoves ==
  ASSUME NEW p \in Paths, NEW q \in Cancel(p)
  PROVE  /\ q \in Paths /\ p.aborting /\ p.phase # "fot" /\ q.phase = "idle"
         /\ q.active = p.active /\ q.pending = p.pending
         /\ q.readout = p.readout /\ q.aborting = p.aborting
BY DEF Cancel, Paths, Stat

Holds(flag) == flag

LEMMA StatFields ==
  ASSUME NEW a \in BOOLEAN, NEW d \in BOOLEAN, NEW r \in BOOLEAN, NEW b \in BOOLEAN,
         NEW ph \in {"idle", "queued", "armed", "exposing", "fot"}
  PROVE  /\ Stat(a, d, r, b, ph) \in Paths
         /\ Stat(a, d, r, b, ph).active = a /\ Stat(a, d, r, b, ph).pending = d
         /\ Stat(a, d, r, b, ph).readout = r /\ Stat(a, d, r, b, ph).aborting = b
         /\ Stat(a, d, r, b, ph).phase = ph
BY DEF Stat, Paths

LEMMA PathFields ==
  ASSUME NEW p \in Paths
  PROVE  /\ p.active \in BOOLEAN /\ p.pending \in BOOLEAN /\ p.readout \in BOOLEAN
         /\ p.aborting \in BOOLEAN
         /\ p.phase \in {"idle", "queued", "armed", "exposing", "fot"}
         /\ p = Stat(p.active, p.pending, p.readout, p.aborting, p.phase)
BY DEF Stat, Paths

LEMMA StartFotMoves ==
  ASSUME NEW p \in Paths, NEW q \in StartFot(p)
  PROVE  /\ q \in Paths /\ p.phase = "exposing" /\ q.phase = "fot" /\ ~p.readout /\ q.readout
         /\ q.active = p.active /\ q.pending = p.pending /\ q.aborting = p.aborting
<1>1. PICK x \in BOOLEAN : Holds(x)
  BY DEF Holds
<1>2. p.phase = "exposing" /\ ~p.readout
  BY DEF StartFot
<1>3. q = Stat(p.active, p.pending, x, p.aborting, "fot")
  BY <1>1, <1>2 DEF StartFot, Stat, Holds
<1>4. q.readout = x
  BY <1>3 DEF Stat
<1>5. q.readout
  BY <1>1, <1>4 DEF Holds
<1>6. /\ q \in Paths /\ q.phase = "fot"
      /\ q.active = p.active /\ q.pending = p.pending /\ q.aborting = p.aborting
  BY <1>3 DEF Stat, Paths
<1> QED
  BY <1>2, <1>5, <1>6

LEMMA EndFotMoves ==
  ASSUME NEW p \in Paths, NEW q \in EndFot(p)
  PROVE  /\ q \in Paths /\ p.phase = "fot"
         /\ q.phase = IF p.pending /\ ~p.aborting THEN "queued" ELSE "idle"
         /\ q.active = p.pending /\ ~q.pending
         /\ q.readout = p.readout /\ q.aborting = p.aborting
<1>1. PICK y \in BOOLEAN : ~Holds(y)
  BY DEF Holds
<1>2. p.phase = "fot"
  BY DEF EndFot
<1>3. q = Stat(p.pending, y, p.readout, p.aborting,
               IF Holds(p.pending) /\ ~Holds(p.aborting) THEN "queued" ELSE "idle")
  BY <1>1, <1>2 DEF EndFot, Stat, Holds
<1>4. /\ q \in Paths /\ q.active = p.pending /\ q.pending = y
      /\ q.readout = p.readout /\ q.aborting = p.aborting
      /\ q.phase = IF Holds(p.pending) /\ ~Holds(p.aborting) THEN "queued" ELSE "idle"
  BY <1>3 DEF Stat, Paths
<1>5. ~q.pending
  BY <1>1, <1>4 DEF Holds
<1>6. q.phase = IF p.pending /\ ~p.aborting THEN "queued" ELSE "idle"
  BY <1>4 DEF Holds
<1> QED
  BY <1>2, <1>4, <1>5, <1>6

LEMMA EndReadoutMoves ==
  ASSUME NEW p \in Paths, NEW q \in EndReadout(p)
  PROVE  /\ q \in Paths /\ p.phase # "fot" /\ q.phase = p.phase /\ p.readout /\ ~q.readout
         /\ q.active = p.active /\ q.pending = p.pending /\ q.aborting = p.aborting
<1>1. PICK y \in BOOLEAN : ~Holds(y)
  BY DEF Holds
<1>2. p.phase # "fot" /\ p.readout
  BY DEF EndReadout
<1>3. q = Stat(p.active, p.pending, y, p.aborting, p.phase)
  BY <1>1, <1>2 DEF EndReadout, Stat, Holds
<1>4. /\ q \in Paths /\ q.active = p.active /\ q.pending = p.pending /\ q.readout = y
      /\ q.aborting = p.aborting /\ q.phase = p.phase
  BY <1>3 DEF Stat, Paths
<1>5. ~q.readout
  BY <1>1, <1>4 DEF Holds
<1> QED
  BY <1>2, <1>4, <1>5

LEMMA ForgetMoves ==
  ASSUME NEW p \in Paths, NEW q \in ForgetGrabs(p)
  PROVE  /\ q \in Paths /\ p.aborting /\ p.phase = "idle" /\ ~p.readout
         /\ q.phase = "idle" /\ ~q.active /\ ~q.pending /\ ~q.readout /\ q.aborting
         /\ p.active \/ p.pending \/ q = p
<1>1. PICK y \in BOOLEAN : ~Holds(y)
  BY DEF Holds
<1>2. p.aborting /\ p.phase = "idle" /\ ~p.readout
  BY DEF ForgetGrabs
<1>3. q = Stat(y, y, p.readout, p.aborting, "idle")
  BY <1>1, <1>2 DEF ForgetGrabs, Stat, Holds
<1>4. /\ q \in Paths /\ q.active = y /\ q.pending = y /\ q.readout = p.readout
      /\ q.aborting = p.aborting /\ q.phase = "idle"
  BY <1>3 DEF Stat, Paths
<1>5. ~q.active /\ ~q.pending
  BY <1>1, <1>4 DEF Holds
<1>6. p.active \/ p.pending \/ q = p
  <2>1. SUFFICES ASSUME ~p.active, ~p.pending PROVE q = p
    OBVIOUS
  <2>2. p.active = y /\ p.pending = y
    BY <1>1, <2>1 DEF Holds, Paths
  <2> QED
    BY <1>2, <1>3, <2>2 DEF Stat, Paths
<1> QED
  BY <1>2, <1>4, <1>5, <1>6

LEMMA AbortDoneMoves ==
  ASSUME NEW p \in Paths, NEW q \in AbortDone(p)
  PROVE  /\ q \in Paths /\ p.aborting /\ Quiet(p) /\ Quiet(q) /\ ~q.aborting
<1>1. PICK y \in BOOLEAN : ~Holds(y)
  BY DEF Holds
<1>2. p.aborting /\ Quiet(p)
  BY DEF AbortDone, Quiet
<1>3. q = Stat(y, y, y, y, "idle")
  BY <1>1 DEF AbortDone, AtRest, Stat, Holds
<1>4. /\ q \in Paths /\ q.active = y /\ q.pending = y /\ q.readout = y /\ q.aborting = y
      /\ q.phase = "idle"
  BY <1>3 DEF Stat, Paths
<1> QED
  BY <1>1, <1>2, <1>4 DEF Holds, Quiet

LEMMA RestFields ==
  AtRest \in Paths /\ Quiet(AtRest) /\ ~AtRest.aborting
<1>1. PICK y \in BOOLEAN : ~Holds(y)
  BY DEF Holds
<1>2. AtRest = Stat(y, y, y, y, "idle")
  BY <1>1 DEF AtRest, Stat, Holds
<1>3. /\ AtRest \in Paths /\ AtRest.active = y /\ AtRest.pending = y /\ AtRest.readout = y
      /\ AtRest.aborting = y /\ AtRest.phase = "idle"
  BY <1>2 DEF Stat, Paths
<1> QED
  BY <1>1, <1>3 DEF Holds, Quiet

LEMMA NoCommand ==
  ASSUME NEW p \in Paths
  PROVE  Command(p, {}) = p
BY DEF Command

LEMMA GrabCommand ==
  ASSUME NEW p \in Paths
  PROVE  /\ Command(p, {"GRAB_CMD"}) \in Paths
         /\ Command(p, {"GRAB_CMD"}).aborting = p.aborting
<1> DEFINE q == Command(p, {"GRAB_CMD"})
<1>1. PICK x \in BOOLEAN : Holds(x)
  BY DEF Holds
<1>2. q = GrabCmd(p)
  BY DEF Command
<1>3. CASE p.active
  <2>1. q = [p EXCEPT !.pending = x]
    BY <1>1, <1>2, <1>3 DEF GrabCmd, Holds
  <2> QED
    BY <2>1 DEF Paths
<1>4. CASE ~p.active
  <2>1. PICK ph \in {"idle", "queued", "armed", "exposing", "fot"} :
          q = Stat(x, p.pending, p.readout, p.aborting, ph)
    BY <1>1, <1>2, <1>4 DEF GrabCmd, Holds, Paths
  <2> QED
    BY <2>1 DEF Stat, Paths
<1> QED
  BY <1>3, <1>4

LEMMA SnapshotCommand ==
  ASSUME NEW p \in Paths
  PROVE  /\ Command(p, {"GRAB_SS"}) \in Paths
         /\ Command(p, {"GRAB_SS"}).aborting = p.aborting
BY DEF Command, Snapshot, Paths

LEMMA AbortCommand ==
  ASSUME NEW p \in Paths
  PROVE  /\ Command(p, {"ABORT_GRAB"}) \in Paths
         /\ Command(p, {"ABORT_GRAB"}).aborting
         /\ Command(p, {"ABORT_GRAB"}).phase = p.phase
         /\ Command(p, {"ABORT_GRAB"}).active = p.active
         /\ Command(p, {"ABORT_GRAB"}).pending = p.pending
         /\ Command(p, {"ABORT_GRAB"}).readout = p.readout
<1> DEFINE q == Command(p, {"ABORT_GRAB"})
<1>1. PICK x \in BOOLEAN : Holds(x)
  BY DEF Holds
<1>2. q = Stat(p.active, p.pending, p.readout, x, p.phase)
  BY <1>1 DEF Command, AbortGrab, Stat, Holds
<1>3. /\ q \in Paths /\ q.active = p.active /\ q.pending = p.pending
      /\ q.readout = p.readout /\ q.aborting = x /\ q.phase = p.phase
  BY <1>2 DEF Stat, Paths
<1> QED
  BY <1>1, <1>3 DEF Holds


-----------------------------------------------------------------------------
(* Threads and places. *)

Ticks == 0 .. PollLimit + DestroySleep
Places(t) == IF t = "main" THEN MainPlaces ELSE ThreadPlaces

\* Thread t is at a place, for so many ticks; the others stay where they are.
Moved(t, place, ticks) ==
  /\ pc' \in [Threads -> MainPlaces \cup ThreadPlaces]
  /\ timer' \in [Threads -> Ticks]
  /\ pc'[t] = place /\ timer'[t] = ticks
  /\ \A u \in Threads : u # t => pc'[u] = pc[u] /\ timer'[u] = timer[u]

LEMMA ThreadNames ==
  /\ "main" \in Threads /\ "main" \notin AbortThreads
  /\ "none" \notin Threads /\ "free" \notin Threads
  /\ \A t \in Threads : t # "main" => t \in AbortThreads
  /\ \A t \in AbortThreads : t \in Threads
BY SessionAssumption DEF Threads

LEMMA TicksIn ==
  /\ 0 \in Ticks /\ 1 \in Ticks /\ PollLimit \in Ticks /\ DestroySleep \in Ticks
  /\ \A s \in AbortSleep : s \in Ticks
BY SessionAssumption DEF Ticks

LEMMA GotoMoves ==
  ASSUME Types, NEW t \in Threads, NEW place \in Places(t), NEW ticks \in Ticks,
         Goto(t, place, ticks)
  PROVE  Moved(t, place, ticks)
<1>1. pc \in [Threads -> MainPlaces \cup ThreadPlaces] /\ timer \in [Threads -> Ticks]
  BY DEF Types, SessionTypeOK, Ticks
<1>2. place \in MainPlaces \cup ThreadPlaces
  BY DEF Places
<1> QED
  BY <1>1, <1>2 DEF Moved, Goto

\* What a thread may do when it is in no write and goes to no write, or starts one.
LEMMA MovedTypes ==
  ASSUME Types, NEW t \in Threads, NEW place \in Places(t), NEW ticks \in Ticks,
         Moved(t, place, ticks), pc[t] \notin WritePlaces, UNCHANGED <<step, tmp, shadow>>,
         UNCHANGED <<path, dma, age, dirty>>,
         AbortRunning' \in Threads \cup {"none", "free"},
         StopAbortThread' \in BOOLEAN, buffer' \in BOOLEAN,
         curr_power_state' \in {"idle", "eclk", "ereset", "edelai", "done_ok",
                                "dreset", "dclk", "ddelai"}
  PROVE  Types'
<1>1. SessionTypeOK'
  BY DEF Types, SessionTypeOK, Moved, Ticks
<1>2. pc'["main"] \in MainPlaces /\ \A u \in AbortThreads : pc'[u] \in ThreadPlaces
  BY ThreadNames DEF Types, Moved, Places
<1>3. \A u \in Threads : pc'[u] \notin WritePlaces => step'[u] = "load"
  BY DEF Types, Moved
<1> QED
  BY <1>1, <1>2, <1>3 DEF Types, Moved

LEMMA MovedShadow ==
  ASSUME Types, Shadow, NEW t \in Threads, NEW place, NEW ticks,
         Moved(t, place, ticks), pc[t] \notin WritePlaces, UNCHANGED <<step, tmp, shadow>>,
         place \in WritePlaces => shadow \subseteq Bits[place]
  PROVE  Shadow'
<1>1. step[t] = "load"
  BY DEF Types
<1>2. ASSUME NEW u \in Threads, pc'[u] \in WritePlaces
      PROVE  /\ shadow \subseteq Bits[pc'[u]]
             /\ step[u] = "set" => tmp[u] = Bits[pc'[u]]
             /\ step[u] = "clear" => tmp[u] = {}
             /\ pc'[u] # "abort" /\ step[u] = "write" => shadow = Bits[pc'[u]]
  BY <1>1, <1>2 DEF Shadow, Moved
<1>3. ASSUME NEW u \in Threads, pc[u] \in WritePlaces, Stored(u)
      PROVE  pc'[u] \in WritePlaces
  BY <1>3 DEF Moved
<1> QED
  BY <1>2, <1>3 DEF Shadow, Stored

LEMMA MovedSleeping ==
  ASSUME Sleeping, NEW t \in Threads, NEW place, NEW ticks, Moved(t, place, ticks),
         t # "main" => /\ place \notin {"check", "abort_poll"} => ticks = 0
                       /\ place = "check" => ticks = 0 \/ \E s \in AbortSleep : ticks <= s
  PROVE  Sleeping'
BY ThreadNames DEF Sleeping, Moved

LEMMA MovedMutex ==
  ASSUME MutexHeld, NEW t \in Threads, NEW place, NEW ticks, Moved(t, place, ticks),
         UNCHANGED AbortRunning,
         t = "main" => /\ pc["main"] \in Grabbing <=> place \in Grabbing
                       /\ pc["main"] # "menu",
         t # "main" /\ AbortRunning = t => place \in Aborting
  PROVE  MutexHeld'
BY ThreadNames DEF MutexHeld, Moved

LEMMA MovedStraggling ==
  ASSUME Straggling, NEW t \in Threads, NEW place, NEW ticks, Moved(t, place, ticks),
         BeforeWaiting => BeforeWaiting',
         t # "main" /\ place = "abort" => AbortRunning' = t \/ BeforeWaiting',
         \A u \in AbortThreads : u # t /\ AbortRunning = u => AbortRunning' = u
  PROVE  Straggling'
BY ThreadNames DEF Straggling, Unprotected, Moved

\* Only aborts are written by two threads at a time.
LEMMA OneWriter ==
  ASSUME Types, MutexHeld, Straggling, NEW t \in Threads, NEW u \in Threads, t # u,
         pc[t] \in WritePlaces, pc[u] \in WritePlaces
  PROVE  pc[t] = "abort" /\ pc[u] = "abort"
<1>1. ASSUME NEW v \in Threads, NEW w \in Threads, v # w, v = "main",
             pc[v] \in WritePlaces, pc[w] \in WritePlaces
      PROVE  pc[v] = "abort" /\ pc[w] = "abort"
  <2>1. w \in AbortThreads
    BY <1>1, ThreadNames
  <2>2. pc[w] = "abort"
    BY <1>1, <2>1 DEF Types, ThreadPlaces, Aborting, WritePlaces, Bits
  <2>3. ASSUME pc[v] # "abort" PROVE FALSE
    <3>1. pc["main"] \in {"params", "grab_cmd", "snapshot"}
      BY <1>1, <2>3 DEF WritePlaces, Bits
    <3>2. AbortRunning = "main"
      BY <3>1 DEF MutexHeld, Grabbing
    <3>3. Unprotected(w)
      BY <1>1, <2>2, <3>2 DEF Unprotected
    <3> QED
      BY <2>1, <3>1, <3>3 DEF Straggling, BeforeWaiting
  <2> QED
    BY <2>2, <2>3
<1>2. CASE t = "main"
  BY <1>1, <1>2
<1>3. CASE u = "main"
  BY <1>1, <1>3
<1>4. CASE t # "main" /\ u # "main"
  BY <1>4, ThreadNames DEF Types, ThreadPlaces, Aborting, WritePlaces, Bits
<1> QED
  BY <1>2, <1>3, <1>4

\* While the main thread grabs, nobody else writes.
LEMMA GrabsAlone ==
  ASSUME Types, MutexHeld, Straggling, Shadow, pc["main"] \in Grabbing,
         pc["main"] \notin WritePlaces
  PROVE  shadow = {}
<1>1. SUFFICES ASSUME NEW t \in Threads, pc[t] \in WritePlaces PROVE FALSE
  BY DEF Shadow
<1>2. t \in AbortThreads /\ pc[t] = "abort"
  BY <1>1, ThreadNames DEF Types, ThreadPlaces, Aborting, WritePlaces, Bits
<1>3. Unprotected(t)
  BY <1>2, ThreadNames DEF MutexHeld, Unprotected
<1> QED
  BY <1>2, <1>3 DEF Straggling, BeforeWaiting, Grabbing

\* And outside of them the bits in the shadow are those of an abort.
LEMMA ShadowAborts ==
  ASSUME Types, Shadow, pc["main"] \notin WritePlaces
  PROVE  shadow \subseteq {"ABORT_GRAB"}
<1>1. ASSUME NEW t \in Threads, pc[t] \in WritePlaces PROVE shadow \subseteq {"ABORT_GRAB"}
  <2>1. t \in AbortThreads /\ pc[t] = "abort"
    BY <1>1, ThreadNames DEF Types, ThreadPlaces, Aborting, WritePlaces, Bits
  <2> QED
    BY <1>1, <2>1 DEF Shadow, Bits
<1> QED
  BY <1>1 DEF Shadow

-----------------------------------------------------------------------------
(* The five steps of a write. *)

LEMMA BitsOf ==
  /\ Bits["params"] = {} /\ Bits["grab_cmd"] = {"GRAB_CMD"}
  /\ Bits["snapshot"] = {"GRAB_SS"} /\ Bits["abort"] = {"ABORT_GRAB"}
  /\ WritePlaces = {"params", "grab_cmd", "snapshot", "abort"}
  /\ Then["params"] = "grab_cmd" /\ Then["grab_cmd"] = "rdy"
  /\ Then["snapshot"] = "release" /\ Then["abort"] = "abort_poll"
BY DEF Bits, Then, WritePlaces

LEMMA BitsTyped ==
  \A place \in WritePlaces : Bits[place] \subseteq GrabBits
BY BitsOf DEF GrabBits

\* What an ongoing write leaves alone.
Ongoing(t) ==
  /\ UNCHANGED <<pc, timer>>
  /\ UNCHANGED <<AbortRunning, StopAbortThread, buffer, dma, age, dirty, powerVars>>
  /\ \A u \in Threads : u # t => step'[u] = step[u] /\ tmp'[u] = tmp[u]

LEMMA OngoingTypes ==
  ASSUME Types, NEW t \in Threads, Ongoing(t), pc[t] \in WritePlaces,
         path' \in Paths, shadow' \subseteq GrabBits,
         step' \in [Threads -> {"load", "set", "write", "reload", "clear"}],
         tmp' \in [Threads -> SUBSET GrabBits]
  PROVE  Types'
<1>1. SessionTypeOK'
  BY DEF Types, SessionTypeOK, Ongoing, powerVars
<1>2. \A u \in Threads : pc'[u] \notin WritePlaces => step'[u] = "load"
  BY DEF Types, Ongoing
<1> QED
  BY <1>1, <1>2 DEF Types, Ongoing

LEMMA OngoingRest ==
  ASSUME Always, NEW t \in Threads, Ongoing(t)
  PROVE  Sleeping' /\ MutexHeld' /\ Straggling' /\ Sequence' /\ PowerWaited'
<1> USE DEF Always, Ongoing
<1>1. Sleeping' /\ MutexHeld'
  BY DEF Sleeping, MutexHeld
<1>2. Straggling'
  BY DEF Straggling, Unprotected, BeforeWaiting
<1>3. Sequence'
  BY DEF Sequence, powerVars
<1>4. PowerWaited'
  BY DEF PowerWaited, powerVars, PowerSettled
<1> QED
  BY <1>1, <1>2, <1>3, <1>4

LEMMA LoadAlways ==
  ASSUME Always, NEW t \in Threads, LoadShadow(t)
  PROVE  Always'
<1>1. pc[t] \in WritePlaces /\ step[t] = "load" /\ UNCHANGED <<shadow, path>>
  BY DEF LoadShadow, Writing, WritePlaces, KeepFpga
<1>2. shadow \subseteq Bits[pc[t]]
  BY <1>1 DEF Always, Shadow
<1>3. tmp' = [tmp EXCEPT ![t] = Bits[pc[t]]] /\ step' = [step EXCEPT ![t] = "set"]
  <2>1. shadow \cup Bits[pc[t]] = Bits[pc[t]]
    BY <1>2
  <2> QED
    BY <2>1 DEF LoadShadow, StepTo
<1>4. /\ step' \in [Threads -> {"load", "set", "write", "reload", "clear"}]
      /\ tmp' \in [Threads -> SUBSET GrabBits]
  BY <1>1, <1>3, BitsTyped DEF Always, Types
<1>5. Ongoing(t)
  BY <1>3 DEF LoadShadow, KeepHost, KeepFpga, Ongoing, Always, Types
<1>6. Types'
  BY <1>1, <1>4, <1>5, OngoingTypes DEF Always, Types, SessionTypeOK
<1>7. tmp'[t] = Bits[pc[t]] /\ step'[t] = "set"
  BY <1>3 DEF Always, Types
<1>8. Shadow'
  BY <1>1, <1>2, <1>5, <1>7 DEF Always, Shadow, Stored, Ongoing
<1> QED
  BY <1>5, <1>6, <1>8, OngoingRest DEF Always

LEMMA StoreAlways ==
  ASSUME Always, NEW t \in Threads, StoreShadow(t)
  PROVE  Always'
<1>1. pc[t] \in WritePlaces /\ step[t] = "set" /\ UNCHANGED <<tmp, path>>
  BY DEF StoreShadow, Writing, WritePlaces, KeepFpga
<1>2. shadow' = Bits[pc[t]]
  BY <1>1 DEF StoreShadow, Always, Shadow
<1>3. step' = [step EXCEPT ![t] = "write"]
  BY DEF StoreShadow, StepTo
<1>4. step' \in [Threads -> {"load", "set", "write", "reload", "clear"}]
  BY <1>3 DEF Always, Types
<1>5. Ongoing(t)
  BY <1>3 DEF StoreShadow, KeepHost, KeepFpga, Ongoing, Always, Types
<1>6. Types'
  BY <1>1, <1>2, <1>4, <1>5, OngoingTypes, BitsTyped DEF Always, Types, SessionTypeOK
<1>7. step'[t] = "write"
  BY <1>3 DEF Always, Types
<1>8. ASSUME NEW u \in Threads, u # t, pc[u] \in WritePlaces
      PROVE  Bits[pc[u]] = Bits[pc[t]] /\ pc[u] = "abort"
  BY <1>1, <1>8, OneWriter DEF Always
<1>9. ASSUME NEW u \in Threads, pc'[u] \in WritePlaces
      PROVE  /\ shadow' \subseteq Bits[pc'[u]]
             /\ step'[u] = "set" => tmp'[u] = Bits[pc'[u]]
             /\ step'[u] = "clear" => tmp'[u] = {}
             /\ pc'[u] # "abort" /\ step'[u] = "write" => shadow' = Bits[pc'[u]]
  <2>1. CASE u = t
    BY <1>2, <1>5, <1>7, <2>1 DEF Ongoing
  <2>2. CASE u # t
    BY <1>2, <1>5, <1>8, <1>9, <2>2 DEF Ongoing, Always, Shadow
  <2> QED
    BY <2>1, <2>2
<1>10. Shadow'
  BY <1>1, <1>5, <1>7, <1>9 DEF Shadow, Stored, Ongoing
<1> QED
  BY <1>5, <1>6, <1>10, OngoingRest DEF Always

LEMMA ReloadAlways ==
  ASSUME Always, NEW t \in Threads, ReloadShadow(t)
  PROVE  Always'
<1>1. pc[t] \in WritePlaces /\ step[t] = "reload" /\ UNCHANGED <<shadow, path>>
  BY DEF ReloadShadow, Writing, WritePlaces, KeepFpga
<1>2. shadow \ Bits[pc[t]] = {}
  BY <1>1 DEF Always, Shadow
<1>3. tmp' = [tmp EXCEPT ![t] = {}] /\ step' = [step EXCEPT ![t] = "clear"]
  BY <1>2 DEF ReloadShadow, StepTo
<1>4. /\ step' \in [Threads -> {"load", "set", "write", "reload", "clear"}]
      /\ tmp' \in [Threads -> SUBSET GrabBits]
  BY <1>3 DEF Always, Types
<1>5. Ongoing(t)
  BY <1>3 DEF ReloadShadow, KeepHost, KeepFpga, Ongoing, Always, Types
<1>6. Types'
  BY <1>1, <1>4, <1>5, OngoingTypes DEF Always, Types, SessionTypeOK
<1>7. tmp'[t] = {} /\ step'[t] = "clear"
  BY <1>3 DEF Always, Types
<1>8. Shadow'
  BY <1>1, <1>5, <1>7 DEF Always, Shadow, Stored, Ongoing
<1> QED
  BY <1>5, <1>6, <1>8, OngoingRest DEF Always

LEMMA WordOf ==
  ASSUME Always, NEW t \in Threads, Writing(t, "write")
  PROVE  /\ pc[t] \in WritePlaces /\ shadow \subseteq Bits[pc[t]]
         /\ pc[t] # "abort" => shadow = Bits[pc[t]]
         /\ pc[t] = "abort" => shadow \in {{}, {"ABORT_GRAB"}}
<1>1. pc[t] \in WritePlaces /\ step[t] = "write"
  BY DEF Writing, WritePlaces
<1>2. /\ shadow \subseteq Bits[pc[t]]
      /\ pc[t] # "abort" => shadow = Bits[pc[t]]
  BY <1>1 DEF Always, Shadow
<1>3. pc[t] = "abort" => shadow \in {{}, {"ABORT_GRAB"}}
  BY <1>2, BitsOf
<1> QED
  BY <1>1, <1>2, <1>3

LEMMA WordTyped ==
  ASSUME Always, NEW t \in Threads, Writing(t, "write")
  PROVE  Command(path, shadow) \in Paths
<1>1. path \in Paths
  BY DEF Always, Types, SessionTypeOK
<1>2. shadow \in {{}, {"GRAB_CMD"}, {"GRAB_SS"}, {"ABORT_GRAB"}}
  BY WordOf, BitsOf
<1> QED
  BY <1>1, <1>2, NoCommand, GrabCommand, SnapshotCommand, AbortCommand

\* The last step of a write: the bits are clear and the thread goes on.
Finishes(t, place, ticks) ==
  /\ Moved(t, place, ticks)
  /\ UNCHANGED <<AbortRunning, StopAbortThread, buffer, dma, age, dirty, powerVars>>
  /\ step' = [step EXCEPT ![t] = "load"]
  /\ tmp' \in [Threads -> SUBSET GrabBits]
  /\ \A u \in Threads : u # t => tmp'[u] = tmp[u]
  /\ shadow' = {} /\ path' \in Paths

LEMMA FinishesAlways ==
  ASSUME Always, NEW t \in Threads, NEW ticks \in Ticks, pc[t] \in WritePlaces,
         Finishes(t, Then[pc[t]], ticks), ticks = 0 \/ pc[t] = "abort"
  PROVE  Always'
<1> DEFINE place == Then[pc[t]]
<1>1. Moved(t, place, ticks) /\ UNCHANGED <<AbortRunning, powerVars>>
  BY DEF Finishes
<1>2. /\ pc[t] = "abort" => place = "abort_poll"
      /\ pc[t] # "abort" => t = "main" /\ pc[t] \in Grabbing /\ place \in Grabbing
      /\ place \in Places(t)
  <2>1. CASE t = "main"
    BY <2>1, BitsOf DEF Grabbing, Places, MainPlaces, Looping
  <2>2. CASE t # "main"
    <3>1. pc[t] = "abort"
      BY <2>2, ThreadNames DEF Always, Types, ThreadPlaces, Aborting, WritePlaces, Bits
    <3> QED
      BY <2>2, <3>1, BitsOf DEF Places, ThreadPlaces, Aborting
  <2> QED
    BY <2>1, <2>2
<1> HIDE DEF place
<1>3. step'[t] = "load" /\ \A u \in Threads : u # t => step'[u] = step[u]
  BY DEF Finishes, Always, Types
<1>4. Types'
  <2>1. SessionTypeOK'
    BY <1>1 DEF Always, Types, SessionTypeOK, Finishes, Moved, Ticks, powerVars
  <2>2. pc'["main"] \in MainPlaces /\ \A u \in AbortThreads : pc'[u] \in ThreadPlaces
    BY <1>1, <1>2, ThreadNames DEF Always, Types, Moved, Places
  <2>3. \A u \in Threads : pc'[u] \notin WritePlaces => step'[u] = "load"
    BY <1>1, <1>3 DEF Always, Types, Moved
  <2>4. step' \in [Threads -> {"load", "set", "write", "reload", "clear"}]
    BY DEF Always, Types, Finishes
  <2> QED
    BY <1>1, <2>1, <2>2, <2>3, <2>4 DEF Always, Types, Moved, Finishes
<1>5. Sleeping'
  BY <1>1, <1>2, MovedSleeping DEF Always
<1>6. MutexHeld'
  <2>1. t = "main" => (pc["main"] \in Grabbing <=> place \in Grabbing) /\ pc["main"] # "menu"
    BY <1>2, BitsOf DEF Grabbing
  <2>2. t # "main" => place \in Aborting
    BY <1>2 DEF Aborting
  <2> QED
    BY <1>1, <2>1, <2>2, MovedMutex DEF Always
<1>7. Straggling'
  <2>1. BeforeWaiting => BeforeWaiting'
    <3>1. CASE t = "main"
      BY <3>1, BitsOf DEF BeforeWaiting
    <3>2. CASE t # "main"
      BY <1>1, <3>2, ThreadNames DEF BeforeWaiting, Moved
    <3> QED
      BY <3>1, <3>2
  <2>2. t # "main" => place # "abort"
    BY <1>2
  <2> QED
    BY <1>1, <2>1, <2>2, MovedStraggling DEF Always
<1>8. Shadow'
  <2>1. shadow' = {}
    BY DEF Finishes
  <2>2. ASSUME NEW u \in Threads, u # t, pc'[u] \in WritePlaces
        PROVE  /\ step'[u] = "set" => tmp'[u] = Bits[pc'[u]]
               /\ step'[u] = "clear" => tmp'[u] = {}
               /\ pc'[u] = "abort"
    <3>1. pc'[u] = pc[u] /\ tmp'[u] = tmp[u] /\ step'[u] = step[u]
      BY <1>1, <1>3, <2>2 DEF Moved, Finishes
    <3>2. pc[u] = "abort"
      BY <2>2, <3>1, OneWriter DEF Always
    <3> QED
      BY <2>2, <3>1, <3>2 DEF Always, Shadow
  <2>3. step'[t] = "load"
    BY <1>3
  <2> QED
    BY <2>1, <2>2, <2>3 DEF Shadow
<1>9. Sequence'
  BY <1>1 DEF Always, Sequence, powerVars
<1>10. PowerWaited'
  <2>1. CASE t = "main"
    <3>1. pc'["main"] \notin {"init_down", "down", "init_wait", "init_poll", "failed"}
      BY <1>1, <1>2, <2>1 DEF Moved, Grabbing
    <3> QED
      BY <3>1 DEF PowerWaited
  <2>2. CASE t # "main"
    <3>1. pc'["main"] = pc["main"] /\ timer'["main"] = timer["main"]
      BY <1>1, <2>2, ThreadNames DEF Moved
    <3> QED
      BY <1>1, <3>1 DEF Always, PowerWaited, powerVars, PowerSettled
  <2> QED
    BY <2>1, <2>2
<1> QED
  BY <1>4, <1>5, <1>6, <1>7, <1>8, <1>9, <1>10 DEF Always

LEMMA WriteAlways ==
  ASSUME Always, NEW t \in Threads, WriteRegister(t)
  PROVE  Always'
<1>1. /\ Writing(t, "write") /\ path' = Command(path, shadow)
      /\ UNCHANGED <<shadow, tmp, AbortRunning, StopAbortThread, buffer, dma, age, dirty, powerVars>>
  BY DEF WriteRegister, KeepHost
<1>2. pc[t] \in WritePlaces /\ shadow \subseteq Bits[pc[t]]
  BY <1>1, WordOf
<1>3. path' \in Paths
  BY <1>1, WordTyped
<1>4. CASE Bits[pc[t]] = {}
  <2>1. step' = [step EXCEPT ![t] = "load"] /\ Goto(t, Then[pc[t]], 0)
    BY <1>4 DEF WriteRegister, StepTo
  <2>2. pc[t] = "params" /\ t = "main"
    <3>1. pc[t] = "params"
      BY <1>2, <1>4, BitsOf
    <3> QED
      BY <3>1, ThreadNames DEF Always, Types, ThreadPlaces, Aborting
  <2>3. Then[pc[t]] \in Places(t)
    BY <2>2, BitsOf DEF Places, MainPlaces, Looping, Grabbing
  <2>4. Moved(t, Then[pc[t]], 0)
    BY <2>1, <2>3, GotoMoves, TicksIn DEF Always
  <2>5. shadow' = {}
    BY <1>1, <1>2, <1>4
  <2>6. Finishes(t, Then[pc[t]], 0)
    BY <1>1, <1>3, <2>1, <2>4, <2>5 DEF Finishes, Always, Types
  <2> QED
    BY <1>2, <2>6, FinishesAlways, TicksIn
<1>5. CASE Bits[pc[t]] # {}
  <2>1. step' = [step EXCEPT ![t] = "reload"] /\ UNCHANGED <<pc, timer>>
    BY <1>5 DEF WriteRegister, StepTo
  <2>2. Ongoing(t)
    BY <1>1, <2>1 DEF Ongoing, Always, Types
  <2>3. step' \in [Threads -> {"load", "set", "write", "reload", "clear"}] /\ step'[t] = "reload"
    BY <2>1 DEF Always, Types
  <2>4. Types'
    BY <1>1, <1>2, <1>3, <2>2, <2>3, OngoingTypes DEF Always, Types, SessionTypeOK
  <2>5. Shadow'
    BY <1>1, <1>2, <2>2, <2>3 DEF Always, Shadow, Stored, Ongoing
  <2> QED
    BY <2>2, <2>4, <2>5, OngoingRest DEF Always
<1> QED
  BY <1>4, <1>5

LEMMA ClearAlways ==
  ASSUME Always, NEW t \in Threads, ClearShadow(t)
  PROVE  Always'
<1> DEFINE ticks == IF pc[t] = "abort" THEN PollLimit ELSE 0
<1>1. pc[t] \in WritePlaces /\ step[t] = "clear" /\ shadow' = tmp[t]
  BY DEF ClearShadow, Writing, WritePlaces
<1>2. shadow' = {}
  BY <1>1 DEF Always, Shadow
<1>3. /\ step' = [step EXCEPT ![t] = "load"] /\ tmp' = [tmp EXCEPT ![t] = {}]
      /\ Goto(t, Then[pc[t]], ticks)
      /\ UNCHANGED <<AbortRunning, StopAbortThread, buffer, path, dma, age, dirty, powerVars>>
  BY DEF ClearShadow, StepTo, KeepHost, KeepFpga
<1>4. ticks \in Ticks
  BY TicksIn
<1>5. Then[pc[t]] \in Places(t)
  <2>1. CASE t = "main"
    BY <1>1, <2>1, BitsOf DEF Places, MainPlaces, Looping, Grabbing
  <2>2. CASE t # "main"
    <3>1. pc[t] = "abort"
      BY <1>1, <2>2, ThreadNames DEF Always, Types, ThreadPlaces, Aborting, WritePlaces, Bits
    <3> QED
      BY <2>2, <3>1, BitsOf DEF Places, ThreadPlaces, Aborting
  <2> QED
    BY <2>1, <2>2
<1>6. Moved(t, Then[pc[t]], ticks)
  BY <1>3, <1>4, <1>5, GotoMoves DEF Always
<1>7. Finishes(t, Then[pc[t]], ticks)
  BY <1>2, <1>3, <1>6 DEF Finishes, Always, Types, SessionTypeOK
<1> QED
  BY <1>1, <1>4, <1>7, FinishesAlways

-----------------------------------------------------------------------------
(* The mutex, the poll for ABORT_DONE and the loop of an abort thread. *)

PowerStates == {"idle", "eclk", "ereset", "edelai", "done_ok", "dreset", "dclk", "ddelai"}

LEMMA Goes ==
  ASSUME Always, NEW t \in Threads, NEW place \in Places(t), NEW ticks \in Ticks,
         Goto(t, place, ticks), KeepWrite, pc[t] \notin WritePlaces,
         UNCHANGED <<path, dma, age, dirty>>,
         AbortRunning' \in Threads \cup {"none", "free"},
         StopAbortThread' \in BOOLEAN, buffer' \in BOOLEAN, curr_power_state' \in PowerStates,
         place \in WritePlaces => shadow \subseteq Bits[place],
         t # "main" => /\ place \notin {"check", "abort_poll"} => ticks = 0
                       /\ place = "check" => ticks = 0 \/ \E s \in AbortSleep : ticks <= s
  PROVE  Moved(t, place, ticks) /\ Types' /\ Sleeping' /\ Shadow'
<1>1. Moved(t, place, ticks)
  BY GotoMoves DEF Always
<1>2. Types'
  BY <1>1, MovedTypes DEF Always, KeepWrite, PowerStates
<1>3. Sleeping'
  BY <1>1, MovedSleeping DEF Always
<1>4. Shadow'
  BY <1>1, MovedShadow DEF Always, KeepWrite
<1> QED
  BY <1>1, <1>2, <1>3, <1>4

LEMMA TypesOf ==
  ASSUME Types
  PROVE  /\ AbortRunning \in Threads \cup {"none", "free"} /\ curr_power_state \in PowerStates
         /\ StopAbortThread \in BOOLEAN /\ buffer \in BOOLEAN
         /\ \A t \in Threads : pc[t] \in Places(t)
BY ThreadNames DEF Types, SessionTypeOK, PowerStates, Places

\* A step of another thread, or of the main thread between places without the sequencer.
LEMMA PowerLeft ==
  ASSUME Always, NEW t \in Threads, NEW place, NEW ticks, Moved(t, place, ticks),
         UNCHANGED powerVars,
         t = "main" => place \notin {"init_down", "down", "init_wait", "init_poll", "failed"}
  PROVE  Sequence' /\ PowerWaited'
<1>1. Sequence'
  BY DEF Always, Sequence, powerVars
<1>2. CASE t = "main"
  BY <1>1, <1>2 DEF PowerWaited, Moved
<1>3. CASE t # "main"
  <2>1. pc'["main"] = pc["main"] /\ timer'["main"] = timer["main"]
    BY <1>3, ThreadNames DEF Moved
  <2> QED
    BY <1>1, <2>1 DEF Always, PowerWaited, powerVars, PowerSettled
<1> QED
  BY <1>2, <1>3

LEMMA WaitingLeft ==
  ASSUME NEW t \in Threads, NEW place, NEW ticks, Moved(t, place, ticks), t # "main"
  PROVE  BeforeWaiting => BeforeWaiting'
BY ThreadNames DEF BeforeWaiting, Moved

LEMMA AcquireAlways ==
  ASSUME Always, NEW t \in Threads, Acquire(t)
  PROVE  Always'
<1> DEFINE place == IF t = "main" THEN "pending" ELSE "abort"
<1>1. /\ pc[t] = "acquire" /\ AbortRunning \in {"free", "none"}
      /\ AbortRunning' = (IF AbortRunning = "free" THEN t ELSE AbortRunning)
      /\ Goto(t, place, 0) /\ KeepWrite
      /\ UNCHANGED <<path, dma, age, dirty, powerVars, StopAbortThread, buffer>>
  BY DEF Acquire, At, KeepFpga
<1>2. place \in Places(t)
  BY DEF Places, MainPlaces, Looping, Grabbing, ThreadPlaces, Aborting
<1>3. place \in WritePlaces => shadow \subseteq Bits[place]
  <2>1. CASE t = "main"
    BY <2>1, BitsOf
  <2>2. CASE t # "main" /\ pc["main"] \notin WritePlaces
    BY <2>2, ShadowAborts, BitsOf DEF Always
  <2>3. CASE t # "main" /\ pc["main"] \in WritePlaces
    <3>1. pc["main"] = "abort" \/ pc["main"] \in Grabbing
      BY <2>3, BitsOf DEF Grabbing
    <3>2. pc["main"] = "abort"
      BY <1>1, <3>1 DEF Always, MutexHeld
    <3> QED
      BY <2>3, <3>2, ThreadNames DEF Always, Shadow
  <2> QED
    BY <2>1, <2>2, <2>3
<1>4. AbortRunning' \in Threads \cup {"none", "free"}
  BY <1>1
<1>5. pc[t] \notin WritePlaces
  BY <1>1, BitsOf
<1>6. Moved(t, place, 0) /\ Types' /\ Sleeping' /\ Shadow'
  <2>1. /\ StopAbortThread' \in BOOLEAN /\ buffer' \in BOOLEAN /\ curr_power_state' \in PowerStates
        /\ t # "main" => place # "check"
    BY <1>1, TypesOf DEF Always, powerVars
  <2> HIDE DEF place
  <2> QED
    BY <1>1, <1>2, <1>3, <1>4, <1>5, <2>1, Goes, TicksIn
<1>7. t = "main" => AbortRunning = "free"
  BY <1>1 DEF Always, MutexHeld
<1>8. MutexHeld'
  <2>1. CASE t = "main"
    BY <1>1, <1>6, <1>7, <2>1, ThreadNames DEF MutexHeld, Moved, Grabbing
  <2>2. CASE t # "main"
    <3>1. pc'["main"] = pc["main"] /\ pc'[t] = "abort" /\ t \in AbortThreads
      BY <1>6, <2>2, ThreadNames DEF Moved
    <3>2. pc["main"] \notin Grabbing
      BY <1>1 DEF Always, MutexHeld
    <3> QED
      BY <1>1, <2>2, <3>1, <3>2, ThreadNames DEF Always, MutexHeld, Aborting
  <2> QED
    BY <2>1, <2>2
<1>9. Straggling'
  <2>1. BeforeWaiting => BeforeWaiting'
    BY <1>1, <1>6, WaitingLeft DEF BeforeWaiting
  <2>2. t # "main" => AbortRunning' = t \/ BeforeWaiting'
    <3>1. SUFFICES ASSUME t # "main", AbortRunning = "none" PROVE BeforeWaiting
      BY <1>1, <2>1
    <3> QED
      BY <3>1 DEF Always, MutexHeld, BeforeWaiting
  <2>3. \A u \in AbortThreads : AbortRunning # u
    BY <1>1, ThreadNames
  <2> QED
    BY <1>6, <2>1, <2>2, <2>3, MovedStraggling DEF Always
<1>10. Sequence' /\ PowerWaited'
  BY <1>1, <1>6, PowerLeft
<1> QED
  BY <1>6, <1>8, <1>9, <1>10 DEF Always

LEMMA ReleaseAlways ==
  ASSUME Always, NEW t \in Threads, Release(t)
  PROVE  Always'
<1> DEFINE place == IF t = "main" THEN "key" ELSE "check"
<1>1. PICK ticks \in (IF t = "main" THEN {0} ELSE AbortSleep) : Goto(t, place, ticks)
  BY DEF Release
<1>2. /\ pc[t] = "release" /\ KeepWrite
      /\ AbortRunning' = (IF AbortRunning = t THEN "free" ELSE AbortRunning)
      /\ UNCHANGED <<path, dma, age, dirty, powerVars, StopAbortThread, buffer>>
  BY DEF Release, At, KeepFpga
<1>3. place \in Places(t) /\ place \notin WritePlaces /\ pc[t] \notin WritePlaces
  BY <1>2, BitsOf DEF Places, MainPlaces, Looping, Grabbing, ThreadPlaces, Aborting
<1>4. ticks \in Ticks /\ (t = "main" => ticks = 0) /\ (t # "main" => \E s \in AbortSleep : ticks <= s)
  BY <1>1, TicksIn DEF Ticks
<1>5. Moved(t, place, ticks) /\ Types' /\ Sleeping' /\ Shadow'
  <2>1. /\ StopAbortThread' \in BOOLEAN /\ buffer' \in BOOLEAN /\ curr_power_state' \in PowerStates
        /\ AbortRunning' \in Threads \cup {"none", "free"} /\ (t # "main" => place = "check")
    BY <1>2, TypesOf DEF Always, powerVars
  <2> HIDE DEF place
  <2> QED
    BY <1>1, <1>2, <1>3, <1>4, <2>1, Goes
<1>6. MutexHeld'
  <2>1. CASE t = "main"
    BY <1>2, <1>5, <2>1, ThreadNames DEF Always, MutexHeld, Moved, Grabbing
  <2>2. CASE t # "main" /\ AbortRunning = t
    <3>1. pc'["main"] = pc["main"]
      BY <1>5, <2>2, ThreadNames DEF Moved
    <3> QED
      BY <1>2, <2>2, <3>1, ThreadNames DEF Always, MutexHeld
  <2>3. CASE t # "main" /\ AbortRunning # t
    BY <1>2, <1>5, <2>3, MovedMutex DEF Always
  <2> QED
    BY <2>1, <2>2, <2>3
<1>7. Straggling'
  <2>1. BeforeWaiting => BeforeWaiting'
    BY <1>2, <1>5, WaitingLeft DEF BeforeWaiting
  <2>2. \A u \in AbortThreads : u # t /\ AbortRunning = u => AbortRunning' = u
    BY <1>2
  <2> QED
    BY <1>5, <2>1, <2>2, MovedStraggling DEF Always
<1>8. Sequence' /\ PowerWaited'
  BY <1>2, <1>5, PowerLeft
<1> QED
  BY <1>5, <1>6, <1>7, <1>8 DEF Always

LEMMA AbortPollAlways ==
  ASSUME Always, NEW t \in Threads, AbortPoll(t)
  PROVE  Always'
<1> DEFINE place == IF t = "main" THEN "hispi_clr" ELSE "release"
           ticks == IF t = "main" THEN 1 ELSE 0
<1>1. /\ pc[t] = "abort_poll" /\ KeepWrite /\ Goto(t, place, ticks)
      /\ UNCHANGED <<path, dma, age, dirty, powerVars, AbortRunning, StopAbortThread, buffer>>
  BY DEF AbortPoll, At, KeepFpga, KeepHost
<1>2. place \in Places(t) /\ place \notin WritePlaces /\ pc[t] \notin WritePlaces
  BY <1>1, BitsOf DEF Places, MainPlaces, ThreadPlaces, Aborting
<1>3. Moved(t, place, ticks) /\ Types' /\ Sleeping' /\ Shadow'
  <2>1. /\ StopAbortThread' \in BOOLEAN /\ buffer' \in BOOLEAN /\ curr_power_state' \in PowerStates
        /\ AbortRunning' \in Threads \cup {"none", "free"} /\ ticks \in Ticks
        /\ t # "main" => place = "release" /\ ticks = 0
    BY <1>1, TypesOf, TicksIn DEF Always, powerVars
  <2> HIDE DEF place, ticks
  <2> QED
    BY <1>1, <1>2, <2>1, Goes
<1>4. MutexHeld'
  BY <1>1, <1>3, MovedMutex DEF Always, Grabbing, Aborting
<1>5. Straggling'
  <2>1. BeforeWaiting => BeforeWaiting'
    BY <1>1, <1>3, WaitingLeft DEF BeforeWaiting
  <2> QED
    BY <1>1, <1>3, <2>1, MovedStraggling DEF Always
<1>6. Sequence' /\ PowerWaited'
  BY <1>1, <1>3, PowerLeft
<1> QED
  BY <1>3, <1>4, <1>5, <1>6 DEF Always

LEMMA StartAlways ==
  ASSUME Always, NEW t \in AbortThreads, Start(t)
  PROVE  Always'
<1>1. /\ pc[t] = "start" /\ KeepWrite /\ Goto(t, "check", 0) /\ StopAbortThread' = FALSE
      /\ UNCHANGED <<path, dma, age, dirty, powerVars, AbortRunning, buffer>>
  BY DEF Start, At, KeepFpga
<1>2. t \in Threads /\ t # "main" /\ "check" \in Places(t) /\ "check" \notin WritePlaces
      /\ pc[t] \notin WritePlaces
  BY <1>1, ThreadNames, BitsOf DEF Places, ThreadPlaces
<1>3. Moved(t, "check", 0) /\ Types' /\ Sleeping' /\ Shadow'
  BY <1>1, <1>2, TypesOf, TicksIn, Goes DEF Always, powerVars
<1>4. MutexHeld'
  BY <1>1, <1>2, <1>3, MovedMutex DEF Always, MutexHeld, Aborting
<1>5. Straggling'
  BY <1>1, <1>2, <1>3, WaitingLeft, MovedStraggling DEF Always
<1> QED
  BY <1>1, <1>2, <1>3, <1>4, <1>5, PowerLeft DEF Always

LEMMA CheckAlways ==
  ASSUME Always, NEW t \in AbortThreads, Check(t)
  PROVE  Always'
<1>1. PICK place \in {"off", "acquire"} : Goto(t, place, 0)
  BY DEF Check
<1>2. /\ pc[t] = "check" /\ KeepWrite
      /\ UNCHANGED <<path, dma, age, dirty, powerVars, AbortRunning, StopAbortThread, buffer>>
  BY DEF Check, Woken, KeepFpga, KeepHost
<1>3. t \in Threads /\ t # "main" /\ place \in Places(t) /\ place \notin WritePlaces
      /\ pc[t] \notin WritePlaces
  BY <1>2, ThreadNames, BitsOf DEF Places, ThreadPlaces
<1>4. Moved(t, place, 0) /\ Types' /\ Sleeping' /\ Shadow'
  BY <1>1, <1>2, <1>3, TypesOf, TicksIn, Goes DEF Always, powerVars
<1>5. MutexHeld'
  BY <1>2, <1>3, <1>4, MovedMutex DEF Always, MutexHeld, Aborting
<1>6. Straggling'
  BY <1>2, <1>3, <1>4, WaitingLeft, MovedStraggling DEF Always
<1> QED
  BY <1>2, <1>3, <1>4, <1>5, <1>6, PowerLeft DEF Always

-----------------------------------------------------------------------------
(* The sequencer: what the three commands and its own steps do. *)

LEMMA PowerSteps ==
  ASSUME Sequence, curr_power_state \in PowerStates, PowerStep
  PROVE  /\ Sequence' /\ curr_power_state' \in PowerStates /\ ~PowerSettled
         /\ curr_power_state \in PowerUp <=> curr_power_state' \in PowerUp
<1>1. CASE curr_power_state \in {"eclk", "ereset"} /\ Hold("edelai")
  BY <1>1 DEF Sequence, PowerStates, Hold, Enter, PowerUp, PowerSettled
<1>2. CASE curr_power_state = "edelai" /\ goto_power = "first" /\ Enter("ereset", TRUE, TRUE, "second")
  BY <1>2 DEF Sequence, PowerStates, Enter, PowerUp, PowerSettled
<1>3. CASE curr_power_state = "edelai" /\ goto_power = "second" /\ Enter("done_ok", TRUE, TRUE, "none")
  BY <1>3 DEF Sequence, PowerStates, Enter, PowerUp, PowerSettled
<1>4. CASE curr_power_state \in {"dreset", "dclk"} /\ Hold("ddelai")
  BY <1>4 DEF Sequence, PowerStates, Hold, Enter, PowerUp, PowerSettled
<1>5. CASE curr_power_state = "ddelai" /\ goto_power = "second" /\ Enter("dclk", FALSE, FALSE, "first")
  BY <1>5 DEF Sequence, PowerStates, Enter, PowerUp, PowerSettled
<1>6. CASE curr_power_state = "ddelai" /\ goto_power = "first" /\ Enter("idle", FALSE, FALSE, "none")
  BY <1>6 DEF Sequence, PowerStates, Enter, PowerUp, PowerSettled
<1> QED
  BY <1>1, <1>2, <1>3, <1>4, <1>5, <1>6 DEF PowerStep

LEMMA PowerDownCommand ==
  ASSUME Sequence, SENSOR_POWERUP_DONE, PowerCommand(FALSE, TRUE)
  PROVE  Sequence' /\ curr_power_state' = "dreset"
BY DEF Sequence, SENSOR_POWERUP_DONE, PowerCommand, Enter, PowerUp

LEMMA PowerNoCommand ==
  ASSUME PowerCommand(FALSE, FALSE)
  PROVE  UNCHANGED <<curr_power_state, goto_power, xgs_osc_en_int, xgs_reset_n_int>>
BY DEF PowerCommand

LEMMA PowerUpCommand ==
  ASSUME Sequence, PowerSettled, PowerCommand(TRUE, FALSE)
  PROVE  /\ Sequence' /\ curr_power_state' \in PowerStates
         /\ curr_power_state' \in PowerUp \/ (curr_power_state' = "idle" /\ ~xgs_power_good)
<1>1. CASE curr_power_state = "idle" /\ xgs_power_good /\ Enter("eclk", TRUE, FALSE, "first")
  BY <1>1 DEF Sequence, Enter, PowerUp, PowerStates
<1>2. CASE /\ ~(curr_power_state = "idle" /\ xgs_power_good)
           /\ UNCHANGED <<curr_power_state, goto_power, xgs_osc_en_int, xgs_reset_n_int>>
  BY <1>2 DEF Sequence, PowerSettled, PowerUp, PowerStates
<1> QED
  BY <1>1, <1>2 DEF PowerCommand

-----------------------------------------------------------------------------
(* The main thread. *)

LEMMA MainGoes ==
  ASSUME Always, NEW place \in MainPlaces, NEW ticks \in Ticks,
         Goto("main", place, ticks), KeepWrite, UNCHANGED <<path, dma, age, dirty, AbortRunning>>,
         pc["main"] \notin WritePlaces \cup {"menu"},
         StopAbortThread' \in BOOLEAN, buffer' \in BOOLEAN, curr_power_state' \in PowerStates,
         pc["main"] \in Grabbing <=> place \in Grabbing,
         place \in WritePlaces => shadow \subseteq Bits[place],
         BeforeWaiting => place \in {"init_down", "failed"} \/ (place = "init_wait" /\ ticks = 1)
  PROVE  Moved("main", place, ticks) /\ Types' /\ Sleeping' /\ MutexHeld' /\ Straggling' /\ Shadow'
<1>1. Moved("main", place, ticks) /\ Types' /\ Sleeping' /\ Shadow'
  BY Goes, ThreadNames, TypesOf DEF Always, Places
<1>2. MutexHeld'
  BY <1>1, MovedMutex, ThreadNames DEF Always
<1>3. Straggling'
  <2>1. BeforeWaiting => BeforeWaiting'
    BY <1>1 DEF BeforeWaiting, Moved
  <2> QED
    BY <1>1, <2>1, MovedStraggling, ThreadNames DEF Always
<1> QED
  BY <1>1, <1>2, <1>3

LEMMA BeginAlways ==
  ASSUME Always, Begin
  PROVE  Always'
<1>1. /\ pc["main"] = "menu" /\ AbortRunning' = "free" /\ Goto("main", "init", 0) /\ KeepWrite
      /\ UNCHANGED <<path, dma, age, dirty, powerVars, StopAbortThread, buffer>>
  BY DEF Begin, At, MainGoto, KeepFpga
<1>2. "main" \in Threads /\ "init" \in Places("main") /\ "init" \notin WritePlaces
      /\ pc["main"] \notin WritePlaces
  BY <1>1, ThreadNames, BitsOf DEF Places, MainPlaces, Starting
<1>3. Moved("main", "init", 0) /\ Types' /\ Sleeping' /\ Shadow'
  BY <1>1, <1>2, TypesOf, TicksIn, Goes DEF Always, powerVars
<1>4. MutexHeld'
  BY <1>1, <1>3, ThreadNames DEF MutexHeld, Moved, Grabbing
<1>5. Straggling'
  BY <1>3 DEF Straggling, BeforeWaiting, Moved
<1>6. Sequence' /\ PowerWaited'
  BY <1>1, <1>2, <1>3, PowerLeft
<1> QED
  BY <1>3, <1>4, <1>5, <1>6 DEF Always

LEMMA DestroyAlways ==
  ASSUME Always, DestroyOsMutex
  PROVE  Always'
<1>1. /\ pc["main"] = "destroy" /\ AbortRunning' = "none" /\ Goto("main", "menu", 0) /\ KeepWrite
      /\ UNCHANGED <<path, dma, age, dirty, powerVars, StopAbortThread, buffer>>
  BY DEF DestroyOsMutex, Woken, MainGoto, KeepFpga
<1>2. "main" \in Threads /\ "menu" \in Places("main") /\ "menu" \notin WritePlaces
      /\ pc["main"] \notin WritePlaces
  BY <1>1, ThreadNames, BitsOf DEF Places, MainPlaces, Starting
<1>3. Moved("main", "menu", 0) /\ Types' /\ Sleeping' /\ Shadow'
  BY <1>1, <1>2, TypesOf, TicksIn, Goes DEF Always, powerVars
<1>4. MutexHeld'
  BY <1>1, <1>3, ThreadNames DEF MutexHeld, Moved, Grabbing
<1>5. Straggling'
  BY <1>3 DEF Straggling, BeforeWaiting, Moved
<1>6. Sequence' /\ PowerWaited'
  BY <1>1, <1>2, <1>3, PowerLeft
<1> QED
  BY <1>3, <1>4, <1>5, <1>6 DEF Always

\* The places before and after a step of the main thread that uses neither the mutex nor
\* the sequencer.
MainTable ==
  { <<"init_poll", "setup", 1>>, <<"setup", "acquire", 0>>,
    <<"pending", "params", 0>>, <<"pending", "rdy", 0>>,
    <<"rdy", "snapshot", 0>>, <<"rdy", "release", 0>>,
    <<"key", "acquire", 0>>, <<"key", "abort", 0>>,
    <<"hispi_clr", "hispi_on", 1>>, <<"hispi_on", "disable", 1>>,
    <<"down", "disabled", 1>>, <<"disabled", "disable", 0>>,
    <<"disabled", "destroy", DestroySleep>> }

MainStep == \/ InitDone \/ Setup \/ PollPending \/ PollReady \/ NoKey \/ KeyQ
            \/ HiSpiClr \/ HiSpiOn \/ DisableDown \/ MbufFree \/ StopThreads

LEMMA MainStepTable ==
  ASSUME MainStep
  PROVE  \E place, ticks :
           /\ <<pc["main"], place, ticks>> \in MainTable
           /\ Goto("main", place, ticks) /\ KeepWrite
           /\ UNCHANGED <<path, dma, age, dirty, AbortRunning, powerVars>>
<1> USE DEF At, Woken, MainGoto, KeepHost, KeepFpga, MainTable
<1>1. CASE InitDone
  BY <1>1 DEF InitDone
<1>2. CASE Setup
  BY <1>2 DEF Setup
<1>3. CASE PollPending
  BY <1>3 DEF PollPending
<1>4. CASE PollReady
  BY <1>4 DEF PollReady
<1>5. CASE NoKey
  BY <1>5 DEF NoKey
<1>6. CASE KeyQ
  BY <1>6 DEF KeyQ
<1>7. CASE HiSpiClr
  BY <1>7 DEF HiSpiClr
<1>8. CASE HiSpiOn
  BY <1>8 DEF HiSpiOn
<1>9. CASE DisableDown
  BY <1>9 DEF DisableDown
<1>10. CASE MbufFree
  BY <1>10 DEF MbufFree
<1>11. CASE StopThreads
  BY <1>11 DEF StopThreads
<1> QED
  BY <1>1, <1>2, <1>3, <1>4, <1>5, <1>6, <1>7, <1>8, <1>9, <1>10, <1>11 DEF MainStep

LEMMA MainStepFlags ==
  ASSUME Types, MainStep
  PROVE  StopAbortThread' \in BOOLEAN /\ buffer' \in BOOLEAN
<1> USE TypesOf DEF KeepHost, MainGoto
<1>1. CASE InitDone \/ PollPending \/ PollReady \/ NoKey \/ KeyQ \/ HiSpiClr \/ HiSpiOn \/ DisableDown
  BY <1>1 DEF InitDone, PollPending, PollReady, NoKey, KeyQ, HiSpiClr, HiSpiOn, DisableDown
<1>2. CASE Setup
  BY <1>2 DEF Setup
<1>3. CASE MbufFree
  BY <1>3 DEF MbufFree
<1>4. CASE StopThreads
  BY <1>4 DEF StopThreads
<1> QED
  BY <1>1, <1>2, <1>3, <1>4 DEF MainStep

LEMMA MainStepAlways ==
  ASSUME Always, MainStep
  PROVE  Always'
<1>1. PICK place, ticks :
        /\ <<pc["main"], place, ticks>> \in MainTable
        /\ Goto("main", place, ticks) /\ KeepWrite
        /\ UNCHANGED <<path, dma, age, dirty, AbortRunning, powerVars>>
  BY MainStepTable
<1>2. StopAbortThread' \in BOOLEAN /\ buffer' \in BOOLEAN /\ curr_power_state' \in PowerStates
  BY <1>1, MainStepFlags, TypesOf DEF Always, powerVars
<1>3. place \in MainPlaces /\ ticks \in Ticks
  BY <1>1, TicksIn DEF MainTable, MainPlaces, Starting, Looping, Grabbing, Cleared
<1>4. /\ pc["main"] \notin WritePlaces \cup {"menu"}
      /\ pc["main"] \in Grabbing <=> place \in Grabbing
      /\ ~BeforeWaiting
      /\ place \notin {"init_down", "down", "init_wait", "init_poll", "failed"}
  BY <1>1, BitsOf DEF MainTable, Grabbing, BeforeWaiting
<1>5. place \in WritePlaces => shadow \subseteq Bits[place]
  <2>1. CASE pc["main"] \in Grabbing
    BY <1>4, <2>1, GrabsAlone DEF Always
  <2>2. CASE pc["main"] \notin Grabbing
    <3>1. place \in WritePlaces => place = "abort"
      BY <1>4, <2>2, BitsOf DEF Grabbing
    <3> QED
      BY <1>4, <3>1, ShadowAborts, BitsOf DEF Always
  <2> QED
    BY <2>1, <2>2
<1>6. Moved("main", place, ticks) /\ Types' /\ Sleeping' /\ MutexHeld' /\ Straggling' /\ Shadow'
  BY <1>1, <1>2, <1>3, <1>4, <1>5, MainGoes
<1>7. Sequence' /\ PowerWaited'
  BY <1>1, <1>4, <1>6, PowerLeft, ThreadNames
<1> QED
  BY <1>6, <1>7 DEF Always

\* The steps that command the sequencer or wait for it.
LEMMA SequencerWaits ==
  ASSUME Always, NEW place \in {"init_down", "init_wait", "init_poll", "down", "disabled", "failed"},
         NEW ticks \in Ticks, Goto("main", place, ticks), KeepWrite, KeepHost,
         UNCHANGED <<path, dma, age, dirty, xgs_power_good>>,
         pc["main"] \in {"init", "init_down", "init_wait", "init_poll", "disable", "down"},
         BeforeWaiting => place \in {"init_down", "failed"} \/ (place = "init_wait" /\ ticks = 1),
         curr_power_state' \in PowerStates, Sequence',
         place \in {"init_down", "down"} => curr_power_state' \in PowerDown /\ ticks = PollLimit,
         place = "init_wait" => ticks # 0,
         place = "init_poll" => /\ ticks = PollLimit
                                /\ \/ curr_power_state' \in PowerUp
                                   \/ curr_power_state' = "idle" /\ ~xgs_power_good,
         place = "failed" => ~xgs_power_good
  PROVE  Always'
<1>1. /\ place \in MainPlaces /\ pc["main"] \notin WritePlaces \cup {"menu"} /\ place \notin WritePlaces
      /\ pc["main"] \notin Grabbing /\ place \notin Grabbing
  BY BitsOf DEF MainPlaces, Starting, Grabbing, Cleared
<1>2. StopAbortThread' \in BOOLEAN /\ buffer' \in BOOLEAN /\ UNCHANGED AbortRunning
  BY TypesOf DEF KeepHost, Always
<1>3. Moved("main", place, ticks) /\ Types' /\ Sleeping' /\ MutexHeld' /\ Straggling' /\ Shadow'
  BY <1>1, <1>2, MainGoes
<1>4. PowerWaited'
  <2>1. pc'["main"] = place /\ timer'["main"] = ticks /\ UNCHANGED xgs_power_good
    BY <1>3 DEF Moved
  <2>2. ~(PollLimit < PollLimit)
    BY SessionAssumption
  <2> QED
    BY <2>1, <2>2 DEF PowerWaited
<1> QED
  BY <1>3, <1>4 DEF Always

LEMMA InitCheckAlways ==
  ASSUME Always, InitCheck
  PROVE  Always'
<1>1. /\ pc["main"] = "init" /\ KeepWrite /\ KeepHost
      /\ UNCHANGED <<path, dma, age, dirty, xgs_power_good>>
  BY DEF InitCheck, At, MainGoto, KeepGrab
<1>2. CASE SENSOR_POWERUP_DONE
  <2>1. PowerCommand(FALSE, TRUE) /\ Goto("main", "init_down", PollLimit)
    BY <1>2 DEF InitCheck, MainGoto
  <2>2. Sequence' /\ curr_power_state' = "dreset"
    BY <1>2, <2>1, PowerDownCommand DEF Always
  <2> QED
    BY <1>1, <2>1, <2>2, SequencerWaits, TicksIn DEF PowerStates, PowerDown
<1>3. CASE ~SENSOR_POWERUP_DONE
  <2>1. PowerCommand(FALSE, FALSE) /\ Goto("main", "init_wait", 1)
    BY <1>3 DEF InitCheck, MainGoto
  <2>2. Sequence' /\ curr_power_state' \in PowerStates
    BY <2>1, PowerNoCommand, TypesOf DEF Always, Sequence
  <2> QED
    BY <1>1, <2>1, <2>2, SequencerWaits, TicksIn
<1> QED
  BY <1>2, <1>3

LEMMA DisableAlways ==
  ASSUME Always, DisableXGS
  PROVE  Always'
<1>1. /\ pc["main"] = "disable" /\ KeepWrite /\ KeepHost
      /\ UNCHANGED <<path, dma, age, dirty, xgs_power_good>>
  BY DEF DisableXGS, Woken, MainGoto, KeepGrab
<1>2. ~BeforeWaiting
  BY <1>1 DEF BeforeWaiting
<1>3. CASE SENSOR_POWERUP_DONE
  <2>1. PowerCommand(FALSE, TRUE) /\ Goto("main", "down", PollLimit)
    BY <1>3 DEF DisableXGS, MainGoto
  <2>2. Sequence' /\ curr_power_state' = "dreset"
    BY <1>3, <2>1, PowerDownCommand DEF Always
  <2> QED
    BY <1>1, <1>2, <2>1, <2>2, SequencerWaits, TicksIn DEF PowerStates, PowerDown
<1>4. CASE ~SENSOR_POWERUP_DONE
  <2>1. PowerCommand(FALSE, FALSE) /\ Goto("main", "disabled", 1)
    BY <1>4 DEF DisableXGS, MainGoto
  <2>2. Sequence' /\ curr_power_state' \in PowerStates
    BY <2>1, PowerNoCommand, TypesOf DEF Always, Sequence
  <2> QED
    BY <1>1, <1>2, <2>1, <2>2, SequencerWaits, TicksIn
<1> QED
  BY <1>3, <1>4

LEMMA InitDownAlways ==
  ASSUME Always, InitDown
  PROVE  Always'
<1>1. /\ pc["main"] = "init_down" /\ KeepWrite /\ KeepHost /\ Goto("main", "init_wait", 1)
      /\ UNCHANGED <<path, dma, age, dirty, powerVars>>
  BY DEF InitDown, At, MainGoto, KeepFpga
<1>2. Sequence' /\ curr_power_state' \in PowerStates /\ UNCHANGED xgs_power_good
  BY <1>1, TypesOf DEF Always, Sequence, powerVars
<1> QED
  BY <1>1, <1>2, SequencerWaits, TicksIn

LEMMA InitPowerUpAlways ==
  ASSUME Always, InitPowerUp
  PROVE  Always'
<1>1. /\ pc["main"] = "init_wait" /\ timer["main"] = 0 /\ KeepWrite /\ KeepHost
      /\ PowerCommand(TRUE, FALSE) /\ Goto("main", "init_poll", PollLimit)
      /\ UNCHANGED <<path, dma, age, dirty, xgs_power_good>>
  BY DEF InitPowerUp, Woken, MainGoto, KeepGrab
<1>2. PowerSettled /\ ~BeforeWaiting
  BY <1>1 DEF Always, PowerWaited, BeforeWaiting
<1>3. /\ Sequence' /\ curr_power_state' \in PowerStates
      /\ curr_power_state' \in PowerUp \/ (curr_power_state' = "idle" /\ ~xgs_power_good)
  BY <1>1, <1>2, PowerUpCommand DEF Always
<1> QED
  BY <1>1, <1>2, <1>3, SequencerWaits, TicksIn

LEMMA PowerTimeoutAlways ==
  ASSUME Always, PowerTimeout
  PROVE  Always'
<1>1. /\ pc["main"] \in {"init_down", "down", "init_poll"} /\ timer["main"] = 0
      /\ KeepWrite /\ KeepHost /\ Goto("main", "failed", 0)
      /\ UNCHANGED <<path, dma, age, dirty, powerVars>>
      /\ pc["main"] \in {"init_down", "down"} => ~SENSOR_POWERDOWN
      /\ pc["main"] = "init_poll" => ~SENSOR_POWERUP_DONE
  BY DEF PowerTimeout, Woken, MainGoto, KeepFpga
<1>2. 0 < PollLimit
  BY SessionAssumption
<1>3. pc["main"] = "init_poll"
  BY <1>1, <1>2 DEF Always, PowerWaited, SENSOR_POWERDOWN
<1>4. ~xgs_power_good
  <2>1. curr_power_state \in {"idle", "done_ok"} /\ curr_power_state # "done_ok"
    BY <1>1, <1>2, <1>3 DEF Always, PowerWaited, PowerSettled, SENSOR_POWERUP_DONE
  <2> QED
    BY <1>3, <2>1 DEF Always, PowerWaited, PowerUp
<1>5. Sequence' /\ curr_power_state' \in PowerStates /\ UNCHANGED xgs_power_good
  BY <1>1, TypesOf DEF Always, Sequence, powerVars
<1> QED
  BY <1>1, <1>3, <1>4, <1>5, SequencerWaits, TicksIn

LEMMA KeyAAlways ==
  ASSUME Always, KeyA
  PROVE  Always'
<1>1. PICK t \in AbortThreads :
        /\ pc["main"] = "key" /\ pc[t] = "off"
        /\ pc' = [pc EXCEPT !["main"] = "acquire", ![t] = "start"]
  BY DEF KeyA, At
<1>2. UNCHANGED <<step, tmp, shadow, AbortRunning, StopAbortThread, buffer, timer,
                  path, dma, age, dirty, powerVars>>
  BY DEF KeyA, KeepWrite, KeepHost, KeepFpga
<1>3. t \in Threads /\ t # "main" /\ "main" \in Threads
  BY ThreadNames
<1>4. /\ pc' \in [Threads -> MainPlaces \cup ThreadPlaces]
      /\ pc'["main"] = "acquire" /\ pc'[t] = "start"
      /\ \A u \in Threads : u # "main" /\ u # t => pc'[u] = pc[u]
  BY <1>1, <1>3 DEF Always, Types, MainPlaces, Looping, ThreadPlaces
<1>5. Types'
  <2>1. SessionTypeOK'
    BY <1>2 DEF Always, Types, SessionTypeOK, powerVars
  <2>2. pc'["main"] \in MainPlaces /\ \A u \in AbortThreads : pc'[u] \in ThreadPlaces
    BY <1>4, ThreadNames DEF Always, Types, MainPlaces, Looping, ThreadPlaces
  <2>3. \A u \in Threads : pc'[u] \notin WritePlaces => step'[u] = "load"
    BY <1>1, <1>2, <1>3, <1>4, BitsOf DEF Always, Types
  <2> QED
    BY <1>2, <1>4, <2>1, <2>2, <2>3 DEF Always, Types
<1>6. Sleeping'
  BY <1>1, <1>2, <1>3, <1>4, ThreadNames DEF Always, Sleeping
<1>7. MutexHeld'
  BY <1>1, <1>2, <1>3, <1>4, ThreadNames DEF Always, MutexHeld, Grabbing, Aborting
<1>8. Straggling'
  BY <1>1, <1>2, <1>3, <1>4, ThreadNames DEF Always, Straggling, Unprotected, BeforeWaiting
<1>9. Shadow'
  <2>1. ASSUME NEW u \in Threads, pc'[u] \in WritePlaces PROVE pc'[u] = pc[u]
    BY <1>4, <2>1, BitsOf
  <2>2. ASSUME NEW u \in Threads, pc[u] \in WritePlaces PROVE pc'[u] = pc[u]
    BY <1>1, <1>4, <2>2, BitsOf
  <2>3. ASSUME NEW u \in Threads, pc'[u] \in WritePlaces
        PROVE  /\ shadow \subseteq Bits[pc'[u]]
               /\ step[u] = "set" => tmp[u] = Bits[pc'[u]]
               /\ step[u] = "clear" => tmp[u] = {}
               /\ pc'[u] # "abort" /\ step[u] = "write" => shadow = Bits[pc'[u]]
    BY <2>1, <2>3 DEF Always, Shadow
  <2> QED
    BY <1>2, <2>2, <2>3 DEF Always, Shadow, Stored
<1>10. Sequence'
  BY <1>2 DEF Always, Sequence, powerVars
<1>11. PowerWaited'
  BY <1>4 DEF PowerWaited
<1> QED
  BY <1>5, <1>6, <1>7, <1>8, <1>9, <1>10, <1>11 DEF Always

-----------------------------------------------------------------------------
(* A kill, the FPGA and time. *)

\* A session that starts, from any state of the FPGA.
LEMMA FreshSession ==
  ASSUME path' \in Paths, age' \in 0 .. FrameTicks, dma' \in BOOLEAN, dirty' \in BOOLEAN,
         curr_power_state' \in PowerStates, Sequence',
         pc' = [t \in Threads |-> IF t = "main" THEN "menu" ELSE "off"],
         step' = [t \in Threads |-> "load"], tmp' = [t \in Threads |-> {}],
         timer' = [t \in Threads |-> 0], shadow' = {}, AbortRunning' = "none",
         StopAbortThread' \in BOOLEAN, buffer' \in BOOLEAN
  PROVE  Always'
<1>1. pc'["main"] = "menu" /\ \A t \in AbortThreads : pc'[t] = "off"
  BY ThreadNames
<1>2. \A t \in Threads : pc'[t] \in {"menu", "off"} /\ timer'[t] = 0
  OBVIOUS
<1>3. SessionTypeOK'
  BY SessionAssumption DEF SessionTypeOK, PowerStates
<1>4. Types'
  BY <1>1, <1>3 DEF Types, MainPlaces, Starting, ThreadPlaces
<1>5. Sleeping'
  BY <1>1, <1>2, ThreadNames DEF Sleeping
<1>6. MutexHeld'
  BY <1>1, ThreadNames DEF MutexHeld, Grabbing
<1>7. Straggling'
  BY <1>1 DEF Straggling, BeforeWaiting
<1>8. Shadow'
  BY <1>2, BitsOf DEF Shadow
<1>9. PowerWaited'
  BY <1>1 DEF PowerWaited
<1> QED
  BY <1>4, <1>5, <1>6, <1>7, <1>8, <1>9 DEF Always

LEMMA KillAlways ==
  ASSUME Always, Kill
  PROVE  Always'
<1>1. UNCHANGED <<path, dma, age, powerVars>> /\ dirty' \in BOOLEAN
  <2>1. dirty' = (dirty \/ path # AtRest \/ dma)
    BY DEF Kill
  <2>2. dirty' \in BOOLEAN
    BY <2>1
  <2> QED
    BY <2>2 DEF Kill
<1>2. Sequence' /\ curr_power_state' \in PowerStates
  BY <1>1, TypesOf DEF Always, Sequence, powerVars
<1>3. path' \in Paths /\ age' \in 0 .. FrameTicks /\ dma' \in BOOLEAN
  BY <1>1 DEF Always, Types, SessionTypeOK
<1>4. StopAbortThread' \in BOOLEAN /\ buffer' \in BOOLEAN
  BY DEF Kill
<1> QED
  BY <1>1, <1>2, <1>3, <1>4, FreshSession DEF Kill

\* The FPGA moves and the host does not.
LEMMA FpgaAlways ==
  ASSUME Always, UNCHANGED <<hostVars, dirty>>, path' \in Paths, age' \in 0 .. FrameTicks,
         dma' \in BOOLEAN, curr_power_state' \in PowerStates, Sequence', PowerWaited'
  PROVE  Always'
<1> USE DEF Always, hostVars
<1>1. Types'
  BY DEF Types, SessionTypeOK, PowerStates
<1>2. Sleeping' /\ MutexHeld'
  BY DEF Sleeping, MutexHeld
<1>3. Straggling'
  BY DEF Straggling, Unprotected, BeforeWaiting
<1>4. Shadow'
  BY DEF Shadow, Stored
<1> QED
  BY <1>1, <1>2, <1>3, <1>4

LEMMA PowerSame ==
  ASSUME Always, UNCHANGED <<pc, timer, powerVars>>
  PROVE  Sequence' /\ PowerWaited' /\ curr_power_state' \in PowerStates
BY TypesOf DEF Always, Sequence, PowerWaited, powerVars, PowerSettled

\* The moves of the controller, with an abort and without.
LEMMA MovesOf ==
  ASSUME NEW p \in Paths, NEW q \in Alone(p) \cup Sensor(p)
  PROVE  q \in Paths
BY ArmMoves, CancelMoves, EndReadoutMoves, ForgetMoves, AbortDoneMoves, StartFotMoves,
   EndFotMoves DEF Alone, Sensor

LEMMA GrabAlways ==
  ASSUME Always, Controller \/ SensorAnswers
  PROVE  Always'
<1>1. /\ path' \in Alone(path) \cup Sensor(path) /\ age' = 0
      /\ dma' = (dma \/ path'.phase = "fot")
      /\ UNCHANGED <<hostVars, dirty, powerVars>>
  BY DEF Controller, SensorAnswers, GrabStep
<1>2. path' \in Paths
  BY <1>1, MovesOf DEF Always, Types, SessionTypeOK
<1>3. dma' \in BOOLEAN
  BY <1>1
<1>4. age' \in 0 .. FrameTicks
  BY <1>1, SessionAssumption
<1> QED
  BY <1>1, <1>2, <1>3, <1>4, PowerSame, FpgaAlways DEF hostVars

LEMMA DmaEndsAlways ==
  ASSUME Always, DmaEnds
  PROVE  Always'
<1>1. UNCHANGED <<hostVars, path, age, dirty, powerVars>> /\ dma' \in BOOLEAN
  BY DEF DmaEnds
<1> QED
  BY <1>1, PowerSame, FpgaAlways DEF hostVars, Always, Types, SessionTypeOK

LEMMA SequencerAlways ==
  ASSUME Always, Sequencer
  PROVE  Always'
<1>1. PowerStep /\ UNCHANGED <<hostVars, path, dma, age, dirty, xgs_power_good>>
  BY DEF Sequencer
<1>2. /\ Sequence' /\ curr_power_state' \in PowerStates /\ ~PowerSettled
      /\ curr_power_state \in PowerUp <=> curr_power_state' \in PowerUp
  BY <1>1, TypesOf, PowerSteps DEF Always
<1>3. curr_power_state \notin {"idle", "done_ok"}
  BY <1>2 DEF PowerSettled
<1>4. PowerWaited'
  <2>1. \A s \in PowerStates : s \in PowerDown <=> s \notin PowerUp
    BY DEF PowerStates, PowerDown, PowerUp
  <2>2. UNCHANGED <<pc, timer, xgs_power_good>> /\ curr_power_state \in PowerStates
    BY <1>1, TypesOf DEF hostVars, Always
  <2> QED
    BY <1>2, <1>3, <2>1, <2>2 DEF Always, PowerWaited, PowerSettled
<1> QED
  BY <1>1, <1>2, <1>4, FpgaAlways DEF Always, Types, SessionTypeOK

\* A thread that aborts, or is about to, lets no time pass.
LEMMA NoTickAborting ==
  ASSUME Sleeping, NEW t \in AbortThreads, Waiting(t)
  PROVE  /\ pc[t] \in {"off", "menu", "failed", "acquire", "pending", "rdy", "check", "abort_poll"}
         /\ pc[t] = "acquire" => AbortRunning \notin {"free", "none"}
         /\ pc[t] = "abort_poll" => path.aborting /\ timer[t] > 0
         /\ pc[t] = "check" => timer[t] > 0
<1>1. CASE timer[t] > 0
  BY <1>1 DEF Sleeping, Waiting, At
<1>2. CASE ~(timer[t] > 0)
  BY <1>2 DEF Waiting, At
<1> QED
  BY <1>1, <1>2

LEMMA TickTimers ==
  ASSUME Types, Tick, NEW t \in Threads
  PROVE  /\ timer[t] \in Nat /\ timer'[t] \in Nat /\ timer'[t] <= timer[t]
         /\ timer'[t] = IF timer[t] > 0 THEN timer[t] - 1 ELSE 0
<1>1. timer[t] \in 0 .. PollLimit + DestroySleep
  BY DEF Types, SessionTypeOK
<1>2. timer'[t] = IF timer[t] > 0 THEN timer[t] - 1 ELSE 0
  BY DEF Tick
<1> QED
  BY <1>1, <1>2, SessionAssumption

LEMMA TickAlways ==
  ASSUME Always, Tick
  PROVE  Always'
<1>1. /\ UNCHANGED <<pc, step, tmp, shadow, AbortRunning, StopAbortThread, buffer>>
      /\ UNCHANGED <<path, dma, dirty, powerVars>>
      /\ PowerSettled /\ \A t \in Threads : Waiting(t)
  BY DEF Tick
<1>2. \A t \in Threads : /\ timer[t] \in Nat /\ timer'[t] \in Nat /\ timer'[t] <= timer[t]
                         /\ timer'[t] = IF timer[t] > 0 THEN timer[t] - 1 ELSE 0
  BY TickTimers DEF Always
<1>3. age' \in 0 .. FrameTicks
  BY SessionAssumption DEF Tick, Always, Types, SessionTypeOK
<1>4. timer' \in [Threads -> Ticks]
  <2>1. timer' = [t \in Threads |-> timer'[t]]
    BY DEF Tick
  <2>2. \A t \in Threads : timer[t] \in Ticks
    BY DEF Always, Types, SessionTypeOK, Ticks
  <2>3. \A t \in Threads : timer'[t] \in Ticks
    BY <1>2, <2>2, SessionAssumption DEF Ticks
  <2> QED
    BY <2>1, <2>3
<1>5. Types'
  BY <1>1, <1>3, <1>4 DEF Always, Types, SessionTypeOK, powerVars, Ticks
<1>6. Sleeping'
  <2>1. ASSUME NEW t \in AbortThreads
        PROVE  /\ pc[t] \notin {"check", "abort_poll"} => timer'[t] = 0
               /\ pc[t] = "check" => timer'[t] = 0 \/ \E s \in AbortSleep : timer'[t] <= s
    <3>1. t \in Threads
      BY ThreadNames
    <3>2. pc[t] \notin {"check", "abort_poll"} => timer'[t] = 0
      BY <1>2, <3>1 DEF Always, Sleeping
    <3>3. ASSUME NEW s \in AbortSleep, timer[t] <= s PROVE timer'[t] <= s
      BY <1>2, <3>1, <3>3, SessionAssumption
    <3> QED
      BY <1>2, <3>1, <3>2, <3>3 DEF Always, Sleeping
  <2> QED
    BY <1>1, <2>1 DEF Sleeping
<1>7. MutexHeld' /\ Shadow' /\ Sequence'
  BY <1>1 DEF Always, MutexHeld, Shadow, Stored, Sequence, powerVars
<1>8. Straggling'
  <2>1. \A t \in AbortThreads : pc[t] # "abort"
    BY <1>1, ThreadNames, NoTickAborting DEF Always
  <2> QED
    BY <1>1, <2>1 DEF Straggling, Unprotected
<1>9. PowerWaited'
  <2>1. "main" \in Threads
    BY ThreadNames
  <2>2. curr_power_state \in {"idle", "done_ok"}
    BY <1>1 DEF PowerSettled
  <2> QED
    BY <1>1, <2>2 DEF Always, PowerWaited, PowerSettled, powerVars, PowerDown
<1> QED
  BY <1>5, <1>6, <1>7, <1>8, <1>9 DEF Always

-----------------------------------------------------------------------------
(* The register writes and the sequencer are right whatever the times are. *)

LEMMA AlwaysInit ==
  ASSUME SessionInit
  PROVE  Always
<1>1. pc["main"] = "menu" /\ \A t \in AbortThreads : pc[t] = "off" /\ pc[t] # "menu"
  BY ThreadNames DEF SessionInit
<1>2. \A t \in Threads : pc[t] \in {"menu", "off"} /\ timer[t] = 0 /\ step[t] = "load"
  BY DEF SessionInit
<1>3. SessionTypeOK
  <2>1. path \in Paths /\ shadow \subseteq GrabBits /\ AbortRunning = "none" /\ age = 0
    BY RestFields DEF SessionInit
  <2>2. timer \in [Threads -> 0 .. PollLimit + DestroySleep] /\ 0 \in 0 .. FrameTicks
    BY SessionAssumption DEF SessionInit
  <2> QED
    BY <2>1, <2>2 DEF SessionInit, SessionTypeOK, PowerInit
<1>4. Types
  <2>1. /\ pc \in [Threads -> MainPlaces \cup ThreadPlaces]
        /\ step \in [Threads -> {"load", "set", "write", "reload", "clear"}]
        /\ tmp \in [Threads -> SUBSET GrabBits]
    BY DEF SessionInit, MainPlaces, Starting, ThreadPlaces
  <2>2. {StopAbortThread, buffer, dma, dirty} \subseteq BOOLEAN
    BY DEF SessionInit
  <2> QED
    BY <1>1, <1>2, <1>3, <2>1, <2>2 DEF Types, MainPlaces, Starting, ThreadPlaces
<1>5. Sleeping
  BY <1>1, <1>2, ThreadNames DEF Sleeping
<1>6. MutexHeld
  BY <1>1, ThreadNames DEF MutexHeld, Grabbing, SessionInit
<1>7. Straggling
  BY <1>1 DEF Straggling, BeforeWaiting
<1>8. Shadow
  BY <1>2, BitsOf DEF Shadow, SessionInit
<1>9. Sequence
  BY DEF SessionInit, PowerInit, Sequence, PowerUp
<1>10. PowerWaited
  BY <1>1 DEF PowerWaited
<1> QED
  BY <1>4, <1>5, <1>6, <1>7, <1>8, <1>9, <1>10 DEF Always

LEMMA RegisterWriteAlways ==
  ASSUME Always, NEW t \in Threads, RegisterWrite(t)
  PROVE  Always'
BY LoadAlways, StoreAlways, WriteAlways, ReloadAlways, ClearAlways DEF RegisterWrite

LEMMA AlwaysStep ==
  ASSUME Always, [SessionNext]_sessionVars
  PROVE  Always'
<1>1. CASE Begin \/ Kill
  BY <1>1, BeginAlways, KillAlways
<1>2. CASE MainThread
  <2>1. CASE RegisterWrite("main") \/ Acquire("main") \/ Release("main") \/ AbortPoll("main")
    BY <2>1, ThreadNames, RegisterWriteAlways, AcquireAlways, ReleaseAlways, AbortPollAlways
  <2>2. CASE InitCheck \/ InitDown \/ InitPowerUp \/ PowerTimeout \/ DisableXGS
    BY <2>2, InitCheckAlways, InitDownAlways, InitPowerUpAlways, PowerTimeoutAlways, DisableAlways
  <2>3. CASE MainStep
    BY <2>3, MainStepAlways
  <2>4. CASE KeyA \/ DestroyOsMutex
    BY <2>4, KeyAAlways, DestroyAlways
  <2> QED
    BY <1>2, <2>1, <2>2, <2>3, <2>4 DEF MainThread, MainStep
<1>3. ASSUME NEW t \in AbortThreads, AbortThread(t) PROVE Always'
  BY <1>3, ThreadNames, RegisterWriteAlways, AcquireAlways, ReleaseAlways, AbortPollAlways,
     StartAlways, CheckAlways DEF AbortThread
<1>4. CASE Controller \/ SensorAnswers
  BY <1>4, GrabAlways
<1>5. CASE DmaEnds \/ Sequencer \/ Tick
  BY <1>5, DmaEndsAlways, SequencerAlways, TickAlways
<1>6. CASE UNCHANGED sessionVars
  <2>1. UNCHANGED <<hostVars, dirty, pc, timer, powerVars, path, age, dma>>
    BY <1>6 DEF sessionVars, hostVars
  <2> QED
    BY <2>1, PowerSame, FpgaAlways DEF Always, Types, SessionTypeOK
<1> QED
  BY <1>1, <1>2, <1>3, <1>4, <1>5, <1>6 DEF SessionNext

\* Who writes GRAB_CTRL and with what, who has the mutex, and where the sequencer is, from
\* the first session to the last, over every kill.
THEOREM AlwaysInvariance == SessionSpec => []Always
<1> QED
  BY AlwaysInit, AlwaysStep, PTL DEF SessionSpec

\* A word written to GRAB_CTRL repeats no command of another thread and carries the grab
\* or trigger it is for: the shadow needs no lock of its own, the mutex of the loop is one.
THEOREM CommandsAreOwn == SessionSpec => []CommandsOwn
<1>1. ASSUME Always PROVE CommandsOwn
  <2>1. SessionTypeOK
    BY <1>1 DEF Always, Types
  <2>2. ASSUME NEW t \in Threads, Writing(t, "write")
        PROVE  /\ shadow \subseteq Bits[pc[t]]
               /\ pc[t] \in {"grab_cmd", "snapshot"} => shadow = Bits[pc[t]]
    BY <1>1, <2>2, WordOf
  <2> QED
    BY <2>1, <2>2 DEF CommandsOwn
<1> QED
  BY <1>1, AlwaysInvariance, PTL

\* The sensor is never out of reset without its clock, and InitXGS gives up only when the
\* sensor has no power, whatever a killed application left the sequencer in.
THEOREM PowerUpIsFound == SessionSpec => []PowerUpFound
<1>1. ASSUME Always PROVE PowerUpFound
  <2>1. ClockUnderReset
    BY <1>1 DEF Always, Sequence, ClockUnderReset, PowerUp
  <2>2. At("main", "failed") => ~xgs_power_good
    BY <1>1 DEF Always, PowerWaited, At
  <2> QED
    BY <2>1, <2>2 DEF PowerUpFound
<1> QED
  BY <1>1, AlwaysInvariance, PTL

-----------------------------------------------------------------------------
(* How far the controller is from the end of an abort. *)

LEMMA MovesRange ==
  ASSUME NEW p \in Paths
  PROVE  Moves(p) \in 0 .. 5 /\ (Moves(p) = 0 <=> Quiet(p))
BY PathFields DEF Moves, Quiet

LEMMA AbortingMoves ==
  ASSUME NEW p \in Paths, NEW q \in Alone(p) \cup Sensor(p), q # p, p.aborting
  PROVE  \/ q.aborting /\ Moves(q) < Moves(p)
         \/ ~q.aborting /\ Quiet(q)
<1>0. p.phase \in {"idle", "queued", "armed", "exposing", "fot"}
  BY PathFields
<1>1. CASE q \in Arm(p)
  BY <1>1, ArmMoves DEF Moves
<1>2. CASE q \in Cancel(p)
  <2>1. /\ q \in Paths /\ q.phase = "idle" /\ q.active = p.active /\ q.pending = p.pending
        /\ q.readout = p.readout /\ q.aborting = p.aborting /\ p.phase # "fot"
    BY <1>2, CancelMoves
  <2>2. ASSUME p.phase = "idle" PROVE FALSE
    <3>1. q = Stat(p.active, p.pending, p.readout, p.aborting, "idle")
      BY <1>2 DEF Cancel
    <3> QED
      BY <2>2, <3>1, PathFields
  <2> QED
    BY <1>0, <2>1, <2>2 DEF Moves
<1>3. CASE q \in EndReadout(p)
  BY <1>0, <1>3, EndReadoutMoves DEF Moves
<1>4. CASE q \in ForgetGrabs(p)
  BY <1>4, ForgetMoves DEF Moves
<1>5. CASE q \in AbortDone(p)
  BY <1>5, AbortDoneMoves
<1>6. CASE q \in StartFot(p)
  BY <1>6, StartFotMoves DEF Moves
<1>7. CASE q \in EndFot(p)
  BY <1>7, EndFotMoves DEF Moves
<1> QED
  BY <1>1, <1>2, <1>3, <1>4, <1>5, <1>6, <1>7 DEF Alone, Sensor

\* Nobody but a write of GRAB_CTRL aborts, and without an abort an armed grab stays armed.
LEMMA OtherMoves ==
  ASSUME NEW p \in Paths, NEW q \in Alone(p) \cup Sensor(p), ~p.aborting
  PROVE  /\ ~q.aborting
         /\ p.phase = "armed" => q.phase = "armed"
         /\ ~Quiet(p)
<1>1. CASE q \in Arm(p)
  BY <1>1, ArmMoves DEF Quiet
<1>2. q \notin Cancel(p)
  BY CancelMoves
<1>3. CASE q \in EndReadout(p)
  BY <1>3, EndReadoutMoves DEF Quiet
<1>4. q \notin ForgetGrabs(p)
  BY ForgetMoves
<1>5. q \notin AbortDone(p)
  BY AbortDoneMoves
<1>6. CASE q \in StartFot(p)
  BY <1>6, StartFotMoves DEF Quiet
<1>7. CASE q \in EndFot(p)
  BY <1>7, EndFotMoves DEF Quiet
<1> QED
  BY <1>1, <1>2, <1>3, <1>4, <1>5, <1>6, <1>7 DEF Alone, Sensor

LEMMA QuietMoves ==
  ASSUME NEW p \in Paths, NEW q \in Alone(p) \cup Sensor(p), q # p, Quiet(p)
  PROVE  Quiet(q) /\ ~q.aborting
<1>1. p.aborting
  BY OtherMoves
<1>2. Moves(p) = 0
  BY MovesRange
<1>3. q \in Paths
  BY MovesOf
<1>4. Moves(q) \in 0 .. 5
  BY <1>3, MovesRange
<1> QED
  BY <1>1, <1>2, <1>4, AbortingMoves

\* A move takes an abort one exposure, FOT or readout nearer to its end.
LEMMA WithinMoves ==
  ASSUME NEW m \in Nat, NEW n \in Nat, m < n, NEW f \in Nat, NEW a \in 0 .. f, NEW k \in Nat,
         n * f - a < k
  PROVE  m * f < k
<1>1. m * f <= (n - 1) * f
  <2>1. PICK d \in Nat : n - 1 = m + d
    <3> WITNESS n - 1 - m \in Nat
    <3> QED OBVIOUS
  <2>2. (n - 1) * f = m * f + d * f
    BY <2>1
  <2>3. d * f \in Nat /\ m * f \in Nat
    OBVIOUS
  <2> QED
    BY <2>2, <2>3
<1>2. (n - 1) * f = n * f - f
  OBVIOUS
<1>3. m * f \in Nat /\ n * f \in Nat
  OBVIOUS
<1> QED
  BY <1>1, <1>2, <1>3

-----------------------------------------------------------------------------
(* No thread starts while the others end. *)

StopsAtDestroy == pc["main"] = "destroy" => StopAbortThread

Ending == NoneStarts /\ StopsAtDestroy

\* Where the main thread leaves a place of the end only for another, and nobody starts.
LEMMA StaysEnding ==
  ASSUME Ending, \A t \in AbortThreads : pc'[t] = "start" => pc[t] = "start",
         StopAbortThread \/ pc["main"] # "destroy" => StopAbortThread' \/ pc'["main"] # "destroy",
         pc'["main"] \in Cleared \/ (pc'["main"] = "hispi_clr" /\ timer'["main"] = 0) =>
           \/ pc["main"] \in Cleared \/ (pc["main"] = "hispi_clr" /\ timer["main"] = 0)
           \/ \A t \in AbortThreads : pc'[t] # "start"
  PROVE  Ending'
BY DEF Ending, NoneStarts, StopsAtDestroy

\* The main thread goes to another place, and not to destroy.
LEMMA MainEnding ==
  ASSUME Ending, NEW place, NEW ticks, Moved("main", place, ticks), place # "destroy",
         place \in Cleared => \/ pc["main"] \in Cleared
                              \/ pc["main"] = "hispi_clr" /\ timer["main"] = 0,
         place = "hispi_clr" => ticks # 0
  PROVE  Ending'
<1>1. pc'["main"] = place /\ timer'["main"] = ticks
  BY DEF Moved
<1>2. \A t \in AbortThreads : pc'[t] = pc[t]
  BY ThreadNames DEF Moved
<1>3. "hispi_clr" \notin Cleared
  BY DEF Cleared
<1> QED
  BY <1>1, <1>2, <1>3, StaysEnding

LEMMA ThreadEnding ==
  ASSUME Ending, NEW t \in AbortThreads, NEW place, NEW ticks, Moved(t, place, ticks),
         place # "start", UNCHANGED StopAbortThread
  PROVE  Ending'
<1>1. pc'["main"] = pc["main"] /\ timer'["main"] = timer["main"]
  BY ThreadNames DEF Moved
<1>2. \A u \in AbortThreads : pc'[u] = "start" => pc[u] = "start"
  BY ThreadNames DEF Moved
<1> QED
  BY <1>1, <1>2, StaysEnding

\* Every write ends where the controller is still used.
LEMMA WriteEnding ==
  ASSUME Always, Ending, NEW t \in Threads, RegisterWrite(t)
  PROVE  Ending'
<1>1. UNCHANGED StopAbortThread
  BY DEF RegisterWrite, LoadShadow, StoreShadow, WriteRegister, ReloadShadow, ClearShadow, KeepHost
<1>2. CASE UNCHANGED <<pc, timer>>
  BY <1>1, <1>2, StaysEnding
<1>3. CASE pc[t] \in WritePlaces /\ \E ticks \in {0, PollLimit} : Goto(t, Then[pc[t]], ticks)
  <2>1. PICK ticks \in {0, PollLimit} : Goto(t, Then[pc[t]], ticks)
    BY <1>3
  <2>2. Then[pc[t]] \in {"grab_cmd", "rdy", "release", "abort_poll"}
    BY <1>3, BitsOf
  <2>3. pc' = [pc EXCEPT ![t] = Then[pc[t]]]
    BY <2>1 DEF Goto
  <2>4. \A u \in Threads : pc'[u] \in {"grab_cmd", "rdy", "release", "abort_poll"} \/ pc'[u] = pc[u]
    BY <2>2, <2>3 DEF Always, Types
  <2>5. CASE t = "main"
    <3>1. pc'["main"] \in {"grab_cmd", "rdy", "release", "abort_poll"}
      BY <2>2, <2>3, <2>5 DEF Always, Types
    <3> QED
      BY <3>1 DEF Ending, NoneStarts, StopsAtDestroy, Cleared
  <2>6. CASE t # "main"
    <3>1. pc'["main"] = pc["main"] /\ timer'["main"] = timer["main"]
      BY <2>1, <2>6, ThreadNames DEF Always, Types, SessionTypeOK, Goto
    <3> QED
      BY <1>1, <2>4, <3>1, ThreadNames, StaysEnding
  <2> QED
    BY <2>5, <2>6
<1>4. \/ UNCHANGED <<pc, timer>>
      \/ pc[t] \in WritePlaces /\ \E ticks \in {0, PollLimit} : Goto(t, Then[pc[t]], ticks)
  BY DEF RegisterWrite, LoadShadow, StoreShadow, WriteRegister, ReloadShadow, ClearShadow,
         Writing, WritePlaces
<1> QED
  BY <1>2, <1>3, <1>4

-----------------------------------------------------------------------------
(* The aborts, the buffer and the mutex: what holds before a kill during a  *)
(* grab, when the times are right.  First the steps of the main thread that *)
(* write no register.                                                       *)

Clean == AbortTaken /\ LoopShared /\ LeftIdle /\ ThreadsEnd

LEMMA Typed ==
  ASSUME Always
  PROVE  /\ path \in Paths /\ age \in 0 .. FrameTicks
         /\ \A t \in Threads : timer[t] \in Nat
BY SessionAssumption DEF Always, Types, SessionTypeOK

LEMMA InvParts ==
  IInv <=> Always /\ Clean /\ NoneStarts
BY DEF IInv, Clean

LEMMA DestroyStops ==
  ASSUME ThreadsEnd, NoneStarts
  PROVE  Ending
BY DEF ThreadsEnd, Ending, StopsAtDestroy

LEMMA MovedAborts ==
  ASSUME AbortTaken, NEW t \in Threads, NEW place, NEW ticks, Moved(t, place, ticks),
         UNCHANGED <<step, shadow, path, age, dirty>>, step[t] = "load", place # "abort_poll"
  PROVE  AbortTaken'
<1>1. SUFFICES ASSUME ~dirty PROVE AbortTaken'
  BY DEF AbortTaken
<1>2. ASSUME NEW u \in Threads
      PROVE  /\ pc'[u] = "abort" /\ (step[u] \in {"reload", "clear"} \/ (step[u] = "write" /\ shadow = {}))
                  => Aborted(path)
             /\ pc'[u] = "abort_poll" => Aborted(path)
  BY <1>1 DEF AbortTaken, Moved
<1>3. pc'["main"] = "abort_poll" => Within(Moves(path), timer'["main"])
  <2>1. CASE t = "main"
    BY <2>1 DEF Moved
  <2>2. CASE t # "main"
    BY <1>1, <2>2, ThreadNames DEF AbortTaken, Moved
  <2> QED
    BY <2>1, <2>2
<1>4. UNCHANGED age
  OBVIOUS
<1> QED
  BY <1>2, <1>3, <1>4 DEF AbortTaken, Within, Aborted, Quiet

\* What LeftIdle asks of the place the main thread goes to.
IdleAt(place, ticks) ==
  /\ place \in Starting \cup Cleared \cup {"hispi_clr", "failed"} => Quiet(path)
  /\ place \in Starting \cup Cleared \cup {"failed"} => ~dma
  /\ place = "hispi_clr" => ticks # 0
  /\ place \in Looping \cup {"abort", "abort_poll", "hispi_clr", "hispi_on"} => buffer'
  /\ place \in Starting => ~path.aborting /\ \A t \in AbortThreads : pc[t] = "off"

\* And what LoopShared asks.
SharedAt(place) ==
  place \in Looping =>
    \/ /\ pc["main"] \in Looping
       /\ \A t \in AbortThreads : AbortRunning = t <=> AbortRunning' = t
       /\ place = "snapshot" => path.phase = "armed"
    \/ ~path.aborting /\ place # "snapshot" /\ \A t \in AbortThreads : pc[t] = "off"

LEMMA MainClean ==
  ASSUME Clean, NEW place, NEW ticks, Moved("main", place, ticks),
         UNCHANGED <<step, shadow, path, dma, age, dirty>>, step["main"] = "load",
         place \notin {"abort_poll", "destroy"},
         ~dirty => IdleAt(place, ticks) /\ SharedAt(place)
  PROVE  Clean'
<1>1. pc'["main"] = place /\ timer'["main"] = ticks
  BY DEF Moved
<1>2. \A t \in AbortThreads : pc'[t] = pc[t] /\ timer'[t] = timer[t]
  BY ThreadNames DEF Moved
<1>3. AbortTaken'
  BY ThreadNames, MovedAborts DEF Clean
<1>4. ThreadsEnd'
  BY <1>1 DEF ThreadsEnd
<1>5. LeftIdle'
  BY <1>1, <1>2 DEF LeftIdle, IdleAt, Quiet
<1>6. LoopShared'
  <2>1. SUFFICES ASSUME ~dirty, place \in Looping PROVE LoopShared'
    BY <1>1 DEF LoopShared
  <2>2. CASE ~path.aborting /\ place # "snapshot" /\ \A t \in AbortThreads : pc[t] = "off"
    BY <1>1, <1>2, <2>1, <2>2 DEF LoopShared, Aborting
  <2>3. CASE /\ pc["main"] \in Looping
             /\ \A t \in AbortThreads : AbortRunning = t <=> AbortRunning' = t
             /\ place = "snapshot" => path.phase = "armed"
    <3>1. path.aborting => \E t \in AbortThreads : AbortRunning' = t /\ pc'[t] \in {"abort", "abort_poll"}
      BY <1>2, <2>1, <2>3 DEF Clean, LoopShared
    <3>2. \A t \in AbortThreads : pc'[t] \in Aborting => AbortRunning' = t
      BY <1>2, <2>1, <2>3 DEF Clean, LoopShared
    <3>3. \A t \in AbortThreads :
            pc'[t] = "abort_poll" /\ path.aborting => Within(Moves(path) + 1, timer'[t])
      BY <1>2, <2>1, <2>3 DEF Clean, LoopShared
    <3> QED
      BY <1>1, <2>1, <2>3, <3>1, <3>2, <3>3 DEF LoopShared, Within
  <2> QED
    BY <2>1, <2>2, <2>3 DEF SharedAt
<1> QED
  BY <1>3, <1>4, <1>5, <1>6 DEF Clean

LEMMA MainRest ==
  ASSUME IInv, NEW place \in MainPlaces, NEW ticks \in Ticks, Goto("main", place, ticks),
         UNCHANGED <<step, shadow, path, dma, age, dirty>>, pc["main"] \notin WritePlaces,
         place \notin {"abort_poll", "destroy"},
         ~dirty => IdleAt(place, ticks) /\ SharedAt(place),
         place \in Cleared => \/ pc["main"] \in Cleared
                              \/ pc["main"] = "hispi_clr" /\ timer["main"] = 0,
         place = "hispi_clr" => ticks # 0
  PROVE  Clean' /\ NoneStarts'
<1>1. Always /\ Clean /\ Ending
  BY InvParts, DestroyStops DEF Clean
<1>2. Moved("main", place, ticks)
  BY <1>1, ThreadNames, GotoMoves DEF Always, Places
<1>3. step["main"] = "load"
  BY <1>1, ThreadNames DEF Always, Types
<1>4. Clean'
  BY <1>1, <1>2, <1>3, MainClean
<1>5. Ending'
  BY <1>1, <1>2, MainEnding
<1> QED
  BY <1>4, <1>5 DEF Ending

\* Power up, and the power-up that fails.
LEMMA StartingClean ==
  ASSUME IInv, NEW place \in Starting \cup {"failed"}, NEW ticks \in Ticks,
         Goto("main", place, ticks), pc["main"] \in Starting,
         UNCHANGED <<step, shadow, path, dma, age, dirty>>
  PROVE  Clean' /\ NoneStarts'
<1>1. ~dirty => /\ Quiet(path) /\ ~dma /\ ~path.aborting
                /\ \A t \in AbortThreads : pc[t] = "off"
  BY InvParts DEF Clean, LeftIdle
<1>2. /\ place \in MainPlaces /\ place \notin {"abort_poll", "destroy", "hispi_clr"}
      /\ place \notin Cleared /\ pc["main"] \notin WritePlaces
      /\ place \notin Looping \cup {"abort", "abort_poll", "hispi_clr", "hispi_on"}
  BY BitsOf DEF Starting, MainPlaces, Cleared, Looping, Grabbing
<1>3. ~dirty => IdleAt(place, ticks) /\ SharedAt(place)
  BY <1>1, <1>2 DEF IdleAt, SharedAt
<1> QED
  BY <1>2, <1>3, MainRest

LEMMA SetupClean ==
  ASSUME IInv, Setup
  PROVE  Clean' /\ NoneStarts'
<1>1. /\ pc["main"] = "setup" /\ Goto("main", "acquire", 0) /\ buffer'
      /\ UNCHANGED <<step, shadow, path, dma, age, dirty>>
  BY DEF Setup, Woken, MainGoto, KeepWrite, KeepFpga
<1>2. ~dirty => ~path.aborting /\ \A t \in AbortThreads : pc[t] = "off"
  BY <1>1, InvParts DEF Clean, LeftIdle, Starting
<1>3. "acquire" \in MainPlaces /\ "acquire" \notin Starting \cup Cleared /\ pc["main"] \notin WritePlaces
  BY <1>1, BitsOf DEF MainPlaces, Looping, Starting, Cleared
<1>4. ~dirty => IdleAt("acquire", 0) /\ SharedAt("acquire")
  BY <1>1, <1>2, <1>3 DEF IdleAt, SharedAt
<1> QED
  BY <1>1, <1>3, <1>4, MainRest, TicksIn

\* The loop, to its end with 'q'.
LEMMA LoopClean ==
  ASSUME IInv, NEW place \in Looping \cup {"abort"}, Goto("main", place, 0),
         UNCHANGED <<step, shadow, path, dma, age, dirty, buffer>>,
         pc["main"] \in Looping, pc["main"] \notin WritePlaces,
         \A t \in AbortThreads : AbortRunning = t <=> AbortRunning' = t,
         place = "snapshot" => path.phase = "armed"
  PROVE  Clean' /\ NoneStarts'
<1>1. ~dirty => buffer
  BY InvParts DEF Clean, LeftIdle
<1>2. /\ place \in MainPlaces /\ place \notin Starting \cup Cleared \cup {"hispi_clr", "failed"}
      /\ place \notin {"abort_poll", "destroy"}
  BY DEF MainPlaces, Starting, Cleared, Looping, Grabbing
<1>3. ~dirty => IdleAt(place, 0) /\ SharedAt(place)
  BY <1>1, <1>2 DEF IdleAt, SharedAt
<1> QED
  BY <1>2, <1>3, MainRest, TicksIn

\* The end of a session, from one place to the next.
LEMMA ClearedClean ==
  ASSUME IInv, NEW place \in (Cleared \ {"hispi_on", "destroy"}) \cup {"failed"},
         NEW ticks \in Ticks, Goto("main", place, ticks), pc["main"] \in Cleared,
         UNCHANGED <<step, shadow, path, dma, age, dirty>>
  PROVE  Clean' /\ NoneStarts'
<1>1. ~dirty => Quiet(path) /\ ~dma
  BY InvParts DEF Clean, LeftIdle
<1>2. /\ place \in MainPlaces /\ place \notin {"abort_poll", "destroy", "hispi_clr", "hispi_on"}
      /\ place \notin Starting /\ place \notin Looping \cup {"abort", "abort_poll", "hispi_clr", "hispi_on"}
      /\ pc["main"] \notin WritePlaces
  BY BitsOf DEF Cleared, MainPlaces, Starting, Looping, Grabbing
<1>3. ~dirty => IdleAt(place, ticks) /\ SharedAt(place)
  BY <1>1, <1>2 DEF IdleAt, SharedAt
<1> QED
  BY <1>2, <1>3, MainRest

LEMMA HiSpiClean ==
  ASSUME IInv, HiSpiClr \/ HiSpiOn
  PROVE  Clean' /\ NoneStarts'
<1>1. CASE HiSpiClr
  <2>1. /\ pc["main"] = "hispi_clr" /\ timer["main"] = 0 /\ Goto("main", "hispi_on", 1)
        /\ UNCHANGED <<step, shadow, path, dma, age, dirty, buffer>>
    BY <1>1 DEF HiSpiClr, Woken, MainGoto, KeepWrite, KeepFpga, KeepHost
  <2>2. ~dirty => Quiet(path) /\ ~dma /\ buffer
    BY <2>1, InvParts DEF Clean, LeftIdle
  <2>3. /\ "hispi_on" \in MainPlaces /\ "hispi_on" \notin Starting \cup Looping
        /\ pc["main"] \notin WritePlaces
    BY <2>1, BitsOf DEF MainPlaces, Cleared, Starting, Looping, Grabbing
  <2>4. ~dirty => IdleAt("hispi_on", 1) /\ SharedAt("hispi_on")
    BY <2>1, <2>2, <2>3 DEF IdleAt, SharedAt
  <2> QED
    BY <2>1, <2>3, <2>4, MainRest, TicksIn
<1>2. CASE HiSpiOn
  <2>1. /\ pc["main"] = "hispi_on" /\ Goto("main", "disable", 1)
        /\ UNCHANGED <<step, shadow, path, dma, age, dirty>>
    BY <1>2 DEF HiSpiOn, Woken, MainGoto, KeepWrite, KeepFpga, KeepHost
  <2> QED
    BY <2>1, ClearedClean, TicksIn DEF Cleared
<1> QED
  BY <1>1, <1>2

LEMMA PowerClean ==
  ASSUME IInv, InitCheck \/ InitDown \/ InitPowerUp \/ InitDone \/ PowerTimeout
                 \/ DisableXGS \/ DisableDown \/ MbufFree
  PROVE  Clean' /\ NoneStarts'
<1> USE DEF At, Woken, MainGoto, KeepWrite, KeepFpga, KeepGrab
<1>1. /\ UNCHANGED <<step, shadow, path, dma, age, dirty>>
      /\ \/ pc["main"] \in Starting /\ \E place \in Starting \cup {"failed"}, ticks \in Ticks :
                                         Goto("main", place, ticks)
         \/ pc["main"] \in Cleared /\ \E place \in (Cleared \ {"hispi_on", "destroy"}) \cup {"failed"},
                                         ticks \in Ticks : Goto("main", place, ticks)
  <2>1. CASE InitCheck
    BY <2>1, TicksIn DEF InitCheck, Starting
  <2>2. CASE InitDown
    BY <2>2, TicksIn DEF InitDown, Starting
  <2>3. CASE InitPowerUp
    BY <2>3, TicksIn DEF InitPowerUp, Starting
  <2>4. CASE InitDone
    BY <2>4, TicksIn DEF InitDone, Starting
  <2>5. CASE PowerTimeout
    BY <2>5, TicksIn DEF PowerTimeout, Starting, Cleared
  <2>6. CASE DisableXGS
    BY <2>6, TicksIn DEF DisableXGS, Cleared
  <2>7. CASE DisableDown
    BY <2>7, TicksIn DEF DisableDown, Cleared
  <2>8. CASE MbufFree
    BY <2>8, TicksIn DEF MbufFree, Cleared
  <2> QED
    BY <2>1, <2>2, <2>3, <2>4, <2>5, <2>6, <2>7, <2>8
<1> QED
  BY <1>1, StartingClean, ClearedClean

LEMMA PollsClean ==
  ASSUME IInv, PollPending \/ PollReady \/ NoKey \/ KeyQ
  PROVE  Clean' /\ NoneStarts'
<1> USE DEF At, MainGoto, KeepWrite, KeepFpga, KeepHost
<1>1. /\ UNCHANGED <<step, shadow, path, dma, age, dirty, buffer, AbortRunning>>
      /\ pc["main"] \in Looping /\ pc["main"] \notin WritePlaces
      /\ \E place \in Looping \cup {"abort"} :
           Goto("main", place, 0) /\ (place = "snapshot" => path.phase = "armed")
  <2>1. CASE PollPending
    BY <2>1, BitsOf DEF PollPending, Looping, Grabbing
  <2>2. CASE PollReady
    BY <2>2, BitsOf DEF PollReady, Looping, Grabbing
  <2>3. CASE NoKey
    BY <2>3, BitsOf DEF NoKey, Looping
  <2>4. CASE KeyQ
    BY <2>4, BitsOf DEF KeyQ, Looping
  <2> QED
    BY <2>1, <2>2, <2>3, <2>4
<1>2. PICK place \in Looping \cup {"abort"} :
        Goto("main", place, 0) /\ (place = "snapshot" => path.phase = "armed")
  BY <1>1
<1>3. \A t \in AbortThreads : AbortRunning = t <=> AbortRunning' = t
  BY <1>1
<1> QED
  BY <1>1, <1>2, <1>3, LoopClean

LEMMA MainMutexClean ==
  ASSUME IInv, Acquire("main") \/ Release("main")
  PROVE  Clean' /\ NoneStarts'
<1> USE DEF At, KeepWrite, KeepFpga
<1>1. /\ UNCHANGED <<step, shadow, path, dma, age, dirty, buffer>>
      /\ pc["main"] \in {"acquire", "release"}
      /\ \E place \in {"pending", "key"} : Goto("main", place, 0)
  <2>1. CASE Acquire("main")
    BY <2>1 DEF Acquire
  <2>2. CASE Release("main")
    BY <2>2 DEF Release
  <2> QED
    BY <2>1, <2>2
<1>2. \A t \in AbortThreads : AbortRunning = t <=> AbortRunning' = t
  <2>1. CASE Acquire("main")
    <3>1. AbortRunning \in {"free", "none"} /\ AbortRunning' \in {"main", "free", "none"}
      BY <2>1 DEF Acquire
    <3> QED
      BY <3>1, ThreadNames
  <2>2. CASE Release("main")
    <3>1. AbortRunning = "main"
      BY <2>2 DEF Release, IInv, Always, MutexHeld, Grabbing
    <3>2. AbortRunning' = "free"
      BY <2>2, <3>1 DEF Release
    <3> QED
      BY <3>1, <3>2, ThreadNames
  <2> QED
    BY <2>1, <2>2
<1>3. PICK place \in {"pending", "key"} : Goto("main", place, 0)
  BY <1>1
<1>4. /\ place \in Looping \cup {"abort"} /\ place # "snapshot"
      /\ pc["main"] \in Looping /\ pc["main"] \notin WritePlaces
  BY <1>1, BitsOf DEF Looping, Grabbing
<1> QED
  BY <1>1, <1>2, <1>3, <1>4, LoopClean

\* A poll that gives up finds the abort at its end.
LEMMA NoTimeLeft ==
  ASSUME NEW m \in Nat, m > 0, NEW f \in Nat, NEW a \in 0 .. f
  PROVE  ~(m * f - a < 0)
<1>1. m * f = (m - 1) * f + f
  OBVIOUS
<1>2. (m - 1) * f \in Nat
  OBVIOUS
<1> QED
  BY <1>1, <1>2

LEMMA MainPollClean ==
  ASSUME IInv, AbortPoll("main")
  PROVE  Clean' /\ NoneStarts'
<1>1. /\ pc["main"] = "abort_poll" /\ Goto("main", "hispi_clr", 1)
      /\ path.aborting => timer["main"] = 0
      /\ UNCHANGED <<step, shadow, path, dma, age, dirty, buffer>>
  BY DEF AbortPoll, At, KeepWrite, KeepFpga, KeepHost
<1>2. ~dirty => Quiet(path)
  <2>1. SUFFICES ASSUME ~dirty, path.aborting PROVE Quiet(path)
    BY <1>1, InvParts, ThreadNames DEF Clean, AbortTaken, Aborted
  <2>2. Within(Moves(path), 0)
    BY <1>1, <2>1, InvParts DEF Clean, AbortTaken
  <2>3. /\ path \in Paths /\ age \in 0 .. FrameTicks /\ FrameTicks \in Nat
        /\ Moves(path) \in 0 .. 5 /\ (Moves(path) = 0 => Quiet(path))
    BY InvParts, Typed, MovesRange, SessionAssumption
  <2> QED
    BY <2>2, <2>3, NoTimeLeft DEF Within
<1>3. ~dirty => buffer
  BY <1>1, InvParts DEF Clean, LeftIdle
<1>4. /\ "hispi_clr" \in MainPlaces /\ "hispi_clr" \notin Starting \cup Cleared \cup Looping
      /\ pc["main"] \notin WritePlaces
  BY <1>1, BitsOf DEF MainPlaces, Starting, Cleared, Looping, Grabbing
<1>5. ~dirty => IdleAt("hispi_clr", 1) /\ SharedAt("hispi_clr")
  BY <1>1, <1>2, <1>3, <1>4 DEF IdleAt, SharedAt
<1> QED
  BY <1>1, <1>4, <1>5, MainRest, TicksIn

LEMMA AskersFinite ==
  ASSUME IsFiniteSet(AbortThreads)
  PROVE  /\ IsFiniteSet(Askers) /\ Cardinality(Askers) \in Nat
         /\ Cardinality(Askers) <= Cardinality(AbortThreads) /\ Cardinality(AbortThreads) \in Nat
<1>1. Askers \subseteq AbortThreads
  BY DEF Askers
<1> QED
  BY <1>1, FS_Subset, FS_CardinalityType

LEMMA AbortTicksRange ==
  ASSUME age \in 0 .. FrameTicks
  PROVE  AbortTicks \in 0 .. FrameTicks
BY SessionAssumption DEF AbortTicks

\* The Sleep(1500) is long enough for all of them.
LEMMA LongEnough ==
  ASSUME NEW f \in Nat, NEW k \in Nat, NEW n \in 0 .. k, NEW a \in 0 .. f, NEW s \in Nat,
         NEW d \in Nat, s + (k + 1) * f < d
  PROVE  n * f + a + s < d /\ a < d /\ s < d
<1>1. PICK e \in Nat : k = n + e
  <2> WITNESS k - n \in Nat
  <2> QED OBVIOUS
<1>2. (k + 1) * f = n * f + e * f + f
  BY <1>1
<1>3. n * f \in Nat /\ e * f \in Nat
  BY <1>1
<1> QED
  BY <1>2, <1>3

LEMMA StopThreadsClean ==
  ASSUME IInv, Timely, StopThreads
  PROVE  Clean' /\ NoneStarts'
<1>1. /\ pc["main"] = "disabled" /\ Goto("main", "destroy", DestroySleep) /\ StopAbortThread'
      /\ UNCHANGED <<step, shadow, path, dma, age, dirty, buffer>>
  BY DEF StopThreads, Woken, MainGoto, KeepWrite, KeepFpga
<1>2. Moved("main", "destroy", DestroySleep)
  BY <1>1, ThreadNames, GotoMoves, TicksIn DEF IInv, Always, Places, MainPlaces, Cleared
<1>3. /\ pc'["main"] = "destroy" /\ timer'["main"] = DestroySleep
      /\ \A t \in AbortThreads : pc'[t] = pc[t] /\ timer'[t] = timer[t]
  BY <1>2, ThreadNames DEF Moved
<1>4. AbortTaken'
  <2>1. step["main"] = "load"
    BY <1>1, ThreadNames, BitsOf DEF IInv, Always, Types
  <2> QED
    BY <1>1, <1>2, <2>1, ThreadNames, MovedAborts DEF IInv
<1>5. LoopShared'
  BY <1>3 DEF LoopShared, Looping, Grabbing
<1>6. LeftIdle'
  <2>1. ~dirty => Quiet(path) /\ ~dma
    BY <1>1 DEF IInv, LeftIdle, Cleared
  <2>2. "destroy" \notin Starting \cup Looping \cup {"abort", "abort_poll", "hispi_clr", "hispi_on"}
    BY DEF Starting, Looping, Grabbing
  <2> QED
    BY <1>1, <1>3, <2>1, <2>2 DEF LeftIdle, Quiet
<1>7. NoneStarts'
  BY <1>1, <1>3 DEF IInv, NoneStarts, Cleared
<1>8. ThreadsEnd'
  <2>1. /\ age \in 0 .. FrameTicks /\ FrameTicks \in Nat /\ DestroySleep \in Nat
        /\ AbortSleep \subseteq Nat
    BY Typed, SessionAssumption DEF IInv
  <2>2. /\ Cardinality(Askers) \in 0 .. Cardinality(AbortThreads)
        /\ Cardinality(AbortThreads) \in Nat /\ AbortTicks \in 0 .. FrameTicks
    BY <2>1, AskersFinite, AbortTicksRange DEF Timely
  <2>3. ASSUME NEW s \in AbortSleep \cup {0}
        PROVE  /\ Cardinality(Askers) * FrameTicks + AbortTicks + s < DestroySleep
               /\ AbortTicks < DestroySleep /\ s < DestroySleep
    <3>1. s + (Cardinality(AbortThreads) + 1) * FrameTicks < DestroySleep /\ s \in Nat
      BY <2>1 DEF Timely
    <3> QED
      BY <2>1, <2>2, <3>1, LongEnough
  <2>4. Askers' = Askers
    BY <1>1, <1>3 DEF Askers, Asking
  <2>5. AbortTicks' = AbortTicks
    BY <1>1 DEF AbortTicks
  <2>6. ASSUME NEW t \in AbortThreads, pc'[t] = "check" PROVE timer'[t] < DestroySleep
    <3>1. timer[t] \in Nat /\ (timer[t] = 0 \/ \E s \in AbortSleep : timer[t] <= s)
      BY <1>3, <2>6, ThreadNames, Typed DEF IInv, Always, Sleeping
    <3>2. \A s \in AbortSleep \cup {0} : s < DestroySleep /\ s \in Nat
      BY <2>1, <2>3
    <3> QED
      BY <1>3, <2>1, <3>1, <3>2
  <2> QED
    BY <1>1, <1>3, <2>3, <2>4, <2>5, <2>6 DEF ThreadsEnd
<1> QED
  BY <1>4, <1>5, <1>6, <1>7, <1>8 DEF Clean

LEMMA DestroyClean ==
  ASSUME IInv, Timely, DestroyOsMutex
  PROVE  Clean' /\ NoneStarts'
<1>1. /\ pc["main"] = "destroy" /\ timer["main"] = 0 /\ Goto("main", "menu", 0)
      /\ UNCHANGED <<step, shadow, path, dma, age, dirty>>
  BY DEF DestroyOsMutex, Woken, MainGoto, KeepWrite, KeepFpga
<1>2. ~dirty => ~path.aborting /\ \A t \in AbortThreads : pc[t] = "off"
  <2>1. SUFFICES ASSUME ~dirty PROVE ~path.aborting /\ \A t \in AbortThreads : pc[t] = "off"
    OBVIOUS
  <2>2. /\ age \in 0 .. FrameTicks /\ FrameTicks \in Nat /\ AbortTicks \in 0 .. FrameTicks
        /\ Cardinality(Askers) \in Nat
    BY Typed, SessionAssumption, AbortTicksRange, AskersFinite DEF IInv, Timely
  <2>3. ~path.aborting
    BY <1>1, <2>1, <2>2 DEF IInv, ThreadsEnd
  <2>4. ASSUME NEW t \in AbortThreads, pc[t] \in Aborting \cup {"acquire"} PROVE FALSE
    <3>1. Cardinality(Askers) * FrameTicks + AbortTicks + 0 < 0
      BY <1>1, <2>1, <2>4 DEF IInv, ThreadsEnd
    <3>2. Cardinality(Askers) * FrameTicks \in Nat
      BY <2>2
    <3> QED
      BY <2>2, <3>1, <3>2
  <2>5. ASSUME NEW t \in AbortThreads PROVE pc[t] # "check"
    BY <1>1, <2>1, ThreadNames, Typed DEF IInv, ThreadsEnd
  <2>6. ASSUME NEW t \in AbortThreads PROVE pc[t] # "start"
    BY <1>1 DEF IInv, NoneStarts, Cleared
  <2> QED
    BY <2>3, <2>4, <2>5, <2>6 DEF IInv, Always, Types, ThreadPlaces
<1>3. ~dirty => Quiet(path) /\ ~dma
  BY <1>1 DEF IInv, LeftIdle, Cleared
<1>4. /\ "menu" \in MainPlaces /\ "menu" \notin Looping \cup {"abort", "abort_poll", "hispi_clr", "hispi_on"}
      /\ "menu" \notin Cleared /\ pc["main"] \notin WritePlaces
  BY <1>1, BitsOf DEF MainPlaces, Starting, Cleared, Looping, Grabbing
<1>5. ~dirty => IdleAt("menu", 0) /\ SharedAt("menu")
  BY <1>2, <1>3, <1>4 DEF IdleAt, SharedAt
<1> QED
  BY <1>1, <1>4, <1>5, MainRest, TicksIn

-----------------------------------------------------------------------------
(* The steps of an abort thread that write no register. *)

LEMMA ThreadClean ==
  ASSUME IInv, NEW t \in AbortThreads, NEW place, NEW ticks, Moved(t, place, ticks),
         UNCHANGED <<step, shadow, path, dma, age, dirty, buffer>>,
         pc[t] \notin {"off"} \cup WritePlaces, place # "abort_poll",
         pc["main"] # "destroy" \/ StopAbortThread',
         ~dirty /\ pc["main"] \in Looping =>
           /\ path.aborting => \E u \in AbortThreads :
                                 AbortRunning' = u /\ pc'[u] \in {"abort", "abort_poll"}
           /\ \A u \in AbortThreads : pc'[u] \in Aborting => AbortRunning' = u,
         ~dirty /\ pc["main"] = "destroy" =>
           /\ Asking(t)' <=> Asking(t)
           /\ place \in Aborting \cup {"acquire"} => pc[t] \in Aborting \cup {"acquire"}
           /\ place = "check" => ticks < timer["main"]
  PROVE  Clean'
<1>1. /\ pc'["main"] = pc["main"] /\ timer'["main"] = timer["main"] /\ t \in Threads
      /\ pc'[t] = place /\ timer'[t] = ticks
      /\ \A u \in AbortThreads : u # t => pc'[u] = pc[u] /\ timer'[u] = timer[u]
  BY ThreadNames DEF Moved
<1>2. AbortTaken'
  <2>1. step[t] = "load"
    BY <1>1 DEF IInv, Always, Types
  <2> QED
    BY <1>1, <2>1, MovedAborts DEF IInv
<1>3. LoopShared'
  <2>1. SUFFICES ASSUME ~dirty, pc["main"] \in Looping PROVE LoopShared'
    BY <1>1 DEF LoopShared
  <2>2. ASSUME NEW u \in AbortThreads, pc'[u] = "abort_poll", path.aborting
        PROVE  Within(Moves(path) + 1, timer'[u])
    BY <1>1, <2>1, <2>2 DEF IInv, LoopShared
  <2> QED
    BY <1>1, <2>1, <2>2 DEF IInv, LoopShared, Within
<1>4. LeftIdle'
  <2>1. ~dirty => pc["main"] \notin Starting
    BY DEF IInv, LeftIdle
  <2> QED
    BY <1>1, <2>1 DEF IInv, LeftIdle, Quiet
<1>5. ThreadsEnd'
  <2>1. SUFFICES ASSUME ~dirty, pc["main"] = "destroy" PROVE ThreadsEnd'
    BY <1>1 DEF ThreadsEnd
  <2>2. Askers' = Askers
    <3>1. \A u \in AbortThreads : Asking(u)' <=> Asking(u)
      BY <1>1, <2>1 DEF Asking
    <3> QED
      BY <3>1 DEF Askers
  <2>3. AbortTicks' = AbortTicks
    BY DEF AbortTicks
  <2>4. (\E u \in AbortThreads : pc'[u] \in Aborting \cup {"acquire"}) =>
          \E u \in AbortThreads : pc[u] \in Aborting \cup {"acquire"}
    BY <1>1, <2>1
  <2>5. \A u \in AbortThreads : pc'[u] = "check" => timer'[u] < timer["main"]
    BY <1>1, <2>1 DEF IInv, ThreadsEnd
  <2> QED
    BY <1>1, <2>1, <2>2, <2>3, <2>4, <2>5 DEF IInv, ThreadsEnd
<1> QED
  BY <1>2, <1>3, <1>4, <1>5 DEF Clean

LEMMA AcquireClean ==
  ASSUME IInv, NEW t \in AbortThreads, Acquire(t)
  PROVE  Clean' /\ NoneStarts'
<1>1. /\ pc[t] = "acquire" /\ AbortRunning \in {"free", "none"}
      /\ AbortRunning' = (IF AbortRunning = "free" THEN t ELSE AbortRunning)
      /\ Goto(t, "abort", 0) /\ UNCHANGED StopAbortThread
      /\ UNCHANGED <<step, shadow, path, dma, age, dirty, buffer>>
  BY ThreadNames DEF Acquire, At, KeepFpga, KeepWrite
<1>2. t \in Threads /\ t # "main" /\ "abort" \in Places(t)
  BY ThreadNames DEF Places, ThreadPlaces, Aborting
<1>3. Moved(t, "abort", 0)
  BY <1>1, <1>2, GotoMoves, TicksIn DEF IInv, Always
<1>4. pc'[t] = "abort" /\ \A u \in AbortThreads : u # t => pc'[u] = pc[u]
  BY <1>3, ThreadNames DEF Moved
<1>5. ~dirty /\ pc["main"] \in Looping =>
        /\ ~path.aborting
        /\ \A u \in AbortThreads : pc'[u] \in Aborting => AbortRunning' = u
  <2>1. SUFFICES ASSUME ~dirty, pc["main"] \in Looping
                 PROVE  /\ ~path.aborting
                        /\ \A u \in AbortThreads : pc'[u] \in Aborting => AbortRunning' = u
    OBVIOUS
  <2>2. AbortRunning = "free"
    BY <1>1, <2>1 DEF IInv, Always, MutexHeld, Looping, Grabbing
  <2>3. \A u \in AbortThreads : AbortRunning # u
    BY <2>2, ThreadNames
  <2> QED
    BY <1>1, <1>4, <2>1, <2>2, <2>3 DEF IInv, LoopShared
<1>6. step[t] = "load"
  BY <1>1, <1>2, BitsOf DEF IInv, Always, Types
<1>7. Asking(t)' <=> Asking(t)
  BY <1>1, <1>4, <1>6 DEF Asking
<1>8. pc["main"] # "destroy" \/ StopAbortThread'
  BY <1>1 DEF IInv, ThreadsEnd
<1>9. Clean'
  BY <1>1, <1>3, <1>5, <1>7, <1>8, ThreadClean, BitsOf
<1>10. Ending'
  BY <1>1, <1>3, ThreadEnding, DestroyStops DEF IInv
<1> QED
  BY <1>9, <1>10 DEF Ending

LEMMA ReleaseClean ==
  ASSUME IInv, Timely, NEW t \in AbortThreads, Release(t)
  PROVE  Clean' /\ NoneStarts'
<1>1. PICK ticks \in AbortSleep : Goto(t, "check", ticks)
  BY ThreadNames DEF Release
<1>2. /\ pc[t] = "release"
      /\ AbortRunning' = (IF AbortRunning = t THEN "free" ELSE AbortRunning)
      /\ UNCHANGED <<step, shadow, path, dma, age, dirty, buffer, StopAbortThread>>
  BY DEF Release, At, KeepFpga, KeepWrite
<1>3. t \in Threads /\ t # "main" /\ "check" \in Places(t) /\ "check" \notin Aborting
  BY ThreadNames DEF Places, ThreadPlaces, Aborting
<1>4. Moved(t, "check", ticks)
  BY <1>1, <1>3, GotoMoves, TicksIn DEF IInv, Always
<1>5. pc'[t] = "check" /\ \A u \in AbortThreads : u # t => pc'[u] = pc[u]
  BY <1>4, ThreadNames DEF Moved
<1>6. ~dirty /\ pc["main"] \in Looping =>
        /\ ~path.aborting
        /\ \A u \in AbortThreads : pc'[u] \in Aborting => AbortRunning' = u
  <2>1. SUFFICES ASSUME ~dirty, pc["main"] \in Looping
                 PROVE  /\ ~path.aborting
                        /\ \A u \in AbortThreads : pc'[u] \in Aborting => AbortRunning' = u
    OBVIOUS
  <2>2. /\ \A u \in AbortThreads : pc[u] \in Aborting => AbortRunning = u
        /\ path.aborting => \E u \in AbortThreads : AbortRunning = u /\ pc[u] \in {"abort", "abort_poll"}
    BY <2>1 DEF IInv, LoopShared
  <2>3. AbortRunning = t
    BY <1>2, <2>2 DEF Aborting
  <2> QED
    BY <1>2, <1>3, <1>5, <2>2, <2>3
<1>7. ~dirty /\ pc["main"] = "destroy" => ticks < timer["main"]
  <2>1. SUFFICES ASSUME ~dirty, pc["main"] = "destroy" PROVE ticks < timer["main"]
    OBVIOUS
  <2>2. Cardinality(Askers) * FrameTicks + AbortTicks + ticks < timer["main"]
    BY <1>2, <2>1 DEF IInv, ThreadsEnd, Aborting
  <2>3. /\ Cardinality(Askers) * FrameTicks \in Nat /\ AbortTicks \in Nat /\ ticks \in Nat
        /\ timer["main"] \in Nat
    <3>1. Cardinality(Askers) \in Nat /\ FrameTicks \in Nat
      BY AskersFinite, SessionAssumption DEF Timely
    <3>2. AbortTicks \in Nat /\ timer["main"] \in Nat
      BY Typed, AbortTicksRange, ThreadNames, SessionAssumption DEF IInv
    <3> QED
      BY <3>1, <3>2, SessionAssumption
  <2> QED
    BY <2>2, <2>3
<1>8. Asking(t)' <=> Asking(t)
  BY <1>2, <1>5 DEF Asking
<1>9. pc["main"] # "destroy" \/ StopAbortThread'
  BY <1>2 DEF IInv, ThreadsEnd
<1>10. Clean'
  BY <1>2, <1>3, <1>4, <1>6, <1>7, <1>8, <1>9, ThreadClean, BitsOf
<1>11. Ending'
  BY <1>2, <1>4, ThreadEnding, DestroyStops DEF IInv
<1> QED
  BY <1>10, <1>11 DEF Ending

LEMMA PollClean ==
  ASSUME IInv, NEW t \in AbortThreads, AbortPoll(t)
  PROVE  Clean' /\ NoneStarts'
<1>1. /\ pc[t] = "abort_poll" /\ Goto(t, "release", 0)
      /\ path.aborting => timer[t] = 0
      /\ UNCHANGED <<step, shadow, path, dma, age, dirty, buffer, StopAbortThread, AbortRunning>>
  BY ThreadNames DEF AbortPoll, At, KeepFpga, KeepWrite, KeepHost
<1>2. t \in Threads /\ t # "main" /\ "release" \in Places(t)
  BY ThreadNames DEF Places, ThreadPlaces, Aborting
<1>3. Moved(t, "release", 0)
  BY <1>1, <1>2, GotoMoves, TicksIn DEF IInv, Always
<1>4. pc'[t] = "release" /\ \A u \in AbortThreads : u # t => pc'[u] = pc[u]
  BY <1>3, ThreadNames DEF Moved
<1>5. ~dirty /\ pc["main"] \in Looping =>
        /\ ~path.aborting
        /\ \A u \in AbortThreads : pc'[u] \in Aborting => AbortRunning' = u
  <2>1. SUFFICES ASSUME ~dirty, pc["main"] \in Looping
                 PROVE  /\ ~path.aborting
                        /\ \A u \in AbortThreads : pc'[u] \in Aborting => AbortRunning' = u
    OBVIOUS
  <2>2. ASSUME path.aborting PROVE FALSE
    <3>1. Within(Moves(path) + 1, 0)
      BY <1>1, <2>1, <2>2 DEF IInv, LoopShared
    <3>2. /\ Moves(path) + 1 \in Nat /\ Moves(path) + 1 > 0
          /\ age \in 0 .. FrameTicks /\ FrameTicks \in Nat
      BY Typed, MovesRange, SessionAssumption DEF IInv
    <3> QED
      BY <3>1, <3>2, NoTimeLeft DEF Within
  <2> QED
    BY <1>1, <1>4, <2>1, <2>2 DEF IInv, LoopShared, Aborting
<1>6. Asking(t)' <=> Asking(t)
  BY <1>1, <1>4 DEF Asking
<1>7. pc["main"] # "destroy" \/ StopAbortThread'
  BY <1>1 DEF IInv, ThreadsEnd
<1>8. Clean'
  BY <1>1, <1>3, <1>5, <1>6, <1>7, ThreadClean, BitsOf DEF Aborting
<1>9. Ending'
  BY <1>1, <1>3, ThreadEnding, DestroyStops DEF IInv
<1> QED
  BY <1>8, <1>9 DEF Ending

LEMMA StartCheckClean ==
  ASSUME IInv, NEW t \in AbortThreads, Start(t) \/ Check(t)
  PROVE  Clean' /\ NoneStarts'
<1>1. /\ pc[t] \in {"start", "check"}
      /\ UNCHANGED <<step, shadow, path, dma, age, dirty, buffer, AbortRunning>>
      /\ \E place \in {"check", "off", "acquire"} : Goto(t, place, 0)
  <2>1. CASE Start(t)
    BY <2>1 DEF Start, At, KeepFpga, KeepWrite
  <2>2. CASE Check(t)
    BY <2>2 DEF Check, Woken, KeepFpga, KeepWrite, KeepHost
  <2> QED
    BY <2>1, <2>2
<1>2. PICK place \in {"check", "off", "acquire"} : Goto(t, place, 0)
  BY <1>1
<1>3. t \in Threads /\ t # "main" /\ place \in Places(t) /\ place \notin Aborting
  BY ThreadNames DEF Places, ThreadPlaces, Aborting
<1>4. Moved(t, place, 0)
  BY <1>2, <1>3, GotoMoves, TicksIn DEF IInv, Always
<1>5. pc'[t] = place /\ \A u \in AbortThreads : u # t => pc'[u] = pc[u]
  BY <1>4, ThreadNames DEF Moved
<1>6. ~dirty /\ pc["main"] \in Looping =>
        /\ path.aborting => \E u \in AbortThreads :
                              AbortRunning' = u /\ pc'[u] \in {"abort", "abort_poll"}
        /\ \A u \in AbortThreads : pc'[u] \in Aborting => AbortRunning' = u
  BY <1>1, <1>3, <1>5 DEF IInv, LoopShared
<1>7. pc["main"] = "destroy" =>
        /\ StopAbortThread /\ pc[t] = "check" /\ pc'[t] = "off" /\ StopAbortThread'
  <2>1. SUFFICES ASSUME pc["main"] = "destroy"
                 PROVE  /\ StopAbortThread /\ pc[t] = "check" /\ pc'[t] = "off" /\ StopAbortThread'
    OBVIOUS
  <2>2. StopAbortThread /\ pc[t] = "check"
    BY <1>1, <2>1 DEF IInv, ThreadsEnd, NoneStarts, Cleared
  <2>3. Check(t)
    BY <2>2 DEF Start, At
  <2>4. pc' = [pc EXCEPT ![t] = "off"] /\ UNCHANGED StopAbortThread
    BY <2>2, <2>3 DEF Check, Goto, KeepHost
  <2> QED
    BY <1>3, <2>2, <2>4 DEF IInv, Always, Types
<1>8. Clean'
  <2>1. /\ pc["main"] # "destroy" \/ StopAbortThread'
        /\ pc["main"] = "destroy" => (Asking(t)' <=> Asking(t)) /\ place = "off"
    BY <1>5, <1>7 DEF Asking
  <2>2. place # "abort_poll" /\ pc[t] \notin {"off"} \cup WritePlaces
    BY <1>1, BitsOf
  <2>3. "off" \notin Aborting \cup {"acquire"}
    BY DEF Aborting
  <2> QED
    BY <1>1, <1>4, <1>6, <2>1, <2>2, <2>3, ThreadClean
<1>9. NoneStarts'
  <2>1. pc'["main"] = pc["main"] /\ timer'["main"] = timer["main"]
    BY <1>3, <1>4, ThreadNames DEF Moved
  <2> QED
    BY <1>5, <2>1 DEF IInv, NoneStarts
<1> QED
  BY <1>8, <1>9

-----------------------------------------------------------------------------
(* The writes. *)

\* A step of a write that reaches no register.
LEMMA OngoingClean ==
  ASSUME IInv, NEW t \in Threads, pc[t] \in WritePlaces, Ongoing(t), UNCHANGED path,
         ~dirty => \A u \in Threads :
           pc[u] = "abort" /\ (step'[u] \in {"reload", "clear"} \/ (step'[u] = "write" /\ shadow' = {}))
             => Aborted(path),
         step'["main"] \in {"load", "set", "write"} => step["main"] \in {"load", "set", "write"},
         step'[t] \in {"load", "set", "write"} <=> step[t] \in {"load", "set", "write"}
  PROVE  Clean'
<1> USE DEF Ongoing
<1>1. AbortTaken'
  BY DEF IInv, AbortTaken, Aborted, Quiet, Within
<1>2. LoopShared'
  BY DEF IInv, LoopShared, Within
<1>3. LeftIdle'
  BY DEF IInv, LeftIdle, Quiet
<1>4. ThreadsEnd'
  <2>1. \A u \in AbortThreads : Asking(u)' <=> Asking(u)
    <3>1. ASSUME NEW u \in AbortThreads PROVE Asking(u)' <=> Asking(u)
      <4>1. CASE u = t
        BY <4>1 DEF Asking
      <4>2. CASE u # t
        BY <4>2, ThreadNames DEF Asking
      <4> QED
        BY <4>1, <4>2
    <3> QED
      BY <3>1
  <2>2. Askers' = Askers
    BY <2>1 DEF Askers
  <2>3. AbortTicks' = AbortTicks
    BY DEF AbortTicks
  <2> QED
    BY <2>2, <2>3 DEF IInv, ThreadsEnd
<1> QED
  BY <1>1, <1>2, <1>3, <1>4 DEF Clean

LEMMA LoadClean ==
  ASSUME IInv, NEW t \in Threads, LoadShadow(t)
  PROVE  Clean'
<1>1. /\ pc[t] \in WritePlaces /\ step[t] = "load" /\ UNCHANGED <<shadow, path>>
      /\ step' = [step EXCEPT ![t] = "set"]
  BY DEF LoadShadow, Writing, WritePlaces, KeepFpga, StepTo
<1>2. Ongoing(t)
  BY DEF LoadShadow, KeepHost, KeepFpga, StepTo, Ongoing, IInv, Always, Types
<1>3. step'[t] = "set" /\ \A u \in Threads : u # t => step'[u] = step[u]
  BY <1>1 DEF IInv, Always, Types
<1>4. ~dirty => \A u \in Threads :
        pc[u] = "abort" /\ (step'[u] \in {"reload", "clear"} \/ (step'[u] = "write" /\ shadow' = {}))
          => Aborted(path)
  BY <1>1, <1>3 DEF IInv, AbortTaken
<1> QED
  BY <1>1, <1>2, <1>3, <1>4, ThreadNames, OngoingClean

LEMMA StoreClean ==
  ASSUME IInv, NEW t \in Threads, StoreShadow(t)
  PROVE  Clean'
<1>1. /\ pc[t] \in WritePlaces /\ step[t] = "set" /\ UNCHANGED path
      /\ step' = [step EXCEPT ![t] = "write"]
  BY DEF StoreShadow, Writing, WritePlaces, KeepFpga, StepTo
<1>2. Ongoing(t)
  BY DEF StoreShadow, KeepHost, KeepFpga, StepTo, Ongoing, IInv, Always, Types
<1>3. step'[t] = "write" /\ \A u \in Threads : u # t => step'[u] = step[u]
  BY <1>1 DEF IInv, Always, Types
<1>4. shadow' = Bits[pc[t]]
  BY <1>1 DEF StoreShadow, IInv, Always, Shadow
<1>5. ASSUME NEW u \in Threads, pc[u] = "abort" PROVE shadow' # {}
  <2>1. pc[t] = "abort"
    BY <1>1, <1>5, OneWriter, BitsOf DEF IInv, Always
  <2> QED
    BY <1>4, <2>1, BitsOf
<1>6. ~dirty => \A u \in Threads :
        pc[u] = "abort" /\ (step'[u] \in {"reload", "clear"} \/ (step'[u] = "write" /\ shadow' = {}))
          => Aborted(path)
  BY <1>3, <1>5 DEF IInv, AbortTaken
<1> QED
  BY <1>1, <1>2, <1>3, <1>6, ThreadNames, OngoingClean

LEMMA ReloadClean ==
  ASSUME IInv, NEW t \in Threads, ReloadShadow(t)
  PROVE  Clean'
<1>1. /\ pc[t] \in WritePlaces /\ step[t] = "reload" /\ UNCHANGED <<path, shadow>>
      /\ step' = [step EXCEPT ![t] = "clear"]
  BY DEF ReloadShadow, Writing, WritePlaces, KeepFpga, StepTo
<1>2. Ongoing(t)
  BY DEF ReloadShadow, KeepHost, KeepFpga, StepTo, Ongoing, IInv, Always, Types
<1>3. step'[t] = "clear" /\ \A u \in Threads : u # t => step'[u] = step[u]
  BY <1>1 DEF IInv, Always, Types
<1>4. ~dirty => \A u \in Threads :
        pc[u] = "abort" /\ (step'[u] \in {"reload", "clear"} \/ (step'[u] = "write" /\ shadow' = {}))
          => Aborted(path)
  BY <1>1, <1>3 DEF IInv, AbortTaken
<1> QED
  BY <1>1, <1>2, <1>3, <1>4, ThreadNames, OngoingClean

\* The word of an abort, with the bit or without it.
LEMMA AbortWord ==
  ASSUME IInv, NEW t \in Threads, pc[t] = "abort", WriteRegister(t)
  PROVE  /\ path' \in Paths /\ Moves(path') = Moves(path)
         /\ Quiet(path') <=> Quiet(path)
         /\ path' = path \/ path'.aborting
         /\ ~dirty => Aborted(path')
<1>1. Writing(t, "write") /\ path' = Command(path, shadow) /\ step[t] = "write"
  BY DEF WriteRegister, Writing
<1>2. shadow \in {{}, {"ABORT_GRAB"}} /\ path \in Paths
  BY <1>1, WordOf, Typed DEF IInv
<1>3. CASE shadow = {}
  <2>1. path' = path
    BY <1>1, <1>2, <1>3, NoCommand
  <2>2. ~dirty => Aborted(path)
    BY <1>1, <1>3 DEF IInv, AbortTaken
  <2> QED
    BY <1>2, <2>1, <2>2
<1>4. CASE shadow = {"ABORT_GRAB"}
  <2>1. /\ path' \in Paths /\ path'.aborting /\ path'.phase = path.phase
        /\ path'.active = path.active /\ path'.pending = path.pending
        /\ path'.readout = path.readout
    BY <1>1, <1>2, <1>4, AbortCommand
  <2> QED
    BY <2>1 DEF Moves, Quiet, Aborted
<1> QED
  BY <1>2, <1>3, <1>4

LEMMA AskerLess ==
  ASSUME NEW f \in Nat, NEW k \in Nat, k > 0, NEW a \in Nat, NEW b \in 0 .. f, NEW s \in Nat,
         NEW d \in Nat, k * f + a + s < d
  PROVE  (k - 1) * f + b + s < d /\ b < d
<1>1. (k - 1) * f = k * f - f
  OBVIOUS
<1>2. k * f \in Nat /\ (k - 1) * f \in Nat
  OBVIOUS
<1> QED
  BY <1>1, <1>2

LEMMA AbortWriteClean ==
  ASSUME IInv, Timely, NEW t \in Threads, pc[t] = "abort", WriteRegister(t)
  PROVE  Clean'
<1>1. /\ step[t] = "write" /\ step' = [step EXCEPT ![t] = "reload"]
      /\ UNCHANGED <<pc, timer, shadow, AbortRunning, StopAbortThread, buffer, dma, age, dirty>>
  <2>1. Bits[pc[t]] # {}
    BY BitsOf
  <2> QED
    BY <2>1 DEF WriteRegister, Writing, StepTo, KeepHost
<1>2. step'[t] = "reload" /\ \A u \in Threads : u # t => step'[u] = step[u]
  BY <1>1 DEF IInv, Always, Types
<1>3. /\ path' \in Paths /\ Moves(path') = Moves(path)
      /\ Quiet(path') <=> Quiet(path)
      /\ path' = path \/ path'.aborting
      /\ ~dirty => Aborted(path')
  BY AbortWord
<1>4. t # "main" => t \in AbortThreads
  BY ThreadNames
<1>5. AbortTaken'
  <2>1. pc["main"] = "abort_poll" /\ ~dirty => Within(Moves(path), timer["main"])
    BY DEF IInv, AbortTaken
  <2>2. pc["main"] = "abort_poll" /\ ~dirty => Within(Moves(path), timer["main"])'
    BY <1>1, <1>3, <2>1 DEF Within
  <2>3. ~dirty => Aborted(path)'
    BY <1>3 DEF Aborted, Quiet
  <2> QED
    BY <1>1, <2>2, <2>3 DEF AbortTaken
<1>6. LoopShared'
  <2>1. SUFFICES ASSUME ~dirty, pc["main"] \in Looping PROVE LoopShared'
    BY <1>1 DEF LoopShared
  <2>2. t \in AbortThreads
    BY <1>4, <2>1 DEF Looping, Grabbing
  <2>3. AbortRunning = t
    BY <2>1, <2>2 DEF IInv, LoopShared, Aborting
  <2>4. \A u \in AbortThreads : pc[u] # "abort_poll"
    BY <2>1, <2>3 DEF IInv, LoopShared, Aborting
  <2>5. pc["main"] # "snapshot"
    BY <2>2, <2>3, ThreadNames DEF IInv, Always, MutexHeld, Grabbing
  <2>6. \A u \in AbortThreads : pc[u] \in Aborting => AbortRunning = u
    BY <2>1 DEF IInv, LoopShared
  <2> QED
    BY <1>1, <2>2, <2>3, <2>4, <2>5, <2>6 DEF LoopShared
<1>7. LeftIdle'
  <2>1. ~dirty => pc["main"] \notin Starting
    BY <1>4 DEF IInv, LeftIdle, Starting
  <2>2. Quiet(path)' <=> Quiet(path)
    BY <1>3 DEF Quiet
  <2> QED
    BY <1>1, <2>1, <2>2 DEF IInv, LeftIdle
<1>8. ThreadsEnd'
  <2>1. SUFFICES ASSUME ~dirty, pc["main"] = "destroy" PROVE ThreadsEnd'
    BY <1>1 DEF IInv, ThreadsEnd
  <2>2. t \in AbortThreads
    BY <1>4, <2>1
  <2>3. t \in Askers
    BY <1>1, <2>2 DEF Askers, Asking
  <2>4. Askers' = Askers \ {t}
    <3>1. ASSUME NEW u \in AbortThreads PROVE Asking(u)' <=> Asking(u) /\ u # t
      <4>1. CASE u = t
        BY <1>1, <1>2, <4>1 DEF Asking
      <4>2. CASE u # t
        BY <1>1, <1>2, <4>2, ThreadNames DEF Asking
      <4> QED
        BY <4>1, <4>2
    <3> QED
      BY <3>1 DEF Askers
  <2>5. /\ Cardinality(Askers') = Cardinality(Askers) - 1
        /\ Cardinality(Askers) \in Nat /\ Cardinality(Askers') \in Nat
    <3>1. IsFiniteSet(Askers) /\ Cardinality(Askers) \in Nat
      BY AskersFinite DEF Timely
    <3>2. /\ IsFiniteSet(Askers \ {t})
          /\ Cardinality(Askers \ {t}) = Cardinality(Askers) - 1
      BY <2>3, <3>1, FS_RemoveElement
    <3>3. Cardinality(Askers \ {t}) \in Nat
      BY <3>2, FS_CardinalityType
    <3> QED
      BY <2>4, <3>1, <3>2, <3>3
  <2>6. AbortTicks \in 0 .. FrameTicks /\ AbortTicks' \in 0 .. FrameTicks /\ FrameTicks \in Nat
    <3>1. age \in 0 .. FrameTicks /\ age' = age /\ FrameTicks \in Nat
      BY <1>1, Typed, SessionAssumption DEF IInv
    <3>2. AbortTicks' = IF path'.aborting THEN FrameTicks - age ELSE 0
      BY <3>1 DEF AbortTicks
    <3>3. AbortTicks' \in 0 .. FrameTicks
      <4>1. FrameTicks - age \in 0 .. FrameTicks
        BY <3>1
      <4> QED
        BY <3>1, <3>2, <4>1
    <3> QED
      BY <3>1, <3>3, AbortTicksRange
  <2>7. timer["main"] \in Nat /\ AbortSleep \subseteq Nat
    BY Typed, ThreadNames, SessionAssumption DEF IInv
  <2>8. ASSUME NEW s \in AbortSleep \cup {0}
        PROVE  /\ Cardinality(Askers') * FrameTicks + AbortTicks' + s < timer["main"]
               /\ AbortTicks' < timer["main"]
    <3>1. Cardinality(Askers) * FrameTicks + AbortTicks + s < timer["main"]
      BY <2>1, <2>2 DEF IInv, ThreadsEnd, Aborting
    <3>2. Cardinality(Askers) > 0 /\ s \in Nat
      BY <2>5, <2>7
    <3> HIDE DEF AbortTicks
    <3> QED
      BY <2>5, <2>6, <2>7, <3>1, <3>2, AskerLess
  <2>9. AbortTicks' < timer["main"]
    BY <2>8
  <2> QED
    BY <1>1, <2>1, <2>8, <2>9 DEF IInv, ThreadsEnd
<1> QED
  BY <1>5, <1>6, <1>7, <1>8 DEF Clean

\* In the loop a command of the main thread meets no abort.
LEMMA GrabsMeetNoAbort ==
  ASSUME IInv, ~dirty, pc["main"] \in Grabbing
  PROVE  ~path.aborting /\ \A u \in AbortThreads : pc[u] \notin Aborting
<1>1. pc["main"] \in Looping /\ AbortRunning = "main"
  BY DEF Looping, IInv, Always, MutexHeld
<1> QED
  BY <1>1, ThreadNames DEF IInv, LoopShared

\* What is left to say when the main thread stays among the places of a grab.
LEMMA GrabbingClean ==
  ASSUME IInv, pc["main"] \in Grabbing, pc'["main"] \in Grabbing,
         UNCHANGED <<AbortRunning, buffer, dirty>>, path'.aborting = path.aborting,
         \A u \in AbortThreads : pc'[u] = pc[u],
         pc'["main"] = "snapshot" => step'["main"] \notin {"load", "set", "write"}
  PROVE  Clean'
<1>1. SUFFICES ASSUME ~dirty PROVE Clean'
  BY DEF Clean, AbortTaken, LoopShared, LeftIdle, ThreadsEnd, Grabbing
<1>2. ~path'.aborting /\ \A u \in AbortThreads : pc'[u] \notin Aborting
  BY <1>1, GrabsMeetNoAbort
<1>3. pc'["main"] \notin {"abort", "abort_poll", "destroy"}
  BY DEF Grabbing
<1>4. \A u \in Threads : pc'[u] \notin {"abort", "abort_poll"}
  BY <1>2, <1>3, ThreadNames DEF Aborting
<1>5. AbortTaken'
  BY <1>3, <1>4 DEF AbortTaken
<1>6. LoopShared'
  <2>1. \A u \in AbortThreads : pc'[u] # "abort_poll"
    BY <1>4, ThreadNames
  <2> QED
    BY <1>2, <2>1 DEF LoopShared
<1>7. LeftIdle'
  <2>1. buffer
    BY <1>1 DEF IInv, LeftIdle, Looping
  <2>2. pc'["main"] \notin Starting \cup Cleared \cup {"hispi_clr", "failed"}
    BY DEF Grabbing, Starting, Cleared
  <2> QED
    BY <2>1, <2>2 DEF LeftIdle
<1>8. ThreadsEnd'
  BY <1>3 DEF ThreadsEnd
<1> QED
  BY <1>5, <1>6, <1>7, <1>8 DEF Clean

LEMMA GrabWriteClean ==
  ASSUME IInv, pc["main"] # "abort", WriteRegister("main")
  PROVE  Clean'
<1>1. /\ Writing("main", "write") /\ path' = Command(path, shadow)
      /\ UNCHANGED <<AbortRunning, buffer, dirty>>
  BY DEF WriteRegister, KeepHost
<1>2. pc["main"] \in {"params", "grab_cmd", "snapshot"} /\ shadow = Bits[pc["main"]]
  BY <1>1, WordOf, BitsOf, ThreadNames DEF IInv
<1>3. path'.aborting = path.aborting
  <2>1. path \in Paths
    BY Typed DEF IInv
  <2>2. shadow \in {{}, {"GRAB_CMD"}, {"GRAB_SS"}}
    BY <1>2, BitsOf
  <2> QED
    BY <1>1, <2>1, <2>2, NoCommand, GrabCommand, SnapshotCommand
<1>4. CASE pc["main"] = "params"
  <2>1. Goto("main", "grab_cmd", 0)
    BY <1>4, BitsOf DEF WriteRegister
  <2>2. pc'["main"] = "grab_cmd" /\ \A u \in AbortThreads : pc'[u] = pc[u]
    BY <2>1, ThreadNames DEF Goto, IInv, Always, Types
  <2> QED
    BY <1>1, <1>3, <1>4, <2>2, GrabbingClean DEF Grabbing
<1>5. CASE pc["main"] \in {"grab_cmd", "snapshot"}
  <2>1. step' = [step EXCEPT !["main"] = "reload"] /\ UNCHANGED pc
    BY <1>5, BitsOf DEF WriteRegister, StepTo
  <2>2. step'["main"] = "reload"
    BY <2>1, ThreadNames DEF IInv, Always, Types
  <2>3. pc["main"] \in Grabbing
    BY <1>5 DEF Grabbing
  <2> QED
    BY <1>1, <1>3, <2>1, <2>2, <2>3, GrabbingClean
<1> QED
  BY <1>2, <1>4, <1>5

LEMMA ClearClean ==
  ASSUME IInv, Timely, NEW t \in Threads, ClearShadow(t)
  PROVE  Clean'
<1>1. /\ pc[t] \in WritePlaces /\ step[t] = "clear"
      /\ step' = [step EXCEPT ![t] = "load"]
      /\ Goto(t, Then[pc[t]], IF pc[t] = "abort" THEN PollLimit ELSE 0)
      /\ UNCHANGED <<AbortRunning, StopAbortThread, buffer, path, dma, age, dirty>>
  BY DEF ClearShadow, Writing, WritePlaces, StepTo, KeepHost, KeepFpga
<1>2. CASE pc[t] # "abort"
  <2>1. t = "main"
    BY <1>1, <1>2, ThreadNames DEF IInv, Always, Types, ThreadPlaces, Aborting, WritePlaces, Bits
  <2>2. pc["main"] \in Grabbing /\ Then[pc["main"]] \in Grabbing /\ Then[pc["main"]] # "snapshot"
    BY <1>1, <1>2, <2>1, BitsOf DEF Grabbing
  <2>3. pc'["main"] = Then[pc["main"]] /\ \A u \in AbortThreads : pc'[u] = pc[u]
    BY <1>1, <2>1, ThreadNames DEF Goto, IInv, Always, Types
  <2> QED
    BY <1>1, <2>2, <2>3, GrabbingClean
<1>3. CASE pc[t] = "abort"
  <2>1. Goto(t, "abort_poll", PollLimit)
    BY <1>1, <1>3, BitsOf
  <2>2. /\ pc'[t] = "abort_poll" /\ timer'[t] = PollLimit /\ step'[t] = "load"
        /\ \A u \in Threads : u # t => pc'[u] = pc[u] /\ timer'[u] = timer[u] /\ step'[u] = step[u]
    BY <1>1, <2>1 DEF Goto, IInv, Always, Types, SessionTypeOK
  <2>3. ~dirty => Aborted(path)
    BY <1>1, <1>3 DEF IInv, AbortTaken
  <2>4. Within(Moves(path) + 1, PollLimit) /\ Within(Moves(path), PollLimit)
    <3>1. /\ Moves(path) \in 0 .. 5 /\ age \in 0 .. FrameTicks
          /\ FrameTicks \in Nat /\ PollLimit \in Nat /\ 6 * FrameTicks < PollLimit
      BY Typed, MovesRange, SessionAssumption DEF IInv, Timely
    <3>2. \A m \in 0 .. 6 : m * FrameTicks <= 6 * FrameTicks
      BY <3>1
    <3>3. \A m \in 0 .. 6 : m * FrameTicks - age < PollLimit
      <4>1. ASSUME NEW m \in 0 .. 6 PROVE m * FrameTicks - age < PollLimit
        <5>1. m * FrameTicks \in Nat /\ m * FrameTicks <= 6 * FrameTicks
          BY <3>1, <3>2
        <5> QED
          BY <3>1, <5>1
      <4> QED
        BY <4>1
    <3> QED
      BY <3>1, <3>3 DEF Within
  <2>5. t # "main" => t \in AbortThreads
    BY ThreadNames
  <2>6. t # "main" => pc'["main"] = pc["main"] /\ timer'["main"] = timer["main"] /\ step'["main"] = step["main"]
    BY <2>2, ThreadNames
  <2>7. AbortTaken'
    <3>1. ~dirty => Aborted(path)'
      BY <1>1, <2>3 DEF Aborted, Quiet
    <3>2. pc'["main"] = "abort_poll" /\ ~dirty => Within(Moves(path), timer'["main"])
      BY <2>2, <2>4, <2>6 DEF IInv, AbortTaken
    <3> QED
      BY <1>1, <3>1, <3>2 DEF AbortTaken, Within
  <2>8. LoopShared'
    <3>1. SUFFICES ASSUME ~dirty, t # "main", pc["main"] \in Looping PROVE LoopShared'
      BY <1>1, <2>2, <2>6 DEF LoopShared, Looping, Grabbing
    <3>2. AbortRunning = t /\ t \in AbortThreads
      BY <1>3, <2>5, <3>1 DEF IInv, LoopShared, Aborting
    <3>3. \A u \in AbortThreads : pc'[u] \in Aborting => AbortRunning = u
      BY <2>2, <3>1, <3>2, ThreadNames DEF IInv, LoopShared
    <3>4. \A u \in AbortThreads :
            pc'[u] = "abort_poll" /\ path.aborting => Within(Moves(path) + 1, timer'[u])
      BY <2>2, <2>4, <3>1, ThreadNames DEF IInv, LoopShared
    <3> QED
      BY <1>1, <2>2, <2>6, <3>1, <3>2, <3>3, <3>4 DEF IInv, LoopShared, Within
  <2>9. LeftIdle'
    <3>1. SUFFICES ASSUME ~dirty PROVE LeftIdle'
      BY <1>1 DEF LeftIdle
    <3>2. CASE t = "main"
      <4>1. buffer
        BY <1>3, <3>1, <3>2 DEF IInv, LeftIdle
      <4>2. "abort_poll" \notin Starting \cup Cleared \cup {"hispi_clr", "failed"}
        BY DEF Starting, Cleared
      <4> QED
        BY <1>1, <2>2, <3>2, <4>1, <4>2 DEF LeftIdle
    <3>3. CASE t # "main"
      <4>1. pc["main"] \notin Starting
        BY <1>3, <2>5, <3>1, <3>3 DEF IInv, LeftIdle
      <4> QED
        BY <1>1, <2>6, <3>1, <3>3, <4>1 DEF IInv, LeftIdle, Quiet
    <3> QED
      BY <3>2, <3>3
  <2>10. ThreadsEnd'
    <3>1. CASE t = "main"
      BY <2>2, <3>1 DEF ThreadsEnd
    <3>2. CASE t # "main"
      <4>1. \A u \in AbortThreads : Asking(u)' <=> Asking(u)
        <5>1. ASSUME NEW u \in AbortThreads PROVE Asking(u)' <=> Asking(u)
          <6>1. CASE u = t
            BY <1>1, <1>3, <2>2, <6>1 DEF Asking
          <6>2. CASE u # t
            BY <2>2, <6>2, ThreadNames DEF Asking
          <6> QED
            BY <6>1, <6>2
        <5> QED
          BY <5>1
      <4>2. Askers' = Askers
        BY <4>1 DEF Askers
      <4>3. AbortTicks' = AbortTicks
        BY <1>1 DEF AbortTicks
      <4>4. (\E u \in AbortThreads : pc'[u] \in Aborting \cup {"acquire"}) =>
              \E u \in AbortThreads : pc[u] \in Aborting \cup {"acquire"}
        BY <1>3, <2>2, <2>5, <3>2, ThreadNames DEF Aborting
      <4>5. \A u \in AbortThreads : pc'[u] = "check" => pc[u] = "check" /\ timer'[u] = timer[u]
        BY <2>2, ThreadNames
      <4> QED
        BY <1>1, <2>6, <3>2, <4>2, <4>3, <4>4, <4>5 DEF IInv, ThreadsEnd
    <3> QED
      BY <3>1, <3>2
  <2> QED
    BY <2>7, <2>8, <2>9, <2>10 DEF Clean
<1> QED
  BY <1>2, <1>3

LEMMA WriteClean ==
  ASSUME IInv, Timely, NEW t \in Threads, RegisterWrite(t)
  PROVE  Clean' /\ NoneStarts'
<1>1. Ending'
  BY WriteEnding, DestroyStops DEF IInv
<1>2. ASSUME WriteRegister(t), pc[t] # "abort" PROVE t = "main"
  BY <1>2, ThreadNames DEF WriteRegister, Writing, Bits, IInv, Always, Types, ThreadPlaces, Aborting
<1>3. Clean'
  BY <1>2, LoadClean, StoreClean, AbortWriteClean, GrabWriteClean, ReloadClean, ClearClean
     DEF RegisterWrite
<1> QED
  BY <1>1, <1>3 DEF Ending

-----------------------------------------------------------------------------
(* The key 'A', a kill, the FPGA and time. *)

LEMMA KeyAClean ==
  ASSUME IInv, KeyA
  PROVE  Clean' /\ NoneStarts'
<1>1. PICK t \in AbortThreads :
        /\ pc["main"] = "key" /\ pc[t] = "off"
        /\ pc' = [pc EXCEPT !["main"] = "acquire", ![t] = "start"]
  BY DEF KeyA, At
<1>2. UNCHANGED <<step, shadow, AbortRunning, StopAbortThread, buffer, timer, path, dma, age, dirty>>
  BY DEF KeyA, KeepWrite, KeepHost, KeepFpga
<1>3. /\ pc'["main"] = "acquire" /\ pc'[t] = "start"
      /\ \A u \in AbortThreads : u # t => pc'[u] = pc[u]
  BY <1>1, ThreadNames DEF IInv, Always, Types
<1>4. \A u \in Threads : pc'[u] \in {"abort", "abort_poll"} => pc'[u] = pc[u]
  BY <1>3, ThreadNames
<1>5. AbortTaken'
  BY <1>2, <1>3, <1>4 DEF IInv, AbortTaken, Aborted, Quiet
<1>6. LoopShared'
  <2>1. SUFFICES ASSUME ~dirty PROVE LoopShared'
    BY <1>2 DEF LoopShared
  <2>2. pc["main"] \in Looping
    BY <1>1 DEF Looping
  <2>3. path.aborting => \E u \in AbortThreads : AbortRunning = u /\ pc'[u] \in {"abort", "abort_poll"}
    <3>1. \A u \in AbortThreads : pc[u] \in {"abort", "abort_poll"} => pc'[u] = pc[u]
      BY <1>1, <1>3
    <3> QED
      BY <2>1, <2>2, <3>1 DEF IInv, LoopShared
  <2>4. \A u \in AbortThreads : pc'[u] \in Aborting => AbortRunning = u
    BY <1>3, <2>1, <2>2 DEF IInv, LoopShared, Aborting
  <2>5. \A u \in AbortThreads :
          pc'[u] = "abort_poll" /\ path.aborting => Within(Moves(path) + 1, timer[u])
    BY <1>3, <2>1, <2>2 DEF IInv, LoopShared
  <2> QED
    BY <1>2, <1>3, <2>3, <2>4, <2>5 DEF LoopShared, Within
<1>7. LeftIdle'
  <2>1. ~dirty => buffer
    BY <1>1 DEF IInv, LeftIdle, Looping
  <2>2. "acquire" \notin Starting \cup Cleared \cup {"hispi_clr", "failed"}
    BY DEF Starting, Cleared
  <2> QED
    BY <1>2, <1>3, <2>1, <2>2 DEF LeftIdle
<1>8. ThreadsEnd' /\ NoneStarts'
  BY <1>3 DEF ThreadsEnd, NoneStarts, Cleared
<1> QED
  BY <1>5, <1>6, <1>7, <1>8 DEF Clean

\* A session that starts on an FPGA at rest, or after a kill during a grab.
LEMMA FreshClean ==
  ASSUME pc' = [t \in Threads |-> IF t = "main" THEN "menu" ELSE "off"],
         ~dirty' => path' = AtRest /\ ~dma'
  PROVE  Clean' /\ NoneStarts'
<1>1. pc'["main"] = "menu" /\ \A t \in AbortThreads : pc'[t] = "off"
  BY ThreadNames
<1>2. \A t \in Threads : pc'[t] \in {"menu", "off"}
  OBVIOUS
<1>3. ~dirty' => Quiet(path)' /\ ~path'.aborting
  BY RestFields DEF Quiet
<1>4. "menu" \notin Looping \cup {"abort", "abort_poll", "hispi_clr", "hispi_on"} \cup Cleared
  BY DEF Looping, Grabbing, Cleared
<1>5. AbortTaken'
  BY <1>1, <1>2 DEF AbortTaken
<1>6. LoopShared' /\ ThreadsEnd' /\ NoneStarts'
  BY <1>1, <1>4 DEF LoopShared, ThreadsEnd, NoneStarts
<1>7. LeftIdle'
  BY <1>1, <1>3, <1>4 DEF LeftIdle
<1> QED
  BY <1>5, <1>6, <1>7 DEF Clean

LEMMA KillClean ==
  ASSUME IInv, Kill
  PROVE  Clean' /\ NoneStarts'
<1>1. /\ pc' = [t \in Threads |-> IF t = "main" THEN "menu" ELSE "off"]
      /\ UNCHANGED <<path, dma>>
  BY DEF Kill
<1>2. ~dirty' => path = AtRest /\ ~dma
  BY DEF Kill
<1> QED
  BY <1>1, <1>2, FreshClean

\* Without a change of what the parts are about they stay.
LEMMA SameClean ==
  ASSUME IInv, UNCHANGED <<hostVars, path, age, dirty>>, ~dirty /\ ~dma => ~dma'
  PROVE  Clean' /\ NoneStarts'
<1> USE DEF IInv, hostVars
<1>1. AbortTaken'
  BY DEF AbortTaken, Aborted, Quiet, Within
<1>2. LoopShared'
  BY DEF LoopShared, Within
<1>3. LeftIdle'
  BY DEF LeftIdle, Quiet
<1>4. ThreadsEnd' /\ NoneStarts'
  <2>1. Askers' = Askers /\ AbortTicks' = AbortTicks
    BY DEF Askers, Asking, AbortTicks
  <2> QED
    BY <2>1 DEF ThreadsEnd, NoneStarts
<1> QED
  BY <1>1, <1>2, <1>3, <1>4 DEF Clean

LEMMA GrabClean ==
  ASSUME IInv, Timely, Controller \/ SensorAnswers
  PROVE  Clean' /\ NoneStarts'
<1>1. /\ path' \in Alone(path) \cup Sensor(path) /\ path' # path /\ age' = 0
      /\ dma' = (dma \/ path'.phase = "fot")
      /\ UNCHANGED <<hostVars, dirty>>
  BY DEF Controller, SensorAnswers, GrabStep
<1>2. UNCHANGED <<pc, step, timer, shadow, AbortRunning, StopAbortThread, buffer>>
  BY <1>1 DEF hostVars
<1>3. /\ path \in Paths /\ path' \in Paths /\ age \in 0 .. FrameTicks /\ FrameTicks \in Nat
      /\ \A t \in Threads : timer[t] \in Nat
  BY <1>1, Typed, MovesOf, SessionAssumption DEF IInv
<1>4. Moves(path) \in 0 .. 5 /\ Moves(path') \in 0 .. 5 /\ (Quiet(path') => Moves(path') = 0)
  BY <1>3, MovesRange
<1>5. Quiet(path) => Quiet(path') /\ ~path'.aborting
  BY <1>1, <1>3, QuietMoves
<1>6. path'.aborting => path.aborting /\ Moves(path') < Moves(path)
  BY <1>1, <1>3, AbortingMoves, OtherMoves
<1>7. Aborted(path) => Aborted(path') /\ (Moves(path') = 0 \/ Moves(path') < Moves(path))
  BY <1>1, <1>3, <1>4, <1>5, AbortingMoves DEF Aborted
<1>8. ASSUME NEW m \in Nat, NEW n \in Nat, m < n, NEW t \in Threads, Within(n, timer[t])
      PROVE  m * FrameTicks - 0 < timer[t]
  <2>1. n * FrameTicks - age < timer[t]
    BY <1>8 DEF Within
  <2>2. m * FrameTicks < timer[t]
    BY <1>3, <1>8, <2>1, WithinMoves
  <2>3. m * FrameTicks - 0 = m * FrameTicks
    BY <1>3
  <2> QED
    BY <2>2, <2>3
<1>9. AbortTaken'
  <2>1. SUFFICES ASSUME ~dirty PROVE AbortTaken'
    BY <1>1 DEF AbortTaken
  <2>2. Aborted(path) => Aborted(path)'
    BY <1>7 DEF Aborted, Quiet
  <2>3. pc["main"] = "abort_poll" => Within(Moves(path), timer["main"])'
    <3>1. SUFFICES ASSUME pc["main"] = "abort_poll" PROVE Within(Moves(path), timer["main"])'
      OBVIOUS
    <3>2. Aborted(path) /\ Within(Moves(path), timer["main"])
      BY <2>1, <3>1, ThreadNames DEF IInv, AbortTaken
    <3>3. CASE Moves(path') = 0
      BY <3>3 DEF Within
    <3>4. CASE Moves(path') < Moves(path)
      <4>1. Moves(path') * FrameTicks - 0 < timer["main"]
        BY <1>4, <1>8, <3>2, <3>4, ThreadNames
      <4> QED
        BY <1>1, <1>2, <4>1 DEF Within
    <3> QED
      BY <1>7, <3>2, <3>3, <3>4
  <2> QED
    BY <1>1, <1>2, <2>1, <2>2, <2>3 DEF IInv, AbortTaken
<1>10. LoopShared'
  <2>1. SUFFICES ASSUME ~dirty, pc["main"] \in Looping PROVE LoopShared'
    BY <1>1, <1>2 DEF LoopShared
  <2>2. ASSUME NEW u \in AbortThreads, pc[u] = "abort_poll", path'.aborting
        PROVE  Within(Moves(path) + 1, timer[u])'
    <3>1. Within(Moves(path) + 1, timer[u]) /\ Moves(path') < Moves(path)
      BY <1>6, <2>1, <2>2 DEF IInv, LoopShared
    <3>2. (Moves(path') + 1) * FrameTicks - 0 < timer[u]
      BY <1>4, <1>8, <3>1, ThreadNames
    <3> QED
      BY <1>1, <1>2, <3>2 DEF Within
  <2>3. pc["main"] = "snapshot" /\ path.phase = "armed" => path'.phase = "armed"
    <3>1. pc["main"] = "snapshot" => ~path.aborting
      BY <2>1, GrabsMeetNoAbort DEF Grabbing
    <3> QED
      BY <1>1, <1>3, <3>1, OtherMoves
  <2> QED
    BY <1>2, <1>6, <2>1, <2>2, <2>3 DEF IInv, LoopShared
<1>11. LeftIdle'
  <2>1. SUFFICES ASSUME ~dirty PROVE LeftIdle'
    BY <1>1 DEF LeftIdle
  <2>2. Quiet(path) => Quiet(path)' /\ (~dma => ~dma')
    BY <1>1, <1>5 DEF Quiet
  <2>3. pc["main"] \in Starting => FALSE
    BY <1>1, <1>3, <2>1, OtherMoves DEF IInv, LeftIdle
  <2> QED
    BY <1>1, <1>2, <2>1, <2>2, <2>3 DEF IInv, LeftIdle
<1>12. ThreadsEnd'
  <2>1. SUFFICES ASSUME ~dirty, pc["main"] = "destroy" PROVE ThreadsEnd'
    BY <1>1, <1>2 DEF IInv, ThreadsEnd
  <2>2. ~path'.aborting
    BY <1>5, <2>1 DEF IInv, LeftIdle, Cleared
  <2>3. Askers' = Askers /\ AbortTicks' = 0
    BY <1>2, <2>2 DEF Askers, Asking, AbortTicks
  <2>4. /\ AbortTicks \in Nat /\ AbortSleep \subseteq Nat /\ timer["main"] \in Nat
        /\ Cardinality(Askers) * FrameTicks \in Nat
    <3>1. Cardinality(Askers) \in Nat /\ AbortTicks \in 0 .. FrameTicks
      BY <1>3, AskersFinite, AbortTicksRange DEF Timely
    <3>2. Cardinality(Askers) * FrameTicks \in Nat /\ AbortTicks \in Nat
      BY <1>3, <3>1
    <3> QED
      BY <1>3, <3>2, ThreadNames, SessionAssumption
  <2>5. ASSUME NEW s \in AbortSleep \cup {0}, NEW u \in AbortThreads, pc[u] \in Aborting \cup {"acquire"}
        PROVE  Cardinality(Askers) * FrameTicks + 0 + s < timer["main"]
    <3>1. Cardinality(Askers) * FrameTicks + AbortTicks + s < timer["main"]
      BY <2>1, <2>5 DEF IInv, ThreadsEnd
    <3> QED
      BY <2>4, <3>1
  <2> QED
    BY <1>1, <1>2, <2>1, <2>2, <2>3, <2>5 DEF IInv, ThreadsEnd
<1>13. NoneStarts'
  BY <1>2 DEF IInv, NoneStarts
<1> QED
  BY <1>9, <1>10, <1>11, <1>12, <1>13 DEF Clean

\* While an abort lasts the controller grows older with every tick.
LEMMA TickAge ==
  ASSUME IInv, Tick, ~dirty, path.aborting
  PROVE  /\ age' = age + 1 /\ age < FrameTicks
         /\ age \in Nat /\ FrameTicks \in Nat
<1>1. Moving
  BY DEF Moving
<1>2. age < FrameTicks
  BY <1>1 DEF Tick
<1>3. age' = age + 1
  BY <1>1, <1>2 DEF Tick
<1> QED
  BY <1>2, <1>3, Typed, SessionAssumption DEF IInv

LEMMA TickWithin ==
  ASSUME IInv, Tick, ~dirty, path.aborting, NEW t \in Threads, timer[t] > 0,
         NEW m \in Nat, Within(m, timer[t])
  PROVE  m > 0 => m * FrameTicks - age' < timer'[t]
<1>1. SUFFICES ASSUME m > 0 PROVE m * FrameTicks - age' < timer'[t]
  OBVIOUS
<1>2. m * FrameTicks - age < timer[t]
  BY <1>1 DEF Within
<1>3. timer[t] \in Nat /\ timer'[t] = timer[t] - 1
  BY TickTimers DEF IInv, Always
<1>4. age' = age + 1 /\ age \in Nat /\ m * FrameTicks \in Nat
  BY TickAge
<1> QED
  BY <1>2, <1>3, <1>4

LEMMA MainPollTick ==
  ASSUME Tick, pc["main"] \in {"abort_poll", "destroy"}
  PROVE  timer["main"] > 0 /\ (pc["main"] = "abort_poll" => path.aborting)
<1>1. Waiting("main")
  BY ThreadNames DEF Tick
<1> QED
  BY <1>1 DEF Waiting, At

LEMMA TickClean ==
  ASSUME IInv, Timely, Tick
  PROVE  Clean' /\ NoneStarts'
<1>1. /\ UNCHANGED <<pc, step, shadow, AbortRunning, StopAbortThread, buffer, path, dma, dirty>>
      /\ \A t \in Threads : Waiting(t)
      /\ ~dma \/ path.readout
  BY DEF Tick
<1>2. \A t \in Threads : /\ timer[t] \in Nat /\ timer'[t] \in Nat /\ timer'[t] <= timer[t]
                         /\ timer'[t] = IF timer[t] > 0 THEN timer[t] - 1 ELSE 0
  BY TickTimers DEF IInv, Always
<1>3. Moves(path) \in Nat /\ Moves(path) + 1 \in Nat
  BY MovesRange, Typed DEF IInv
<1>4. ASSUME NEW t \in AbortThreads
      PROVE  /\ pc[t] \notin {"start", "abort", "release"}
             /\ pc[t] = "acquire" => AbortRunning \notin {"free", "none"}
             /\ pc[t] = "abort_poll" => path.aborting /\ timer[t] > 0
             /\ pc[t] = "check" => timer[t] > 0
  BY <1>1, ThreadNames, NoTickAborting DEF IInv, Always
<1>5. NoneStarts'
  BY <1>1, <1>4 DEF NoneStarts
<1>6. AbortTaken'
  <2>1. SUFFICES ASSUME ~dirty PROVE AbortTaken'
    BY <1>1 DEF AbortTaken
  <2>2. ASSUME pc["main"] = "abort_poll"
        PROVE  Moves(path) > 0 => Moves(path) * FrameTicks - age' < timer'["main"]
    <3>1. Within(Moves(path), timer["main"])
      BY <2>1, <2>2 DEF IInv, AbortTaken
    <3> QED
      BY <1>3, <2>1, <2>2, <3>1, MainPollTick, TickWithin, ThreadNames
  <2>3. Aborted(path)' <=> Aborted(path)
    BY <1>1 DEF Aborted, Quiet
  <2> QED
    BY <1>1, <2>1, <2>2, <2>3 DEF IInv, AbortTaken, Within
<1>7. LoopShared'
  <2>1. SUFFICES ASSUME ~dirty, pc["main"] \in Looping PROVE LoopShared'
    BY <1>1 DEF LoopShared
  <2>2. ASSUME NEW t \in AbortThreads, pc[t] = "abort_poll", path.aborting
        PROVE  (Moves(path) + 1) > 0 => (Moves(path) + 1) * FrameTicks - age' < timer'[t]
    <3>1. Within(Moves(path) + 1, timer[t])
      BY <2>1, <2>2 DEF IInv, LoopShared
    <3> QED
      BY <1>3, <1>4, <2>1, <2>2, <3>1, TickWithin, ThreadNames
  <2> QED
    BY <1>1, <2>1, <2>2 DEF IInv, LoopShared, Within
<1>8. LeftIdle'
  <2>1. SUFFICES ASSUME ~dirty PROVE LeftIdle'
    BY <1>1 DEF LeftIdle
  <2>2. pc["main"] = "hispi_clr" => ~dma
    BY <1>1, <2>1 DEF IInv, LeftIdle, Quiet
  <2>3. Quiet(path)' <=> Quiet(path)
    BY <1>1 DEF Quiet
  <2> QED
    BY <1>1, <2>1, <2>2, <2>3 DEF IInv, LeftIdle
<1>9. ThreadsEnd'
  <2>1. SUFFICES ASSUME ~dirty, pc["main"] = "destroy" PROVE ThreadsEnd'
    BY <1>1 DEF IInv, ThreadsEnd
  <2>2. timer["main"] > 0 /\ timer["main"] \in Nat /\ timer'["main"] = timer["main"] - 1
    BY <1>2, <2>1, MainPollTick, ThreadNames
  <2>3. Askers' = Askers
    BY <1>1 DEF Askers, Asking
  <2>4. path.aborting => AbortTicks' = AbortTicks - 1 /\ AbortTicks \in Nat
    <3>1. SUFFICES ASSUME path.aborting PROVE AbortTicks' = AbortTicks - 1 /\ AbortTicks \in Nat
      OBVIOUS
    <3>2. age' = age + 1 /\ age < FrameTicks /\ age \in Nat /\ FrameTicks \in Nat
      BY <2>1, <3>1, TickAge
    <3>3. AbortTicks = FrameTicks - age /\ AbortTicks' = FrameTicks - age'
      BY <1>1, <3>1 DEF AbortTicks
    <3> QED
      BY <3>2, <3>3
  <2>5. path.aborting => AbortTicks' < timer'["main"]
    BY <2>1, <2>2, <2>4 DEF IInv, ThreadsEnd
  <2>6. (\E t \in AbortThreads : pc[t] \in Aborting \cup {"acquire"}) => path.aborting
    <3>1. SUFFICES ASSUME NEW t \in AbortThreads, pc[t] \in Aborting \cup {"acquire"}
                   PROVE  path.aborting
      OBVIOUS
    <3>2. CASE pc[t] \in Aborting
      BY <1>4, <3>2 DEF Aborting
    <3>3. CASE pc[t] = "acquire"
      <4>1. AbortRunning \in Threads /\ AbortRunning # "main"
        BY <1>4, <2>1, <3>3, TypesOf DEF IInv, Always, MutexHeld, Grabbing
      <4>2. PICK u \in AbortThreads : AbortRunning = u
        BY <4>1, ThreadNames
      <4>3. pc[u] \in Aborting
        BY <4>2 DEF IInv, Always, MutexHeld
      <4> QED
        BY <1>4, <4>3 DEF Aborting
    <3> QED
      BY <3>1, <3>2, <3>3
  <2>7. ASSUME NEW s \in AbortSleep \cup {0}, NEW t \in AbortThreads,
               pc[t] \in Aborting \cup {"acquire"}
        PROVE  Cardinality(Askers) * FrameTicks + AbortTicks' + s < timer'["main"]
    <3>1. Cardinality(Askers) * FrameTicks + AbortTicks + s < timer["main"]
      BY <2>1, <2>7 DEF IInv, ThreadsEnd
    <3>2. Cardinality(Askers) * FrameTicks \in Nat /\ s \in Nat
      <4>1. Cardinality(Askers) \in Nat /\ FrameTicks \in Nat
        BY AskersFinite, SessionAssumption DEF Timely
      <4> QED
        BY <4>1, SessionAssumption
    <3>3. AbortTicks' = AbortTicks - 1 /\ AbortTicks \in Nat
      BY <2>4, <2>6, <2>7
    <3> QED
      BY <2>2, <3>1, <3>2, <3>3
  <2>8. ASSUME NEW t \in AbortThreads, pc[t] = "check" PROVE timer'[t] < timer'["main"]
    <3>1. timer[t] < timer["main"] /\ timer[t] > 0
      BY <1>4, <2>1, <2>8 DEF IInv, ThreadsEnd
    <3> QED
      BY <1>2, <2>2, <3>1, ThreadNames
  <2> QED
    BY <1>1, <2>1, <2>3, <2>5, <2>7, <2>8 DEF IInv, ThreadsEnd
<1> QED
  BY <1>5, <1>6, <1>7, <1>8, <1>9 DEF Clean

-----------------------------------------------------------------------------
(* The invariant, and what follows from it when the times are right. *)

LEMMA InvInit ==
  ASSUME SessionInit
  PROVE  IInv
<1>1. pc["main"] = "menu" /\ \A t \in AbortThreads : pc[t] = "off"
  BY ThreadNames DEF SessionInit
<1>2. \A t \in Threads : pc[t] \in {"menu", "off"}
  BY DEF SessionInit
<1>3. path = AtRest /\ ~dma
  BY DEF SessionInit
<1>4. Quiet(path) /\ ~path.aborting
  BY <1>3, RestFields
<1>5. "menu" \notin Looping \cup {"abort", "abort_poll", "hispi_clr", "hispi_on"} \cup Cleared
  BY DEF Looping, Grabbing, Cleared
<1>6. AbortTaken
  BY <1>1, <1>2 DEF AbortTaken
<1>7. LoopShared /\ ThreadsEnd /\ NoneStarts
  BY <1>1, <1>5 DEF LoopShared, ThreadsEnd, NoneStarts
<1>8. LeftIdle
  BY <1>1, <1>3, <1>4, <1>5 DEF LeftIdle
<1> QED
  BY <1>6, <1>7, <1>8, AlwaysInit DEF IInv

LEMMA InvStep ==
  ASSUME IInv, Timely, [SessionNext]_sessionVars
  PROVE  IInv'
<1>1. Always'
  BY AlwaysStep DEF IInv
<1>2. Clean' /\ NoneStarts'
  <2>1. CASE Begin
    <3>1. /\ pc["main"] = "menu" /\ Goto("main", "init", 0)
          /\ UNCHANGED <<step, shadow, path, dma, age, dirty>>
      BY <2>1 DEF Begin, At, MainGoto, KeepWrite, KeepFpga
    <3> QED
      BY <3>1, StartingClean, TicksIn DEF Starting
  <2>2. CASE MainThread
    <3>1. CASE RegisterWrite("main")
      BY <3>1, WriteClean, ThreadNames
    <3>2. CASE Acquire("main") \/ Release("main") \/ AbortPoll("main")
      BY <3>2, MainMutexClean, MainPollClean
    <3>3. CASE InitCheck \/ InitDown \/ InitPowerUp \/ InitDone \/ PowerTimeout
                 \/ DisableXGS \/ DisableDown \/ MbufFree
      BY <3>3, PowerClean
    <3>4. CASE PollPending \/ PollReady \/ NoKey \/ KeyQ \/ KeyA
      BY <3>4, PollsClean, KeyAClean
    <3>5. CASE Setup \/ HiSpiClr \/ HiSpiOn
      BY <3>5, SetupClean, HiSpiClean
    <3>6. CASE StopThreads \/ DestroyOsMutex
      BY <3>6, StopThreadsClean, DestroyClean
    <3> QED
      BY <2>2, <3>1, <3>2, <3>3, <3>4, <3>5, <3>6 DEF MainThread
  <2>3. CASE Kill
    BY <2>3, KillClean
  <2>4. ASSUME NEW t \in AbortThreads, AbortThread(t) PROVE Clean' /\ NoneStarts'
    BY <2>4, ThreadNames, WriteClean, AcquireClean, ReleaseClean, PollClean, StartCheckClean
       DEF AbortThread
  <2>5. CASE Controller \/ SensorAnswers
    BY <2>5, GrabClean
  <2>6. CASE DmaEnds \/ Sequencer
    <3>1. UNCHANGED <<hostVars, path, age, dirty>> /\ (~dma => ~dma')
      BY <2>6 DEF DmaEnds, Sequencer
    <3> QED
      BY <3>1, SameClean
  <2>7. CASE Tick
    BY <2>7, TickClean
  <2>8. CASE UNCHANGED sessionVars
    <3>1. UNCHANGED <<hostVars, path, age, dirty, dma>>
      BY <2>8 DEF sessionVars
    <3> QED
      BY <3>1, SameClean
  <2> QED
    BY <2>1, <2>2, <2>3, <2>4, <2>5, <2>6, <2>7, <2>8 DEF SessionNext
<1> QED
  BY <1>1, <1>2 DEF IInv, Clean

\* The invariant holds from the first session to a kill during a grab, and the parts that
\* need no time for ever.
THEOREM Invariance == Timely => (SessionSpec => []IInv)
<1>1. SUFFICES ASSUME Timely PROVE SessionSpec => []IInv
  OBVIOUS
<1>2. SessionInit => IInv
  BY InvInit
<1>3. IInv /\ [SessionNext]_sessionVars => IInv'
  BY <1>1, InvStep
<1> QED
  BY <1>2, <1>3, PTL DEF SessionSpec

\* No abort takes the grab away between the read of TRIGGER_RDY and the write of GRAB_SS.
THEOREM SnapshotIsTaken == Timely => (SessionSpec => []SnapshotTaken)
<1>1. ASSUME IInv PROVE SnapshotTaken
  BY <1>1 DEF IInv, LoopShared, Looping, Grabbing, SnapshotTaken, At
<1> QED
  BY <1>1, Invariance, PTL

\* Once the abort of 'q' is through nothing is queued, exposed or read out, also when the
\* poll for ABORT_DONE gave up and when a thread aborts again.
THEOREM QuitLeavesIdle == Timely => (SessionSpec => []QuitIdle)
<1>1. ASSUME IInv PROVE QuitIdle
  <2>1. Leaving \subseteq Starting \cup Cleared \cup {"hispi_clr", "failed"}
    BY DEF Leaving, Starting, Cleared
  <2> QED
    BY <1>1, <2>1 DEF IInv, LeftIdle, QuitIdle, Quiet
<1> QED
  BY <1>1, Invariance, PTL

\* No frame is in the datapath when HISPI_CLR has cleared it, nor when the buffer is gone.
THEOREM FrameIsLeftAlone == Timely => (SessionSpec => []FrameLeftAlone)
<1>1. ASSUME IInv PROVE FrameLeftAlone
  <2>1. SUFFICES ASSUME ~dirty PROVE FrameLeftAlone
    BY DEF FrameLeftAlone
  <2>2. pc["main"] \in {"hispi_on", "disable"} => ~dma
    BY <1>1, <2>1 DEF IInv, LeftIdle, Cleared
  <2>3. ~buffer => ~dma
    <3>1. SUFFICES ASSUME ~buffer PROVE ~dma
      OBVIOUS
    <3>2. pc["main"] \in Starting \cup Cleared \cup {"failed"}
      BY <1>1, <2>1, <3>1 DEF IInv, LeftIdle, Always, Types, MainPlaces
    <3> QED
      BY <1>1, <2>1, <3>2 DEF IInv, LeftIdle
  <2> QED
    BY <2>2, <2>3 DEF FrameLeftAlone
<1> QED
  BY <1>1, Invariance, PTL

\* The mutex is destroyed after its last use, though nobody waits for the threads.
THEOREM MutexOutlivesTheThreads == Timely => (SessionSpec => []MutexOutlivesThreads)
<1>1. ASSUME IInv PROVE MutexOutlivesThreads
  BY <1>1 DEF IInv, Always, MutexHeld, LeftIdle, Starting, MutexOutlivesThreads, At
<1> QED
  BY <1>1, Invariance, PTL
================================================================================
