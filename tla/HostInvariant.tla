------------------------------ MODULE HostInvariant -----------------------------
(***************************************************************************)
(* The inductive invariant of a session: who may write GRAB_CTRL, what the *)
(* shadow holds in the middle of a write, how far an abort is when its     *)
(* poll gives up, how long the abort threads still need while the mutex    *)
(* exists, and the sequencer.  The parts under ~dirty hold from the start  *)
(* of the first session to a kill during a grab.                           *)
(***************************************************************************)
EXTENDS HostSession, FiniteSets

\* The times that keep a session right: the poll for ABORT_DONE outlasts every abort,
\* the Sleep(1500) before DestroyOsMutex the aborts and the sleep of every thread.
Timely ==
  /\ IsFiniteSet(AbortThreads)
  /\ 6 * FrameTicks < PollLimit
  /\ \A s \in AbortSleep \cup {0} :
       s + (Cardinality(AbortThreads) + 1) * FrameTicks < DestroySleep

-----------------------------------------------------------------------------
(* Places. *)

Starting == {"menu", "init", "init_down", "init_wait", "init_poll", "setup"}
Grabbing == {"pending", "params", "grab_cmd", "rdy", "snapshot", "release"}
Looping  == Grabbing \cup {"acquire", "key"}
Cleared  == {"hispi_on", "disable", "down", "disabled", "destroy"}
MainPlaces   == Starting \cup Looping \cup Cleared \cup {"abort", "abort_poll", "hispi_clr", "failed"}

Aborting == {"abort", "abort_poll", "release"}
ThreadPlaces == Aborting \cup {"off", "start", "check", "acquire"}

WritePlaces == DOMAIN Bits
Stored(t) == step[t] \in {"write", "reload", "clear"}

Types ==
  /\ SessionTypeOK
  /\ pc \in [Threads -> MainPlaces \cup ThreadPlaces]
  /\ pc["main"] \in MainPlaces /\ \A t \in AbortThreads : pc[t] \in ThreadPlaces
  /\ step \in [Threads -> {"load", "set", "write", "reload", "clear"}]
  /\ tmp \in [Threads -> SUBSET GrabBits]
  /\ {StopAbortThread, buffer, dma, dirty} \subseteq BOOLEAN
  /\ \A t \in Threads : pc[t] \notin WritePlaces => step[t] = "load"

\* A thread sleeps between two aborts, and only there.
Sleeping ==
  \A t \in AbortThreads :
    /\ pc[t] \notin {"check", "abort_poll"} => timer[t] = 0
    /\ pc[t] = "check" => timer[t] = 0 \/ \E s \in AbortSleep : timer[t] <= s

-----------------------------------------------------------------------------
(* The mutex.  A thread that asked for it when it was gone aborts without    *)
(* it, and is through before the next session waits for anything.            *)

MutexHeld ==
  /\ AbortRunning = "main" <=> pc["main"] \in Grabbing
  /\ AbortRunning = "none" => pc["main"] = "menu"
  /\ \A t \in AbortThreads : AbortRunning = t => pc[t] \in Aborting

Unprotected(t) == pc[t] = "abort" /\ AbortRunning # t

BeforeWaiting == \/ pc["main"] \in {"menu", "init", "init_down", "failed"}
                 \/ pc["main"] = "init_wait" /\ timer["main"] = 1

Straggling == \A t \in AbortThreads : Unprotected(t) => BeforeWaiting

(* The shadow of GRAB_CTRL. *)

Shadow ==
  /\ \A t \in Threads : pc[t] \in WritePlaces =>
       /\ shadow \subseteq Bits[pc[t]]
       /\ step[t] = "set" => tmp[t] = Bits[pc[t]]
       /\ step[t] = "clear" => tmp[t] = {}
       /\ pc[t] # "abort" /\ step[t] = "write" => shadow = Bits[pc[t]]
  /\ shadow # {} => \E t \in Threads : pc[t] \in WritePlaces /\ Stored(t)

-----------------------------------------------------------------------------
(* An abort. *)

\* Nothing is queued, exposed or read out; or an abort sees to it.
Quiet(p)   == p.phase = "idle" /\ ~p.active /\ ~p.pending /\ ~p.readout
Aborted(p) == p.aborting \/ Quiet(p)

\* The moves of the controller until then.
Moves(p) ==
  (CASE p.phase = "idle" -> 0 [] p.phase \in {"armed", "fot"} -> 1
     [] p.phase = "queued" -> 2 [] p.phase = "exposing" -> 3)
  + (IF p.readout THEN 1 ELSE 0)
  + (IF p.active \/ p.pending THEN 1 ELSE 0)

\* They are over before the ticks are.
Within(moves, ticks) == moves > 0 => moves * FrameTicks - age < ticks

AbortTaken ==
  ~dirty =>
    /\ \A t \in Threads :
         /\ pc[t] = "abort" /\ (step[t] \in {"reload", "clear"} \/ (step[t] = "write" /\ shadow = {}))
              => Aborted(path)
         /\ pc[t] = "abort_poll" => Aborted(path)
    /\ pc["main"] = "abort_poll" => Within(Moves(path), timer["main"])

\* The threads share the loop with the main thread: whoever frees the mutex has left
\* the abort behind.
LoopShared ==
  ~dirty /\ pc["main"] \in Looping =>
    /\ path.aborting => \E t \in AbortThreads :
         AbortRunning = t /\ pc[t] \in {"abort", "abort_poll"}
    /\ \A t \in AbortThreads : pc[t] \in Aborting => AbortRunning = t
    /\ \A t \in AbortThreads :
         pc[t] = "abort_poll" /\ path.aborting => Within(Moves(path) + 1, timer[t])
    /\ pc["main"] = "snapshot" /\ step["main"] \in {"load", "set", "write"} => path.phase = "armed"

\* From the end of the abort of 'q' nothing moves but the aborts of the threads.
LeftIdle ==
  ~dirty =>
    /\ pc["main"] \in Starting \cup Cleared \cup {"hispi_clr", "failed"} => Quiet(path)
    /\ pc["main"] \in Starting \cup Cleared \cup {"failed"} => ~dma
    /\ pc["main"] = "hispi_clr" /\ timer["main"] = 0 => ~dma
    /\ pc["main"] \in Looping \cup {"abort", "abort_poll", "hispi_clr", "hispi_on"} => buffer
    /\ pc["main"] \in Starting => ~path.aborting /\ \A t \in AbortThreads : pc[t] = "off"

-----------------------------------------------------------------------------
(* The threads end. *)

\* The threads that will abort once more.
Asking(t)  == pc[t] = "acquire" \/ (pc[t] = "abort" /\ step[t] \in {"load", "set", "write"})
Askers     == {t \in AbortThreads : Asking(t)}
AbortTicks == IF path.aborting THEN FrameTicks - age ELSE 0

NoneStarts ==
  pc["main"] \in Cleared \/ (pc["main"] = "hispi_clr" /\ timer["main"] = 0) =>
    \A t \in AbortThreads : pc[t] # "start"

ThreadsEnd ==
  /\ pc["main"] = "destroy" => StopAbortThread
  /\ ~dirty /\ pc["main"] = "destroy" =>
       /\ path.aborting => AbortTicks < timer["main"]
       /\ (\E t \in AbortThreads : pc[t] \in Aborting \cup {"acquire"}) =>
            \A s \in AbortSleep \cup {0} :
              Cardinality(Askers) * FrameTicks + AbortTicks + s < timer["main"]
       /\ \A t \in AbortThreads : pc[t] = "check" => timer[t] < timer["main"]

-----------------------------------------------------------------------------
(* The sequencer. *)

PowerUp   == {"eclk", "ereset", "edelai", "done_ok"}
PowerDown == {"dreset", "dclk", "ddelai", "idle"}

Sequence ==
  /\ goto_power = CASE curr_power_state \in {"idle", "done_ok"} -> "none"
                    [] curr_power_state \in {"eclk", "dclk"} -> "first"
                    [] curr_power_state \in {"ereset", "dreset"} -> "second"
                    [] OTHER -> goto_power
  /\ curr_power_state \in {"edelai", "ddelai"} => goto_power \in {"first", "second"}
  /\ xgs_osc_en_int = (curr_power_state \in PowerUp \cup {"dreset"}
                         \/ (curr_power_state = "ddelai" /\ goto_power = "second"))
  /\ xgs_reset_n_int = (curr_power_state \in {"ereset", "done_ok"}
                          \/ (curr_power_state = "edelai" /\ goto_power = "second"))

PowerWaited ==
  /\ pc["main"] \in {"init_down", "down"} =>
       /\ curr_power_state \in PowerDown
       /\ timer["main"] < PollLimit => curr_power_state = "idle"
  /\ pc["main"] = "init_wait" /\ timer["main"] = 0 => PowerSettled
  /\ pc["main"] = "init_poll" =>
       /\ curr_power_state \in PowerUp \/ (curr_power_state = "idle" /\ ~xgs_power_good)
       /\ timer["main"] < PollLimit => PowerSettled
  /\ pc["main"] = "failed" => ~xgs_power_good

-----------------------------------------------------------------------------
Always == Types /\ Sleeping /\ MutexHeld /\ Straggling /\ Shadow /\ Sequence /\ PowerWaited

IInv == Always /\ AbortTaken /\ LoopShared /\ LeftIdle /\ NoneStarts /\ ThreadsEnd
================================================================================
