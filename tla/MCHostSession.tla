----------------------------- MODULE MCHostSession ------------------------------
(* Two abort threads, every Sleep in ticks of 100 ms. *)
EXTENDS HostInvariant

Sleeps == {5, 8}

\* These times are right: what HostProofs shows under Timely is about this instance too.
ASSUME InstanceTimely == Timely
================================================================================
