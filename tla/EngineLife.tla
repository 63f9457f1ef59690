------------------------------ MODULE EngineLife ------------------------------
(***************************************************************************)
(* What the engine tracker promises the driver, without hooks, flags of    *)
(* their own or register samples: an engine earns its bring-up stages for  *)
(* good, passes only with both of them, and once it is quarantined no      *)
(* caller is let through to it any more; callers let through before may    *)
(* still run.                                                              *)
(***************************************************************************)
CONSTANTS
  Engines,     \* the tracked engines
  Callers      \* whoever calls the driver on their behalf

VARIABLES
  seen,        \* engines with a context
  ready,       \* engines with a ring
  passed,      \* engines that passed their smoke test
  stopped,     \* engines under quarantine
  admitted     \* per engine, the callers let through that have not run yet

vars == <<seen, ready, passed, stopped, admitted>>

Init ==
  /\ seen = {} /\ ready = {} /\ passed = {} /\ stopped = {}
  /\ admitted = [e \in Engines |-> {}]

See(e) == seen' = seen \cup {e} /\ UNCHANGED <<ready, passed, stopped, admitted>>

\* Readiness is granted on a caller's way to the driver or on its way back.
Ready(e) == ready' = ready \cup {e} /\ UNCHANGED <<seen, passed, stopped, admitted>>

Pass(e) ==
  /\ e \in seen \cap ready
  /\ passed' = passed \cup {e}
  /\ UNCHANGED <<seen, ready, stopped, admitted>>

\* Caller c leaves: its call of the driver is made, or it was turned away.
Without(c) == [e \in Engines |-> admitted[e] \ {c}]

\* A quarantine turns away the caller that caused it, if one did.
Stop(e) ==
  /\ stopped' = stopped \cup {e}
  /\ \/ UNCHANGED admitted
     \/ \E c \in Callers : admitted' = Without(c)
  /\ UNCHANGED <<seen, ready, passed>>

\* Caller c is let through to the engines of es, none of them stopped.
Admit(c, es) ==
  /\ es \cap stopped = {}
  /\ \A e \in Engines : c \notin admitted[e]
  /\ admitted' = [e \in Engines |->
                    IF e \in es THEN admitted[e] \cup {c} ELSE admitted[e]]
  /\ UNCHANGED <<seen, ready, passed, stopped>>

Leave(c) == admitted' = Without(c) /\ UNCHANGED <<seen, ready, passed, stopped>>

Next ==
  \/ \E e \in Engines : See(e) \/ Ready(e) \/ Pass(e) \/ Stop(e)
  \/ \E c \in Callers : Leave(c) \/ \E es \in SUBSET Engines : Admit(c, es)

Spec == Init /\ [][Next]_vars
=============================================================================
