---------------------------- MODULE ObservationLog ----------------------------
(***************************************************************************)
(* What the observation store promises: each workspace keeps a memory of   *)
(* observations, and one log on disk is replaced, in one step, by the      *)
(* memory of a workspace that already knows every key of the log.  There   *)
(* are no locks, no partial files and no half-merged memories here.        *)
(***************************************************************************)
CONSTANTS Workspace, Key, Obs, Memory(_), Persisted(_, _), NoObs

\* Memory(a) is an observation made in memory with answer a;
\* Persisted(w, o) is what is written of observation o of workspace w.
CONSTANT Answer

VARIABLES log, mem

logVars == <<log, mem>>

Blank == [k \in Key |-> NoObs]

Known(f) == {k \in Key : f[k] # NoObs}

Init ==
    /\ log \in [Key -> Obs \cup {NoObs}]
    /\ mem = [w \in Workspace |-> Blank]

\* A workspace starts afresh.
Create(w) ==
    /\ mem' = [mem EXCEPT ![w] = Blank]
    /\ UNCHANGED log

\* An observation is made, or made again.
Observe(w, k, a) ==
    /\ mem' = [mem EXCEPT ![w][k] = Memory(a)]
    /\ UNCHANGED log

\* A workspace learns an observation from the log; it never gives up its own.
Adopt(w, k) ==
    /\ mem[w][k] = NoObs /\ log[k] # NoObs
    /\ mem' = [mem EXCEPT ![w][k] = log[k]]
    /\ UNCHANGED log

\* The log becomes what the workspace knows, which is no less than the log.
Publish(w) ==
    /\ Known(log) \subseteq Known(mem[w])
    /\ log' = [k \in Key |-> IF mem[w][k] = NoObs THEN NoObs
                             ELSE Persisted(w, mem[w][k])]
    /\ UNCHANGED mem

Next ==
    \E w \in Workspace :
        \/ Create(w) \/ Publish(w)
        \/ \E k \in Key : Adopt(w, k) \/ \E a \in Answer : Observe(w, k, a)

Spec == Init /\ [][Next]_logVars

\* No key ever leaves the log: immediate here, inherited by an implementation.
LogGrows == [][Known(log) \subseteq Known(log')]_log
=============================================================================
