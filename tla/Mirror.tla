------------------------------- MODULE Mirror -------------------------------
(***************************************************************************)
(* What cache.Fetcher promises to the command that calls it: a call may    *)
(* fail, but one that returns has the payload that the origin had at some  *)
(* moment between the call and the return.  The two files, the entity      *)
(* tags, the 304 and what a crash leaves of a call are invisible here.     *)
(* Fetcher implements this module as long as its calls come one at a time; *)
(* Snapshot's Begin and Fetched are this promise as update-db uses it.     *)
(***************************************************************************)
EXTENDS Naturals

CONSTANTS
  Callers,      \* processes that run update-db
  MaxVersion    \* bound: versions the origin publishes

VARIABLES
  origin,       \* the version the origin has now
  call          \* call[p]: the call that p has made last

mirrorvars == <<origin, call>>

\* since: the origin's version when the call began; got: what it returned.
NoCall == [state |-> "none", since |-> 0, got |-> 0]
Running(v) == [state |-> "running", since |-> v, got |-> 0]
Returned(v, w) == [state |-> "returned", since |-> v, got |-> w]

Init ==
  /\ origin = 1
  /\ call = [p \in Callers |-> NoCall]

Publish ==
  /\ origin < MaxVersion
  /\ origin' = origin + 1
  /\ UNCHANGED call

Begin(p) ==
  /\ call[p].state # "running"
  /\ call' = [call EXCEPT ![p] = Running(origin)]
  /\ UNCHANGED origin

Return(p) ==
  /\ call[p].state = "running"
  /\ \E v \in call[p].since..origin :
       call' = [call EXCEPT ![p] = Returned(call[p].since, v)]
  /\ UNCHANGED origin

\* Calls end with an error, or with the processes that made them.
Abort ==
  /\ \E S \in SUBSET Callers :
       call' = [p \in Callers |-> IF p \in S THEN NoCall ELSE call[p]]
  /\ UNCHANGED origin

Next ==
  \/ \E p \in Callers : Begin(p) \/ Return(p)
  \/ Publish
  \/ Abort

Spec == Init /\ [][Next]_mirrorvars
=============================================================================
