--------------------------- MODULE ExclusiveWork ---------------------------
(***************************************************************************)
(* What principle IV of specs/001-foundry/constitution.md asks of the work *)
(* queue, with no tables, claims or heartbeats in it.  A unit of work is   *)
(* in the hands of at most one agent at a time, an agent has at most one   *)
(* unit in its hands, only that agent puts the unit down, and a unit is    *)
(* handed out a bounded number of times.  A unit that is dropped, because  *)
(* its agent failed with it in its hands, is eventually recovered.         *)
(***************************************************************************)
EXTENDS Integers, Sequences

CONSTANTS
  Agent,
  Nobody,     \* the owner of a unit that no agent has in its hands
  MaxTries    \* how often a unit is handed out at most

VARIABLE units  \* sequence of [status, owner, tries]

Waiting(u) == units[u].status = "waiting"

HeldBy(a, u) == units[u].status = "held" /\ units[u].owner = a

EmptyHanded(a) == \A u \in DOMAIN units : ~HeldBy(a, u)

Init == units = << >>

\* A new unit of work.
New ==
  units' = Append(units, [status |-> "waiting", owner |-> Nobody, tries |-> 0])

\* Agent a, with nothing in its hands, takes a waiting unit.
Start(a, u) ==
  /\ EmptyHanded(a)
  /\ Waiting(u)
  /\ units[u].tries < MaxTries
  /\ units' = [units EXCEPT ![u] = [status |-> "held", owner |-> a,
                                    tries |-> units[u].tries + 1]]

\* Its owner puts the unit down: it is over, or it waits for another try.
PutDown(a, u) ==
  /\ HeldBy(a, u)
  /\ \E status \in {"waiting", "over"} :
       units' = [units EXCEPT ![u].status = status, ![u].owner = Nobody]

\* Its owner finishes the unit and a new unit follows from it.
PutDownAndFollowUp(a, u) ==
  /\ HeldBy(a, u)
  /\ units' = Append([units EXCEPT ![u].status = "over", ![u].owner = Nobody],
                     [status |-> "waiting", owner |-> Nobody, tries |-> 0])

\* Its owner fails with the unit in its hands.
Drop(a, u) ==
  /\ HeldBy(a, u)
  /\ units' = [units EXCEPT ![u].status = "dropped", ![u].owner = Nobody]

Dropped == {u \in DOMAIN units : units[u].status = "dropped"}

\* Dropped units are waiting again, or over when they have had their tries.
Recover ==
  \E some \in (SUBSET Dropped) \ {{}} :
    \E status \in [some -> {"waiting", "over"}] :
      units' = [u \in DOMAIN units |->
                  IF u \in some THEN [units[u] EXCEPT !.status = status[u]]
                  ELSE units[u]]

Next ==
  \/ New
  \/ \E a \in Agent, u \in DOMAIN units :
        Start(a, u) \/ PutDown(a, u) \/ PutDownAndFollowUp(a, u) \/ Drop(a, u)
  \/ Recover

Spec == Init /\ [][Next]_units /\ WF_units(Recover)
=============================================================================
