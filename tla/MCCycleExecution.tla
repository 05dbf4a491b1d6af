-------------------------- MODULE MCCycleExecution --------------------------
(***************************************************************************)
(* Instances of CycleExecution for TLC.  The configurations choose which   *)
(* runners take part and which of the workloads below they carry.          *)
(***************************************************************************)
EXTENDS CycleExecution

CONSTANTS source1, agent1

\* One target or question about the only objective.
ShortWork == [r \in Runners |-> <<{0}>>]

\* A source runner has one objective for each of its two targets, an agent
\* runner puts all its objectives into each question.
LongWork == [r \in Runners |-> IF r \in SourceRunners THEN <<{0}, {1}>> ELSE <<{0, 1}, {0, 1}>>]
=============================================================================
