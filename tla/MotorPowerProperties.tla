------------------------ MODULE MotorPowerProperties ------------------------
(* What the command queue and the motor-power sense promise together.      *)
EXTENDS MotorPower

\* Every line is carried out at most once and in the order sent, whatever the
\* E-stop, kills, resets and a full queue do: the queue implements LineOrder.
\* advance_r() frees a slot that queue.clear() may have given to another line.
Order == INSTANCE LineOrder WITH last <- lastStarted, current <- running.id
LinesInOrder == Order!Spec

\* A line that waited in the queue when the E-stop was seen is never carried
\* out later: it would act on a machine the operator has just stopped.
QueuedLinesNeverRun == [][lastStarted' # lastStarted => lastStarted' > cleared']_vars

\* After a motor-power loss the planner stays empty until a G28: a G0 or G1
\* that waited for a free block when the E-stop came is dropped, and later
\* ones are refused (motor_power.h: "refuses moves until re-homed").  An M410
\* may hold the waiting move back until the planner takes moves again.
NoMovesUntilHomed == rehome /\ ~stopped => moves = 0

\* A relay that is on was switched on by a line that was not yet in the queue
\* when the last loss was handled, and never by a board that is halted.
RelayOnlyOnAfterLoss == relay # 0 => relay > cleared /\ ~halted

\* The queue never wedges: a line that has arrived leaves the receive buffer
\* and the ring, unless the board is killed first.
QueueDrains == (rx # <<>> \/ ring # <<>>) ~> (rx = <<>> /\ ring = <<>>) \/ halted

-----------------------------------------------------------------------------
(* The inductive invariants behind them.                                    *)

\* What waits was sent after the last loss was handled, and a relay was
\* switched on by such a line.
LinesAfterLoss ==
    /\ cleared <= sent
    /\ \A i \in 1..Len(ring) : cleared < ring[i].id
    /\ \A j \in 1..Len(rx) : cleared < rx[j].id
    /\ RelayOnlyOnAfterLoss

\* While moves are refused, the handler that still waits for a block finds the
\* planner cleaning, as long as no quickstop holds it back meanwhile.
RefusalInv ==
    /\ NoMovesUntilHomed
    /\ quickstop \/ stopping => stopped
    /\ rehome /\ ~stopped /\ running.kind = "G0" => cleaning

\* Lines keep their order and a loss is remembered, whatever comes between.
PowerInv == QueueOrder /\ LinesAfterLoss /\ RefusalInv
=============================================================================
