---------------------------- MODULE MCSpincoater ----------------------------
EXTENDS SpincoaterProperties

\* A chuck with one angle: what is left is the control flow.
NoAngles == {0}
\* Two turns of a chuck with three angles.
TwoTurns == 0..5
\* A turn and a third.
FewAngles == 0..3
=============================================================================
