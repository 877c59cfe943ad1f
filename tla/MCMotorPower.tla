---------------------------- MODULE MCMotorPower ----------------------------
EXTENDS MotorPowerProperties
=============================================================================
