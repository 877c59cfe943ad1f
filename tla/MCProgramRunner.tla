-------------------------- MODULE MCProgramRunner --------------------------
EXTENDS MCSequencer, ProgramRunner

\* A program that homes the machine and then closes the lid.
MCScripts == {<<"G28", "M280_S115">>}
=============================================================================
