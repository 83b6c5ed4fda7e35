-------------------------- MODULE MCImageCommands --------------------------
EXTENDS ImageCommands

CONSTANTS m1, m2   \* two machines

MCMachines == {m1, m2}
=============================================================================
