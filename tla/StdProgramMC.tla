---------------------------- MODULE StdProgramMC ----------------------------
EXTENDS StdProgram
CONSTANTS main, t1, t2, t3
MCThreads == {t1, t2, t3}
=============================================================================
