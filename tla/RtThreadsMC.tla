----------------------------- MODULE RtThreadsMC -----------------------------
EXTENDS RtThreads
CONSTANTS t1, t2
MCThreads == {t1, t2}
=============================================================================
