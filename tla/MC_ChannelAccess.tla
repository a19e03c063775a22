--------------------------- MODULE MC_ChannelAccess ---------------------------
EXTENDS ChannelAccess, TLC

TaskSymmetry == Permutations(Tasks)
=============================================================================
