------------------------------- MODULE MCThermal -------------------------------
\* Neither channel and no reading is special to the watch.
EXTENDS Thermal, TLC
Alike == Permutations(Channels) \cup Permutations(Readings)
===============================================================================
