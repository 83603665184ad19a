---------------------------- MODULE MCVoiceRelay ----------------------------
EXTENDS VoiceRelay, TLC

\* Which session or address it is makes no difference
Symmetry == Permutations(SessionIDs) \cup Permutations(Addrs)

\* The states reported in this instance: each flag alone, or none
OneAtATime == {<<FALSE, FALSE>>, <<TRUE, FALSE>>, <<FALSE, TRUE>>}
=============================================================================
