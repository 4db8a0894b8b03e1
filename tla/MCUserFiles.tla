---------------------------- MODULE MCUserFiles ----------------------------
EXTENDS UserFiles, TLC

\* Two users and two workspaces with one key between them.
MCUsers == {<<"ana">>, <<"ana", "x">>}
MCNames == {<<"w">>, <<"x", "w">>}

MCProcessOf == [t \in Threads |-> CHOOSE p \in Procs : TRUE]

MCCalls == WorkspaceCalls \cup WatchlistCalls \cup AlertCalls(0..MaxClock)
           \cup AccountCalls

Symmetry == Permutations(Threads)
============================================================================
