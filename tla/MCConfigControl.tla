-------------------------- MODULE MCConfigControl --------------------------
(* Small instances of ConfigControl for TLC.                               *)
EXTENDS ConfigControl, TLC

CONSTANTS t1, t2, n1, n2

Big   == [max |-> 2, evict |-> TRUE]
Small == [max |-> 1, evict |-> FALSE]

MCCapSet == {Big, Small}
MCTLSs == {t1, t2}
MCNets == {n1, n2}

\* replaceStoreCaps to a smaller rejecting inbox; replaceTLS.
MCChanges == {[caps |-> Small, tls |-> None], [caps |-> None, tls |-> t2]}

\* Two bootstrap documents that differ where only Reset may change.
MCFiles == {[caps |-> Big, tls |-> t1, net |-> n1],
            [caps |-> Big, tls |-> t1, net |-> n2]}

Symm == Permutations(Operators) \cup Permutations(Keys)
=============================================================================
