---------------------------- MODULE MCChainQuery ----------------------------
(***************************************************************************)
(* A small instance of ChainQuery for TLC.  Its databases are of two kinds:*)
(* three blocks, in any forest, of which each is empty or holds one payment*)
(* of a, and a chain of two blocks of up to two transactions (the third is *)
(* empty and not saved).                                                   *)
(***************************************************************************)
EXTENDS ChainQuery

CONSTANTS a, b, c, x, y

MCHash == 1 .. 3
MCNoHash == 0
MCLimit == {1, 2}

Pay(source, target, currency, amount) ==
  [source |-> source, target |-> target, currency |-> currency, amount |-> amount, ok |-> TRUE]

\* With address a a transaction has a as its source, its target, or neither.
MCTx == {Pay(a, b, x, 1), Pay(b, a, x, 2), Pay(b, c, y, 1), Pay(b, a, y, 4)}
MCDeep == {Pay(a, b, x, 1)}

Deep == \A h \in Hash : txs[h] \in {<<>>} \cup {<<t>> : t \in MCDeep}
Broad == prev = <<NoHash, 1, NoHash>> /\ txs[3] = <<>>

MCInit == Init /\ (Deep \/ Broad)
MCNext == Next /\ (Deep \/ 3 \notin stored')
MCSpec == MCInit /\ [][MCNext]_vars /\ WF_vars(Walking)
=============================================================================
