------------------------------ MODULE MC_RpcPool ------------------------------
(* Model-checking instance of RpcPool.                                     *)
EXTENDS RpcPool, TLC

CONSTANTS c1, c2, w1, w2

MC_Clients == {c1, c2}
MC_Workers == {w1, w2}
MC_NoCallback == {}
MC_Callback == {w2}

(* ThreadConfig::new("   ") (blank, replaced by a ULID), a padded name     *)
(* (kept as given) and a name holding a NUL byte (spawn panics).          *)
MC_Configs == {[core |-> "", padded |-> TRUE], [core |-> "Echo", padded |-> TRUE],
               [core |-> "Ec<NUL>ho", padded |-> FALSE]}
MC_NoConfig == {NoConfig}
=============================================================================
