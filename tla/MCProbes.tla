------------------------------ MODULE MCProbes ------------------------------
(***************************************************************************)
(* An instance of Probes for TLC: a provider of every strategy, local and  *)
(* remote, and shares on both sides of the thresholds.                     *)
(***************************************************************************)
EXTENDS Probes

MCConfig ==
    <<[type |-> "lmstudio", endpoint |-> ""],
      [type |-> "openai-compatible", endpoint |-> "remote"],
      [type |-> "omlx", endpoint |-> "local"],
      [type |-> "deepseek", endpoint |-> ""],
      [type |-> "z.ai", endpoint |-> "remote"]>>

MCMemory ==
    {[used |-> 1, max |-> 0]} \cup
    {[used |-> u, max |-> 1000] : u \in {799, 800, 949, 950}}

MCShares == {7999, 8000, 9499, 9500}
=============================================================================
