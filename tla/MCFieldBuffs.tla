----------------------------- MODULE MCFieldBuffs -----------------------------
(***************************************************************************)
(* FieldBuffs for TLC.  The effects are those of buff_chain_test.exs: a    *)
(* chill fires the frozen at its cap, the frozen cancels the chill, a      *)
(* marker stacks it; beside them a burn that ticks, a badge that never     *)
(* times out, a boost of a skill and a tonic that outlives a field.        *)
(***************************************************************************)
EXTENDS FieldBuffs

AllEffects == {"chill", "frozen", "marker", "thaw", "burn", "badge", "boost", "tonic"}

MCDuration == [e \in AllEffects |-> CASE e = "badge" -> 0 [] e = "marker" -> 1
                                      [] e = "burn" -> 3 [] OTHER -> 2]
MCInterval == [e \in AllEffects |-> IF e = "burn" THEN 1 ELSE 0]
MCDelay == [e \in AllEffects |-> IF e = "burn" THEN 1 ELSE 0]
MCMaxCount == [e \in AllEffects |-> IF e = "chill" THEN 2 ELSE 1]
MCCancels == [e \in AllEffects |-> IF e = "frozen" THEN "chill" ELSE None]
MCFires == [e \in AllEffects |-> IF e = "chill" THEN "frozen" ELSE None]
MCOverlaps == [e \in AllEffects |->
                 IF e \in {"marker", "thaw"} THEN "chill" ELSE None]
MCOffset == [e \in AllEffects |-> IF e = "thaw" THEN -1 ELSE 1]

\* What each effect gives: the chill, which takes, and the boost scale with the
\* stats.
Gives(n) == [e \in AllEffects |->
                CASE e = "boost" -> n [] e = "chill" -> 0 - n
                  [] e \in {"frozen", "badge", "tonic"} -> 1
                  [] OTHER -> 0]
MCAmounts == {Gives(1), Gives(2)}
MCBase == [p \in Player |-> 1]
MCOneAmount == {Gives(1)}
===============================================================================
