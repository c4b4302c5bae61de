-------------------------- MODULE MCManteionClient --------------------------
(* Small instances of ManteionClient for TLC. *)
EXTENDS ManteionClient

CONSTANTS r1

(* Version 1 has network rules, which a registration decodes and a poll    *)
(* does not; those of version 2 decode nowhere; those of version 3 do.     *)
MCRules == [v \in 0..MaxVersion |->
              CASE v = 1 -> "network" [] v = 2 -> "bad" [] v = 3 -> "sound"
                [] OTHER -> "empty"]

(* The fault of version 1 does not apply, so its freeze config is never    *)
(* reached.                                                                *)
MCActiveFault == [v \in 0..MaxVersion |->
                    CASE v = 1 -> "bad" [] v = 3 -> "sound" [] OTHER -> "none"]
MCFreezeCfg == [v \in 0..MaxVersion |-> IF v \in {1, 3} THEN "sound" ELSE "none"]

SoundRules == [v \in 0..MaxVersion |-> IF v = 0 THEN "empty" ELSE "sound"]
Nowhere == [v \in 0..MaxVersion |-> "none"]
=============================================================================
