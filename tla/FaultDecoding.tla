---------------------------- MODULE FaultDecoding ----------------------------
(***************************************************************************)
(* From the description of a fault to a fault that runs.  Two formats lead *)
(* to the same faults: the rules of manteion (decodeFault and what it      *)
(* calls, compiled_rule.go), and the active fault of a registration and of *)
(* POST /admin/fault (buildFault, admin.go).  Neither validates what it    *)
(* builds: StartFault does, each time a rule matches.                      *)
(*                                                                         *)
(* A description has a category and a type, and a class for each value:    *)
(*   main    the value the type is about: its delay, status code, hang     *)
(*           duration, target load, rate or byte count                     *)
(*   extra   an optional duration: jitter, window, interval, ...           *)
(*   span    how long the fault lasts: duration_ms in a rule,              *)
(*           config.duration at the admin endpoint                         *)
(*   ramp    "none", or a ramp that does not fit into the span: "long"     *)
(*   target  whether the NetworkResolver knows the target: "known" or not  *)
(***************************************************************************)

Types ==
  [inline   |-> {"latency", "error", "hang"},
   resource |-> {"cpu", "memory", "disk", "io"},
   network  |-> {"latency", "loss", "blackhole", "drip", "rst", "throttle"}]

Described(category, d) ==
  /\ d.category = category
  /\ d.type \in Types[category]

(* time.ParseDuration, of a value that must be there and of one that may.  *)
Parses(value) == value \notin {"absent", "malformed"}
ParsesIfThere(value) == value # "malformed"

-----------------------------------------------------------------------------
(* The builders of rules: which descriptions they accept.  The admin       *)
(* format shares those of resource and network faults.                     *)

(* decodeInlineFault                                                       *)
InlineDecodes(d) ==
  /\ Described("inline", d)
  /\ IF d.type = "error" THEN d.main # "malformed" ELSE Parses(d.main)
  /\ d.type = "latency" => ParsesIfThere(d.extra)

ResourceDecodes(d) ==
  /\ Described("resource", d)
  /\ d.main # "malformed"
  /\ d.type = "cpu" => ParsesIfThere(d.extra)

ToxicDecodes(d) ==
  /\ d.type = "latency" => Parses(d.main)
  /\ d.type # "blackhole" => d.main # "malformed"
  /\ d.type \in {"latency", "loss", "drip", "rst"} => ParsesIfThere(d.extra)

NetworkDecodes(d, resolve) ==
  /\ Described("network", d)
  /\ resolve /\ d.target = "known"
  /\ ToxicDecodes(d)

(* decodeFault                                                             *)
RuleDecodes(d, resolve) ==
  InlineDecodes(d) \/ ResourceDecodes(d) \/ NetworkDecodes(d, resolve)

-----------------------------------------------------------------------------
(* The admin format: no category means inline, and network and resource    *)
(* faults must say how long they last.                                     *)
EffectiveCategory(d) ==
  [d EXCEPT !.category = IF @ = "absent" THEN "inline" ELSE @]

(* A slip: the jitter is not parsed here.                                  *)
AdminInlineBuildsAnyJitter(d) ==
  /\ Described("inline", d)
  /\ d.main # "malformed"
  /\ d.type # "error" => Parses(d.main)

(* buildInlineFault, a second parser of the inline faults                  *)
AdminInlineBuilds(d) ==
  /\ Described("inline", d)
  /\ d.main # "malformed"
  /\ d.type # "error" => Parses(d.main)
  /\ d.type = "latency" => ParsesIfThere(d.extra)

AdminNetworkBuilds(d, resolve) == Parses(d.span) /\ NetworkDecodes(d, resolve)

AdminResourceBuilds(d) == Parses(d.span) /\ ResourceDecodes(d)

(* buildFault                                                              *)
AdminBuilds(d, resolve) ==
  LET e == EffectiveCategory(d)
  IN  \/ AdminInlineBuilds(e)
      \/ AdminNetworkBuilds(e, resolve)
      \/ AdminResourceBuilds(e)

-----------------------------------------------------------------------------
(* Validate.  The zero or absent rate of disk and io stress has become its *)
(* default, and toxics are not validated.                                  *)

LastsWell(d) == d.span = "positive" /\ d.ramp = "none"

Validates(d) ==
  CASE d.category = "network" -> LastsWell(d)
    [] d.category = "inline" /\ d.type = "latency" ->
         "positive" \in {d.main, d.extra}
    [] d.category = "inline" /\ d.type = "error" -> d.main = "positive"
    [] d.category = "inline" /\ d.type = "hang" -> LastsWell(d)
    [] d.type \in {"cpu", "memory"} -> LastsWell(d) /\ d.main = "positive"
    [] OTHER -> LastsWell(d) /\ d.main # "negative"

(* The fault a rule becomes: a hang that does not say how long it lasts    *)
(* lasts its own duration.                                                 *)
FromRule(d) ==
  IF d.category = "inline" /\ d.type = "hang" /\ d.span \in {"absent", "zero"}
    THEN [d EXCEPT !.span = d.main] ELSE d

(* The fault the admin format becomes: a hang has its one duration, no     *)
(* inline or network fault has a ramp, and an error has a status code.     *)
FromAdmin(d) ==
  LET e == EffectiveCategory(d)
  IN  [e EXCEPT
         !.ramp = IF e.category = "resource" THEN @ ELSE "none",
         !.span = IF e.category = "inline" /\ e.type = "hang" THEN e.main ELSE @,
         !.main = IF e.category = "inline" /\ e.type = "error"
                     /\ @ \in {"absent", "zero"} THEN "positive" ELSE @]

(* The description is built into a fault, which then validates.            *)
RuleRuns(d, resolve) == RuleDecodes(d, resolve) /\ Validates(FromRule(d))

AdminRuns(d, resolve) == AdminBuilds(d, resolve) /\ Validates(FromAdmin(d))

-----------------------------------------------------------------------------
(* What both formats can say: a rule has a category and a number for its   *)
(* span; the admin format has no span for an inline fault, and ramps for   *)
(* resource faults only.                                                   *)
Descriptions ==
  LET Values == {"absent", "malformed", "negative", "zero", "positive"}
  IN  UNION {[category : {c}, type : Types[c] \cup {"unknown"}, main : Values,
              extra : Values, span : Values, ramp : {"none", "long"},
              target : {"known", "unknown"}] : c \in DOMAIN Types}

SaidInBoth(d) ==
  /\ d.span # "malformed"
  /\ d.category = "inline" => d.span = "absent"
  /\ d.ramp # "none" => d.category = "resource"

(* The one default only the admin format has: status 500.                  *)
StatusLeftOut(d) ==
  d.category = "inline" /\ d.type = "error" /\ d.main \in {"absent", "zero"}

(* Both formats of every description lead to a fault that runs, or neither *)
(* does; in a process with or without a NetworkResolver.                   *)
FormatsAgree(resolve) ==
  \A d \in Descriptions :
    SaidInBoth(d) =>
      IF StatusLeftOut(d) THEN ~RuleRuns(d, resolve)
                          ELSE RuleRuns(d, resolve) = AdminRuns(d, resolve)

AgreeWithResolver == FormatsAgree(TRUE)
AgreeWithout == FormatsAgree(FALSE)
=============================================================================
