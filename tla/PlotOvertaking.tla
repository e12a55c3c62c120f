--------------------------- MODULE PlotOvertaking ---------------------------
(***************************************************************************)
(* PlotGate with a record of what overtook what.  The transactions take no *)
(* locks, so that the verdict of a check may be undone by another check of *)
(* the plot that ran beside it, and a statement may rest on flags that are *)
(* out of date.  This module states that nothing else can go wrong: what   *)
(* the repository says of its gate holds for every plot and statement that *)
(* nothing overtook, whatever happens to the others.                       *)
(*                                                                         *)
(* The three variables only watch: Watch gives each of them one next value *)
(* whatever the step, and so holds no step of PlotGate back.               *)
(***************************************************************************)
EXTENDS PlotGate

VARIABLES
  met,        (* <<s, p>>: s checks p, and another check of p has been     *)
              (* open while it was.                                        *)
  unsettled,  (* Plots whose last committed check had met another.         *)
  overtaken   (* <<s, p>>: s builds a statement about p, and a check of p  *)
              (* has been committed since it loaded p.                     *)

watched == <<vars, met, unsettled, overtaken>>

Checking(J, s, p) == \E j \in J : j.session = s /\ p \in DOMAIN j.loaded

Building(B, s, p) == \E b \in B : b.session = s /\ p \in DOMAIN b.flags

JustChecked(p) == \E c \in checks' \ checks : c.plot = p

Watch ==
  /\ met' = {m \in Sessions \X Plots :
       /\ Checking(jobs', m[1], m[2])
       /\ m \in met \/ \E t \in Sessions \ {m[1]} : Checking(jobs', t, m[2])}
  /\ unsettled' = {p \in Plots :
       IF JustChecked(p) THEN \E j \in jobs \ jobs' : <<j.session, p>> \in met
                         ELSE p \in unsettled}
  /\ overtaken' = {m \in Sessions \X Plots :
       /\ Building(builds', m[1], m[2])
       /\ m \in overtaken \/ JustChecked(m[2])}

WatchedInit == Init /\ met = {} /\ unsettled = {} /\ overtaken = {}

WatchedNext == Next /\ Watch

WatchedSpec == WatchedInit /\ [][WatchedNext]_watched

-----------------------------------------------------------------------------

(* is_cutoff_compliant: ">= 0.05 ha of post-cutoff loss inside the plot    *)
(* blocks the plot": if its latest check says so, the flag does, and a     *)
(* check that runs alone repairs what two that met have left behind        *)
(* (run_deforestation_check and _recheck_all against _latest_check).       *)
LossBlocks ==
  \A p \in Registered \ unsettled :
    LatestCheck(p) # None => flag[p] = Verdict(LatestCheck(p).overlap)

(* README.md: "Plots with tree-cover loss after this date are rejected for *)
(* shipments": create_dds commits no statement about a plot that is        *)
(* failing then, nor on a check that failed it, unless a check overtook it *)
(* or the plot's flag was already in doubt.                                *)
GateHolds ==
  [][\A b \in builds : statements' # statements /\ b \notin builds' =>
       \A p \in DOMAIN b.evidence : <<b.session, p>> \notin overtaken =>
         /\ flag[p] # "failing"
         /\ b.evidence[p] # None /\ b.evidence[p].overlap \in Failing => p \in unsettled]_watched

(* build_risk_assessment: a lot is negligible when every plot's check is   *)
(* and "every plot's cutoff_compliant flag is True".  It looks at the      *)
(* checks only, build_payload at the flags: together they do, for a plot   *)
(* that is not checked between the two.                                    *)
NegligibleIsCompliant ==
  \A b \in builds : \A p \in DOMAIN b.evidence :
    ~Risky(b.evidence[p]) /\ <<b.session, p>> \notin overtaken => b.flags[p] = "compliant"

=============================================================================
