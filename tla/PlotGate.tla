------------------------------ MODULE PlotGate ------------------------------
(***************************************************************************)
(* The deforestation evidence of plots and the gate it puts on statements. *)
(* A check, asked for over the API or made by the weekly recheck of every  *)
(* plot, adds a row and sets the plot's cutoff_compliant flag; a statement *)
(* is built from the flags and the latest checks of its lot's plots.  Each *)
(* runs in one transaction without locks: what it loads may be out of date *)
(* when it commits.                                                        *)
(***************************************************************************)
EXTENDS Naturals, FiniteSets

CONSTANTS
  Plots,
  Sessions,       (* Database sessions, of requests and of the worker.     *)
  MaxChecks,      (* Bound: checks computed.                               *)
  MaxStatements,  (* Bound: statements created.                            *)
  None

ASSUME GateAssumption ==
  /\ MaxChecks \in Nat
  /\ MaxStatements \in Nat

VARIABLES
  flag,        (* cutoff_compliant by plot; "absent" before registration.  *)
  checks,      (* Rows of deforestation_checks.                            *)
  clock,       (* Checks computed: checked_at is taken from it.            *)
  jobs,        (* Open transactions that check plots.                      *)
  builds,      (* Open create_dds transactions.                            *)
  statements   (* What the statements created so far were built from.      *)

vars == <<flag, checks, clock, jobs, builds, statements>>

(* What a check makes of the loss in a plot: whether it fails the plot     *)
(* (0.05 ha) and whether it makes it a risk (score 0.01).  No relation     *)
(* between the two is assumed: see PlotEvidence for the arithmetic.        *)
Overlap == {"none", "noise", "unscored", "loss"}

Failing == {"unscored", "loss"}

Scored == {"noise", "loss"}

Flag == {"unknown", "compliant", "failing"}

Result == [overlap: Overlap, at: 1..MaxChecks]

Check == [plot: Plots, overlap: Overlap, at: 1..MaxChecks]

Registered == {p \in Plots : flag[p] # "absent"}

(* Jobs, builds and statements hold functions on some registered plots.    *)
IsPartial(f, T) == DOMAIN f \subseteq Registered /\ \A p \in DOMAIN f : f[p] \in T

TypeOK ==
  /\ flag \in [Plots -> Flag \cup {"absent"}]
  /\ checks \subseteq Check /\ \A c \in checks : c.plot \in Registered
  /\ clock \in 0..MaxChecks
  /\ \A j \in jobs :
       /\ j.session \in Sessions /\ IsPartial(j.loaded, Flag) /\ IsPartial(j.found, Result)
       /\ DOMAIN j.found \subseteq DOMAIN j.loaded
  /\ \A b \in builds :
       /\ b.session \in Sessions /\ b.mitigated \in BOOLEAN
       /\ IsPartial(b.flags, Flag) /\ IsPartial(b.evidence, Result \cup {None})
       /\ DOMAIN b.evidence \subseteq DOMAIN b.flags
  /\ \A st \in statements :
       /\ st.number \in 1..MaxStatements /\ st.mitigated \in BOOLEAN
       /\ IsPartial(st.evidence, Result \cup {None})

Init ==
  /\ flag = [p \in Plots |-> "absent"]
  /\ checks = {}
  /\ clock = 0
  /\ jobs = {}
  /\ builds = {}
  /\ statements = {}

Free(s) == (\A j \in jobs : j.session # s) /\ (\A b \in builds : b.session # s)

Extend(f, p, x) == [q \in DOMAIN f \cup {p} |-> IF q = p THEN x ELSE f[q]]

Nothing == [p \in {} |-> None]

-----------------------------------------------------------------------------
(* Plots and their checks                                                  *)

(* BUG VARIANT: registering a plot again resets it.                        *)
RegisterPlot_Again(p) ==
  /\ flag' = [flag EXCEPT ![p] = "unknown"]
  /\ UNCHANGED <<checks, clock, jobs, builds, statements>>

(* create_plot, for an acceptable geometry.  The flag starts as NULL.      *)
RegisterPlot(p) ==
  /\ flag[p] = "absent"
  /\ flag' = [flag EXCEPT ![p] = "unknown"]
  /\ UNCHANGED <<checks, clock, jobs, builds, statements>>

StartJob(s, S) ==
  /\ Free(s)
  /\ jobs' = jobs \cup {[session |-> s, loaded |-> [p \in S |-> flag[p]], found |-> Nothing]}
  /\ UNCHANGED <<flag, checks, clock, builds, statements>>

(* run_deforestation_check loads one plot.                                 *)
StartCheck(s, p) == p \in Registered /\ StartJob(s, {p})

(* BUG VARIANT: the recheck starts on plots nobody has registered.         *)
StartRecheck_All(s) == StartJob(s, Plots)

(* _recheck_all loads every plot.                                          *)
StartRecheck(s) == Registered # {} /\ StartJob(s, Registered)

(* check_plot_against_gfc reads the raster, which may be republished at    *)
(* any time and show anything, and the time.                               *)
CheckPlot(j, p, overlap) ==
  /\ p \in DOMAIN j.loaded \ DOMAIN j.found
  /\ clock < MaxChecks
  /\ clock' = clock + 1
  /\ jobs' = (jobs \ {j}) \cup
       {[j EXCEPT !.found = Extend(@, p, [overlap |-> overlap, at |-> clock + 1])]}
  /\ UNCHANGED <<flag, checks, builds, statements>>

(* is_cutoff_compliant.                                                    *)
Verdict(overlap) == IF overlap \in Failing THEN "failing" ELSE "compliant"

(* BUG VARIANT: only a plot's first check sets its flag.                   *)
Flagged_FirstOnly(j, p) ==
  IF j.loaded[p] = "unknown" THEN Verdict(j.found[p].overlap) ELSE flag[p]

(* The unit of work leaves an attribute that is set to the value it was    *)
(* loaded with out of the UPDATE.                                          *)
Flagged(j, p) ==
  LET verdict == Verdict(j.found[p].overlap)
  IN  IF verdict # j.loaded[p] THEN verdict ELSE flag[p]

(* All rows and flags of a job are committed together.                     *)
CommitChecks(j) ==
  /\ DOMAIN j.found = DOMAIN j.loaded
  /\ checks' = checks \cup
       {[plot |-> p, overlap |-> j.found[p].overlap, at |-> j.found[p].at] : p \in DOMAIN j.found}
  /\ flag' = [p \in Plots |-> IF p \in DOMAIN j.found THEN Flagged(j, p) ELSE flag[p]]
  /\ jobs' = jobs \ {j}
  /\ UNCHANGED <<clock, builds, statements>>

(* The raster or the database fails, or the worker dies: rolled back.      *)
AbortChecks(j) ==
  /\ jobs' = jobs \ {j}
  /\ UNCHANGED <<flag, checks, clock, builds, statements>>

-----------------------------------------------------------------------------
(* Statements                                                              *)

(* create_dds loads the lot and its plots.                                 *)
StartDds(s, S, mitigated) ==
  /\ Free(s)
  /\ S # {} /\ S \subseteq Registered
  /\ builds' = builds \cup {[session |-> s, flags |-> [p \in S |-> flag[p]],
                             evidence |-> Nothing, mitigated |-> mitigated]}
  /\ UNCHANGED <<flag, checks, clock, jobs, statements>>

(* BUG VARIANT: the flag is not looked at.                                 *)
Passable_Always(f) == TRUE

(* "cutoff_compliant is False" stops the build; NULL does not.             *)
Passable(f) == f # "failing"

(* _latest_check: ORDER BY checked_at DESC LIMIT 1.                        *)
LatestCheck(p) ==
  LET rows == {c \in checks : c.plot = p}
  IN  IF rows = {} THEN None
      ELSE LET latest == CHOOSE c \in rows : \A d \in rows : d.at <= c.at
           IN  [overlap |-> latest.overlap, at |-> latest.at]

(* One turn of build_payload's loop over the plots.                        *)
ReadCheck(b, p) ==
  /\ p \in DOMAIN b.flags \ DOMAIN b.evidence
  /\ Passable(b.flags[p])
  /\ builds' = (builds \ {b}) \cup {[b EXCEPT !.evidence = Extend(@, p, LatestCheck(p))]}
  /\ UNCHANGED <<flag, checks, clock, jobs, statements>>

(* BUG VARIANT: a plot without a check counts as no risk.                  *)
Risky_CheckedOnly(c) == c # None /\ c.overlap \in Scored

(* BUG VARIANT: only a failing plot counts as a risk.                      *)
Risky_FailingOnly(c) == c = None \/ c.overlap \in Failing

(* No check, or risk_score >= 0.01.                                        *)
Risky(c) == c = None \/ c.overlap \in Scored

(* build_risk_assessment looks at the checks, not at the flags.            *)
RiskOf(evidence) ==
  IF \E p \in DOMAIN evidence : Risky(evidence[p]) THEN "non_negligible" ELSE "negligible"

CommitDds(b) ==
  /\ DOMAIN b.evidence = DOMAIN b.flags
  /\ RiskOf(b.evidence) = "negligible" \/ b.mitigated
  /\ Cardinality(statements) < MaxStatements
  /\ statements' = statements \cup
       {[number |-> Cardinality(statements) + 1, evidence |-> b.evidence,
         mitigated |-> b.mitigated]}
  /\ builds' = builds \ {b}
  /\ UNCHANGED <<flag, checks, clock, jobs>>

(* A conflict (a failing plot, an unmitigated risk) or the database fails. *)
AbortDds(b) ==
  /\ builds' = builds \ {b}
  /\ UNCHANGED <<flag, checks, clock, jobs, statements>>

(* No transaction is open: the service waits for its next request.         *)
Quiescent == jobs = {} /\ builds = {} /\ UNCHANGED vars

Next ==
  \/ \E p \in Plots : RegisterPlot(p)
  \/ \E s \in Sessions :
       \/ \E p \in Plots : StartCheck(s, p)
       \/ StartRecheck(s)
       \/ \E S \in SUBSET Plots, mitigated \in BOOLEAN : StartDds(s, S, mitigated)
  \/ \E j \in jobs :
       \/ CommitChecks(j) \/ AbortChecks(j)
       \/ \E p \in Plots, overlap \in Overlap : CheckPlot(j, p, overlap)
  \/ \E b \in builds : CommitDds(b) \/ AbortDds(b) \/ \E p \in Plots : ReadCheck(b, p)
  \/ Quiescent

Spec == Init /\ [][Next]_vars

-----------------------------------------------------------------------------

(* Whatever overtakes what, the flag is NULL exactly until the first check *)
(* is committed and then the verdict of some committed check of the plot.  *)
FlagHasEvidence ==
  \A p \in Registered :
    \/ flag[p] = "unknown" /\ \A c \in checks : c.plot # p
    \/ \E c \in checks : c.plot = p /\ flag[p] = Verdict(c.overlap)

(* Art. 11 as create_dds enforces it: a statement that rests on a missing  *)
(* check or on one that scored a risk names mitigation measures, and what  *)
(* it rests on was committed by then.                                      *)
RiskIsMitigated ==
  \A st \in statements : \A p \in DOMAIN st.evidence :
    LET c == st.evidence[p]
    IN  IF c = None THEN st.mitigated
        ELSE /\ [plot |-> p, overlap |-> c.overlap, at |-> c.at] \in checks
             /\ c.overlap \in Scored => st.mitigated

=============================================================================
