--------------------------- MODULE PlotGate_proofs --------------------------
(***************************************************************************)
(* What the gate keeps up under every interleaving of checks, rechecks and *)
(* statements, for any number of plots, sessions, checks and statements;   *)
(* then what it promises of the plots and statements nothing overtook.     *)
(***************************************************************************)
EXTENDS PlotOvertaking, SetInduction, FiniteSetTheorems, TLAPS

(* A flag that was loaded set is still set, though perhaps differently.    *)
LoadedSet ==
  \A j \in jobs : \A p \in DOMAIN j.loaded :
    j.loaded[p] # "unknown" => flag[p] \in {"compliant", "failing"}

(* What a build has read was committed.                                    *)
Read ==
  \A b \in builds : \A p \in DOMAIN b.evidence : b.evidence[p] # None =>
    [plot |-> p, overlap |-> b.evidence[p].overlap, at |-> b.evidence[p].at] \in checks

GInv ==
  TypeOK /\ FlagHasEvidence /\ RiskIsMitigated /\ LoadedSet /\ Read /\ IsFiniteSet(statements)

-----------------------------------------------------------------------------

(* The latest check of a plot is one of its rows.                          *)
LEMMA LatestCheckIn ==
  ASSUME NEW p \in Plots, checks \subseteq Check, LatestCheck(p) # None
  PROVE  /\ LatestCheck(p) \in Result
         /\ [plot |-> p, overlap |-> LatestCheck(p).overlap, at |-> LatestCheck(p).at] \in checks
<1> DEFINE rows == {c \in checks : c.plot = p}
           latest == CHOOSE c \in rows : \A d \in rows : d.at <= c.at
<1> USE GateAssumption
<1>1. rows # {}
  BY DEF LatestCheck
<1>2. \A c \in rows : c \in checks /\ c \in Check /\ c.plot = p /\ c.at \in 1..MaxChecks
  BY DEF Check
<1>3. \E c \in rows : \A d \in rows : d.at <= c.at
  <2> DEFINE Ages == {MaxChecks - c.at : c \in rows}
  <2>1. Ages \subseteq Nat /\ Ages # {}
    BY <1>1, <1>2
  <2>2. PICK age \in Ages : \A x \in Ages : ~ (x < age)
    BY <2>1, SmallestOf
  <2>3. PICK c \in rows : age = MaxChecks - c.at
    BY <2>2
  <2>4. ASSUME NEW d \in rows PROVE d.at <= c.at
    <3>1. ~ (MaxChecks - d.at < MaxChecks - c.at)
      BY <2>2, <2>3
    <3> QED BY <3>1, <1>2
  <2> QED BY <2>4
<1>4. latest \in rows
  BY <1>3
<1>5. LatestCheck(p) = [overlap |-> latest.overlap, at |-> latest.at]
  BY <1>1 DEF LatestCheck
<1> HIDE DEF latest
<1>6. latest \in Check /\ latest \in checks /\ latest.plot = p
  BY <1>2, <1>4
<1>7. latest = [plot |-> p, overlap |-> latest.overlap, at |-> latest.at]
  BY <1>6 DEF Check
<1> QED BY <1>5, <1>6, <1>7 DEF Check, Result

-----------------------------------------------------------------------------

LEMMA GateInit ==
  ASSUME Init PROVE GInv
BY GateAssumption, FS_EmptySet
   DEF Init, GInv, TypeOK, FlagHasEvidence, RiskIsMitigated, LoadedSet, Read, Registered

LEMMA RegisterPlotInv ==
  ASSUME GInv, NEW p \in Plots, RegisterPlot(p)
  PROVE  GInv'
<1>1. Registered' = Registered \cup {p}
  BY DEF RegisterPlot, Registered, GInv, TypeOK
<1>2. TypeOK'
  BY <1>1 DEF RegisterPlot, GInv, TypeOK, IsPartial, Flag
<1>3. FlagHasEvidence'
  <2>1. \A c \in checks : c.plot # p
    BY DEF RegisterPlot, GInv, TypeOK, Registered
  <2> QED BY <1>1, <2>1 DEF RegisterPlot, GInv, TypeOK, FlagHasEvidence, Registered
<1>4. LoadedSet'
  <2>1. \A j \in jobs : p \notin DOMAIN j.loaded
    BY DEF RegisterPlot, GInv, TypeOK, IsPartial, Registered
  <2>2. \A q \in Plots : q # p => flag'[q] = flag[q]
    BY DEF RegisterPlot, GInv, TypeOK
  <2>3. \A j \in jobs : \A q \in DOMAIN j.loaded : q \in Plots
    BY DEF GInv, TypeOK, IsPartial, Registered
  <2> QED BY <2>1, <2>2, <2>3 DEF RegisterPlot, GInv, LoadedSet
<1>5. RiskIsMitigated' /\ Read'
  BY DEF RegisterPlot, GInv, RiskIsMitigated, Read
<1> QED BY <1>2, <1>3, <1>4, <1>5 DEF GInv, RegisterPlot

LEMMA StartJobInv ==
  ASSUME GInv, NEW s \in Sessions, NEW S \in SUBSET Registered, StartJob(s, S)
  PROVE  GInv'
<1> DEFINE job == [session |-> s, loaded |-> [p \in S |-> flag[p]], found |-> Nothing]
<1>1. jobs' = jobs \cup {job} /\ UNCHANGED <<flag, checks, clock, builds, statements>>
  BY DEF StartJob
<1>2. /\ job.session = s /\ DOMAIN job.loaded = S /\ DOMAIN job.found = {}
      /\ \A p \in S : job.loaded[p] = flag[p] /\ flag[p] \in Flag
  BY DEF Nothing, GInv, TypeOK, Registered
<1> HIDE DEF job
<1>3. TypeOK'
  BY <1>1, <1>2 DEF GInv, TypeOK, IsPartial, Registered
<1>4. LoadedSet'
  BY <1>1, <1>2 DEF GInv, LoadedSet, Flag
<1>5. FlagHasEvidence' /\ RiskIsMitigated' /\ Read'
  BY <1>1 DEF GInv, FlagHasEvidence, RiskIsMitigated, Read, Registered
<1> QED BY <1>1, <1>3, <1>4, <1>5 DEF GInv

LEMMA CheckPlotInv ==
  ASSUME GInv, NEW j \in jobs, NEW p \in Plots, NEW overlap \in Overlap,
         CheckPlot(j, p, overlap)
  PROVE  GInv'
<1> USE GateAssumption
<1> DEFINE result == [overlap |-> overlap, at |-> clock + 1]
           k == [j EXCEPT !.found = Extend(j.found, p, result)]
<1>1. /\ p \in DOMAIN j.loaded \ DOMAIN j.found
      /\ clock < MaxChecks /\ clock' = clock + 1
      /\ jobs' = (jobs \ {j}) \cup {k}
      /\ UNCHANGED <<flag, checks, builds, statements>>
  BY DEF CheckPlot
<1>2. result \in Result
  BY <1>1 DEF GInv, TypeOK, Result
<1>3. /\ k.session = j.session /\ k.loaded = j.loaded
      /\ k.found = Extend(j.found, p, result)
  BY DEF GInv, TypeOK
<1> HIDE DEF result, k
<1>4. IsPartial(k.found, Result) /\ DOMAIN k.found \subseteq DOMAIN k.loaded
  <2>1. DOMAIN k.found = DOMAIN j.found \cup {p}
    BY <1>3 DEF Extend
  <2>2. \A q \in DOMAIN k.found : k.found[q] = IF q = p THEN result ELSE j.found[q]
    BY <1>3 DEF Extend
  <2> QED BY <1>1, <1>2, <1>3, <2>1, <2>2 DEF GInv, TypeOK, IsPartial
<1>5. TypeOK'
  BY <1>1, <1>3, <1>4 DEF GInv, TypeOK, IsPartial, Registered
<1>6. LoadedSet'
  BY <1>1, <1>3 DEF GInv, LoadedSet
<1>7. FlagHasEvidence' /\ RiskIsMitigated' /\ Read'
  BY <1>1 DEF GInv, FlagHasEvidence, RiskIsMitigated, Read, Registered
<1> QED BY <1>1, <1>5, <1>6, <1>7 DEF GInv

LEMMA CommitChecksInv ==
  ASSUME GInv, NEW j \in jobs, CommitChecks(j)
  PROVE  GInv'
<1> DEFINE Rowed(p) == [plot |-> p, overlap |-> j.found[p].overlap, at |-> j.found[p].at]
<1>1. /\ DOMAIN j.found = DOMAIN j.loaded
      /\ checks' = checks \cup {Rowed(p) : p \in DOMAIN j.found}
      /\ flag' = [p \in Plots |-> IF p \in DOMAIN j.found THEN Flagged(j, p) ELSE flag[p]]
      /\ jobs' = jobs \ {j} /\ UNCHANGED <<clock, builds, statements>>
  BY DEF CommitChecks
<1>2. \A p \in DOMAIN j.found :
        /\ p \in Registered /\ j.loaded[p] \in Flag /\ j.found[p].overlap \in Overlap
        /\ j.found[p] \in Result /\ Rowed(p) \in Check
  BY <1>1 DEF GInv, TypeOK, IsPartial, Result, Check, Registered
<1>3. ASSUME NEW p \in DOMAIN j.found
      PROVE  /\ flag'[p] \in {"compliant", "failing"}
             /\ \E c \in checks' : c.plot = p /\ flag'[p] = Verdict(c.overlap)
  <2>1. flag'[p] = Flagged(j, p) /\ p \in Registered
    BY <1>1, <1>2 DEF Registered
  <2>2. Verdict(j.found[p].overlap) \in {"compliant", "failing"}
    BY DEF Verdict
  <2>3. CASE Verdict(j.found[p].overlap) # j.loaded[p]
    <3>1. flag'[p] = Verdict(j.found[p].overlap)
      BY <2>1, <2>3 DEF Flagged
    <3>2. Rowed(p) \in checks' /\ Rowed(p).plot = p /\ Rowed(p).overlap = j.found[p].overlap
      BY <1>1
    <3> HIDE DEF Rowed
    <3> QED BY <2>2, <3>1, <3>2
  <2>4. CASE Verdict(j.found[p].overlap) = j.loaded[p]
    <3>1. flag'[p] = flag[p]
      BY <2>1, <2>4 DEF Flagged
    <3>2. flag[p] \in {"compliant", "failing"}
      BY <1>1, <2>2, <2>4 DEF GInv, LoadedSet
    <3> QED BY <1>1, <2>1, <3>1, <3>2 DEF GInv, FlagHasEvidence
  <2> QED BY <2>3, <2>4
<1>4. \A p \in Plots : p \notin DOMAIN j.found => flag'[p] = flag[p]
  BY <1>1
<1>5. Registered' = Registered
  <2>1. \A p \in Plots : flag'[p] # "absent" <=> flag[p] # "absent"
    <3> TAKE p \in Plots
    <3>1. CASE p \in DOMAIN j.found
      BY <3>1, <1>2, <1>3 DEF Registered
    <3>2. CASE p \notin DOMAIN j.found
      BY <3>2, <1>4
    <3> QED BY <3>1, <3>2
  <2> QED BY <2>1, Zenon DEF Registered
<1>6. TypeOK'
  <2>1. flag' \in [Plots -> Flag \cup {"absent"}]
    <3>1. \A p \in Plots : flag'[p] \in Flag \cup {"absent"}
      BY <1>3, <1>4 DEF GInv, TypeOK, Flag
    <3>2. flag' = [p \in Plots |-> flag'[p]]
      BY <1>1
    <3> QED BY <3>1, <3>2
  <2>2. checks' \subseteq Check /\ \A c \in checks' : c.plot \in Registered'
    BY <1>1, <1>2, <1>5 DEF GInv, TypeOK
  <2> QED BY <1>1, <1>5, <2>1, <2>2 DEF GInv, TypeOK, IsPartial
<1>7. FlagHasEvidence'
  <2> SUFFICES ASSUME NEW p \in Registered
               PROVE  \/ flag'[p] = "unknown" /\ \A c \in checks' : c.plot # p
                      \/ \E c \in checks' : c.plot = p /\ flag'[p] = Verdict(c.overlap)
    BY <1>5 DEF FlagHasEvidence
  <2>1. CASE p \in DOMAIN j.found
    BY <2>1, <1>3
  <2>2. CASE p \notin DOMAIN j.found
    <3>1. flag'[p] = flag[p]
      BY <1>4, <2>2 DEF Registered
    <3>2. \A c \in checks' : c.plot = p => c \in checks
      BY <1>1, <2>2
    <3> QED BY <1>1, <3>1, <3>2 DEF GInv, FlagHasEvidence
  <2> QED BY <2>1, <2>2
<1>8. LoadedSet'
  <2> SUFFICES ASSUME NEW i \in jobs, NEW p \in DOMAIN i.loaded, i.loaded[p] # "unknown"
               PROVE  flag'[p] \in {"compliant", "failing"}
    BY <1>1 DEF LoadedSet
  <2>1. p \in Plots
    BY DEF GInv, TypeOK, IsPartial, Registered
  <2> QED BY <2>1, <1>3, <1>4 DEF GInv, LoadedSet
<1>9. RiskIsMitigated' /\ Read'
  BY <1>1 DEF GInv, RiskIsMitigated, Read
<1> QED BY <1>1, <1>6, <1>7, <1>8, <1>9 DEF GInv

LEMMA AbortInv ==
  ASSUME GInv,
         \/ \E j \in jobs : AbortChecks(j)
         \/ \E b \in builds : AbortDds(b)
  PROVE  GInv'
BY DEF AbortChecks, AbortDds, GInv, TypeOK, IsPartial, FlagHasEvidence, RiskIsMitigated,
       LoadedSet, Read, Registered

LEMMA StartDdsInv ==
  ASSUME GInv, NEW s \in Sessions, NEW S \in SUBSET Plots, NEW mitigated \in BOOLEAN,
         StartDds(s, S, mitigated)
  PROVE  GInv'
<1> DEFINE b == [session |-> s, flags |-> [p \in S |-> flag[p]], evidence |-> Nothing,
                 mitigated |-> mitigated]
<1>1. /\ builds' = builds \cup {b} /\ S \subseteq Registered
      /\ UNCHANGED <<flag, checks, clock, jobs, statements>>
  BY DEF StartDds
<1>2. /\ b.session = s /\ b.mitigated = mitigated /\ DOMAIN b.flags = S
      /\ DOMAIN b.evidence = {} /\ \A p \in S : b.flags[p] \in Flag
  BY <1>1 DEF Nothing, GInv, TypeOK, Registered
<1> HIDE DEF b
<1>3. TypeOK'
  BY <1>1, <1>2 DEF GInv, TypeOK, IsPartial, Registered
<1>4. Read'
  BY <1>1, <1>2 DEF GInv, Read
<1>5. FlagHasEvidence' /\ RiskIsMitigated' /\ LoadedSet'
  BY <1>1 DEF GInv, FlagHasEvidence, RiskIsMitigated, LoadedSet, Registered
<1> QED BY <1>1, <1>3, <1>4, <1>5 DEF GInv

LEMMA ReadCheckInv ==
  ASSUME GInv, NEW b \in builds, NEW p \in Plots, ReadCheck(b, p)
  PROVE  GInv'
<1> DEFINE c == LatestCheck(p)
           d == [b EXCEPT !.evidence = Extend(b.evidence, p, c)]
<1>1. /\ p \in DOMAIN b.flags \ DOMAIN b.evidence
      /\ builds' = (builds \ {b}) \cup {d}
      /\ UNCHANGED <<flag, checks, clock, jobs, statements>>
  BY DEF ReadCheck
<1>2. /\ c \in Result \cup {None}
      /\ c # None => [plot |-> p, overlap |-> c.overlap, at |-> c.at] \in checks
  BY LatestCheckIn DEF GInv, TypeOK
<1>3. /\ d.session = b.session /\ d.flags = b.flags /\ d.mitigated = b.mitigated
      /\ d.evidence = Extend(b.evidence, p, c)
  BY DEF GInv, TypeOK
<1> HIDE DEF c, d
<1>4. /\ DOMAIN d.evidence = DOMAIN b.evidence \cup {p}
      /\ \A q \in DOMAIN d.evidence : d.evidence[q] = IF q = p THEN c ELSE b.evidence[q]
  BY <1>3 DEF Extend
<1>5. IsPartial(d.evidence, Result \cup {None}) /\ DOMAIN d.evidence \subseteq DOMAIN d.flags
  BY <1>1, <1>2, <1>3, <1>4 DEF GInv, TypeOK, IsPartial
<1>6. TypeOK'
  BY <1>1, <1>3, <1>5 DEF GInv, TypeOK, IsPartial, Registered
<1>7. Read'
  BY <1>1, <1>2, <1>4 DEF GInv, Read
<1>8. FlagHasEvidence' /\ RiskIsMitigated' /\ LoadedSet'
  BY <1>1 DEF GInv, FlagHasEvidence, RiskIsMitigated, LoadedSet, Registered
<1> QED BY <1>1, <1>6, <1>7, <1>8 DEF GInv

LEMMA CommitDdsInv ==
  ASSUME GInv, NEW b \in builds, CommitDds(b)
  PROVE  GInv'
<1> USE GateAssumption
<1> DEFINE n == Cardinality(statements) + 1
           st == [number |-> n, evidence |-> b.evidence, mitigated |-> b.mitigated]
<1>1. /\ RiskOf(b.evidence) = "negligible" \/ b.mitigated
      /\ Cardinality(statements) < MaxStatements
      /\ statements' = statements \cup {st} /\ builds' = builds \ {b}
      /\ UNCHANGED <<flag, checks, clock, jobs>>
  BY DEF CommitDds
<1>2. n \in 1..MaxStatements
  BY <1>1, FS_CardinalityType DEF GInv
<1>3. st.number = n /\ st.evidence = b.evidence /\ st.mitigated = b.mitigated
  OBVIOUS
<1> HIDE DEF st, n
<1>4. TypeOK'
  BY <1>1, <1>2, <1>3 DEF GInv, TypeOK, IsPartial, Registered
<1>5. RiskIsMitigated'
  <2> SUFFICES ASSUME NEW p \in DOMAIN b.evidence
               PROVE  LET c == b.evidence[p]
                      IN  IF c = None THEN b.mitigated
                          ELSE /\ [plot |-> p, overlap |-> c.overlap, at |-> c.at] \in checks
                               /\ c.overlap \in Scored => b.mitigated
    BY <1>1, <1>3 DEF GInv, RiskIsMitigated
  <2>1. Risky(b.evidence[p]) => b.mitigated
    BY <1>1 DEF RiskOf
  <2> QED BY <2>1 DEF Risky, GInv, Read
<1>6. FlagHasEvidence' /\ LoadedSet' /\ Read'
  BY <1>1 DEF GInv, FlagHasEvidence, LoadedSet, Read, Registered
<1>7. IsFiniteSet(statements)'
  BY <1>1, FS_AddElement DEF GInv
<1> QED BY <1>4, <1>5, <1>6, <1>7 DEF GInv

LEMMA GateNext ==
  ASSUME GInv, [Next]_vars
  PROVE  GInv'
<1>1. ASSUME NEW p \in Plots, RegisterPlot(p) PROVE GInv'
  BY <1>1, RegisterPlotInv
<1>2. ASSUME NEW s \in Sessions, NEW p \in Plots, StartCheck(s, p) PROVE GInv'
  <2>1. {p} \in SUBSET Registered
    BY <1>2 DEF StartCheck
  <2> QED BY <1>2, <2>1, StartJobInv DEF StartCheck
<1>3. ASSUME NEW s \in Sessions, StartRecheck(s) PROVE GInv'
  BY <1>3, StartJobInv DEF StartRecheck
<1>4. ASSUME NEW s \in Sessions, NEW S \in SUBSET Plots, NEW mitigated \in BOOLEAN,
             StartDds(s, S, mitigated)
      PROVE  GInv'
  BY <1>4, StartDdsInv
<1>5. ASSUME NEW j \in jobs,
             \/ CommitChecks(j) \/ AbortChecks(j)
             \/ \E p \in Plots, overlap \in Overlap : CheckPlot(j, p, overlap)
      PROVE  GInv'
  BY <1>5, CommitChecksInv, AbortInv, CheckPlotInv
<1>6. ASSUME NEW b \in builds,
             CommitDds(b) \/ AbortDds(b) \/ \E p \in Plots : ReadCheck(b, p)
      PROVE  GInv'
  BY <1>6, CommitDdsInv, AbortInv, ReadCheckInv
<1>7. CASE UNCHANGED vars
  BY <1>7 DEF vars, GInv, TypeOK, IsPartial, FlagHasEvidence, RiskIsMitigated, LoadedSet,
              Read, Registered
<1> QED BY <1>1, <1>2, <1>3, <1>4, <1>5, <1>6, <1>7 DEF Next, Quiescent

LEMMA GateInvariance == Spec => []GInv
<1>1. Init => GInv
  BY GateInit
<1>2. GInv /\ [Next]_vars => GInv'
  BY GateNext
<1> QED BY <1>1, <1>2, PTL DEF Spec

-----------------------------------------------------------------------------

(* Flags, checks, jobs, builds and statements have their types and speak   *)
(* of registered plots only.                                               *)
THEOREM GateTypes == Spec => []TypeOK
<1>1. GInv => TypeOK
  BY DEF GInv
<1> QED BY <1>1, GateInvariance, PTL

(* Commits in any order leave a flag that some committed check accounts    *)
(* for: a verdict is never invented and a check never lost without trace.  *)
THEOREM FlagsAccounted == Spec => []FlagHasEvidence
<1>1. GInv => FlagHasEvidence
  BY DEF GInv
<1> QED BY <1>1, GateInvariance, PTL

(* No race between checks and create_dds lets a statement rest on a risk   *)
(* it does not mitigate, or on a check that was rolled back.               *)
THEOREM RisksMitigated == Spec => []RiskIsMitigated
<1>1. GInv => RiskIsMitigated
  BY DEF GInv
<1> QED BY <1>1, GateInvariance, PTL

-----------------------------------------------------------------------------
(* Plots and statements nothing overtook                                   *)

OneJobEach == \A j, k \in jobs : j.session = k.session => j = k

(* Two open checks of a plot have met.                                     *)
MetIsKnown ==
  \A j, k \in jobs : j # k =>
    \A p \in DOMAIN j.loaded \cap DOMAIN k.loaded : <<j.session, p>> \in met

(* checked_at tells the checks of a plot apart, and one that has met no    *)
(* other is later than every committed one.                                *)
Dated ==
  /\ \A c \in checks : c.at <= clock
  /\ \A j \in jobs : \A p \in DOMAIN j.found :
       /\ j.found[p].at <= clock
       /\ \A c \in checks : c.plot = p => c.at # j.found[p].at
       /\ \A k \in jobs \ {j} : p \in DOMAIN k.found => k.found[p].at # j.found[p].at
       /\ <<j.session, p>> \notin met =>
            \A c \in checks : c.plot = p => c.at < j.found[p].at

(* What a check loaded is out of date only if it has met another.          *)
LoadedIsCurrent ==
  \A j \in jobs : \A p \in DOMAIN j.loaded :
    <<j.session, p>> \notin met => flag[p] = j.loaded[p]

(* What a build loaded and read is out of date only if it was overtaken.   *)
BuiltIsCurrent ==
  \A b \in builds : \A p \in DOMAIN b.flags : <<b.session, p>> \notin overtaken =>
    /\ flag[p] = b.flags[p]
    /\ p \in DOMAIN b.evidence => b.evidence[p] = LatestCheck(p) /\ b.flags[p] # "failing"

JobsInv == OneJobEach /\ MetIsKnown /\ Dated /\ LoadedIsCurrent

WInv == GInv /\ JobsInv /\ LossBlocks /\ BuiltIsCurrent

-----------------------------------------------------------------------------
(* What the watched variables say                                          *)

(* A check that has met no other by the next state had met none before,    *)
(* and is then the only one of its plot.                                   *)
LEMMA Unmet ==
  ASSUME GInv', Watch, NEW j \in jobs', NEW p \in DOMAIN j.loaded, <<j.session, p>> \notin met'
  PROVE  /\ <<j.session, p>> \notin met
         /\ \A k \in jobs' : p \in DOMAIN k.loaded => k.session = j.session
<1>1. j.session \in Sessions /\ p \in Plots
  BY DEF GInv, TypeOK, IsPartial, Registered
<1>2. Checking(jobs', j.session, p)
  BY DEF Checking
<1>3. /\ <<j.session, p>> \notin met
      /\ \A t \in Sessions \ {j.session} : ~ Checking(jobs', t, p)
  BY <1>1, <1>2 DEF Watch
<1>4. \A k \in jobs' : k.session \in Sessions
  BY DEF GInv, TypeOK
<1> QED BY <1>3, <1>4 DEF Checking

LEMMA MetStep ==
  ASSUME GInv', Watch, OneJobEach'
  PROVE  MetIsKnown'
<1> SUFFICES ASSUME NEW j \in jobs', NEW k \in jobs', j # k,
                    NEW p \in DOMAIN j.loaded \cap DOMAIN k.loaded,
                    <<j.session, p>> \notin met'
             PROVE  FALSE
  BY DEF MetIsKnown
<1>1. k.session = j.session
  BY Unmet
<1> QED BY <1>1 DEF OneJobEach

(* A build that is not overtaken by the next state was not before, and no  *)
(* check of its plot has just been committed.                              *)
LEMMA Current ==
  ASSUME GInv', Watch, NEW b \in builds', NEW p \in DOMAIN b.flags,
         <<b.session, p>> \notin overtaken'
  PROVE  <<b.session, p>> \notin overtaken /\ ~ JustChecked(p)
<1>1. b.session \in Sessions /\ p \in Plots
  BY DEF GInv, TypeOK, IsPartial, Registered
<1>2. Building(builds', b.session, p)
  BY DEF Building
<1> QED BY <1>1, <1>2 DEF Watch

(* A plot without a new check has the latest check it had.                 *)
LEMMA SameLatest ==
  ASSUME NEW p \in Plots, checks \subseteq checks', ~ JustChecked(p)
  PROVE  LatestCheck(p)' = LatestCheck(p)
<1>1. {c \in checks' : c.plot = p} = {c \in checks : c.plot = p}
  BY DEF JustChecked
<1> QED BY <1>1 DEF LatestCheck

-----------------------------------------------------------------------------
(* Jobs                                                                    *)

LEMMA WatchedInitInv ==
  ASSUME WatchedInit PROVE WInv
BY GateInit DEF WatchedInit, Init, WInv, JobsInv, OneJobEach, MetIsKnown, Dated, LoadedIsCurrent,
   BuiltIsCurrent, LossBlocks, Registered

(* Steps that leave the checks alone, and the jobs or some of them.        *)
LEMMA JobsKept ==
  ASSUME WInv, GInv', Watch, jobs' \subseteq jobs, checks' = checks, clock' = clock,
         \A p \in Registered : flag'[p] = flag[p]
  PROVE  JobsInv'
<1>1. OneJobEach'
  BY DEF WInv, JobsInv, OneJobEach
<1>2. \A j \in jobs' : \A p \in DOMAIN j.loaded :
        p \in Registered /\ (<<j.session, p>> \notin met' => <<j.session, p>> \notin met)
  BY Unmet DEF WInv, GInv, TypeOK, IsPartial
<1>3. \A j \in jobs' : \A p \in DOMAIN j.found : p \in DOMAIN j.loaded
  BY DEF WInv, GInv, TypeOK
<1>4. Dated'
  BY <1>2, <1>3 DEF WInv, JobsInv, Dated
<1>5. LoadedIsCurrent'
  BY <1>2 DEF WInv, JobsInv, LoadedIsCurrent
<1> QED BY <1>1, <1>4, <1>5, MetStep DEF JobsInv

LEMMA JobsStarted ==
  ASSUME WInv, GInv', Watch, NEW s \in Sessions, NEW S \in SUBSET Registered, StartJob(s, S)
  PROVE  JobsInv'
<1> DEFINE job == [session |-> s, loaded |-> [p \in S |-> flag[p]], found |-> Nothing]
<1>1. /\ jobs' = jobs \cup {job} /\ Free(s)
      /\ UNCHANGED <<flag, checks, clock, builds, statements>>
  BY DEF StartJob
<1>2. /\ job.session = s /\ DOMAIN job.loaded = S /\ DOMAIN job.found = {}
      /\ \A p \in S : job.loaded[p] = flag[p]
  BY DEF Nothing
<1> HIDE DEF job
<1>3. OneJobEach'
  BY <1>1, <1>2 DEF WInv, JobsInv, OneJobEach, Free
<1>4. \A j \in jobs' : \A p \in DOMAIN j.loaded :
        <<j.session, p>> \notin met' => <<j.session, p>> \notin met
  BY Unmet
<1>5. \A j \in jobs : j \in jobs' /\ \A p \in DOMAIN j.found : p \in DOMAIN j.loaded
  BY <1>1 DEF WInv, GInv, TypeOK
<1>6. Dated'
  BY <1>1, <1>2, <1>4, <1>5 DEF WInv, JobsInv, Dated
<1>7. LoadedIsCurrent'
  BY <1>1, <1>2, <1>4 DEF WInv, JobsInv, LoadedIsCurrent
<1> QED BY <1>3, <1>6, <1>7, MetStep DEF JobsInv

LEMMA JobsChecked ==
  ASSUME WInv, GInv', Watch, NEW j \in jobs, NEW p \in Plots, NEW overlap \in Overlap,
         CheckPlot(j, p, overlap)
  PROVE  JobsInv'
<1> USE GateAssumption
<1> DEFINE result == [overlap |-> overlap, at |-> clock + 1]
           k == [j EXCEPT !.found = Extend(j.found, p, result)]
<1>1. /\ p \in DOMAIN j.loaded \ DOMAIN j.found
      /\ clock' = clock + 1 /\ jobs' = (jobs \ {j}) \cup {k}
      /\ UNCHANGED <<flag, checks, builds, statements>>
  BY DEF CheckPlot
<1>2. /\ k.session = j.session /\ k.loaded = j.loaded /\ result.at = clock + 1
      /\ DOMAIN k.found = DOMAIN j.found \cup {p}
      /\ \A q \in DOMAIN k.found : k.found[q] = IF q = p THEN result ELSE j.found[q]
  BY DEF WInv, GInv, TypeOK, Extend
<1> HIDE DEF result, k
<1>3. OneJobEach'
  BY <1>1, <1>2 DEF WInv, JobsInv, OneJobEach
<1>4. \A i \in jobs' : \A q \in DOMAIN i.loaded :
        <<i.session, q>> \notin met' => <<i.session, q>> \notin met
  BY Unmet
<1>5. \A i \in jobs : \A q \in DOMAIN i.found : q \in DOMAIN i.loaded
  BY DEF WInv, GInv, TypeOK
<1>6. /\ clock \in Nat /\ \A c \in checks : c.at \in Nat
      /\ \A i \in jobs : \A q \in DOMAIN i.found : i.found[q].at \in Nat
  BY DEF WInv, GInv, TypeOK, Check, IsPartial, Result
<1>7. \A c \in checks' : c.at <= clock'
  BY <1>1, <1>6 DEF WInv, JobsInv, Dated
<1>8. ASSUME NEW i \in jobs', NEW q \in DOMAIN i.found
      PROVE  /\ i.found[q].at <= clock'
             /\ \A c \in checks : c.plot = q => c.at # i.found[q].at
             /\ \A l \in jobs' \ {i} : q \in DOMAIN l.found => l.found[q].at # i.found[q].at
             /\ <<i.session, q>> \notin met' =>
                  \A c \in checks : c.plot = q => c.at < i.found[q].at
  <2>1. CASE i = k /\ q = p
    <3>1. i.found[q].at = clock + 1
      BY <2>1, <1>2
    <3>2. \A c \in checks : c.at <= clock
      BY DEF WInv, JobsInv, Dated
    <3>3. \A l \in jobs' \ {i} : l \in jobs
      BY <1>1, <2>1
    <3>4. \A l \in jobs : \A r \in DOMAIN l.found : l.found[r].at <= clock
      BY DEF WInv, JobsInv, Dated
    <3> QED BY <1>1, <1>6, <3>1, <3>2, <3>3, <3>4
  <2>2. CASE ~ (i = k /\ q = p)
    <3> DEFINE Before(m) == IF m = k THEN j ELSE m
    <3>1. /\ Before(i) \in jobs /\ q \in DOMAIN Before(i).found
          /\ i.found[q] = Before(i).found[q] /\ i.session = Before(i).session
          /\ q \in DOMAIN i.loaded
      BY <1>1, <1>2, <1>5, <2>2
    <3>2. /\ i.found[q].at <= clock /\ i.found[q].at \in Nat
          /\ \A c \in checks : c.plot = q => c.at # i.found[q].at
          /\ \A l \in jobs \ {Before(i)} :
               q \in DOMAIN l.found => l.found[q].at # i.found[q].at
      BY <1>6, <3>1 DEF WInv, JobsInv, Dated
    <3>3. ASSUME NEW l \in jobs' \ {i}, q \in DOMAIN l.found
          PROVE  l.found[q].at # i.found[q].at
      <4>1. CASE l = k /\ q = p
        BY <4>1, <1>2, <1>6, <3>2
      <4>2. CASE ~ (l = k /\ q = p)
        <5>1. /\ Before(l) \in jobs /\ q \in DOMAIN Before(l).found
              /\ l.found[q] = Before(l).found[q] /\ l.session = Before(l).session
          BY <1>1, <1>2, <3>3, <4>2
        <5>2. Before(l) # Before(i)
          BY <1>1, <1>2, <1>3, <3>1, <3>3, <5>1 DEF OneJobEach
        <5> QED BY <3>2, <5>1, <5>2
      <4> QED BY <4>1, <4>2
    <3>4. <<i.session, q>> \notin met' => \A c \in checks : c.plot = q => c.at < i.found[q].at
      BY <1>4, <3>1 DEF WInv, JobsInv, Dated
    <3> QED BY <1>1, <1>6, <3>2, <3>3, <3>4
  <2> QED BY <2>1, <2>2
<1>9. Dated'
  BY <1>1, <1>7, <1>8 DEF Dated
<1>10. LoadedIsCurrent'
  BY <1>1, <1>2, <1>4 DEF WInv, JobsInv, LoadedIsCurrent
<1> QED BY <1>3, <1>9, <1>10, MetStep DEF JobsInv

(* A commit of checks: the rows are new, and of the job's plots.           *)
LEMMA CommitRows ==
  ASSUME WInv, NEW j \in jobs, CommitChecks(j), NEW p \in Plots
  PROVE  /\ p \notin DOMAIN j.found => ~ JustChecked(p) /\ flag'[p] = flag[p]
         /\ p \in DOMAIN j.found =>
              LET row == [plot |-> p, overlap |-> j.found[p].overlap, at |-> j.found[p].at]
              IN  /\ row \in checks' /\ row \notin checks
                  /\ \A c \in checks' : c.plot = p => c \in checks \/ c = row
                  /\ flag'[p] = Flagged(j, p)
<1> DEFINE Row(q) == [plot |-> q, overlap |-> j.found[q].overlap, at |-> j.found[q].at]
<1>1. /\ checks' = checks \cup {Row(q) : q \in DOMAIN j.found}
      /\ flag' = [q \in Plots |-> IF q \in DOMAIN j.found THEN Flagged(j, q) ELSE flag[q]]
  BY DEF CommitChecks
<1>2. \A q : Row(q).plot = q /\ Row(q).at = j.found[q].at
  OBVIOUS
<1>3. \A q \in DOMAIN j.found : \A c \in checks : c.plot = q => c.at # j.found[q].at
  BY DEF WInv, JobsInv, Dated
<1> HIDE DEF Row
<1>4. p \notin DOMAIN j.found => ~ JustChecked(p) /\ flag'[p] = flag[p]
  BY <1>1, <1>2 DEF JustChecked
<1>5. ASSUME p \in DOMAIN j.found
      PROVE  /\ Row(p) \in checks' /\ Row(p) \notin checks
             /\ \A c \in checks' : c.plot = p => c \in checks \/ c = Row(p)
             /\ flag'[p] = Flagged(j, p)
  BY <1>1, <1>2, <1>3, <1>5
<1> QED BY <1>4, <1>5 DEF Row

LEMMA JobsCommitted ==
  ASSUME WInv, GInv', Watch, NEW j \in jobs, CommitChecks(j)
  PROVE  JobsInv'
<1>1. DOMAIN j.found = DOMAIN j.loaded /\ jobs' = jobs \ {j} /\ UNCHANGED clock
  BY DEF CommitChecks
<1>2. OneJobEach'
  BY <1>1 DEF WInv, JobsInv, OneJobEach
<1>3. \A i \in jobs : \A q \in DOMAIN i.loaded : q \in Plots
  BY DEF WInv, GInv, TypeOK, IsPartial, Registered
<1>4. \A i \in jobs : \A q \in DOMAIN i.found : q \in DOMAIN i.loaded
  BY DEF WInv, GInv, TypeOK
<1>5. ASSUME NEW i \in jobs', NEW q \in DOMAIN i.loaded, <<i.session, q>> \notin met'
      PROVE  <<i.session, q>> \notin met /\ q \notin DOMAIN j.found
  BY <1>1, <1>4, <1>5, Unmet DEF WInv, JobsInv, MetIsKnown
<1>6. \A c \in checks' : c \in checks \/ \E q \in DOMAIN j.found :
        c.plot = q /\ c.at = j.found[q].at
  BY DEF CommitChecks
<1>7. \A c \in checks' : c.at <= clock'
  BY <1>1, <1>6 DEF WInv, JobsInv, Dated
<1>8. ASSUME NEW i \in jobs', NEW q \in DOMAIN i.found
      PROVE  /\ i.found[q].at <= clock'
             /\ \A c \in checks' : c.plot = q => c.at # i.found[q].at
             /\ \A k \in jobs' \ {i} : q \in DOMAIN k.found => k.found[q].at # i.found[q].at
             /\ <<i.session, q>> \notin met' =>
                  \A c \in checks' : c.plot = q => c.at < i.found[q].at
  <2>1. i \in jobs /\ i # j /\ q \in DOMAIN i.loaded
    BY <1>1, <1>4
  <2>2. /\ i.found[q].at <= clock
        /\ \A c \in checks : c.plot = q => c.at # i.found[q].at
        /\ \A k \in jobs \ {i} : q \in DOMAIN k.found => k.found[q].at # i.found[q].at
        /\ <<i.session, q>> \notin met =>
             \A c \in checks : c.plot = q => c.at < i.found[q].at
    BY <2>1 DEF WInv, JobsInv, Dated
  <2>3. \A c \in checks' : c.plot = q => c.at # i.found[q].at
    BY <1>6, <2>1, <2>2
  <2>4. <<i.session, q>> \notin met' =>
          \A c \in checks' : c.plot = q => c.at < i.found[q].at
    BY <1>5, <1>6, <2>1, <2>2
  <2> QED BY <1>1, <2>1, <2>2, <2>3, <2>4
<1>9. Dated'
  BY <1>7, <1>8 DEF Dated
<1>10. LoadedIsCurrent'
  <2> SUFFICES ASSUME NEW i \in jobs', NEW q \in DOMAIN i.loaded, <<i.session, q>> \notin met'
               PROVE  flag'[q] = i.loaded[q]
    BY DEF LoadedIsCurrent
  <2>1. flag'[q] = flag[q]
    BY <1>1, <1>3, <1>5, CommitRows
  <2> QED BY <1>1, <1>5, <2>1 DEF WInv, JobsInv, LoadedIsCurrent
<1> QED BY <1>2, <1>9, <1>10, MetStep DEF JobsInv

-----------------------------------------------------------------------------
(* Flags                                                                   *)

(* Steps that commit no check.                                             *)
LEMMA FlagsKept ==
  ASSUME WInv, Watch, checks' = checks, \A p \in Registered : flag'[p] = flag[p],
         Registered \subseteq Registered'
  PROVE  LossBlocks'
<1> SUFFICES ASSUME NEW p \in Registered', p \notin unsettled', LatestCheck(p)' # None
             PROVE  flag'[p] = Verdict(LatestCheck(p).overlap)'
  BY DEF LossBlocks
<1>1. p \in Plots /\ ~ JustChecked(p)
  BY DEF Registered, JustChecked
<1>2. p \notin unsettled
  BY <1>1 DEF Watch
<1>3. LatestCheck(p)' = LatestCheck(p)
  BY <1>1, SameLatest
<1>4. p \in Registered
  BY <1>1, <1>3, LatestCheckIn DEF WInv, GInv, TypeOK
<1>5. flag'[p] = Verdict(LatestCheck(p).overlap)
  BY <1>2, <1>3, <1>4 DEF WInv, LossBlocks
<1> QED BY <1>3, <1>5 DEF Verdict

(* A check that met no other leaves its plot with its verdict.             *)
LEMMA FlagsCommitted ==
  ASSUME WInv, GInv', Watch, NEW j \in jobs, CommitChecks(j)
  PROVE  LossBlocks'
<1>1. DOMAIN j.found = DOMAIN j.loaded /\ jobs' = jobs \ {j} /\ checks \subseteq checks'
  BY DEF CommitChecks
<1> SUFFICES ASSUME NEW p \in Registered', p \notin unsettled', LatestCheck(p)' # None
             PROVE  flag'[p] = Verdict(LatestCheck(p)'.overlap)
  BY DEF LossBlocks, Verdict
<1>2. p \in Plots
  BY DEF Registered
<1>3. CASE p \notin DOMAIN j.found
  <2>1. ~ JustChecked(p) /\ flag'[p] = flag[p]
    BY <1>2, <1>3, CommitRows
  <2>2. LatestCheck(p)' = LatestCheck(p) /\ p \notin unsettled
    BY <1>1, <1>2, <2>1, SameLatest DEF Watch
  <2>3. p \in Registered
    BY <1>2, <2>2, LatestCheckIn DEF WInv, GInv, TypeOK
  <2> QED BY <2>1, <2>2, <2>3 DEF WInv, LossBlocks
<1>4. CASE p \in DOMAIN j.found
  <2> DEFINE row == [plot |-> p, overlap |-> j.found[p].overlap, at |-> j.found[p].at]
             rows == {c \in checks' : c.plot = p}
             latest == CHOOSE c \in rows : \A d \in rows : d.at <= c.at
  <2>1. /\ row \in checks' /\ row \notin checks
        /\ \A c \in checks' : c.plot = p => c \in checks \/ c = row
        /\ flag'[p] = Flagged(j, p)
    BY <1>2, <1>4, CommitRows
  <2>2. row.plot = p /\ row.at = j.found[p].at /\ row.overlap = j.found[p].overlap
    OBVIOUS
  <2> HIDE DEF row
  <2>3. <<j.session, p>> \notin met
    <3>1. JustChecked(p)
      BY <2>1, <2>2 DEF JustChecked
    <3>2. ~ \E i \in jobs \ jobs' : <<i.session, p>> \in met
      BY <1>2, <3>1 DEF Watch
    <3> QED BY <1>1, <3>2
  <2>4. \A c \in checks : c.plot = p => c.at < row.at
    BY <1>4, <2>2, <2>3 DEF WInv, JobsInv, Dated
  <2>5. \A c \in checks' : c.at \in Nat
    BY GateAssumption DEF GInv, TypeOK, Check
  <2>6. row \in rows /\ \A d \in rows : d.at <= row.at
    BY <2>1, <2>2, <2>4, <2>5
  <2>7. \A c \in rows : (\A d \in rows : d.at <= c.at) => c = row
    BY <2>1, <2>4, <2>5, <2>6
  <2>8. latest = row
    BY <2>6, <2>7
  <2>9. LatestCheck(p)'.overlap = j.found[p].overlap
    <3>1. LatestCheck(p)' = [overlap |-> latest.overlap, at |-> latest.at]
      BY <2>6 DEF LatestCheck
    <3> HIDE DEF latest
    <3> QED BY <2>2, <2>8, <3>1
  <2>10. flag[p] = j.loaded[p]
    BY <1>1, <1>4, <2>3 DEF WInv, JobsInv, LoadedIsCurrent
  <2>11. flag'[p] = Verdict(j.found[p].overlap)
    BY <2>1, <2>10 DEF Flagged
  <2> QED BY <2>9, <2>11
<1> QED BY <1>3, <1>4

-----------------------------------------------------------------------------
(* Builds                                                                  *)

(* Builds that stay have what they had, if nothing overtook them.          *)
LEMMA BuildsKept ==
  ASSUME WInv, GInv', Watch, checks \subseteq checks',
         \A p \in Registered : ~ JustChecked(p) => flag'[p] = flag[p],
         NEW b \in builds', b \in builds, NEW p \in DOMAIN b.flags,
         <<b.session, p>> \notin overtaken'
  PROVE  /\ flag'[p] = b.flags[p] /\ LatestCheck(p)' = LatestCheck(p)
         /\ p \in DOMAIN b.evidence =>
              b.evidence[p] = LatestCheck(p)' /\ b.flags[p] # "failing"
<1>1. <<b.session, p>> \notin overtaken /\ ~ JustChecked(p)
  BY Current
<1>2. p \in Registered /\ p \in Plots
  BY DEF WInv, GInv, TypeOK, IsPartial, Registered
<1>3. LatestCheck(p)' = LatestCheck(p)
  BY <1>1, <1>2, SameLatest
<1> QED BY <1>1, <1>2, <1>3 DEF WInv, BuiltIsCurrent

LEMMA BuildsStay ==
  ASSUME WInv, GInv', Watch, checks \subseteq checks', builds' \subseteq builds,
         \A p \in Registered : ~ JustChecked(p) => flag'[p] = flag[p]
  PROVE  BuiltIsCurrent'
<1> SUFFICES ASSUME NEW b \in builds', NEW p \in DOMAIN b.flags,
                    <<b.session, p>> \notin overtaken'
             PROVE  /\ flag'[p] = b.flags[p]
                    /\ p \in DOMAIN b.evidence =>
                         b.evidence[p] = LatestCheck(p)' /\ b.flags[p] # "failing"
  BY DEF BuiltIsCurrent
<1> QED BY BuildsKept

LEMMA BuildsStarted ==
  ASSUME WInv, GInv', Watch, NEW s \in Sessions, NEW S \in SUBSET Plots,
         NEW mitigated \in BOOLEAN, StartDds(s, S, mitigated)
  PROVE  BuiltIsCurrent'
<1> DEFINE b == [session |-> s, flags |-> [p \in S |-> flag[p]], evidence |-> Nothing,
                 mitigated |-> mitigated]
<1>1. /\ builds' = builds \cup {b}
      /\ UNCHANGED <<flag, checks, clock, jobs, statements>>
  BY DEF StartDds
<1>2. DOMAIN b.evidence = {} /\ \A p \in DOMAIN b.flags : b.flags[p] = flag[p]
  BY DEF Nothing
<1> HIDE DEF b
<1> SUFFICES ASSUME NEW a \in builds', NEW p \in DOMAIN a.flags,
                    <<a.session, p>> \notin overtaken'
             PROVE  /\ flag'[p] = a.flags[p]
                    /\ p \in DOMAIN a.evidence =>
                         a.evidence[p] = LatestCheck(p)' /\ a.flags[p] # "failing"
  BY DEF BuiltIsCurrent
<1>3. CASE a \in builds
  BY <1>1, <1>3, BuildsKept
<1>4. CASE a = b
  BY <1>1, <1>2, <1>4
<1> QED BY <1>1, <1>3, <1>4

LEMMA BuildsRead ==
  ASSUME WInv, GInv', Watch, NEW b \in builds, NEW q \in Plots, ReadCheck(b, q)
  PROVE  BuiltIsCurrent'
<1> DEFINE c == LatestCheck(q)
           d == [b EXCEPT !.evidence = Extend(b.evidence, q, c)]
<1>1. /\ q \in DOMAIN b.flags \ DOMAIN b.evidence /\ b.flags[q] # "failing"
      /\ builds' = (builds \ {b}) \cup {d}
      /\ UNCHANGED <<flag, checks, clock, jobs, statements>>
  BY DEF ReadCheck, Passable
<1>2. /\ d.session = b.session /\ d.flags = b.flags
      /\ DOMAIN d.evidence = DOMAIN b.evidence \cup {q}
      /\ \A p \in DOMAIN d.evidence : d.evidence[p] = IF p = q THEN c ELSE b.evidence[p]
  BY DEF WInv, GInv, TypeOK, Extend
<1>3. \A p \in Plots : LatestCheck(p)' = LatestCheck(p)
  BY <1>1, SameLatest DEF JustChecked
<1> HIDE DEF d
<1> SUFFICES ASSUME NEW a \in builds', NEW p \in DOMAIN a.flags,
                    <<a.session, p>> \notin overtaken'
             PROVE  /\ flag'[p] = a.flags[p]
                    /\ p \in DOMAIN a.evidence =>
                         a.evidence[p] = LatestCheck(p)' /\ a.flags[p] # "failing"
  BY DEF BuiltIsCurrent
<1>4. CASE a \in builds
  BY <1>1, <1>4, BuildsKept
<1>5. CASE a = d
  <2>1. <<b.session, p>> \notin overtaken
    BY <1>2, <1>5, Current
  <2>2. /\ flag[p] = b.flags[p] /\ p \in Plots
        /\ p \in DOMAIN b.evidence =>
             b.evidence[p] = LatestCheck(p) /\ b.flags[p] # "failing"
    BY <1>2, <1>5, <2>1 DEF WInv, GInv, TypeOK, IsPartial, Registered, BuiltIsCurrent
  <2> QED BY <1>1, <1>2, <1>3, <1>5, <2>2
<1> QED BY <1>1, <1>4, <1>5

-----------------------------------------------------------------------------

LEMMA WatchedStep ==
  ASSUME WInv, [WatchedNext]_watched
  PROVE  WInv'
<1>1. GInv'
  BY GateNext DEF WInv, WatchedNext, watched
<1>2. ASSUME Watch, NEW p \in Plots, RegisterPlot(p) PROVE WInv'
  <2>1. /\ \A q \in Registered : flag'[q] = flag[q]
        /\ Registered \subseteq Registered'
        /\ checks' = checks /\ clock' = clock /\ jobs' = jobs /\ builds' = builds
    BY <1>2 DEF RegisterPlot, Registered, WInv, GInv, TypeOK
  <2> QED BY <1>1, <1>2, <2>1, JobsKept, FlagsKept, BuildsStay DEF WInv
<1>3. ASSUME Watch, NEW s \in Sessions, NEW S \in SUBSET Registered, StartJob(s, S)
      PROVE  WInv'
  <2>1. UNCHANGED <<flag, checks, builds>> /\ Registered' = Registered
    BY <1>3 DEF StartJob, Registered
  <2> QED BY <1>1, <1>3, <2>1, JobsStarted, FlagsKept, BuildsStay DEF WInv
<1>4. ASSUME Watch, NEW s \in Sessions, NEW S \in SUBSET Plots, NEW mitigated \in BOOLEAN,
             StartDds(s, S, mitigated)
      PROVE  WInv'
  <2>1. UNCHANGED <<flag, checks, clock, jobs>> /\ Registered' = Registered
    BY <1>4 DEF StartDds, Registered
  <2> QED BY <1>1, <1>4, <2>1, JobsKept, FlagsKept, BuildsStarted DEF WInv
<1>5. ASSUME Watch, NEW j \in jobs, CommitChecks(j) PROVE WInv'
  <2>1. checks \subseteq checks' /\ builds' = builds
    BY <1>5 DEF CommitChecks
  <2>2. \A p \in Registered : ~ JustChecked(p) => flag'[p] = flag[p]
    <3> SUFFICES ASSUME NEW p \in Registered, ~ JustChecked(p) PROVE flag'[p] = flag[p]
      OBVIOUS
    <3>1. p \in Plots
      BY DEF Registered
    <3>2. CASE p \notin DOMAIN j.found
      BY <1>5, <3>1, <3>2, CommitRows
    <3>3. CASE p \in DOMAIN j.found
      <4> DEFINE row == [plot |-> p, overlap |-> j.found[p].overlap, at |-> j.found[p].at]
      <4>1. row \in checks' \ checks
        BY <1>5, <3>1, <3>3, CommitRows
      <4>2. row.plot = p
        OBVIOUS
      <4> QED BY <4>1, <4>2 DEF JustChecked
    <3> QED BY <3>2, <3>3
  <2> QED BY <1>1, <1>5, <2>1, <2>2, JobsCommitted, FlagsCommitted, BuildsStay DEF WInv
<1>6. ASSUME Watch, NEW j \in jobs, AbortChecks(j) PROVE WInv'
  <2>1. /\ UNCHANGED <<flag, checks, clock, builds>> /\ Registered' = Registered
        /\ jobs' \subseteq jobs
    BY <1>6 DEF AbortChecks, Registered
  <2> QED BY <1>1, <1>6, <2>1, JobsKept, FlagsKept, BuildsStay DEF WInv
<1>7. ASSUME Watch, NEW j \in jobs, NEW p \in Plots, NEW overlap \in Overlap,
             CheckPlot(j, p, overlap)
      PROVE  WInv'
  <2>1. UNCHANGED <<flag, checks, builds>> /\ Registered' = Registered
    BY <1>7 DEF CheckPlot, Registered
  <2> QED BY <1>1, <1>7, <2>1, JobsChecked, FlagsKept, BuildsStay DEF WInv
<1>8. ASSUME Watch, NEW b \in builds, CommitDds(b) \/ AbortDds(b) PROVE WInv'
  <2>1. /\ UNCHANGED <<flag, checks, clock, jobs>> /\ Registered' = Registered
        /\ builds' \subseteq builds
    BY <1>8 DEF CommitDds, AbortDds, Registered
  <2> QED BY <1>1, <1>8, <2>1, JobsKept, FlagsKept, BuildsStay DEF WInv
<1>9. ASSUME Watch, NEW b \in builds, NEW p \in Plots, ReadCheck(b, p) PROVE WInv'
  <2>1. UNCHANGED <<flag, checks, clock, jobs>> /\ Registered' = Registered
    BY <1>9 DEF ReadCheck, Registered
  <2> QED BY <1>1, <1>9, <2>1, JobsKept, FlagsKept, BuildsRead DEF WInv
<1>10. ASSUME Watch, Quiescent PROVE WInv'
  <2>1. UNCHANGED <<flag, checks, clock, jobs, builds>> /\ Registered' = Registered
    BY <1>10 DEF Quiescent, vars, Registered
  <2> QED BY <1>1, <1>10, <2>1, JobsKept, FlagsKept, BuildsStay DEF WInv
<1>11. CASE UNCHANGED watched
  <2>1. UNCHANGED <<flag, checks, clock, jobs, builds, met, unsettled, overtaken>>
    BY <1>11 DEF watched, vars
  <2> QED BY <1>1, <2>1 DEF WInv, JobsInv, OneJobEach, MetIsKnown, Dated, LoadedIsCurrent,
                            BuiltIsCurrent, LossBlocks, Registered, LatestCheck
<1>12. ASSUME NEW s \in Sessions, NEW p \in Plots, StartCheck(s, p)
       PROVE  {p} \in SUBSET Registered /\ StartJob(s, {p})
  BY <1>12 DEF StartCheck
<1> QED BY <1>2, <1>3, <1>4, <1>5, <1>6, <1>7, <1>8, <1>9, <1>10, <1>11, <1>12
        DEF WatchedNext, Next, StartRecheck

LEMMA WatchedInvariance == WatchedSpec => []WInv
<1>1. WatchedInit => WInv
  BY WatchedInitInv
<1>2. WInv /\ [WatchedNext]_watched => WInv'
  BY WatchedStep
<1> QED BY <1>1, <1>2, PTL DEF WatchedSpec

-----------------------------------------------------------------------------

(* A plot whose last check met no other is flagged as its latest check     *)
(* found it, whatever happened to it before.                               *)
THEOREM SettledFlags == WatchedSpec => []LossBlocks
<1>1. WInv => LossBlocks
  BY DEF WInv
<1> QED BY <1>1, WatchedInvariance, PTL

(* A plot that counts as no risk in a statement is one whose flag the      *)
(* statement saw set to compliant.                                         *)
THEOREM NoRiskIsCompliant == WatchedSpec => []NegligibleIsCompliant
<1>1. ASSUME WInv PROVE NegligibleIsCompliant
  <2> SUFFICES ASSUME NEW b \in builds, NEW p \in DOMAIN b.evidence, ~ Risky(b.evidence[p]),
                      <<b.session, p>> \notin overtaken
               PROVE  b.flags[p] = "compliant"
    BY DEF NegligibleIsCompliant
  <2>1. p \in DOMAIN b.flags /\ p \in Plots /\ b.flags[p] \in Flag
    BY <1>1 DEF WInv, GInv, TypeOK, IsPartial, Registered
  <2>2. flag[p] = b.flags[p] /\ b.evidence[p] = LatestCheck(p) /\ flag[p] # "failing"
    BY <1>1, <2>1 DEF WInv, BuiltIsCurrent
  <2>3. \E c \in checks : c.plot = p
    BY <1>1, <2>1, <2>2, LatestCheckIn DEF Risky, WInv, GInv, TypeOK
  <2>4. flag[p] # "unknown"
    BY <1>1, <2>1, <2>2, <2>3 DEF WInv, GInv, FlagHasEvidence, Verdict, Registered, Flag
  <2> QED BY <2>1, <2>2, <2>4 DEF Flag
<1> QED BY <1>1, WatchedInvariance, PTL

(* create_dds commits no statement on a plot that is failing, or on a      *)
(* check that failed it, unless a check overtook it.                       *)
THEOREM GateStands == WatchedSpec => GateHolds
<1>1. ASSUME WInv, [WatchedNext]_watched, NEW b \in builds,
             statements' # statements /\ b \notin builds',
             NEW p \in DOMAIN b.evidence, <<b.session, p>> \notin overtaken
      PROVE  /\ flag[p] # "failing"
             /\ b.evidence[p] # None /\ b.evidence[p].overlap \in Failing => p \in unsettled
  <2>1. p \in DOMAIN b.flags /\ p \in Registered
    BY <1>1 DEF WInv, GInv, TypeOK, IsPartial
  <2>2. flag[p] = b.flags[p] /\ b.evidence[p] = LatestCheck(p) /\ flag[p] # "failing"
    BY <1>1, <2>1 DEF WInv, BuiltIsCurrent
  <2>3. ASSUME b.evidence[p] # None, b.evidence[p].overlap \in Failing, p \notin unsettled
        PROVE  FALSE
    BY <1>1, <2>1, <2>2, <2>3 DEF WInv, LossBlocks, Verdict
  <2> QED BY <2>2, <2>3
<1>2. WInv /\ [WatchedNext]_watched =>
        [\A b \in builds : statements' # statements /\ b \notin builds' =>
           \A p \in DOMAIN b.evidence : <<b.session, p>> \notin overtaken =>
             /\ flag[p] # "failing"
             /\ b.evidence[p] # None /\ b.evidence[p].overlap \in Failing =>
                  p \in unsettled]_watched
  BY <1>1
<1> QED BY <1>2, WatchedInvariance, PTL DEF WatchedSpec, GateHolds

=============================================================================
