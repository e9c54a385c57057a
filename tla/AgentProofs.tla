------------------------------ MODULE AgentProofs ------------------------------
(***************************************************************************)
(* Theorems about what an agent asks for.  A step of the agent is a step   *)
(* of one part and leaves the others alone, so that each part is proved    *)
(* about by an invariant of its own.                                       *)
(*                                                                         *)
(* The tools: what holds of a call whatever the tools are made of.  Rules  *)
(* a branch of a tool keeps by itself, whatever was met before it and      *)
(* whatever comes after, and what they give for every call of every table. *)
(*                                                                         *)
(* AliExpress' item tab: what was there before the call began to listen is *)
(* in before and never Absent again, so a tab that arrives is not among    *)
(* it; a tab is owned only if the landing page opened it; and once         *)
(* cleanup() has begun to close, an owned tab is closed, to be closed, or  *)
(* came too late.                                                          *)
(*                                                                         *)
(* The process of Ozon's GET: until the thread has seen the worker end it  *)
(* has no answer but a failure, once it goes on to remove the file the     *)
(* worker can no longer write it, and a worker that ended well wrote what  *)
(* the function returned.                                                  *)
(*                                                                         *)
(* A comparison: a call that has settled has an offer for each row its     *)
(* source gave and is honest about what is missing, and the answer is made *)
(* of such calls; its order is that of the offers' places, since to count  *)
(* what comes before each element of a finite order numbers them.          *)
(*                                                                         *)
(* The reading of displayed numbers: where the runs of a text begin and    *)
(* end, what stands on either side, and that a text written as shops write *)
(* a number has no other reading.                                          *)
(***************************************************************************)
EXTENDS MCAgent, FiniteSetTheorems, WellFoundedInduction, TLAPS

-----------------------------------------------------------------------------
(* The tools *)

\* All branches of the steps of t.
Branches(t) == UNION {Table[t].steps[i] : i \in 1..Len(Table[t].steps)}

\* A tool that goes on over a doubt only with a warning; a selfcheck answers
\* with its verdicts.
Outspoken(t) ==
  \/ Table[t].canary
  \/ \A b \in Branches(t) : b.code = None /\ b.met \in Doubtful => "warn" \in b.does

\* Only over one of these facts does t come to its steps from the l-th to the
\* h-th, where it goes on without a verdict.
EnteredOver(t, l, h, facts) ==
  /\ l > 1
  /\ \A i \in 1..Len(Table[t].steps) : \A b \in Table[t].steps[i] :
       IF i \in l..h THEN b.verdict = None
       ELSE b.code = None /\ i + b.hop \in l..h => b.met \in facts /\ b.verdict = None

\* A tool whose every error has a cause in what its own branch met, or in what
\* alone leads to that branch; and is no verdict.
Precise(t) ==
  \A i \in 1..Len(Table[t].steps) : \A b \in Table[t].steps[i] : b.code # None =>
    /\ b.verdict = None
    /\ \/ b.met \in Causes[b.code]
       \/ \E l, h \in 1..Len(Table[t].steps) : i \in l..h /\ EnteredOver(t, l, h, Causes[b.code])

\* A tool that tells the pacer what its own branch met.
Candid(t) ==
  \A b \in Branches(t) :
    /\ "refusal" \in b.does => b.met \in {"refused", "limited"}
    /\ "success" \in b.does => b.met \in Given

\* A selfcheck that ends each check where it stands when it was not let judge,
\* that calls drift what it found lost and only that, and looks at nothing kept.
Judicious(t) ==
  \A b \in Branches(t) :
    /\ t \notin Hasty =>
         /\ b.met \in Unjudged => b.verdict = "inconclusive"
         /\ b.met \in {"odd", "garbled"} => b.verdict \in {"drift", "inconclusive"}
         /\ b.verdict = "drift" => b.met \in {"odd", "off", "none", "garbled"}
    /\ t \notin Blind /\ b.met = "odd" => b.verdict = "drift"
    /\ t \notin Stale => b.met # "kept"

\* A tool that judges nothing.
NoJudge(t) == \A b \in Branches(t) : b.verdict = None

-----------------------------------------------------------------------------
\* The agent's tools are those of SourceTools, and its other parts leave them alone.
LEMMA AgentKeepsTools == AgentSpec => Init /\ [][Next]_vars
<1>1. AgentInit => Init
  BY DEF AgentInit
<1>2. [AgentNext]_<<part, vars, comparing, tabs, working, text, configuring>> => [Next]_vars
  BY DEF AgentNext
<1> QED BY <1>1, <1>2, PTL DEF AgentSpec

\* The branch a step takes is one of the tool's, and of its type.
LEMMA BranchTaken ==
  ASSUME TypeOK, at <= Len(Steps), NEW b \in Steps[at]
  PROVE  b \in BranchesOf /\ b \in Branches(tool)
<1>1. Steps \in Seq(SUBSET BranchesOf)
  BY TableAssumption DEF TypeOK, Steps
<1>2. at \in 1..Len(Steps)
  BY <1>1 DEF TypeOK
<1>3. Steps[at] \subseteq BranchesOf
  BY <1>1, <1>2
<1> QED BY <1>2, <1>3 DEF Branches, Steps

\* A call stays well formed: the type invariant of the client.
THEOREM TypeCorrect == AgentSpec => []TypeOK
<1>1. Init => TypeOK
  <2>1. 1 \in Nat \ {0} /\ FALSE \in BOOLEAN /\ \A S : {} \subseteq S
    OBVIOUS
  <2> QED BY <2>1 DEF Init, TypeOK, None
<1>2. TypeOK /\ [Next]_vars => TypeOK'
  <2> SUFFICES ASSUME TypeOK, [Next]_vars PROVE TypeOK'
    OBVIOUS
  <2>1. CASE Step
    <3>1. PICK b \in Steps[at] : Take(b)
      BY <2>1 DEF Step
    <3>2. b \in BranchesOf
      BY <2>1, <3>1, BranchTaken DEF Step
    <3>3. tool' \in Tools /\ at' \in Nat \ {0}
      BY <3>1, <3>2 DEF Take, TypeOK, BranchesOf
    <3>4. met' \subseteq Facts /\ over' \subseteq Facts
      BY <3>1, <3>2 DEF Take, TypeOK, BranchesOf
    <3>5. told' \subseteq {"refusal", "success"} /\ warned' \in BOOLEAN
      BY <3>1, <3>2 DEF Take, TypeOK, BranchesOf, Effects
    <3>6. last' \in Verdicts \cup {None} /\ end' \in Codes \cup {None}
      BY <3>1, <3>2 DEF Take, TypeOK, BranchesOf, None
    <3> QED BY <3>3, <3>4, <3>5, <3>6 DEF TypeOK
  <2>2. CASE Answer
    BY <2>2 DEF Answer, TypeOK
  <2>3. CASE Report
    BY <2>3 DEF Report, selfcheck_result, TypeOK
  <2>4. CASE Call
    <3>1. PICK t \in Tools : Start(t)
      BY <2>4 DEF Call
    <3>2. tool' \in Tools /\ at' = 1 /\ warned' = FALSE
      BY <3>1 DEF Start
    <3>3. met' \subseteq Facts /\ over' \subseteq Facts /\ told' \subseteq {"refusal", "success"}
      BY <3>1 DEF Start
    <3>4. last' = None /\ end' = None
      BY <3>1 DEF Start
    <3>5. at' \in Nat \ {0}
      BY <3>2
    <3>6. warned' \in BOOLEAN
      BY <3>2
    <3> QED BY <3>2, <3>3, <3>4, <3>5, <3>6 DEF TypeOK
  <2>5. CASE UNCHANGED vars
    BY <2>5 DEF vars, TypeOK
  <2> QED BY <2>1, <2>2, <2>3, <2>4, <2>5 DEF Next
<1> QED BY <1>1, <1>2, AgentKeepsTools, PTL

-----------------------------------------------------------------------------
\* attach_meta() over a whole call, of any table: a tool that goes on over a
\* doubt only with a warning never answers healthy over one.  Inv is inductive:
\* while a call runs, the warning is there as soon as the doubt is, and it is no
\* selfcheck that answers healthy.
THEOREM HealthTrueEverywhere == AgentSpec => [](Outspoken(tool) => HealthTrue)
<1> DEFINE Inv == /\ end = "healthy" => ~warned /\ ~Table[tool].canary
                  /\ Outspoken(tool) /\ ~Table[tool].canary /\ end \in {None, "healthy"} /\ met \cap Doubtful # {}
                       => warned
<1>1. Init => Inv
  BY DEF Init, None
<1>2. TypeOK /\ Inv /\ [Next]_vars => Inv'
  <2> SUFFICES ASSUME TypeOK, Inv, [Next]_vars PROVE Inv'
    OBVIOUS
  <2>1. CASE Step
    <3>1. PICK b \in Steps[at] : Take(b)
      BY <2>1 DEF Step
    <3>2. b \in BranchesOf /\ b \in Branches(tool)
      BY <2>1, BranchTaken DEF Step
    <3>3. tool' = tool /\ end' = b.code /\ end' # "healthy"
      BY <3>1, <3>2 DEF Take, BranchesOf, Codes
    <3>4. ASSUME Outspoken(tool), ~Table[tool].canary, end' = None, met' \cap Doubtful # {}
          PROVE  warned'
      <4>1. b.met \in Doubtful => "warn" \in b.does
        BY <3>2, <3>3, <3>4 DEF Outspoken
      <4>2. met' \subseteq met \cup {b.met}
        BY <3>1 DEF Take
      <4>3. warned' = (warned \/ "warn" \in b.does) /\ end = None
        BY <2>1, <3>1 DEF Take, Step
      <4>4. CASE b.met \in Doubtful
        BY <4>1, <4>3, <4>4
      <4>5. CASE b.met \notin Doubtful
        <5>1. met \cap Doubtful # {}
          BY <3>4, <4>2, <4>5
        <5> QED BY <3>4, <4>3, <5>1
      <4> QED BY <4>4, <4>5
    <3>5. Outspoken(tool)' = Outspoken(tool)
      BY <3>3 DEF Outspoken, Branches
    <3> QED BY <3>3, <3>4, <3>5
  <2>2. CASE Answer
    BY <2>2 DEF Answer, Outspoken, Branches
  <2>3. CASE Report
    BY <2>3 DEF Report, selfcheck_result, None
  <2>4. CASE Call
    BY <2>4 DEF Call, Start, None
  <2>5. CASE UNCHANGED vars
    BY <2>5 DEF vars, Outspoken, Branches
  <2> QED BY <2>1, <2>2, <2>3, <2>4, <2>5 DEF Next
<1>3. Inv => (Outspoken(tool) => HealthTrue)
  BY DEF HealthTrue
<1> QED BY <1>1, <1>2, <1>3, TypeCorrect, AgentKeepsTools, PTL

-----------------------------------------------------------------------------
\* selfcheck_result(), of any table: success needs every required check, made
\* and healthy, and no report is milder than drift over a check that drifted.
THEOREM ReportsEarned == AgentSpec => []ReportEarned
<1>1. Init => ReportEarned
  BY DEF Init, None, ReportEarned
<1>2. TypeOK /\ ReportEarned /\ [Next]_vars => ReportEarned'
  <2> SUFFICES ASSUME TypeOK, ReportEarned, [Next]_vars PROVE ReportEarned'
    OBVIOUS
  <2>1. CASE Step
    <3>1. PICK b \in Steps[at] : Take(b)
      BY <2>1 DEF Step
    <3>2. b \in BranchesOf
      BY <2>1, <3>1, BranchTaken DEF Step
    <3>3. end' \in Codes \cup {None}
      BY <3>1, <3>2 DEF Take, BranchesOf, None
    <3> QED BY <3>3 DEF ReportEarned, Codes, None
  <2>2. CASE Answer
    BY <2>2 DEF Answer, ReportEarned
  <2>3. CASE Report
    <3>1. tool' = tool /\ checks' = checks /\ end' = selfcheck_result
      BY <2>3 DEF Report
    <3>2. ASSUME end' = "success"
          PROVE  /\ Table[tool].required \subseteq {c.name : c \in checks}
                 /\ \A c \in checks : c.verdict = "healthy"
      <4>1. States = {"healthy"}
        BY <3>1, <3>2 DEF selfcheck_result
      <4> QED BY <4>1 DEF States
    <3>3. ASSUME end' = "inconclusive", NEW c \in checks
          PROVE  c.verdict # "drift"
      <4>1. "drift" \notin States
        BY <3>1, <3>3 DEF selfcheck_result
      <4> QED BY <4>1 DEF States
    <3> QED BY <3>1, <3>2, <3>3 DEF ReportEarned
  <2>4. CASE Call
    BY <2>4 DEF Call, Start, None, ReportEarned
  <2>5. CASE UNCHANGED vars
    BY <2>5 DEF vars, ReportEarned
  <2> QED BY <2>1, <2>2, <2>3, <2>4, <2>5 DEF Next
<1> QED BY <1>1, <1>2, TypeCorrect, AgentKeepsTools, PTL

-----------------------------------------------------------------------------
\* Where the call is, it came over what alone leads there.
CameOver ==
  end = None =>
    \A l, h \in 1..Len(Steps) : \A code \in Codes :
      at \in l..h /\ EnteredOver(tool, l, h, Causes[code]) => met \cap Causes[code] # {}

\* errors.py over a whole call, of any table: an error of a tool whose errors
\* name what their own branch met, or what alone leads to it, has a cause.
THEOREM CodeFitsEverywhere == AgentSpec => [](Precise(tool) => CodeFits)
<1> DEFINE Inv == CameOver /\ (Precise(tool) => CodeFits)
<1>1. Init => Inv
  BY DEF Init, None, CodeFits, Codes, CameOver, EnteredOver
<1>2. TypeOK /\ Inv /\ [Next]_vars => Inv'
  <2> SUFFICES ASSUME TypeOK, Inv, [Next]_vars PROVE Inv'
    OBVIOUS
  <2>1. CASE Step
    <3>1. PICK b \in Steps[at] : Take(b)
      BY <2>1 DEF Step
    <3>2. b \in BranchesOf /\ at \in 1..Len(Steps) /\ end = None
      BY <2>1, <3>1, BranchTaken DEF Step, TypeOK
    <3>3. tool' = tool /\ end' = b.code /\ at' = at + b.hop /\ Steps' = Steps
      BY <3>1 DEF Take, Steps
    <3>4. b.verdict = None => met' = met \cup {b.met}
      BY <3>1 DEF Take
    <3>5. CameOver'
      <4> SUFFICES ASSUME end' = None, NEW l \in 1..Len(Steps), NEW h \in 1..Len(Steps), NEW code \in Codes,
                          at' \in l..h, EnteredOver(tool, l, h, Causes[code])
                   PROVE  met' \cap Causes[code] # {}
        BY <3>3 DEF CameOver, EnteredOver, Causes
      <4>1. CASE at \in l..h
        <5>1. b.verdict = None
          BY <3>2, <4>1 DEF EnteredOver, Steps
        <5>2. met \cap Causes[code] # {}
          BY <3>2, <4>1 DEF CameOver
        <5> QED BY <3>4, <5>1, <5>2
      <4>2. CASE at \notin l..h
        <5>1. b.met \in Causes[code] /\ b.verdict = None
          BY <3>2, <3>3, <4>2 DEF EnteredOver, Steps
        <5> QED BY <3>4, <5>1
      <4> QED BY <4>1, <4>2
    <3>6. ASSUME Precise(tool), end' \in Codes
          PROVE  met' \cap Causes[end'] # {}
      <4>1. b.code # None
        BY <3>3, <3>6 DEF None, Codes
      <4>2. /\ b.verdict = None
            /\ \/ b.met \in Causes[b.code]
               \/ \E l, h \in 1..Len(Steps) : at \in l..h /\ EnteredOver(tool, l, h, Causes[b.code])
        BY <3>2, <3>6, <4>1 DEF Precise, Steps
      <4>3. CASE b.met \in Causes[b.code]
        BY <3>3, <3>4, <4>2, <4>3
      <4>4. CASE \E l, h \in 1..Len(Steps) : at \in l..h /\ EnteredOver(tool, l, h, Causes[b.code])
        <5>1. met \cap Causes[b.code] # {}
          BY <3>2, <3>3, <3>6, <4>4 DEF CameOver
        <5> QED BY <3>3, <3>4, <4>2, <5>1
      <4> QED BY <4>2, <4>3, <4>4
    <3>7. Precise(tool)' = Precise(tool)
      BY <3>3 DEF Precise, EnteredOver, Causes
    <3>8. Causes' = Causes
      BY DEF Causes
    <3>9. (Precise(tool) => CodeFits)'
      BY <3>6, <3>7, <3>8 DEF CodeFits
    <3> QED BY <3>5, <3>9
  <2>2. CASE Answer
    BY <2>2 DEF Answer, CodeFits, Codes, CameOver, None
  <2>3. CASE Report
    BY <2>3 DEF Report, selfcheck_result, CodeFits, Codes, CameOver, None
  <2>4. CASE Call
    <3>1. PICK t \in Tools : Start(t)
      BY <2>4 DEF Call
    <3>2. end' = None /\ at' = 1
      BY <3>1 DEF Start
    <3>3. CameOver'
      BY <3>2 DEF CameOver, EnteredOver
    <3>4. end' \notin Codes
      BY <3>2 DEF None, Codes
    <3>5. CodeFits'
      BY <3>4 DEF CodeFits
    <3> QED BY <3>3, <3>5
  <2>5. CASE UNCHANGED vars
    <3>1. Precise(tool)' = Precise(tool) /\ CodeFits' = CodeFits
      BY <2>5 DEF vars, CodeFits, Precise, EnteredOver, Causes, Codes
    <3>2. CameOver' = CameOver
      BY <2>5 DEF vars, CameOver, EnteredOver, Causes, Steps
    <3> QED BY <3>1, <3>2
  <2> QED BY <2>1, <2>2, <2>3, <2>4, <2>5 DEF Next
<1> QED BY <1>1, <1>2, TypeCorrect, AgentKeepsTools, PTL

-----------------------------------------------------------------------------
\* What a judicious selfcheck has met since its last verdict.
Unspoiled ==
  /\ tool \notin Hasty => met \cap (Unjudged \cup {"odd", "garbled"}) = {}
  /\ tool \notin Blind => "odd" \notin met
  /\ tool \notin Stale => "kept" \notin met

Judged ==
  /\ tool \notin Hasty /\ last = "drift" => DriftEarned
  /\ tool \notin Hasty /\ last = "healthy" => HealthEarned
  /\ tool \notin Blind /\ "odd" \in over => last = "drift"
  /\ tool \notin Stale => "kept" \notin over

LEMMA JudgeKeeps ==
  ASSUME Judicious(tool), Unspoiled, Judged, NEW b \in Branches(tool), Take(b)
  PROVE  Unspoiled' /\ Judged'
<1>1. /\ tool \notin Hasty =>
           /\ b.met \in Unjudged => b.verdict = "inconclusive"
           /\ b.met \in {"odd", "garbled"} => b.verdict \in {"drift", "inconclusive"}
           /\ b.verdict = "drift" => b.met \in {"odd", "off", "none", "garbled"}
      /\ tool \notin Blind /\ b.met = "odd" => b.verdict = "drift"
      /\ tool \notin Stale => b.met # "kept"
  BY DEF Judicious
<1>2. CASE b.verdict = None
  <2>1. tool' = tool /\ met' = met \cup {b.met} /\ last' = last /\ over' = over
    BY <1>2 DEF Take
  <2>2. Judged'
    BY <2>1 DEF Judged, DriftEarned, HealthEarned, Unjudged
  <2>3. /\ tool \notin Hasty => b.met \notin Unjudged \cup {"odd", "garbled"}
        /\ tool \notin Blind => b.met # "odd"
    BY <1>1, <1>2 DEF None
  <2>4. Unspoiled'
    BY <1>1, <2>1, <2>3 DEF Unspoiled, Unjudged
  <2> QED BY <2>2, <2>4
<1>3. CASE b.verdict # None
  <2>1. tool' = tool /\ met' = {} /\ last' = b.verdict /\ over' = met \cup {b.met}
    BY <1>3 DEF Take
  <2>2. Unspoiled'
    BY <2>1 DEF Unspoiled
  <2>3. tool \notin Hasty /\ last' = "drift" => DriftEarned'
    <3> SUFFICES ASSUME tool \notin Hasty, b.verdict = "drift" PROVE DriftEarned'
      BY <2>1
    <3>1. b.met \in {"odd", "off", "none", "garbled"} /\ met \cap Unjudged = {}
      BY <1>1 DEF Unspoiled
    <3>2. b.met \notin Unjudged
      BY <3>1 DEF Unjudged
    <3> QED BY <2>1, <3>1, <3>2 DEF DriftEarned, Unjudged
  <2>4. tool \notin Hasty /\ last' = "healthy" => HealthEarned'
    <3> SUFFICES ASSUME tool \notin Hasty, b.verdict = "healthy" PROVE HealthEarned'
      BY <2>1
    <3>1. met \cap (Unjudged \cup {"odd", "garbled"}) = {} /\ b.met \notin Unjudged \cup {"odd", "garbled"}
      BY <1>1 DEF Unspoiled
    <3> QED BY <2>1, <3>1 DEF HealthEarned, Unjudged
  <2>5. tool \notin Blind /\ "odd" \in over' => last' = "drift"
    BY <1>1, <2>1 DEF Unspoiled
  <2>6. tool \notin Stale => "kept" \notin over'
    BY <1>1, <2>1 DEF Unspoiled
  <2> QED BY <2>1, <2>2, <2>3, <2>4, <2>5, <2>6 DEF Judged
<1> QED BY <1>2, <1>3

\* The canaries over a whole call, of any table: a selfcheck that judges by what
\* each branch met calls drift only what it was given and found short, healthy
\* only what it was given whole, and reports no more than its checks found.
THEOREM VerdictsEarned == AgentSpec => [](Judicious(tool) \/ NoJudge(tool) => VerdictEarned)
<1> DEFINE Inv == /\ Judicious(tool) => Unspoiled /\ Judged
                  /\ NoJudge(tool) => last = None /\ over = {}
<1>1. Init => Inv
  BY DEF Init, Unspoiled, Judged, None
<1>2. TypeOK /\ Inv /\ [Next]_vars => Inv'
  <2> SUFFICES ASSUME TypeOK, Inv, [Next]_vars PROVE Inv'
    OBVIOUS
  <2>1. CASE Step
    <3>1. PICK b \in Steps[at] : Take(b)
      BY <2>1 DEF Step
    <3>2. b \in BranchesOf /\ b \in Branches(tool)
      BY <2>1, <3>1, BranchTaken DEF Step
    <3>3. Judicious(tool)' = Judicious(tool) /\ NoJudge(tool)' = NoJudge(tool)
      BY <3>1 DEF Take, Judicious, NoJudge, Branches, Unjudged, None
    <3>4. Judicious(tool) => Unspoiled' /\ Judged'
      BY <3>1, <3>2, JudgeKeeps
    <3>5. NoJudge(tool) => last' = None /\ over' = {}
      BY <3>1, <3>2 DEF NoJudge, Take
    <3> QED BY <3>3, <3>4, <3>5 DEF None
  <2>2. CASE Call
    <3>1. PICK t \in Tools : Start(t)
      BY <2>2 DEF Call
    <3>2. met' = {} /\ last' = None /\ over' = {}
      BY <3>1 DEF Start
    <3>3. Unspoiled' /\ Judged'
      BY <3>2 DEF Unspoiled, Judged, None
    <3> QED BY <3>2, <3>3 DEF None
  <2>3. CASE Answer \/ Report \/ UNCHANGED vars
    <3>1. UNCHANGED <<tool, met, last, over>>
      BY <2>3 DEF Answer, Report, vars
    <3>2. Judicious(tool)' = Judicious(tool) /\ NoJudge(tool)' = NoJudge(tool)
      BY <3>1 DEF Judicious, NoJudge, Branches, Unjudged, None
    <3>3. Unspoiled' = Unspoiled /\ Judged' = Judged
      BY <3>1 DEF Unspoiled, Judged, DriftEarned, HealthEarned, Unjudged
    <3> QED BY <3>1, <3>2, <3>3 DEF None
  <2> QED BY <2>1, <2>2, <2>3 DEF Next
<1>3. Inv /\ ReportEarned => (Judicious(tool) \/ NoJudge(tool) => VerdictEarned)
  <2> SUFFICES ASSUME Inv, ReportEarned, Judicious(tool) \/ NoJudge(tool) PROVE VerdictEarned
    OBVIOUS
  <2>1. CASE Judicious(tool)
    BY <2>1 DEF Judged, VerdictEarned
  <2>2. CASE NoJudge(tool)
    BY <2>2 DEF VerdictEarned, None
  <2> QED BY <2>1, <2>2
<1> QED BY <1>1, <1>2, <1>3, ReportsEarned, TypeCorrect, AgentKeepsTools, PTL

-----------------------------------------------------------------------------
\* record_refusal() and record_success() over a whole call, of any table: what
\* a tool that tells the pacer only of what its own branch met has told it since
\* the last verdict is among what was met since.
THEOREM PacerToldTrueEverywhere == AgentSpec => [](Candid(tool) => PacerToldTrue)
<1> DEFINE Heard(told_, seen) == /\ "refusal" \in told_ => seen \cap {"refused", "limited"} # {}
                                 /\ "success" \in told_ => seen \cap Given # {}
           Inv == Candid(tool) => PacerToldTrue
<1>1. Init => Inv
  BY DEF Init, PacerToldTrue
<1>2. TypeOK /\ Inv /\ [Next]_vars => Inv'
  <2> SUFFICES ASSUME TypeOK, Inv, [Next]_vars PROVE Inv'
    OBVIOUS
  <2>1. CASE Step
    <3>1. PICK b \in Steps[at] : Take(b)
      BY <2>1 DEF Step
    <3>2. b \in BranchesOf /\ b \in Branches(tool)
      BY <2>1, BranchTaken DEF Step
    <3>3. Candid(tool)' = Candid(tool)
      BY <3>1 DEF Take, Candid, Branches
    <3>4. ASSUME Candid(tool)
          PROVE  PacerToldTrue'
      <4>1. /\ "refusal" \in b.does => b.met \in {"refused", "limited"}
            /\ "success" \in b.does => b.met \in Given
        BY <3>2, <3>4 DEF Candid
      <4>2. Seen' = met \cup {b.met}
        BY <3>1 DEF Take, Seen
      <4>3. told' = (IF met = {} THEN {} ELSE told) \cup (b.does \ {"warn"})
        BY <3>1 DEF Take
      <4>4. met # {} => Heard(told, met)
        BY <3>4 DEF PacerToldTrue, Seen
      <4>5. Heard(told', met \cup {b.met})
        BY <4>1, <4>3, <4>4
      <4> QED BY <4>2, <4>5 DEF PacerToldTrue
    <3> QED BY <3>3, <3>4
  <2>2. CASE Answer
    BY <2>2 DEF Answer, PacerToldTrue, Seen, Candid, Branches
  <2>3. CASE Report
    BY <2>3 DEF Report, PacerToldTrue, Seen, Candid, Branches
  <2>4. CASE Call
    BY <2>4 DEF Call, Start, PacerToldTrue, Seen
  <2>5. CASE UNCHANGED vars
    BY <2>5 DEF vars, PacerToldTrue, Seen, Candid, Branches
  <2> QED BY <2>1, <2>2, <2>3, <2>4, <2>5 DEF Next
<1> QED BY <1>1, <1>2, TypeCorrect, AgentKeepsTools, PTL

-----------------------------------------------------------------------------
\* Every tool of the table keeps these rules but those that are named for it.
TableSound ==
  \A t \in Tools : /\ t \in Silent \/ Outspoken(t)
                   /\ Precise(t)
                   /\ Judicious(t) \/ NoJudge(t)
                   /\ Candid(t)

\* All that the agent's run asks of the tools, for any table that is sound branch
\* by branch: what the tools meet, and in which order, makes no difference.
THEOREM ToolsAlwaysTrue ==
  ASSUME TableSound
  PROVE  AgentSpec => [](HealthTrue /\ CodeFits /\ VerdictEarned /\ PacerToldTrue)
<1> DEFINE Rules == /\ Outspoken(tool) => HealthTrue
                    /\ Precise(tool) => CodeFits
                    /\ Judicious(tool) \/ NoJudge(tool) => VerdictEarned
                    /\ Candid(tool) => PacerToldTrue
<1>1. ASSUME TypeOK, Rules
      PROVE  HealthTrue /\ CodeFits /\ VerdictEarned /\ PacerToldTrue
  <2>1. tool \in Tools
    BY <1>1 DEF TypeOK
  <2>2. HealthTrue
    BY <1>1, <2>1 DEF TableSound, HealthTrue
  <2> QED BY <1>1, <2>1, <2>2 DEF TableSound
<1>2. TypeOK /\ Rules => HealthTrue /\ CodeFits /\ VerdictEarned /\ PacerToldTrue
  BY <1>1
<1> QED
  BY <1>2, TypeCorrect, HealthTrueEverywhere, CodeFitsEverywhere, VerdictsEarned, PacerToldTrueEverywhere, PTL

-----------------------------------------------------------------------------
(* AliExpress' item tab *)

TabsTyped == tab \in [Tab!Tabs -> Tab!Urls \cup {Tab!Absent, Tab!Closed}]

\* Nothing is owned before the call listens, and what was there has come.
BeforeKnown ==
  /\ \A t \in before : t \in Tab!Tabs /\ tab[t] # Tab!Absent
  /\ phase \in {Tab!Idle, "loading"} => owned = {} /\ target = {} /\ closing = {} /\ tried = {}

\* What is owned was opened here and since; nothing else is read or closed.
OwnedHere ==
  /\ \A t \in owned : t \notin Foreign \cup before
  /\ target \subseteq owned /\ closing \subseteq owned /\ tried \subseteq owned

\* No owned tab is forgotten on the way to the end.
ClosingAll ==
  /\ phase = "closing" => owned \subseteq closing \cup tried \cup strange
  /\ phase = "ended" => owned \subseteq tried \cup strange

\* The popup of the call is known to it, or came as no call could know.
PopupKnown == tab[Popup] \in Tab!Urls => Popup \in owned \cup strange

TabInv == TabsTyped /\ BeforeKnown /\ OwnedHere /\ ClosingAll /\ PopupKnown

LEMMA StatesApart == Tab!Absent \notin Tab!Urls /\ Tab!Closed \notin Tab!Urls /\ Tab!Absent # Tab!Closed
  BY DEF Tab!Absent, Tab!Closed, Tab!Urls

LEMMA PopupIsTab == Popup \in Tab!Tabs
  BY DEF Tab!Tabs

LEMMA TabBegins == Tab!Init => TabInv
<1> SUFFICES ASSUME Tab!Init PROVE TabInv
  OBVIOUS
<1>1. TabsTyped
  BY DEF Tab!Init, TabsTyped
<1>2. tab[Popup] = Tab!Absent
  BY PopupIsTab DEF Tab!Init
<1>3. PopupKnown
  BY <1>2, StatesApart DEF PopupKnown
<1>4. BeforeKnown /\ OwnedHere /\ ClosingAll
  BY DEF Tab!Init, BeforeKnown, OwnedHere, ClosingAll, Tab!Idle
<1> QED BY <1>1, <1>3, <1>4 DEF TabInv

\* The steps of the call that close no tab and own none.
QuietStep ==
  \/ Tab!Begin \/ Tab!NoLanding \/ Tab!Listen \/ Tab!Opened \/ Tab!Fail \/ Tab!Look \/ Tab!Choose
  \/ Tab!GiveUp \/ Tab!ReadEnds \/ Tab!CollectedFirst \/ Tab!WaitEnds \/ Tab!CollectedLast \/ Tab!End \/ Tab!CancelAgain

LEMMA QuietKeeps == ASSUME TabInv, QuietStep PROVE TabInv'
<1> USE DEF QuietStep, Tab!Begin, Tab!NoLanding, Tab!Opened, Tab!Fail, Tab!Look, Tab!Choose, Tab!GiveUp,
            Tab!ReadEnds, Tab!CleanUp, Tab!CollectedFirst, Tab!WaitEnds, Tab!CollectedLast,
            Tab!StartClosing, Tab!End, Tab!CancelAgain, Tab!vars
<1>1. tab' = tab /\ owned' = owned /\ tried' = tried /\ strange' = strange
  BY DEF Tab!Listen
<1>2. TabsTyped' /\ PopupKnown'
  BY <1>1 DEF TabInv, TabsTyped, PopupKnown
<1>3. CASE Tab!Listen
  <2>1. before' = Tab!Present /\ owned = {} /\ target' = {} /\ closing' = {} /\ tried = {} /\ phase' = "opening"
    BY <1>3 DEF Tab!Listen, TabInv, BeforeKnown, Tab!Idle
  <2>2. \A t \in Tab!Present : t \in Tab!Tabs /\ tab[t] # Tab!Absent
    BY StatesApart DEF Tab!Present
  <2>3. BeforeKnown' /\ OwnedHere' /\ ClosingAll'
    BY <1>1, <2>1, <2>2 DEF BeforeKnown, OwnedHere, ClosingAll, Tab!Idle
  <2> QED BY <1>2, <2>3 DEF TabInv
<1>4. CASE ~Tab!Listen
  <2>1. before' = before /\ target' \subseteq owned /\ closing' \subseteq owned
    BY <1>4 DEF TabInv, OwnedHere
  <2>2. OwnedHere'
    BY <1>1, <2>1 DEF OwnedHere, TabInv
  <2>3. phase' \in {Tab!Idle, "loading"} => owned = {} /\ target' = {} /\ closing' = {} /\ tried = {}
    BY <1>4 DEF TabInv, BeforeKnown, Tab!Idle, Tab!Cleaning
  <2>4. BeforeKnown'
    BY <1>1, <2>1, <2>3 DEF TabInv, BeforeKnown
  <2>5. phase' = "closing" => owned \subseteq closing' \cup tried \cup strange
    BY <1>4 DEF TabInv, ClosingAll
  <2>6. phase' = "ended" => owned \subseteq tried \cup strange
    BY <1>4 DEF TabInv, ClosingAll, BeforeKnown, Tab!Cleaning
  <2>7. ClosingAll'
    BY <1>1, <2>5, <2>6 DEF ClosingAll
  <2> QED BY <1>2, <2>2, <2>4, <2>7 DEF TabInv
<1> QED BY <1>3, <1>4

LEMMA AskOpenerKeeps == ASSUME TabInv, NEW t \in Tab!Tabs, Tab!AskOpener(t) PROVE TabInv'
<1>1. phase' = phase /\ phase \in {"collecting", "collecting first", "collecting last"}
  BY DEF Tab!AskOpener
<1>2. UNCHANGED <<tab, before, target, closing, tried, strange>> /\ owned \subseteq owned'
  BY DEF Tab!AskOpener
<1>3. \A u \in owned' : u \notin Foreign \cup before
  BY DEF Tab!AskOpener, Tab!OpenedHere, TabInv, OwnedHere
<1>4. TabsTyped' /\ PopupKnown'
  BY <1>2 DEF TabInv, TabsTyped, PopupKnown
<1>5. BeforeKnown' /\ OwnedHere' /\ ClosingAll'
  BY <1>1, <1>2, <1>3 DEF TabInv, BeforeKnown, OwnedHere, ClosingAll, Tab!Idle
<1> QED BY <1>4, <1>5 DEF TabInv

LEMMA CloseKeeps == ASSUME TabInv, NEW t \in Tab!Tabs, Tab!Close(t) PROVE TabInv'
<1>1. UNCHANGED <<phase, before, owned, target, strange>> /\ phase = "closing" /\ t \in closing
  BY DEF Tab!Close
<1>2. closing' = closing \ {t} /\ tried' = tried \cup {t}
  BY DEF Tab!Close
<1>3. TabsTyped'
  BY DEF Tab!Close, TabInv, TabsTyped
<1>4. \A u \in Tab!Tabs : tab'[u] \in {tab[u], Tab!Closed}
  BY DEF Tab!Close, TabInv, TabsTyped
<1>5. PopupKnown'
  BY <1>1, <1>4, StatesApart, PopupIsTab DEF TabInv, PopupKnown
<1>6. BeforeKnown' /\ OwnedHere' /\ ClosingAll'
  BY <1>1, <1>2, <1>4, StatesApart DEF TabInv, BeforeKnown, OwnedHere, ClosingAll, Tab!Idle
<1> QED BY <1>3, <1>5, <1>6 DEF TabInv

\* A tab that shows a page goes on to show one, or is closed.
LEMMA ChromeMoves ==
  ASSUME TabInv, NEW t \in Tab!Tabs, Tab!Redirect(t) \/ Tab!CloseElsewhere(t)
  PROVE  TabInv'
<1>1. UNCHANGED <<phase, before, owned, target, closing, tried, strange>> /\ t \in Tab!Present
  BY DEF Tab!Redirect, Tab!CloseElsewhere
<1>2. tab' \in [Tab!Tabs -> Tab!Urls \cup {Tab!Absent, Tab!Closed}] /\ \A u \in Tab!Tabs \ {t} : tab'[u] = tab[u]
  <2>1. CASE Tab!CloseElsewhere(t)
    BY <2>1 DEF Tab!CloseElsewhere, TabInv, TabsTyped
  <2>2. CASE Tab!Redirect(t)
    <3>1. PICK url \in Tab!Moves[tab[t]] : tab' = [tab EXCEPT ![t] = url]
      BY <2>2 DEF Tab!Redirect
    <3>2. url \in Tab!Urls
      BY <1>1, <3>1 DEF Tab!Moves, Tab!Urls, Tab!Present
    <3> QED BY <3>1, <3>2 DEF TabInv, TabsTyped
  <2> QED BY <2>1, <2>2
<1>3. tab'[t] # Tab!Absent
  <2>1. CASE Tab!CloseElsewhere(t)
    BY <2>1, StatesApart DEF Tab!CloseElsewhere, TabInv, TabsTyped
  <2>2. CASE Tab!Redirect(t)
    <3>1. PICK url \in Tab!Moves[tab[t]] : tab' = [tab EXCEPT ![t] = url]
      BY <2>2 DEF Tab!Redirect
    <3>2. url \in Tab!Urls
      BY <1>1, <3>1 DEF Tab!Moves, Tab!Urls, Tab!Present
    <3> QED BY <3>1, <3>2, StatesApart DEF TabInv, TabsTyped
  <2> QED BY <2>1, <2>2
<1>4. PopupKnown'
  BY <1>1, <1>2, PopupIsTab DEF TabInv, PopupKnown, Tab!Present
<1>5. BeforeKnown'
  BY <1>1, <1>2, <1>3 DEF TabInv, BeforeKnown
<1>6. OwnedHere' /\ ClosingAll'
  BY <1>1 DEF TabInv, OwnedHere, ClosingAll
<1> QED BY <1>2, <1>4, <1>5, <1>6 DEF TabInv, TabsTyped

LEMMA ArriveKeeps ==
  ASSUME Tab!TabsApart, TabInv, NEW t \in Tab!Tabs, NEW url \in Comes[t], Tab!Arrive(t, url)
  PROVE  TabInv'
<1>1. UNCHANGED <<phase, before, target, closing, tried>> /\ tab[t] = Tab!Absent
  BY DEF Tab!Arrive
<1>2. url \in Tab!Urls
  BY DEF Tab!TabsApart
<1>3. TabsTyped' /\ tab'[t] = url /\ \A u \in Tab!Tabs \ {t} : tab'[u] = tab[u]
  BY <1>2 DEF Tab!Arrive, TabInv, TabsTyped
<1>4. /\ owned \subseteq owned' /\ owned' \subseteq owned \cup {t}
      /\ strange \subseteq strange' /\ strange' \subseteq strange \cup {t}
  BY DEF Tab!Arrive
<1>5. t \notin before
  BY <1>1 DEF TabInv, BeforeKnown
<1>6. t \in owned' => t \in owned \/ (Tab!Listening /\ t \notin Foreign)
  BY DEF Tab!Arrive, Tab!OpenedHere
<1>7. OwnedHere'
  BY <1>1, <1>4, <1>5, <1>6 DEF TabInv, OwnedHere
<1>8. BeforeKnown'
  <2>1. \A u \in before : u \in Tab!Tabs /\ tab'[u] # Tab!Absent
    BY <1>3, <1>5 DEF TabInv, BeforeKnown
  <2>2. phase \in {Tab!Idle, "loading"} => owned' = owned
    BY DEF Tab!Arrive, Tab!Listening, Tab!Running, Tab!Cleaning, Tab!Idle
  <2> QED BY <1>1, <2>1, <2>2 DEF TabInv, BeforeKnown
<1>9. ClosingAll'
  <2>1. phase = "closing" => t \in strange'
    BY DEF Tab!Arrive
  <2>2. phase = "ended" => owned' = owned
    BY DEF Tab!Arrive, Tab!Listening, Tab!Running, Tab!Cleaning
  <2> QED BY <1>1, <1>4, <2>1, <2>2 DEF TabInv, ClosingAll
<1>10. PopupKnown'
  <2>1. CASE t = Popup
    <3>1. Tab!Listening /\ Tab!OpenedHere(t)
      BY <2>1 DEF Tab!Arrive, Tab!TabsApart, Tab!OpenedHere
    <3>2. t \in owned' \cup strange'
      BY <3>1 DEF Tab!Arrive
    <3> QED BY <2>1, <3>2 DEF PopupKnown
  <2>2. CASE t # Popup
    BY <2>2, <1>3, <1>4, PopupIsTab DEF TabInv, PopupKnown
  <2> QED BY <2>1, <2>2
<1> QED BY <1>3, <1>7, <1>8, <1>9, <1>10 DEF TabInv

LEMMA ForgetKeeps == ASSUME Tab!TabsApart, TabInv, Tab!Forget PROVE TabInv'
<1>1. TabsTyped'
  BY DEF Tab!Forget, TabInv, TabsTyped
<1>2. tab'[Popup] = Tab!Absent
  BY PopupIsTab DEF Tab!Forget, Tab!TabsApart, Tab!OpenedHere
<1>3. PopupKnown'
  BY <1>2, StatesApart DEF PopupKnown
<1>4. BeforeKnown' /\ OwnedHere' /\ ClosingAll'
  BY DEF Tab!Forget, BeforeKnown, OwnedHere, ClosingAll, Tab!Idle
<1> QED BY <1>1, <1>3, <1>4 DEF TabInv

LEMMA AgentKeepsTabs == AgentSpec => Tab!Init /\ [][Tab!Next]_tabs
<1>1. AgentInit => Tab!Init
  BY DEF AgentInit
<1>2. [AgentNext]_<<part, vars, comparing, tabs, working, text, configuring>> => [Tab!Next]_tabs
  BY DEF AgentNext
<1> QED BY <1>1, <1>2, PTL DEF AgentSpec

\* _cdp_card(): a call reads and closes its own popup only, and leaves none it was
\* told of, whoever else uses the Chrome and however often its caller is cancelled.
THEOREM TabsAlwaysSettled == AgentSpec => []TabsSettled
<1>1. Tab!Init => TabInv
  BY TabBegins
<1>2. TabInv /\ [Tab!Next]_tabs => TabInv'
  <2> SUFFICES ASSUME TabInv, [Tab!Next]_tabs PROVE TabInv'
    OBVIOUS
  <2>1. CASE QuietStep
    BY <2>1, QuietKeeps
  <2>2. CASE Tab!Forget
    BY <2>2, StepsAssumption, ForgetKeeps
  <2>3. CASE \E t \in Tab!Tabs : Tab!AskOpener(t) \/ Tab!Close(t) \/ Tab!Redirect(t) \/ Tab!CloseElsewhere(t)
    BY <2>3, AskOpenerKeeps, CloseKeeps, ChromeMoves
  <2>4. CASE \E t \in Tab!Tabs : \E url \in Comes[t] : Tab!Arrive(t, url)
    BY <2>4, StepsAssumption, ArriveKeeps
  <2>5. CASE UNCHANGED tabs
    BY <2>5 DEF tabs, TabInv, TabsTyped, BeforeKnown, OwnedHere, ClosingAll, PopupKnown
  <2> QED BY <2>1, <2>2, <2>3, <2>4, <2>5 DEF Tab!Next, QuietStep
<1>3. TabInv => TabsSettled
  <2> SUFFICES ASSUME TabInv PROVE Tab!TabsSettled
    BY DEF TabsSettled
  <2>1. Tab!OthersKept
    BY DEF Tab!OthersKept, TabInv, OwnedHere
  <2>2. Tab!NoPopupLeft
    BY DEF Tab!NoPopupLeft, TabInv, ClosingAll, PopupKnown
  <2> QED BY <2>1, <2>2 DEF Tab!TabsSettled
<1> QED BY <1>1, <1>2, <1>3, AgentKeepsTabs, PTL

-----------------------------------------------------------------------------
(* The process of Ozon's GET *)

\* Before the thread has fed the worker, it has not begun.
NotBegun ==
  /\ stage \in {"idle", "spawning"} => worker = Worker!None
  /\ stage = "feeding" => worker \in {"starting", "dead"}

\* A worker that ended well wrote its result, and the thread reads no other.
WellEnded ==
  /\ stage = "reading" => worker = "done"
  /\ worker = "done" => file \in {result, "absent"}

\* What the thread removes nobody writes any more.
NobodyWrites ==
  /\ stage \in {"removing", "ended"} /\ ~spared => worker \notin Worker!Alive
  /\ stage = "ended" /\ ~spared => file = "absent"

\* An answer is the worker's, and none is there before the file was read.
AnswerEarned ==
  /\ stage \in {"idle", "spawning", "feeding", "waiting", "reading"} => ended = Worker!None
  /\ ended \in Results => worker = "done" /\ ended = result

WorkerInv == NotBegun /\ WellEnded /\ NobodyWrites /\ AnswerEarned

LEMMA WorkerBegins == ASSUME Worker!ResultsDistinct, Worker!Init PROVE WorkerInv
  BY DEF Worker!ResultsDistinct, Worker!Init, WorkerInv, NotBegun, WellEnded, NobodyWrites, AnswerEarned,
         Worker!Alive, Worker!None

LEMMA ThreadKeeps ==
  ASSUME Worker!ResultsDistinct, WorkerInv,
         \/ Worker!Begin \/ Worker!Spawn \/ Worker!SpawnFails \/ Worker!Written \/ Worker!Waited
         \/ Worker!TimesOut \/ Worker!Read \/ Worker!Kill \/ Worker!Remove \/ Worker!Forget
  PROVE  WorkerInv'
<1> USE DEF WorkerInv, NotBegun, WellEnded, NobodyWrites, AnswerEarned, Worker!Alive, Worker!None,
            Worker!ResultsDistinct
<1>1. CASE Worker!Begin
  BY <1>1 DEF Worker!Begin
<1>2. CASE Worker!Spawn
  BY <1>2 DEF Worker!Spawn
<1>3. CASE Worker!SpawnFails
  BY <1>3 DEF Worker!SpawnFails
<1>4. CASE Worker!Written
  BY <1>4 DEF Worker!Written
<1>5. CASE Worker!Waited
  BY <1>5 DEF Worker!Waited
<1>6. CASE Worker!TimesOut
  BY <1>6 DEF Worker!TimesOut
<1>7. CASE Worker!Read
  \* The worker has ended, so what the file holds is its result.
  <2>1. worker = "done" /\ file \in {result, "absent"}
    BY <1>7 DEF Worker!Read
  <2>2. ended' \in Results => ended' = result
    BY <1>7, <2>1 DEF Worker!Read
  <2> QED BY <1>7, <2>1, <2>2 DEF Worker!Read
<1>8. CASE Worker!Kill
  \* Either the worker is dead, or the thread has been spared of it.
  <2>1. ~spared' => worker' \notin Worker!Alive
    BY <1>8 DEF Worker!Kill
  <2>2. worker' = "done" <=> worker = "done"
    BY <1>8 DEF Worker!Kill
  <2> QED BY <1>8, <2>1, <2>2 DEF Worker!Kill
<1>9. CASE Worker!Remove
  BY <1>9 DEF Worker!Remove
<1>10. CASE Worker!Forget
  BY <1>10 DEF Worker!Forget
<1> QED BY <1>1, <1>2, <1>3, <1>4, <1>5, <1>6, <1>7, <1>8, <1>9, <1>10

LEMMA ProcessKeeps ==
  ASSUME Worker!ResultsDistinct, WorkerInv,
         Worker!WorkerCalls \/ Worker!WorkerOpens \/ Worker!WorkerEnds \/ Worker!WorkerDies
  PROVE  WorkerInv'
<1> USE DEF WorkerInv, NotBegun, WellEnded, NobodyWrites, AnswerEarned, Worker!Alive, Worker!None,
            Worker!ResultsDistinct
<1>1. CASE Worker!WorkerCalls
  BY <1>1 DEF Worker!WorkerCalls
<1>2. CASE Worker!WorkerOpens
  BY <1>2 DEF Worker!WorkerOpens
<1>3. CASE Worker!WorkerEnds
  BY <1>3 DEF Worker!WorkerEnds
<1>4. CASE Worker!WorkerDies
  BY <1>4 DEF Worker!WorkerDies
<1> QED BY <1>1, <1>2, <1>3, <1>4

LEMMA AgentKeepsWorker == AgentSpec => Worker!Init /\ [][Worker!Next]_working
<1>1. AgentInit => Worker!Init
  BY DEF AgentInit
<1>2. [AgentNext]_<<part, vars, comparing, tabs, working, text, configuring>> => [Worker!Next]_working
  BY DEF AgentNext
<1> QED BY <1>1, <1>2, PTL DEF AgentSpec

\* _sync_call_in_process(): however far the worker was when the timeout struck, no
\* torn answer is told and nothing is left behind.
THEOREM WorkerAlwaysSettled == AgentSpec => []WorkerSettled
<1>1. Worker!Init => WorkerInv
  BY StepsAssumption, WorkerBegins
<1>2. WorkerInv /\ [Worker!Next]_working => WorkerInv'
  <2> SUFFICES ASSUME WorkerInv, [Worker!Next]_working PROVE WorkerInv'
    OBVIOUS
  <2>1. CASE Worker!Next
    BY <2>1, StepsAssumption, ThreadKeeps, ProcessKeeps DEF Worker!Next
  <2>2. CASE UNCHANGED working
    BY <2>2 DEF working, WorkerInv, NotBegun, WellEnded, NobodyWrites, AnswerEarned
  <2> QED BY <2>1, <2>2
<1>3. WorkerInv => WorkerSettled
  BY DEF WorkerInv, NobodyWrites, AnswerEarned, Worker!WorkerSettled, WorkerSettled
<1> QED BY <1>1, <1>2, <1>3, AgentKeepsWorker, PTL

-----------------------------------------------------------------------------
(* The client's configuration *)

\* The installs that have read the file, and those that have named a backup.
HasRead(p)  == install[p].at \in {"naming", "copying", "saving", "drafting", "replacing"}
HasNamed(p) ==
  \/ install[p].at \in {"copying", "saving"}
  \/ install[p].at \in {"drafting", "replacing"} /\ install[p].saved # Client!NoFile

\* What is read to be replaced can be understood, and may be replaced.
ReadFit ==
  \A p \in Installs : HasRead(p) =>
    /\ install[p].seen.entry # Client!Malformed
    /\ install[p].seen.entry \in Client!Entries \ {Client!None, install[p].want} => install[p].order.force

\* The file of a backup is not there, then empty, and then what was saved.
BackupsFit ==
  \A p \in Installs :
    /\ install[p].at = "copying" => install[p].name \notin DOMAIN backups
    /\ install[p].at = "saving" =>
         install[p].name \in DOMAIN backups /\ backups[install[p].name] = Client!Torn /\ install[p].saved # Client!NoFile
    /\ install[p].at \in {"drafting", "replacing"} /\ install[p].saved # Client!NoFile =>
         install[p].name \in DOMAIN backups /\ backups[install[p].name] = install[p].saved

NamesApart ==
  \A p, q \in Installs : p # q /\ HasNamed(p) /\ HasNamed(q) => install[p].name # install[q].name

ConfigInv ==
  /\ DOMAIN install = Installs /\ IsFiniteSet(DOMAIN backups)
  /\ ReadFit
  /\ ~clash => BackupsFit /\ NamesApart

\* A set of numbers has a least one.
LEMMA LeastThere ==
  ASSUME NEW S \in SUBSET Nat, S # {}
  PROVE  Client!Least(S) \in S
<1> DEFINE below == {ss \in Nat \X Nat : ss[1] < ss[2]}
<1>1. IsWellFoundedOn(below, Nat)
  BY NatLessThanWellFounded DEF OpToRel
<1> HIDE DEF below
<1>2. \E x \in S : \A y \in S : <<y, x>> \notin below
  BY <1>1, WFMin
<1>3. \A x, y \in S : y < x => <<y, x>> \in below
  BY DEF below
<1>4. \A x, y \in S : x <= y \/ y < x
  OBVIOUS
<1>5. \E x \in S : \A y \in S : x <= y
  BY <1>2, <1>3, <1>4
<1> QED BY <1>5 DEF Client!Least

\* _backup_path(): its first free name is free.
LEMMA BackupNameFree ==
  ASSUME IsFiniteSet(DOMAIN backups)
  PROVE  Client!BackupName \notin DOMAIN backups
<1> DEFINE n == Cardinality(DOMAIN backups)
           free == {i \in 0..n : <<second, i>> \notin DOMAIN backups}
<1>1. n \in Nat
  BY FS_CardinalityType
<1>2. ASSUME free = {} PROVE FALSE
  <2> DEFINE f == [i \in 0..n |-> <<second, i>>]
  <2>1. \A i \in 0..n : <<second, i>> \in DOMAIN backups
    BY <1>2
  <2>2. f \in Injection(0..n, DOMAIN backups)
    BY <2>1 DEF Injection, IsInjective
  <2>3. Cardinality(0..n) <= n
    BY <2>2, FS_Injection
  <2>4. Cardinality(0..n) = n + 1
    BY <1>1, FS_Interval
  <2> QED BY <1>1, <2>3, <2>4
<1>3. free \subseteq Nat
  BY <1>1
<1>4. Client!Least(free) \in free
  BY <1>2, <1>3, LeastThere
<1>5. Client!BackupName = <<second, Client!Least(free)>>
  BY DEF Client!BackupName, Client!Cardinality, Cardinality
<1> QED BY <1>4, <1>5

LEMMA ConfigBegins == Client!Init => ConfigInv
<1> SUFFICES ASSUME Client!Init PROVE ConfigInv
  OBVIOUS
<1>1. DOMAIN backups = {} /\ DOMAIN install = Installs /\ \A p \in Installs : install[p].at = "idle"
  BY DEF Client!Init, Client!Idle
<1>2. IsFiniteSet(DOMAIN backups)
  BY <1>1, FS_EmptySet
<1> QED BY <1>1, <1>2 DEF ConfigInv, ReadFit, BackupsFit, NamesApart, HasRead, HasNamed

\* The steps of an install that name, save and keep nothing.
Elsewhere(p) ==
  \/ \E order \in Orders : Client!Start(p, order)
  \/ Client!Choose(p) \/ Client!Refuse(p) \/ Client!NothingToWrite(p) \/ Client!CopyFails(p)
  \/ Client!DraftFails(p) \/ Client!Replace(p) \/ Client!ReplaceFails(p) \/ Client!Killed(p)

LEMMA ElsewhereKeeps == ASSUME ConfigInv, NEW p \in Installs, Elsewhere(p) PROVE ConfigInv'
<1>1. UNCHANGED <<backups, clash>>
  BY DEF Elsewhere, Client!Start, Client!Choose, Client!Refuse, Client!NothingToWrite, Client!CopyFails,
         Client!DraftFails, Client!Replace, Client!ReplaceFails, Client!Killed
<1>2. /\ DOMAIN install' = Installs
      /\ install'[p].at \in {"choosing", "reading", "ended"}
      /\ \A q \in Installs \ {p} : install'[q] = install[q]
  BY DEF Elsewhere, Client!Start, Client!Choose, Client!Refuse, Client!NothingToWrite, Client!CopyFails,
         Client!DraftFails, Client!Replace, Client!ReplaceFails, Client!Killed, Client!Ended, ConfigInv
<1>3. \A q \in Installs : HasRead(q)' => q # p /\ HasRead(q)
  BY <1>2 DEF HasRead
<1>4. \A q \in Installs : HasNamed(q)' => q # p /\ HasNamed(q)
  BY <1>2 DEF HasNamed
<1>5. ReadFit'
  BY <1>2, <1>3 DEF ReadFit, ConfigInv
<1>6. BackupsFit => BackupsFit'
  BY <1>1, <1>2 DEF BackupsFit
<1>7. NamesApart => NamesApart'
  BY <1>2, <1>4 DEF NamesApart
<1> QED BY <1>1, <1>2, <1>5, <1>6, <1>7 DEF ConfigInv

LEMMA ReadKeeps == ASSUME ConfigInv, NEW p \in Installs, Client!Read(p) PROVE ConfigInv'
<1>1. UNCHANGED <<backups, clash>> /\ DOMAIN install' = Installs /\ \A q \in Installs \ {p} : install'[q] = install[q]
  BY DEF Client!Read, ConfigInv
<1>2. /\ install'[p].at = "naming" /\ install'[p].seen = config /\ install'[p].want = install[p].want
      /\ install'[p].order = install[p].order
  BY DEF Client!Read, ConfigInv
<1>3. /\ config.entry # Client!Malformed
      /\ config.entry \in Client!Entries \ {Client!None, install[p].want} => install[p].order.force
  BY DEF Client!Read, Client!Conflict
<1>4. ReadFit'
  <2> SUFFICES ASSUME NEW q \in Installs, HasRead(q)'
               PROVE  /\ install'[q].seen.entry # Client!Malformed
                      /\ install'[q].seen.entry \in Client!Entries \ {Client!None, install'[q].want} => install'[q].order.force
    BY DEF ReadFit, Client!Malformed, Client!Entries, Client!None
  <2>1. CASE q = p
    BY <1>2, <1>3, <2>1
  <2>2. CASE q # p
    BY <1>1, <2>2 DEF ConfigInv, ReadFit, HasRead
  <2> QED BY <2>1, <2>2
<1>5. BackupsFit => BackupsFit'
  BY <1>1, <1>2 DEF BackupsFit
<1>6. \A q \in Installs : HasNamed(q)' => q # p /\ HasNamed(q)
  BY <1>1, <1>2 DEF HasNamed
<1>7. NamesApart => NamesApart'
  BY <1>1, <1>6 DEF NamesApart
<1> QED BY <1>1, <1>4, <1>5, <1>7 DEF ConfigInv

\* An install that has read the file goes on with what it read.
LEMMA WritingKeepsRead ==
  ASSUME ConfigInv, NEW p \in Installs, NEW place, NEW name, NEW saved,
         HasRead(p), Client!Writing(p, place, name, saved)
  PROVE  /\ ReadFit' /\ DOMAIN install' = Installs
         /\ install'[p].at = place /\ install'[p].name = name /\ install'[p].saved = saved
         /\ \A q \in Installs \ {p} : install'[q] = install[q] /\ HasNamed(q)' = HasNamed(q)
<1>1. DOMAIN install' = Installs /\ \A q \in Installs \ {p} : install'[q] = install[q]
  BY DEF Client!Writing, ConfigInv
<1>2. /\ install'[p].at = place /\ install'[p].name = name /\ install'[p].saved = saved
      /\ install'[p].seen = install[p].seen /\ install'[p].want = install[p].want
      /\ install'[p].order = install[p].order
  BY DEF Client!Writing, ConfigInv
<1>3. ReadFit'
  BY <1>1, <1>2 DEF ReadFit, ConfigInv, HasRead
<1> QED BY <1>1, <1>2, <1>3 DEF HasNamed

LEMMA NamingKeeps ==
  ASSUME ConfigInv, NEW p \in Installs, Client!NoBackup(p) \/ Client!NameBackup(p)
  PROVE  ConfigInv'
<1>1. UNCHANGED backups /\ HasRead(p)
  BY DEF Client!NoBackup, Client!NameBackup, HasRead, Client!At
<1>2. CASE Client!NoBackup(p)
  <2>1. Client!Writing(p, "drafting", Client!None, Client!NoFile) /\ clash' = clash
    BY <1>2 DEF Client!NoBackup
  <2>2. /\ ReadFit' /\ DOMAIN install' = Installs
        /\ install'[p].at = "drafting" /\ install'[p].saved = Client!NoFile
        /\ \A q \in Installs \ {p} : install'[q] = install[q] /\ HasNamed(q)' = HasNamed(q)
    BY <1>1, <2>1, WritingKeepsRead
  <2>3. ~HasNamed(p)'
    BY <2>2 DEF HasNamed, Client!NoFile, Client!Document
  <2>4. NamesApart => NamesApart'
    BY <2>2, <2>3 DEF NamesApart
  <2>5. BackupsFit => BackupsFit'
    BY <1>1, <2>2 DEF BackupsFit, Client!NoFile, Client!Document, Client!Torn
  <2> QED BY <1>1, <2>1, <2>2, <2>4, <2>5 DEF ConfigInv
<1>3. CASE Client!NameBackup(p)
  <2>1. Client!Writing(p, "copying", Client!BackupName, Client!NoFile)
    BY <1>3 DEF Client!NameBackup
  <2>2. /\ ReadFit' /\ DOMAIN install' = Installs
        /\ install'[p].at = "copying" /\ install'[p].name = Client!BackupName
        /\ \A q \in Installs \ {p} : install'[q] = install[q] /\ HasNamed(q)' = HasNamed(q)
    BY <1>1, <2>1, WritingKeepsRead
  <2>3. Client!BackupName \notin DOMAIN backups
    BY BackupNameFree DEF ConfigInv
  <2> SUFFICES ASSUME ~clash' PROVE BackupsFit' /\ NamesApart'
    BY <1>1, <2>2 DEF ConfigInv
  <2>4. ~clash /\ \A q \in Installs \ {p} : ~(install[q].at = "copying" /\ install[q].name = Client!BackupName)
    BY <1>3 DEF Client!NameBackup, Client!At
  <2>5. BackupsFit /\ NamesApart
    BY <2>4 DEF ConfigInv
  <2>6. BackupsFit'
    BY <1>1, <2>2, <2>3, <2>5 DEF BackupsFit, Client!NoFile, Client!Document, Client!Torn
  <2>7. \A q \in Installs \ {p} : HasNamed(q) => install[q].name # Client!BackupName
    BY <2>3, <2>4, <2>5 DEF BackupsFit, HasNamed
  <2>8. NamesApart'
    BY <2>2, <2>5, <2>7 DEF NamesApart
  <2> QED BY <2>6, <2>8
<1> QED BY <1>2, <1>3

LEMMA CopyKeeps == ASSUME ConfigInv, NEW p \in Installs, Client!Copy(p) PROVE ConfigInv'
<1>1. /\ install[p].at = "copying" /\ config # Client!NoFile
      /\ backups' = Client!Stored(install[p].name, Client!Torn) /\ UNCHANGED clash
      /\ Client!Writing(p, "saving", install[p].name, config)
  BY DEF Client!Copy, Client!At
<1>2. /\ ReadFit' /\ DOMAIN install' = Installs
      /\ install'[p].at = "saving" /\ install'[p].name = install[p].name /\ install'[p].saved = config
      /\ \A q \in Installs \ {p} : install'[q] = install[q] /\ HasNamed(q)' = HasNamed(q)
  BY <1>1, WritingKeepsRead DEF HasRead
<1>3. /\ DOMAIN backups' = DOMAIN backups \cup {install[p].name}
      /\ backups'[install[p].name] = Client!Torn
      /\ \A n \in DOMAIN backups : n # install[p].name => backups'[n] = backups[n]
  BY <1>1 DEF Client!Stored
<1>4. IsFiniteSet(DOMAIN backups')
  BY <1>3, FS_AddElement DEF ConfigInv
<1> SUFFICES ASSUME ~clash PROVE BackupsFit' /\ NamesApart'
  BY <1>1, <1>2, <1>4 DEF ConfigInv
<1>5. BackupsFit /\ NamesApart /\ HasNamed(p)
  BY <1>1 DEF ConfigInv, HasNamed
<1>6. NamesApart'
  BY <1>2, <1>5 DEF NamesApart
<1>7. \A q \in Installs \ {p} : HasNamed(q) => install[q].name # install[p].name
  BY <1>5 DEF NamesApart
<1>8. Client!Torn' = Client!Torn /\ Client!NoFile' = Client!NoFile
  BY DEF Client!Torn, Client!NoFile, Client!Document
<1>9. BackupsFit'
  <2> SUFFICES ASSUME NEW q \in Installs
               PROVE  /\ install'[q].at = "copying" => install'[q].name \notin DOMAIN backups'
                      /\ install'[q].at = "saving" =>
                           /\ install'[q].name \in DOMAIN backups'
                           /\ backups'[install'[q].name] = Client!Torn /\ install'[q].saved # Client!NoFile
                      /\ install'[q].at \in {"drafting", "replacing"} /\ install'[q].saved # Client!NoFile =>
                           install'[q].name \in DOMAIN backups' /\ backups'[install'[q].name] = install'[q].saved
    BY <1>8 DEF BackupsFit
  <2>1. CASE q = p
    BY <1>1, <1>2, <1>3, <2>1
  <2>2. CASE q # p
    BY <1>2, <1>3, <1>5, <1>7, <2>2 DEF BackupsFit, HasNamed
  <2> QED BY <2>1, <2>2
<1> QED BY <1>6, <1>9

LEMMA CopiedKeeps == ASSUME ConfigInv, NEW p \in Installs, Client!Copied(p) PROVE ConfigInv'
<1>1. /\ install[p].at = "saving" /\ UNCHANGED clash
      /\ backups' = Client!Stored(install[p].name, install[p].saved)
      /\ Client!Writing(p, "drafting", install[p].name, install[p].saved)
  BY DEF Client!Copied, Client!At
<1>2. /\ ReadFit' /\ DOMAIN install' = Installs
      /\ install'[p].at = "drafting" /\ install'[p].name = install[p].name /\ install'[p].saved = install[p].saved
      /\ \A q \in Installs \ {p} : install'[q] = install[q] /\ HasNamed(q)' = HasNamed(q)
  BY <1>1, WritingKeepsRead DEF HasRead
<1>3. /\ DOMAIN backups' = DOMAIN backups \cup {install[p].name}
      /\ backups'[install[p].name] = install[p].saved
      /\ \A n \in DOMAIN backups : n # install[p].name => backups'[n] = backups[n]
  BY <1>1 DEF Client!Stored
<1>4. IsFiniteSet(DOMAIN backups')
  BY <1>3, FS_AddElement DEF ConfigInv
<1> SUFFICES ASSUME ~clash PROVE BackupsFit' /\ NamesApart'
  BY <1>1, <1>2, <1>4 DEF ConfigInv
<1>5. BackupsFit /\ NamesApart /\ HasNamed(p)
  BY <1>1 DEF ConfigInv, HasNamed
<1>6. NamesApart'
  BY <1>2, <1>5 DEF NamesApart
<1>7. \A q \in Installs \ {p} : HasNamed(q) => install[q].name # install[p].name
  BY <1>5 DEF NamesApart
<1>8. Client!Torn' = Client!Torn /\ Client!NoFile' = Client!NoFile
  BY DEF Client!Torn, Client!NoFile, Client!Document
<1>9. BackupsFit'
  <2> SUFFICES ASSUME NEW q \in Installs
               PROVE  /\ install'[q].at = "copying" => install'[q].name \notin DOMAIN backups'
                      /\ install'[q].at = "saving" =>
                           /\ install'[q].name \in DOMAIN backups'
                           /\ backups'[install'[q].name] = Client!Torn /\ install'[q].saved # Client!NoFile
                      /\ install'[q].at \in {"drafting", "replacing"} /\ install'[q].saved # Client!NoFile =>
                           install'[q].name \in DOMAIN backups' /\ backups'[install'[q].name] = install'[q].saved
    BY <1>8 DEF BackupsFit
  <2>1. CASE q = p
    BY <1>2, <1>3, <2>1
  <2>2. CASE q # p
    <3>1. install[q].at = "copying" => install[q].name \notin DOMAIN backups'
      BY <1>3, <1>5, <1>7, <2>2 DEF BackupsFit, HasNamed
    <3> QED BY <1>2, <1>3, <1>5, <1>7, <2>2, <3>1 DEF BackupsFit, HasNamed
  <2> QED BY <2>1, <2>2
<1> QED BY <1>6, <1>9

LEMMA DraftKeeps == ASSUME ConfigInv, NEW p \in Installs, Client!Draft(p) PROVE ConfigInv'
<1>1. /\ install[p].at = "drafting" /\ UNCHANGED <<backups, clash>>
      /\ Client!Writing(p, "replacing", install[p].name, install[p].saved)
  BY DEF Client!Draft, Client!At
<1>2. /\ ReadFit' /\ DOMAIN install' = Installs
      /\ install'[p].at = "replacing" /\ install'[p].name = install[p].name /\ install'[p].saved = install[p].saved
      /\ \A q \in Installs \ {p} : install'[q] = install[q] /\ HasNamed(q)' = HasNamed(q)
  BY <1>1, WritingKeepsRead DEF HasRead
<1>3. HasNamed(p)' = HasNamed(p)
  BY <1>1, <1>2 DEF HasNamed, Client!NoFile, Client!Document
<1>4. NamesApart => NamesApart'
  BY <1>2, <1>3 DEF NamesApart
<1>5. Client!Torn' = Client!Torn /\ Client!NoFile' = Client!NoFile
  BY DEF Client!Torn, Client!NoFile, Client!Document
<1>6. BackupsFit => BackupsFit'
  BY <1>1, <1>2, <1>5 DEF BackupsFit
<1> QED BY <1>1, <1>2, <1>4, <1>6 DEF ConfigInv

LEMMA ConfigKeeps == ASSUME ConfigInv, [Client!Next]_configuring PROVE ConfigInv'
<1>1. CASE \E p \in Installs : Elsewhere(p)
  BY <1>1, ElsewhereKeeps
<1>2. CASE \E p \in Installs : Client!Read(p)
  BY <1>2, ReadKeeps
<1>3. CASE \E p \in Installs : Client!NoBackup(p) \/ Client!NameBackup(p)
  BY <1>3, NamingKeeps
<1>4. CASE \E p \in Installs : Client!Copy(p) \/ Client!Copied(p) \/ Client!Draft(p)
  BY <1>4, CopyKeeps, CopiedKeeps, DraftKeeps
<1>5. CASE Client!ChangeElsewhere \/ Client!Tick \/ Client!Over \/ UNCHANGED configuring
  <2>1. UNCHANGED <<backups, clash, install>>
    BY <1>5 DEF Client!ChangeElsewhere, Client!Tick, Client!Over, Client!vars, configuring
  <2>2. ReadFit' = ReadFit /\ BackupsFit' = BackupsFit /\ NamesApart' = NamesApart
    BY <2>1 DEF ReadFit, BackupsFit, NamesApart, HasRead, HasNamed, Client!NoFile, Client!Document, Client!Torn,
                Client!Malformed, Client!Entries, Client!None, Client!Profiles
  <2> QED BY <2>1, <2>2 DEF ConfigInv
<1> QED BY <1>1, <1>2, <1>3, <1>4, <1>5 DEF Client!Next, Elsewhere

LEMMA AgentKeepsConfig == AgentSpec => Client!Init /\ [][Client!Next]_configuring
<1>1. AgentInit => Client!Init
  BY DEF AgentInit
<1>2. [AgentNext]_<<part, vars, comparing, tabs, working, text, configuring>> => [Client!Next]_configuring
  BY DEF AgentNext
<1> QED BY <1>1, <1>2, PTL DEF AgentSpec

\* An install that replaces the file.
LEMMA Replacing ==
  ASSUME ConfigInv, [Client!Next]_configuring, NEW p \in Installs, Client!Replaced(p)
  PROVE  Client!Replace(p)
<1>1. install[p].at = "replacing" /\ install'[p].at = "ended" /\ install'[p].exit = 0
  BY DEF Client!Replaced, Client!At
<1>2. install' # install
  BY <1>1
<1>3. PICK q \in Installs : Elsewhere(q) \/ Client!Read(q) \/ Client!NoBackup(q) \/ Client!NameBackup(q)
                              \/ Client!Copy(q) \/ Client!Copied(q) \/ Client!Draft(q)
  BY <1>2 DEF Client!Next, Client!ChangeElsewhere, Client!Tick, Client!Over, Client!vars, configuring, Elsewhere
<1>4. q = p
  BY <1>1, <1>3 DEF Elsewhere, Client!Start, Client!Choose, Client!Refuse, Client!NothingToWrite, Client!CopyFails,
         Client!DraftFails, Client!Replace, Client!ReplaceFails, Client!Killed, Client!Ended, Client!Read,
         Client!NoBackup, Client!NameBackup, Client!Copy, Client!Copied, Client!Draft, Client!Writing, ConfigInv
<1>5. Elsewhere(p)
  BY <1>1, <1>3, <1>4 DEF Client!Read, Client!NoBackup, Client!NameBackup, Client!Copy, Client!Copied, Client!Draft, Client!At
<1>6. Client!Replace(p) \/ Client!ReplaceFails(p) \/ Client!Killed(p)
  BY <1>1, <1>5 DEF Elsewhere, Client!Start, Client!Choose, Client!Refuse, Client!NothingToWrite, Client!CopyFails,
         Client!DraftFails, Client!At
<1>7. ~Client!ReplaceFails(p) /\ ~Client!Killed(p)
  BY <1>1 DEF Client!ReplaceFails, Client!Killed, Client!Ended, ConfigInv
<1> QED BY <1>6, <1>7

\* What is written to a backup, and by whom.
LEMMA StepsStore ==
  ASSUME ConfigInv, [Client!Next]_configuring, backups' # backups
  PROVE  \E p \in Installs : Client!Copy(p) \/ Client!Copied(p)
  BY DEF Client!Next, Client!Start, Client!Choose, Client!Refuse, Client!NothingToWrite, Client!CopyFails,
         Client!DraftFails, Client!Replace, Client!ReplaceFails, Client!Killed, Client!Read, Client!NoBackup,
         Client!NameBackup, Client!Draft, Client!ChangeElsewhere, Client!Tick, Client!Over, Client!vars, configuring

\* install --write: an install that replaces the file it read keeps what is not its
\* own, one that replaces the file it saved has left a whole copy of it, and no copy
\* is lost again, in however many processes and wherever they are killed - unless
\* two have named their copies at once.
THEOREM ConfigAlwaysKept == AgentSpec => ConfigKept
<1>1. ConfigInv /\ [Client!Next]_configuring => [Client!ConfigStep]_configuring
  <2> SUFFICES ASSUME ConfigInv, [Client!Next]_configuring PROVE Client!ConfigStep
    OBVIOUS
  <2>1. Client!OthersStay
    <3> SUFFICES ASSUME NEW p \in Installs, Client!Replaced(p), config = install[p].seen
                 PROVE  /\ config'.rest = config.rest
                        /\ config.entry # Client!Malformed
                        /\ config.entry # config'.entry /\ config.entry \in Client!Entries \ {Client!None} =>
                             install[p].order.force
      BY DEF Client!OthersStay
    <3>1. config' = Client!Merged(p) /\ HasRead(p)
      BY Replacing DEF Client!Replace, HasRead, Client!At
    <3>2. config'.rest = config.rest /\ config'.entry = install[p].want
      BY <3>1 DEF Client!Merged, Client!Document
    <3> QED BY <3>1, <3>2 DEF ConfigInv, ReadFit
  <2>2. Client!BackedUp
    <3> SUFFICES ASSUME NEW p \in Installs, Client!Replaced(p), config = install[p].saved, config # Client!NoFile, ~clash
                 PROVE  config \in {backups[n] : n \in DOMAIN backups}
      BY DEF Client!BackedUp
    <3>1. install[p].at = "replacing"
      BY Replacing DEF Client!Replace, Client!At
    <3> QED BY <3>1 DEF ConfigInv, BackupsFit
  <2>3. Client!BackupsStay
    <3> SUFFICES ASSUME ~clash', NEW n \in DOMAIN backups, backups[n] # Client!Torn, backups' # backups
                 PROVE  n \in DOMAIN backups' /\ backups'[n] = backups[n]
      BY DEF Client!BackupsStay
    <3>1. PICK p \in Installs : Client!Copy(p) \/ Client!Copied(p)
      BY StepsStore
    <3>2. ~clash /\ BackupsFit
      BY <3>1 DEF Client!Copy, Client!Copied, ConfigInv
    <3>3. n # install[p].name
      BY <3>1, <3>2 DEF Client!Copy, Client!Copied, Client!At, BackupsFit
    <3> QED BY <3>1, <3>3 DEF Client!Copy, Client!Copied, Client!Stored
  <2> QED BY <2>1, <2>2, <2>3 DEF Client!ConfigStep
<1>2. ConfigInv /\ [Client!Next]_configuring => ConfigInv'
  BY ConfigKeeps
<1> QED BY <1>1, <1>2, ConfigBegins, AgentKeepsConfig, PTL DEF ConfigKept

-----------------------------------------------------------------------------
(* Order *)

\* Those before x in S.
Prior(x, S, Rel) == {y \in S : <<y, x>> \in Rel}

\* In a finite set that Rel orders, to count those before an element is to number
\* the elements in their order.
LEMMA CountingNumbers ==
  ASSUME NEW S, IsFiniteSet(S), NEW Rel,
         \A x \in S : <<x, x>> \notin Rel,
         \A x, y, z \in S : <<x, y>> \in Rel /\ <<y, z>> \in Rel => <<x, z>> \in Rel,
         \A x, y \in S : x = y \/ <<x, y>> \in Rel \/ <<y, x>> \in Rel
  PROVE  /\ \A x \in S : Cardinality(Prior(x, S, Rel)) \in 0..(Cardinality(S) - 1)
         /\ \A x, y \in S : <<x, y>> \in Rel => Cardinality(Prior(x, S, Rel)) < Cardinality(Prior(y, S, Rel))
         /\ \A n \in 1..Cardinality(S) : \E x \in S : Cardinality(Prior(x, S, Rel)) = n - 1
<1>1. Cardinality(S) \in Nat
  BY FS_CardinalityType
<1>2. \A x \in S : IsFiniteSet(Prior(x, S, Rel)) /\ Cardinality(Prior(x, S, Rel)) \in Nat
  <2> SUFFICES ASSUME NEW x \in S PROVE IsFiniteSet(Prior(x, S, Rel)) /\ Cardinality(Prior(x, S, Rel)) \in Nat
    OBVIOUS
  <2>1. Prior(x, S, Rel) \in SUBSET S
    BY DEF Prior
  <2>2. IsFiniteSet(Prior(x, S, Rel))
    BY <2>1, FS_Subset
  <2> QED BY <2>2, FS_CardinalityType
<1>3. ASSUME NEW x, NEW T, IsFiniteSet(T), NEW U \in SUBSET T, x \in T, x \notin U
      PROVE  Cardinality(U) < Cardinality(T)
  <2>1. Cardinality(U) <= Cardinality(T) /\ Cardinality(U) # Cardinality(T) /\ IsFiniteSet(U)
    BY <1>3, FS_Subset
  <2>2. Cardinality(U) \in Nat /\ Cardinality(T) \in Nat
    BY <1>3, <2>1, FS_CardinalityType
  <2> QED BY <2>1, <2>2
<1>4. \A x \in S : Cardinality(Prior(x, S, Rel)) \in 0..(Cardinality(S) - 1)
  <2> SUFFICES ASSUME NEW x \in S PROVE Cardinality(Prior(x, S, Rel)) \in 0..(Cardinality(S) - 1)
    OBVIOUS
  <2>1. Prior(x, S, Rel) \in SUBSET S /\ x \notin Prior(x, S, Rel)
    BY DEF Prior
  <2>2. Cardinality(Prior(x, S, Rel)) < Cardinality(S)
    BY <1>3, <2>1
  <2> QED BY <1>1, <1>2, <2>2
<1>5. \A x, y \in S : <<x, y>> \in Rel => Cardinality(Prior(x, S, Rel)) < Cardinality(Prior(y, S, Rel))
  <2> SUFFICES ASSUME NEW x \in S, NEW y \in S, <<x, y>> \in Rel
               PROVE  Cardinality(Prior(x, S, Rel)) < Cardinality(Prior(y, S, Rel))
    OBVIOUS
  <2>1. Prior(x, S, Rel) \in SUBSET Prior(y, S, Rel) /\ x \in Prior(y, S, Rel) /\ x \notin Prior(x, S, Rel)
    BY DEF Prior
  <2> QED BY <1>2, <1>3, <2>1
<1>6. \A n \in 1..Cardinality(S) : \E x \in S : Cardinality(Prior(x, S, Rel)) = n - 1
  <2>1. PICK f : f = [x \in S |-> Cardinality(Prior(x, S, Rel)) + 1]
    OBVIOUS
  <2>2. f \in [S -> 1..Cardinality(S)]
    BY <1>1, <1>4, <2>1
  <2>3. \A x, y \in S : f[x] = f[y] => x = y
    <3> SUFFICES ASSUME NEW x \in S, NEW y \in S, f[x] = f[y] PROVE x = y
      OBVIOUS
    <3>1. Cardinality(Prior(x, S, Rel)) = Cardinality(Prior(y, S, Rel))
      BY <1>2, <2>1
    <3>2. <<x, y>> \notin Rel /\ <<y, x>> \notin Rel
      BY <1>2, <1>5, <3>1
    <3> QED BY <3>2
  <2>4. f \in Injection(S, 1..Cardinality(S))
    BY <2>2, <2>3 DEF Injection, IsInjective
  <2>5. IsFiniteSet(1..Cardinality(S)) /\ Cardinality(1..Cardinality(S)) = Cardinality(S)
    BY <1>1, FS_Interval
  <2>6. f \in Surjection(S, 1..Cardinality(S))
    BY <2>4, <2>5, FS_Injection
  <2>7. \A n \in 1..Cardinality(S) : \E x \in S : f[x] = n
    BY <2>6 DEF Surjection
  <2> QED BY <1>2, <2>1, <2>7
<1> QED BY <1>4, <1>5, <1>6

\* A set in that order.
LEMMA Ranking ==
  ASSUME NEW S, IsFiniteSet(S), NEW Rel,
         \A x \in S : <<x, x>> \notin Rel,
         \A x, y, z \in S : <<x, y>> \in Rel /\ <<y, z>> \in Rel => <<x, z>> \in Rel,
         \A x, y \in S : x = y \/ <<x, y>> \in Rel \/ <<y, x>> \in Rel,
         NEW place \in [1..Cardinality(S) -> S],
         \A n \in 1..Cardinality(S) : Cardinality(Prior(place[n], S, Rel)) = n - 1
  PROVE  /\ place \in Bijection(1..Cardinality(S), S)
         /\ \A m, n \in 1..Cardinality(S) : m < n => <<place[m], place[n]>> \in Rel
<1>1. Cardinality(S) \in Nat
  BY FS_CardinalityType
<1>2. /\ \A x \in S : Cardinality(Prior(x, S, Rel)) \in 0..(Cardinality(S) - 1)
      /\ \A x, y \in S : <<x, y>> \in Rel => Cardinality(Prior(x, S, Rel)) < Cardinality(Prior(y, S, Rel))
      /\ \A n \in 1..Cardinality(S) : \E x \in S : Cardinality(Prior(x, S, Rel)) = n - 1
  BY CountingNumbers
<1>3. \A n \in 1..Cardinality(S) : place[n] \in S /\ Cardinality(Prior(place[n], S, Rel)) = n - 1
  OBVIOUS
<1>4. \A m, n \in 1..Cardinality(S) : m < n => <<place[m], place[n]>> \in Rel
  <2> SUFFICES ASSUME NEW m \in 1..Cardinality(S), NEW n \in 1..Cardinality(S), m < n
               PROVE  <<place[m], place[n]>> \in Rel
    OBVIOUS
  <2>1. Cardinality(Prior(place[m], S, Rel)) < Cardinality(Prior(place[n], S, Rel))
    BY <1>3
  <2>2. place[m] # place[n] /\ <<place[n], place[m]>> \notin Rel
    BY <1>2, <1>3, <2>1
  <2> QED BY <1>3, <2>2
<1>5. \A x \in S : \E n \in 1..Cardinality(S) : place[n] = x
  <2> SUFFICES ASSUME NEW x \in S PROVE \E n \in 1..Cardinality(S) : place[n] = x
    OBVIOUS
  <2>1. PICK n \in 1..Cardinality(S) : Cardinality(Prior(x, S, Rel)) = n - 1
    <3>1. PICK c \in 0..(Cardinality(S) - 1) : Cardinality(Prior(x, S, Rel)) = c
      BY <1>2
    <3>2. c + 1 \in 1..Cardinality(S) /\ (c + 1) - 1 = c
      BY <1>1
    <3> QED BY <3>1, <3>2
  <2>2. <<place[n], x>> \notin Rel /\ <<x, place[n]>> \notin Rel
    BY <1>2, <1>3, <2>1
  <2> QED BY <1>3, <2>2
<1>6. \A m, n \in 1..Cardinality(S) : place[m] = place[n] => m = n
  BY <1>1, <1>3
<1>7. place \in Injection(1..Cardinality(S), S) /\ place \in Surjection(1..Cardinality(S), S)
  BY <1>5, <1>6 DEF Injection, IsInjective, Surjection
<1> QED BY <1>4, <1>7 DEF Bijection

-----------------------------------------------------------------------------
(* A comparison *)

LEMMA SameCount == \A S : P!Cardinality(S) = Cardinality(S)
  BY DEF P!Cardinality, Cardinality

\* A source that is said to have answered gave all it had, or warned, or is excused.
Honest(c) == c.status = "ok" => c.whole \/ c.warned \/ c.source \in Excused

\* What a call came to: an offer of s for each row s gave.
Fits(c, s) ==
  /\ c.source = s
  /\ \E n \in Nat : DOMAIN c.offers = 1..n /\ DOMAIN c.given = 1..n
  /\ \A k \in DOMAIN c.given : c.given[k] \in Rows[s] /\ c.offers[k] = P!OfferOf(s, c.given[k])

Comparing == request # P!Idle /\ answer.status # "bad_request"

\* The sources asked are those of the request, each known.
RequestFit ==
  /\ Comparing => request \in Requests /\ DOMAIN calls = P!active(request)
  /\ ~Comparing => calls = <<>>
  /\ \A i \in DOMAIN calls : P!asked(request)[i] \in Known

CallsFit == \A i \in DOMAIN calls : calls[i] # P!Asking => Fits(calls[i], P!asked(request)[i]) /\ Honest(calls[i])

\* The answer is what is made of the calls, all of them settled.
AnswerFit ==
  answer.status = "answered" =>
    /\ request # P!Idle
    /\ \A i \in DOMAIN calls : calls[i] # P!Asking
    /\ answer = P!CompareResponse(request)

CompareInv == RequestFit /\ CallsFit /\ AnswerFit

\* A request names its sources in order.
LEMMA RequestNames ==
  ASSUME NEW r \in Requests
  PROVE  /\ \E n \in Nat : DOMAIN P!asked(r) = 1..n
         /\ r.limit \in Nat /\ r.in_stock_only \in BOOLEAN /\ r # P!Idle
         /\ r.sources = <<>> => \A i \in DOMAIN P!asked(r) : P!asked(r)[i] \in Known
<1>1. r \in [sources : Seq(STRING), limit : Nat, in_stock_only : BOOLEAN]
  BY CompareAssumption
<1>2. r # P!Idle
  <2>1. DOMAIN r = {"sources", "limit", "in_stock_only"}
    BY <1>1
  <2>2. DOMAIN P!Idle = {"limit"}
    BY DEF P!Idle
  <2> QED BY <2>1, <2>2
<1>3. Searchable \in Seq(Known)
  BY CompareAssumption
<1>4. \E n \in Nat : DOMAIN P!asked(r) = 1..n
  <2>1. r.sources \in Seq(STRING)
    BY <1>1
  <2>2. CASE r.sources = <<>>
    BY <1>3, <2>2 DEF P!asked
  <2>3. CASE r.sources # <<>>
    BY <2>1, <2>3 DEF P!asked
  <2> QED BY <2>2, <2>3
<1>5. r.sources = <<>> => \A i \in DOMAIN P!asked(r) : P!asked(r)[i] \in Known
  BY <1>3 DEF P!asked
<1> QED BY <1>1, <1>2, <1>4, <1>5

LEMMA Front ==
  ASSUME NEW S, NEW q \in Seq(S), NEW n \in 0..Len(q)
  PROVE  DOMAIN SubSeq(q, 1, n) = 1..n /\ \A k \in 1..n : SubSeq(q, 1, n)[k] = q[k]
<1>1. SubSeq(q, 1, n) \in Seq(S)
  OBVIOUS
<1>2. Len(SubSeq(q, 1, n)) = n
  OBVIOUS
<1>3. DOMAIN SubSeq(q, 1, n) = 1..n
  BY <1>1, <1>2
<1>4. \A k \in 1..n : SubSeq(q, 1, n)[k] = q[k]
  OBVIOUS
<1> QED BY <1>3, <1>4

\* OfferBatch: one offer for each row, in their order.
LEMMA RunsFit ==
  ASSUME NEW s, NEW m \in P!Response(s), NEW limit \in Nat
  PROVE  Fits(P!run_source(s, m, limit), s)
<1>1. PICK n \in 0..2 : m.rows \in [1..n -> Rows[s]]
  <2>1. (\E n \in 0..2 : m.rows \in [1..n -> Rows[s]]) \/ m.rows = <<>>
    BY DEF P!Response
  <2>2. <<>> \in [1..0 -> Rows[s]] /\ 0 \in 0..2
    OBVIOUS
  <2> QED BY <2>1, <2>2
<1>2. PICK given : given = P!FirstOf(m.rows, limit)
  OBVIOUS
<1>3. m.rows \in Seq(Rows[s]) /\ Len(m.rows) = n
  BY <1>1
<1>4. PICK few \in Nat : few = (IF Len(m.rows) < limit THEN Len(m.rows) ELSE limit)
  BY <1>3
<1>5. few <= n /\ given = SubSeq(m.rows, 1, few)
  BY <1>2, <1>3, <1>4 DEF P!FirstOf
<1>6. DOMAIN given = 1..few /\ \A k \in 1..few : given[k] = m.rows[k] /\ given[k] \in Rows[s]
  <2>1. few \in 0..Len(m.rows)
    BY <1>3, <1>4, <1>5
  <2>2. DOMAIN given = 1..few /\ \A k \in 1..few : given[k] = m.rows[k]
    BY <1>3, <1>5, <2>1, Front
  <2> QED BY <1>1, <1>5, <2>2
<1>7. PICK c : c = P!run_source(s, m, limit)
  OBVIOUS
<1>8. /\ c.source = s /\ c.given = given
      /\ c.offers = [k \in DOMAIN given |-> P!OfferOf(s, m.rows[k])]
  BY <1>2, <1>7 DEF P!run_source, P!Outcome, P!OfferBatch
<1> QED BY <1>6, <1>7, <1>8 DEF Fits

\* _run_source(): an answer that is unhealthy, or warned of, is told.
LEMMA RunsHonest ==
  ASSUME NEW s, NEW m \in P!Response(s), NEW limit
  PROVE  Honest(P!run_source(s, m, limit))
<1> PICK c : c = P!run_source(s, m, limit)
  OBVIOUS
<1>1. /\ c.source = s /\ c.whole = m.meta.whole
      /\ c.warned = (m.meta.warned \/ m.meta.healthy = "no")
  BY DEF P!run_source, P!Outcome, P!OfferBatch
<1>2. m.meta.whole \/ m.meta.healthy = "no" \/ s \in SilentSources \cup {"wildberries"}
  BY DEF P!Response, P!Meta
<1> QED BY <1>1, <1>2, CompareAssumption DEF Honest

LEMMA FailsFit ==
  ASSUME NEW s, NEW status, status # "ok"
  PROVE  Fits(P!Failed(s, status), s) /\ Honest(P!Failed(s, status))
<1>1. PICK c : c = P!Failed(s, status)
  OBVIOUS
<1>2. c.source = s /\ c.status = status /\ c.offers = <<>> /\ c.given = <<>>
  BY <1>1 DEF P!Failed, P!Outcome
<1>3. DOMAIN <<>> = 1..0 /\ 1..0 = {} /\ 0 \in Nat
  OBVIOUS
<1>4. \E n \in Nat : DOMAIN c.offers = 1..n /\ DOMAIN c.given = 1..n
  BY <1>2, <1>3
<1> QED BY <1>1, <1>2, <1>3, <1>4 DEF Fits, Honest

LEMMA ResponseStays ==
  ASSUME UNCHANGED <<request, calls>>
  PROVE  P!CompareResponse(request)' = P!CompareResponse(request)
  BY DEF P!CompareResponse, P!dedupe, P!ranked, P!Outranks, P!Repeats, P!Places, P!OfferAt, P!missing, P!active,
         P!requested, P!asked

LEMMA CompareBegins == P!Init => CompareInv
  BY DEF P!Init, P!None, CompareInv, RequestFit, Comparing, CallsFit, AnswerFit

LEMMA SettleKeeps ==
  ASSUME CompareInv, NEW i \in DOMAIN calls, calls[i] = P!Asking, NEW outcome,
         Fits(outcome, P!asked(request)[i]), Honest(outcome), P!Settle(i, outcome)
  PROVE  CompareInv'
<1>1. /\ DOMAIN calls' = DOMAIN calls /\ calls'[i] = outcome
      /\ \A j \in DOMAIN calls \ {i} : calls'[j] = calls[j]
      /\ UNCHANGED <<request, answer>>
  BY DEF P!Settle
<1>2. answer.status # "answered"
  BY DEF CompareInv, AnswerFit
<1>3. P!asked(request)' = P!asked(request) /\ P!active(request)' = P!active(request) /\ Comparing' = Comparing
  BY <1>1 DEF P!asked, P!active, P!requested, Comparing
<1>4. CallsFit'
  <2> SUFFICES ASSUME NEW j \in DOMAIN calls', calls'[j] # P!Asking
               PROVE  Fits(calls'[j], P!asked(request)[j]) /\ Honest(calls'[j])
    BY <1>3 DEF CallsFit, Fits, Honest, P!Asking
  <2> QED BY <1>1 DEF CompareInv, CallsFit
<1>5. RequestFit'
  <2>1. calls # <<>>
    OBVIOUS
  <2> QED BY <1>1, <1>3, <2>1 DEF CompareInv, RequestFit
<1> QED BY <1>1, <1>2, <1>4, <1>5 DEF CompareInv, AnswerFit

LEMMA CompareKeeps == ASSUME CompareInv, [P!Next]_comparing PROVE CompareInv'
<1>1. CASE \E r \in Requests : P!Ask(r)
  <2>1. PICK r \in Requests : P!Ask(r)
    BY <1>1
  <2>2. answer'.status # "answered" /\ \A i \in DOMAIN calls' : calls'[i] = P!Asking
    BY <2>1 DEF P!Ask, P!None
  <2>3. request' = r /\ r # P!Idle
    BY <2>1, RequestNames DEF P!Ask
  <2>4. CASE P!BadRequest(r)
    <3>1. answer'.status = "bad_request" /\ calls' = <<>>
      BY <2>1, <2>4 DEF P!Ask
    <3> QED BY <2>2, <3>1 DEF CompareInv, RequestFit, Comparing, CallsFit, AnswerFit
  <2>5. CASE ~P!BadRequest(r)
    <3>1. DOMAIN calls' = P!active(r) /\ answer'.status = "none"
      BY <2>1, <2>5 DEF P!Ask, P!None
    <3>2. \A i \in P!active(r) : P!asked(r)[i] \in Known
      BY <2>5, RequestNames DEF P!BadRequest, P!active, P!requested, P!asked
    <3>3. P!active(request)' = P!active(r) /\ P!asked(request)' = P!asked(r)
      BY <2>3 DEF P!asked, P!active, P!requested
    <3>4. RequestFit'
      BY <2>3, <3>1, <3>2, <3>3 DEF RequestFit, Comparing, P!Idle
    <3> QED BY <2>2, <3>4 DEF CompareInv, CallsFit, AnswerFit, P!Asking
  <2> QED BY <2>4, <2>5
<1>2. CASE P!SourceStep
  <2>1. PICK i \in DOMAIN calls : P!SourceAnswers(i) \/ P!SourceFails(i)
    BY <1>2 DEF P!SourceStep
  <2>2. calls[i] = P!Asking
    BY <2>1 DEF P!SourceAnswers, P!SourceFails
  <2>3. request.limit \in Nat
    <3>1. Comparing
      BY DEF CompareInv, RequestFit
    <3> QED BY <3>1, RequestNames DEF CompareInv, RequestFit
  <2>4. CASE P!SourceAnswers(i)
    <3>1. PICK m \in P!Response(P!asked(request)[i]) :
            P!Settle(i, P!run_source(P!asked(request)[i], m, request.limit))
      BY <2>4 DEF P!SourceAnswers
    <3> QED BY <2>2, <2>3, <3>1, RunsFit, RunsHonest, SettleKeeps
  <2>5. CASE P!SourceFails(i)
    <3>1. PICK code \in P!Errors : P!Settle(i, P!Failed(P!asked(request)[i], P!source_error(code)))
      BY <2>5 DEF P!SourceFails
    <3>2. P!source_error(code) # "ok"
      BY DEF P!source_error, P!Errors
    <3> QED BY <2>2, <3>1, <3>2, FailsFit, SettleKeeps
  <2> QED BY <2>1, <2>4, <2>5
<1>3. CASE P!TimeOut
  <2>1. PICK i \in DOMAIN calls : P!SourceTimesOut(i)
    BY <1>3 DEF P!TimeOut
  <2> QED BY <2>1, FailsFit, SettleKeeps DEF P!SourceTimesOut
<1>4. CASE P!Finish
  <2>1. /\ request # P!Idle /\ answer = P!None /\ answer' = P!CompareResponse(request)
        /\ UNCHANGED <<request, calls>> /\ \A i \in DOMAIN calls : calls[i] # P!Asking
    BY <1>4 DEF P!Finish
  <2>2. P!CompareResponse(request)' = P!CompareResponse(request)
    BY <2>1, ResponseStays
  <2>3. answer'.status = "answered"
    BY <2>1 DEF P!CompareResponse
  <2>4. AnswerFit'
    BY <2>1, <2>2 DEF AnswerFit, P!Asking, P!Idle
  <2>5. RequestFit' /\ CallsFit'
    BY <2>1, <2>3 DEF CompareInv, RequestFit, CallsFit, Comparing, P!None, P!Idle, Fits, Honest, P!Asking, P!active,
                      P!requested, P!asked
  <2> QED BY <2>4, <2>5 DEF CompareInv
<1>5. CASE P!VerifyOffer \/ P!Return
  <2>1. request' = P!Idle /\ calls' = <<>> /\ answer' = P!None
    BY <1>5 DEF P!VerifyOffer, P!Return
  <2> QED BY <2>1 DEF CompareInv, RequestFit, Comparing, CallsFit, AnswerFit, P!None, P!Idle
<1>6. CASE P!MatchIdentity \/ UNCHANGED comparing
  <2>1. UNCHANGED <<request, calls, answer>>
    BY <1>6 DEF P!MatchIdentity, comparing
  <2>2. P!CompareResponse(request)' = P!CompareResponse(request)
    BY <2>1, ResponseStays
  <2>3. P!asked(request)' = P!asked(request) /\ P!active(request)' = P!active(request)
    BY <2>1 DEF P!active, P!requested, P!asked
  <2> QED BY <2>1, <2>2, <2>3 DEF CompareInv, RequestFit, CallsFit, AnswerFit, Comparing, P!Idle, Fits, Honest, P!Asking
<1> QED BY <1>1, <1>2, <1>3, <1>4, <1>5, <1>6 DEF P!Next

LEMMA AgentKeepsCompare == AgentSpec => P!Init /\ [][P!Next]_comparing
<1>1. AgentInit => P!Init
  BY DEF AgentInit
<1>2. [AgentNext]_<<part, vars, comparing, tabs, working, text, configuring>> => [P!Next]_comparing
  BY DEF AgentNext
<1> QED BY <1>1, <1>2, PTL DEF AgentSpec

\* What an offer keeps of its row, and when it is priced.
LEMMA OfferKeeps ==
  ASSUME NEW s \in Known, NEW r \in Rows[s], NEW o, o = P!OfferOf(s, r), NEW stock \in BOOLEAN
  PROVE  /\ o.source = s /\ o.id = r.id /\ o.variant = r.variant
         /\ P!Prices(o, stock) \in BOOLEAN
         /\ P!Prices(o, stock) => o.rub \in Nat /\ o.rub = r.price
         /\ P!Prices(o, stock) <=> /\ s # "taobao" /\ r.kind = "regular" /\ r.price # P!NoPrice
                                   /\ stock => r.stock = "in" /\ o.stock = "in"
<1> DEFINE Kept == /\ o.source = s /\ o.id = r.id /\ o.variant = r.variant /\ o.currency \in {"rub", "cny"}
                   /\ o.stock = r.stock \/ o.stock = "untold"
                   /\ o.currency = "rub" => s # "taobao" /\ o.rub \in {r.price, P!NoPrice}
                   /\ o.currency = "cny" => s = "taobao" /\ o.rub = P!NoPrice
                   /\ s \in {"wildberries", "yandex_market"} => 
                        /\ o.kind = r.kind /\ o.rub = (IF r.kind = "regular" THEN r.price ELSE P!NoPrice)
                   /\ s \notin {"wildberries", "yandex_market", "taobao"} => o.kind = "" /\ o.rub = r.price
<1>1. /\ s \in {"wildberries", "yandex_market", "ozon", "avito", "taobao", "megamarket", "lamoda", "dns",
                "citilink", "aliexpress", "drom"}
      /\ r.price \in Nat
      /\ s \notin {"wildberries", "yandex_market"} => r.kind = "regular"
  BY CompareAssumption
<1>2. Kept
  <2>1. CASE s \in {"wildberries", "yandex_market"}
    BY <2>1 DEF P!OfferOf, P!Offer, P!Everyday, P!NoPrice, P!search_wildberries, P!search_yandex
  <2>2. CASE s \in {"ozon", "megamarket", "taobao", "avito"}
    BY <2>2 DEF P!OfferOf, P!Offer, P!NoPrice, P!search_ozon, P!search_megamarket, P!search_taobao, P!search_avito
  <2>3. CASE s \in {"lamoda", "dns", "citilink"}
    BY <2>3 DEF P!OfferOf, P!Offer, P!NoPrice, P!search_lamoda, P!search_dns, P!search_citilink
  <2>4. CASE s \in {"aliexpress", "drom"}
    BY <2>4 DEF P!OfferOf, P!Offer, P!NoPrice, P!search_aliexpress, P!search_drom
  <2> QED BY <1>1, <2>1, <2>2, <2>3, <2>4
<1> HIDE DEF Kept
<1>3. P!Prices(o, stock) <=> /\ o.rub # P!NoPrice /\ o.currency = "rub" /\ o.kind \in {"", "regular"}
                             /\ stock => o.stock = "in"
  BY DEF P!Prices, P!ranks_in_rubles
<1>4. P!Prices(o, stock) \in BOOLEAN
  BY DEF P!Prices, P!ranks_in_rubles
<1>5. P!Prices(o, stock) => o.rub \in Nat /\ o.rub = r.price
  BY <1>1, <1>2, <1>3 DEF Kept
<1>6. P!Prices(o, stock) <=> /\ s # "taobao" /\ r.kind = "regular" /\ r.price # P!NoPrice
                             /\ stock => r.stock = "in" /\ o.stock = "in"
  BY <1>1, <1>2, <1>3 DEF Kept
<1>7. o.source = s /\ o.id = r.id /\ o.variant = r.variant
  BY <1>2 DEF Kept
<1> QED BY <1>4, <1>5, <1>6, <1>7

\* The places of an answer's offers: finitely many, each with the row it is of.
LEMMA PlacesFit ==
  ASSUME CompareInv, P!Answered
  PROVE  /\ request \in Requests /\ DOMAIN calls = P!active(request) /\ answer = P!CompareResponse(request)
         /\ IsFiniteSet(P!Places) /\ P!Listed = P!Places
         /\ \A p \in P!Places : /\ p = <<p[1], p[2]>> /\ p[1] \in Nat /\ p[2] \in Nat
                                /\ P!SourceAt(p) \in Known /\ P!RowAt(p) \in Rows[P!SourceAt(p)]
                                /\ P!OfferAt(p) = P!OfferOf(P!SourceAt(p), P!RowAt(p))
<1>1. /\ request \in Requests /\ DOMAIN calls = P!active(request) /\ answer = P!CompareResponse(request)
      /\ \A i \in DOMAIN calls : Fits(calls[i], P!asked(request)[i]) /\ P!asked(request)[i] \in Known
  <2>1. Comparing
    BY DEF Comparing, CompareInv, AnswerFit, P!Answered
  <2> QED BY <2>1 DEF CompareInv, RequestFit, CallsFit, AnswerFit, P!Answered
<1>2. PICK n \in Nat : DOMAIN calls \subseteq 1..n
  <2>1. PICK n \in Nat : DOMAIN P!asked(request) = 1..n
    BY <1>1, RequestNames
  <2> QED BY <1>1, <2>1 DEF P!active, P!requested
<1>3. IsFiniteSet(DOMAIN calls)
  <2>1. IsFiniteSet(1..n)
    BY FS_Interval
  <2> QED BY <1>2, <2>1, FS_Subset
<1>4. P!Listed = P!Places
  <2>1. \A i \in DOMAIN calls : DOMAIN calls[i].given = DOMAIN calls[i].offers
    BY <1>1 DEF Fits
  <2> QED BY <2>1 DEF P!Listed, P!Places
<1>5. IsFiniteSet(P!Places)
  <2>1. PICK f : f = [i \in DOMAIN calls |-> {i} \X DOMAIN calls[i].offers]
    OBVIOUS
  <2>2. PICK T : T = {{i} \X DOMAIN calls[i].offers : i \in DOMAIN calls}
    OBVIOUS
  <2>3. f \in Surjection(DOMAIN calls, T)
    BY <2>1, <2>2 DEF Surjection
  <2>4. IsFiniteSet(T)
    BY <1>3, <2>3, FS_Surjection
  <2>5. \A U \in T : IsFiniteSet(U)
    <3> SUFFICES ASSUME NEW i \in DOMAIN calls PROVE IsFiniteSet({i} \X DOMAIN calls[i].offers)
      BY <2>2
    <3>1. PICK m \in Nat : DOMAIN calls[i].offers = 1..m
      BY <1>1 DEF Fits
    <3>2. IsFiniteSet(1..m)
      BY FS_Interval
    <3>3. IsFiniteSet({i})
      BY FS_Singleton
    <3> QED BY <3>1, <3>2, <3>3, FS_Product
  <2>6. P!Places = UNION T
    BY <2>2 DEF P!Places
  <2> QED BY <2>4, <2>5, <2>6, FS_UNION
<1>6. ASSUME NEW p \in P!Places
      PROVE  /\ p = <<p[1], p[2]>> /\ p[1] \in Nat /\ p[2] \in Nat
             /\ P!SourceAt(p) \in Known /\ P!RowAt(p) \in Rows[P!SourceAt(p)]
             /\ P!OfferAt(p) = P!OfferOf(P!SourceAt(p), P!RowAt(p))
  <2>1. PICK i \in DOMAIN calls : p \in {i} \X DOMAIN calls[i].offers
    BY DEF P!Places
  <2>2. PICK k \in DOMAIN calls[i].offers : p = <<i, k>>
    BY <2>1
  <2>3. Fits(calls[i], P!asked(request)[i]) /\ P!asked(request)[i] \in Known
    BY <1>1
  <2>4. i \in Nat /\ k \in Nat
    BY <1>2, <2>3 DEF Fits
  <2>5. /\ calls[i].source \in Known /\ calls[i].given[k] \in Rows[calls[i].source]
        /\ calls[i].offers[k] = P!OfferOf(calls[i].source, calls[i].given[k])
    BY <2>3 DEF Fits
  <2> QED BY <2>2, <2>4, <2>5 DEF P!SourceAt, P!RowAt, P!OfferAt
<1> QED BY <1>1, <1>4, <1>5, <1>6

\* sorted() puts any two offers in one order.
LEMMA OutranksOrders ==
  ASSUME CompareInv, P!Answered, NEW stock \in BOOLEAN
  PROVE  /\ \A p \in P!Places : ~P!Outranks(p, p, stock)
         /\ \A p, q, r \in P!Places : P!Outranks(p, q, stock) /\ P!Outranks(q, r, stock) => P!Outranks(p, r, stock)
         /\ \A p, q \in P!Places : p = q \/ P!Outranks(p, q, stock) \/ P!Outranks(q, p, stock)
<1>1. \A p \in P!Places : /\ p = <<p[1], p[2]>> /\ p[1] \in Nat /\ p[2] \in Nat
                          /\ P!Prices(P!OfferAt(p), stock) \in BOOLEAN
                          /\ P!Prices(P!OfferAt(p), stock) => P!OfferAt(p).rub \in Nat
  BY PlacesFit, OfferKeeps
<1>2. \A p, q \in P!Places : p = q \/ P!Earlier(p, q) \/ P!Earlier(q, p)
  BY <1>1 DEF P!Earlier
<1>3. \A p, q, r \in P!Places : P!Earlier(p, q) /\ P!Earlier(q, r) => P!Earlier(p, r)
  BY <1>1 DEF P!Earlier
<1>4. \A p \in P!Places : ~P!Earlier(p, p)
  BY <1>1 DEF P!Earlier
<1>5. \A p \in P!Places : ~P!Outranks(p, p, stock)
  BY <1>1, <1>4 DEF P!Outranks
<1>6. ASSUME NEW p \in P!Places, NEW q \in P!Places
      PROVE  p = q \/ P!Outranks(p, q, stock) \/ P!Outranks(q, p, stock)
  BY <1>1, <1>2 DEF P!Outranks
<1>7. ASSUME NEW p \in P!Places, NEW q \in P!Places, NEW r \in P!Places,
             P!Outranks(p, q, stock), P!Outranks(q, r, stock)
      PROVE  P!Outranks(p, r, stock)
  BY <1>1, <1>3, <1>7 DEF P!Outranks
<1> QED BY <1>5, <1>6, <1>7

\* ranked(): every place of S once, none after one it outranks.
LEMMA RankedOrders ==
  ASSUME CompareInv, P!Answered, NEW S \in SUBSET P!Places, NEW stock \in BOOLEAN
  PROVE  \E place : /\ place \in Bijection(1..Cardinality(S), S)
                    /\ \A m, n \in 1..Cardinality(S) : m < n => P!Outranks(place[m], place[n], stock)
                    /\ P!ranked(S, stock) = [n \in 1..Cardinality(S) |-> P!OfferAt(place[n])]
<1>1. PICK Rel : Rel = {pq \in S \X S : P!Outranks(pq[1], pq[2], stock)}
  OBVIOUS
<1>2. \A p, q \in S : <<p, q>> \in Rel <=> P!Outranks(p, q, stock)
  BY <1>1
<1>3. PICK place :
        place = [n \in 1..Cardinality(S) |->
                   CHOOSE p \in S : P!Cardinality({q \in S : P!Outranks(q, p, stock)}) = n - 1]
  OBVIOUS
<1>4. IsFiniteSet(S)
  BY PlacesFit, FS_Subset
<1>5. /\ \A x \in S : <<x, x>> \notin Rel
      /\ \A x, y, z \in S : <<x, y>> \in Rel /\ <<y, z>> \in Rel => <<x, z>> \in Rel
      /\ \A x, y \in S : x = y \/ <<x, y>> \in Rel \/ <<y, x>> \in Rel
  BY <1>2, OutranksOrders
<1>6. \A x \in S : P!Cardinality({q \in S : P!Outranks(q, x, stock)}) = Cardinality(Prior(x, S, Rel))
  <2>1. \A x \in S : Prior(x, S, Rel) = {q \in S : P!Outranks(q, x, stock)}
    BY <1>2 DEF Prior
  <2> QED BY <2>1, SameCount
<1>7. \A n \in 1..Cardinality(S) : \E x \in S : Cardinality(Prior(x, S, Rel)) = n - 1
  BY <1>4, <1>5, CountingNumbers
<1>8. \A n \in 1..Cardinality(S) :
        \E x \in S : P!Cardinality({q \in S : P!Outranks(q, x, stock)}) = n - 1
  BY <1>6, <1>7
<1>9. \A n \in 1..Cardinality(S) :
        place[n] \in S /\ P!Cardinality({q \in S : P!Outranks(q, place[n], stock)}) = n - 1
  BY <1>3, <1>8
<1>10. \A n \in 1..Cardinality(S) : Cardinality(Prior(place[n], S, Rel)) = n - 1
  BY <1>6, <1>9
<1>11. place \in [1..Cardinality(S) -> S]
  BY <1>3, <1>9
<1>12. /\ place \in Bijection(1..Cardinality(S), S)
       /\ \A m, n \in 1..Cardinality(S) : m < n => <<place[m], place[n]>> \in Rel
  BY <1>4, <1>5, <1>10, <1>11, Ranking
<1>13. P!ranked(S, stock) = [n \in 1..Cardinality(S) |-> P!OfferAt(place[n])]
  <2>1. P!Cardinality(S) = Cardinality(S)
    BY SameCount
  <2> QED BY <1>3, <2>1 DEF P!ranked
<1>14. \A m, n \in 1..Cardinality(S) : m < n => P!Outranks(place[m], place[n], stock)
  BY <1>2, <1>11, <1>12
<1> QED BY <1>12, <1>13, <1>14

\* What two places have in common, said of their offers and of their rows.
LEMMA SameListing ==
  ASSUME CompareInv, P!Answered, NEW p \in P!Places, NEW q \in P!Places
  PROVE  /\ P!OfferAt(p).id = P!RowAt(p).id
         /\ P!Repeats(p, q) <=> P!Earlier(q, p) /\ P!ListingAt(q) = P!ListingAt(p)
<1>0. PICK stock \in BOOLEAN : TRUE
  OBVIOUS
<1>1. ASSUME NEW o \in P!Places
      PROVE  /\ P!OfferAt(o).source = P!SourceAt(o) /\ P!OfferAt(o).id = P!RowAt(o).id
             /\ P!OfferAt(o).variant = P!RowAt(o).variant
  <2>1. /\ P!SourceAt(o) \in Known /\ P!RowAt(o) \in Rows[P!SourceAt(o)]
        /\ P!OfferAt(o) = P!OfferOf(P!SourceAt(o), P!RowAt(o))
    BY PlacesFit
  <2> QED BY <2>1, OfferKeeps
<1> QED BY <1>1 DEF P!Repeats, P!ListingAt

LEMMA DedupeKeepsNews ==
  ASSUME CompareInv, P!Answered
  PROVE  P!dedupe = {p \in P!Places : P!News(p)}
<1>1. ASSUME NEW p \in P!Places
      PROVE  (P!OfferAt(p).id = P!Blank \/ \A q \in P!Places : ~P!Repeats(p, q)) <=> P!News(p)
  BY PlacesFit, SameListing DEF P!News
<1> QED BY <1>1 DEF P!dedupe

\* "A conditional price never wins": what is priced is what everybody may pay, and
\* the first of the ranking is the least of it.
LEMMA CheapestOfInv == ASSUME CompareInv PROVE CheapestReal
<1> SUFFICES ASSUME P!Answered
             PROVE  LET payable == {l \in P!Listed : P!News(l) /\ P!Payable(P!SourceAt(l), P!RowAt(l))}
                    IN  IF payable = {} THEN answer.cheapest = P!None
                        ELSE \E l \in payable :
                               /\ answer.cheapest.source = P!SourceAt(l) /\ answer.cheapest.id = P!RowAt(l).id
                               /\ answer.cheapest.rub = P!RowAt(l).price
                               /\ \A m \in payable : P!RowAt(l).price <= P!RowAt(m).price
  BY DEF CheapestReal, P!CheapestReal
<1>1. PICK stock \in BOOLEAN : stock = request.in_stock_only
  BY PlacesFit, RequestNames
<1>2. PICK S : S = {p \in P!dedupe : P!Prices(P!OfferAt(p), stock)}
  OBVIOUS
<1>3. S \in SUBSET P!Places
  BY <1>2 DEF P!dedupe
<1>4. ASSUME NEW p \in P!Places
      PROVE  /\ P!Prices(P!OfferAt(p), stock) <=> P!Payable(P!SourceAt(p), P!RowAt(p))
             /\ P!Prices(P!OfferAt(p), stock) => P!OfferAt(p).rub \in Nat /\ P!OfferAt(p).rub = P!RowAt(p).price
             /\ P!OfferAt(p).source = P!SourceAt(p) /\ P!OfferAt(p).id = P!RowAt(p).id
  BY <1>1, PlacesFit, OfferKeeps DEF P!Payable
<1>5. S = {l \in P!Listed : P!News(l) /\ P!Payable(P!SourceAt(l), P!RowAt(l))}
  BY <1>2, <1>4, DedupeKeepsNews, PlacesFit
<1>6. answer.cheapest = P!FirstOrNone(P!ranked(S, stock))
  BY <1>1, <1>2, PlacesFit DEF P!CompareResponse
<1>7. PICK place : /\ place \in Bijection(1..Cardinality(S), S)
                   /\ \A m, n \in 1..Cardinality(S) : m < n => P!Outranks(place[m], place[n], stock)
                   /\ P!ranked(S, stock) = [n \in 1..Cardinality(S) |-> P!OfferAt(place[n])]
  BY <1>3, RankedOrders
<1>8. Cardinality(S) \in Nat /\ IsFiniteSet(S)
  BY <1>3, PlacesFit, FS_Subset, FS_CardinalityType
<1>9. CASE S = {}
  <2>1. Cardinality(S) = 0
    BY <1>9, FS_EmptySet
  <2>2. P!ranked(S, stock) = <<>>
    BY <1>7, <2>1
  <2> QED BY <1>5, <1>6, <1>9, <2>2 DEF P!FirstOrNone
<1>10. CASE S # {}
  <2>1. 1 \in 1..Cardinality(S)
    BY <1>8, <1>10, FS_EmptySet
  <2>2. P!ranked(S, stock) # <<>>
    BY <1>7, <2>1
  <2>3. place[1] \in S /\ \A p \in S : \E n \in 1..Cardinality(S) : place[n] = p
    BY <1>7, <2>1 DEF Bijection, Injection, Surjection
  <2>4. answer.cheapest = P!OfferAt(place[1])
    BY <1>6, <1>7, <2>1, <2>2 DEF P!FirstOrNone
  <2>5. ASSUME NEW p \in S PROVE P!RowAt(place[1]).price <= P!RowAt(p).price
    <3>1. p = place[1] \/ P!Outranks(place[1], p, stock)
      <4>1. PICK n \in 1..Cardinality(S) : place[n] = p
        BY <2>3
      <4>2. n = 1 \/ 1 < n
        OBVIOUS
      <4> QED BY <1>7, <2>1, <4>1, <4>2
    <3>2. /\ P!Prices(P!OfferAt(p), stock) /\ P!OfferAt(p).rub \in Nat
          /\ P!OfferAt(p).rub = P!RowAt(p).price
          /\ P!Prices(P!OfferAt(place[1]), stock) /\ P!OfferAt(place[1]).rub \in Nat
          /\ P!OfferAt(place[1]).rub = P!RowAt(place[1]).price
      BY <1>2, <1>3, <1>4, <2>3
    <3>3. P!OfferAt(place[1]).rub <= P!OfferAt(p).rub
      BY <3>1, <3>2 DEF P!Outranks
    <3> QED BY <3>2, <3>3
  <2>6. P!OfferAt(place[1]).rub = P!RowAt(place[1]).price
    BY <1>2, <1>3, <1>4, <2>3
  <2>7. P!OfferAt(place[1]).source = P!SourceAt(place[1]) /\ P!OfferAt(place[1]).id = P!RowAt(place[1]).id
    BY <1>3, <1>4, <2>3
  <2> QED BY <1>5, <1>10, <2>3, <2>4, <2>5, <2>6, <2>7
<1> QED BY <1>9, <1>10

\* A function numbers what it maps to one to one, so that as many indices have a
\* property as elements have.
LEMMA CountingPlaces ==
  ASSUME NEW S, IsFiniteSet(S), NEW place \in Bijection(1..Cardinality(S), S), NEW T \in SUBSET S
  PROVE  Cardinality({n \in 1..Cardinality(S) : place[n] \in T}) = Cardinality(T)
<1> PICK K : K = {n \in 1..Cardinality(S) : place[n] \in T}
  OBVIOUS
<1>1. IsFiniteSet(K)
  <2>1. Cardinality(S) \in Nat
    BY FS_CardinalityType
  <2>2. IsFiniteSet(1..Cardinality(S))
    BY <2>1, FS_Interval
  <2> QED BY <2>2, FS_Subset
<1>2. /\ place \in [1..Cardinality(S) -> S]
      /\ \A m, n \in 1..Cardinality(S) : place[m] = place[n] => m = n
      /\ \A p \in S : \E n \in 1..Cardinality(S) : place[n] = p
  BY DEF Bijection, Injection, IsInjective, Surjection
<1>3. PICK f : f = [n \in K |-> place[n]]
  OBVIOUS
<1>4. f \in Injection(K, T) /\ f \in Surjection(K, T)
  BY <1>2, <1>3 DEF Injection, IsInjective, Surjection
<1>5. ExistsBijection(K, T)
  BY <1>4 DEF ExistsBijection, Bijection
<1> QED BY <1>1, <1>5, FS_Bijection

\* Among the places of a listing one is the first.
LEMMA FirstTelling ==
  ASSUME CompareInv, P!Answered, NEW T \in SUBSET P!Places, T # {}
  PROVE  \E p \in T : \A q \in T : ~P!Earlier(q, p)
<1>1. PICK Rel : Rel = LexPairOrdering(OpToRel(<, Nat), OpToRel(<, Nat), Nat, Nat)
  OBVIOUS
<1>2. IsWellFoundedOn(Rel, Nat \X Nat)
  BY <1>1, NatLessThanWellFounded, WFLexPairOrdering
<1>3. T \subseteq Nat \X Nat
  BY PlacesFit
<1>4. PICK p \in T : \A q \in T : <<q, p>> \notin Rel
  BY <1>2, <1>3, WFMin
<1>5. ASSUME NEW q \in T, P!Earlier(q, p) PROVE <<q, p>> \in Rel
  BY <1>1, <1>3, <1>5 DEF P!Earlier, LexPairOrdering, OpToRel
<1> QED BY <1>4, <1>5

LEMMA LostOfInv == ASSUME CompareInv PROVE NothingLost
<1> SUFFICES ASSUME P!Answered PROVE P!NothingLost
  BY DEF NothingLost, P!NothingLost
<1>1. PICK stock \in BOOLEAN : stock = request.in_stock_only
  BY PlacesFit, RequestNames
<1>2. PICK S \in SUBSET P!Places : S = P!dedupe
  BY DEF P!dedupe
<1>3. answer.offers = P!ranked(S, stock)
  BY <1>1, <1>2, PlacesFit DEF P!CompareResponse
<1>4. PICK place : /\ place \in Bijection(1..Cardinality(S), S)
                   /\ P!ranked(S, stock) = [n \in 1..Cardinality(S) |-> P!OfferAt(place[n])]
  BY RankedOrders
<1>5. IsFiniteSet(S) /\ place \in Bijection(1..Cardinality(S), S)
  BY <1>4, PlacesFit, FS_Subset
<1>6. PICK indices : indices = 1..Cardinality(S)
  OBVIOUS
<1>7. /\ DOMAIN answer.offers = indices
      /\ \A n \in indices : place[n] \in S /\ answer.offers[n] = P!OfferAt(place[n])
  BY <1>3, <1>4, <1>6 DEF Bijection, Injection
<1>8. ASSUME NEW p \in P!Places
      PROVE  /\ P!OfferAt(p).source = P!SourceAt(p) /\ P!OfferAt(p).id = P!RowAt(p).id
             /\ P!OfferAt(p).variant = P!RowAt(p).variant
             /\ P!OfferAt(p) = P!OfferOf(P!SourceAt(p), P!RowAt(p))
  BY PlacesFit, OfferKeeps
<1>9. S = {p \in P!Places : P!News(p)} /\ P!Listed = P!Places
  BY <1>2, DedupeKeepsNews, PlacesFit
<1>10. ASSUME NEW l \in P!Listed, P!RowAt(l).id # P!Blank
       PROVE  P!Cardinality({k \in indices : /\ answer.offers[k].source = P!SourceAt(l)
                                          /\ answer.offers[k].id = P!RowAt(l).id
                                          /\ answer.offers[k].variant = P!RowAt(l).variant}) = 1
  <2>1. PICK K : K = {k \in indices : /\ answer.offers[k].source = P!SourceAt(l)
                                   /\ answer.offers[k].id = P!RowAt(l).id
                                   /\ answer.offers[k].variant = P!RowAt(l).variant}
    OBVIOUS
  <2>2. PICK same : same = {p \in P!Places : P!ListingAt(p) = P!ListingAt(l)}
    OBVIOUS
  <2>3. \A p \in P!Places : p \in same <=> /\ P!OfferAt(p).source = P!SourceAt(l) /\ P!OfferAt(p).id = P!RowAt(l).id
                                           /\ P!OfferAt(p).variant = P!RowAt(l).variant
    BY <1>8, <2>2 DEF P!ListingAt
  <2>4. PICK first \in same : \A q \in same : ~P!Earlier(q, first)
    BY <1>9, <2>2, FirstTelling
  <2>5. \A p \in same : P!RowAt(p).id # P!Blank
    BY <1>10, <2>2 DEF P!ListingAt
  <2>6. P!News(first)
    BY <1>9, <2>2, <2>4 DEF P!News
  <2>7. ASSUME NEW p \in same, P!News(p) PROVE p = first
    <3>1. ~P!Earlier(first, p)
      BY <1>9, <2>2, <2>5, <2>7 DEF P!News
    <3> QED BY <2>2, <2>4, <3>1, PlacesFit DEF P!Earlier
  <2>8. S \cap same = {first}
    BY <1>9, <2>2, <2>4, <2>6, <2>7
  <2>9. K = {n \in 1..Cardinality(S) : place[n] \in {first}}
    BY <1>6, <1>7, <2>1, <2>3, <2>8
  <2>10. {first} \in SUBSET S
    BY <2>8
  <2>11. Cardinality(K) = Cardinality({first})
    BY <1>5, <2>9, <2>10, CountingPlaces
  <2>12. Cardinality({first}) = 1
    BY FS_Singleton
  <2> QED BY <2>1, <2>11, <2>12, SameCount
<1>11. ASSUME NEW s \in Installed
       PROVE  P!Cardinality({k \in indices : answer.offers[k].source = s /\ answer.offers[k].id = P!Blank}) =
                P!Cardinality({l \in P!Listed : P!SourceAt(l) = s /\ P!RowAt(l).id = P!Blank})
  <2>1. PICK K : K = {k \in indices : answer.offers[k].source = s /\ answer.offers[k].id = P!Blank}
    OBVIOUS
  <2>2. PICK T : T = {l \in P!Listed : P!SourceAt(l) = s /\ P!RowAt(l).id = P!Blank}
    OBVIOUS
  <2>3. T \in SUBSET S
    BY <1>9, <2>2 DEF P!News
  <2>4. K = {n \in 1..Cardinality(S) : place[n] \in T}
    BY <1>6, <1>7, <1>8, <1>9, <2>1, <2>2
  <2>5. Cardinality(K) = Cardinality(T)
    BY <1>5, <2>3, <2>4, CountingPlaces
  <2> QED BY <2>1, <2>2, <2>5, SameCount
<1>12. ASSUME NEW k \in indices
       PROVE  \E l \in P!Listed : answer.offers[k] = P!OfferOf(P!SourceAt(l), P!RowAt(l))
  BY <1>7, <1>8, <1>9
<1> QED BY <1>7, <1>10, <1>11, <1>12 DEF P!NothingLost

\* compare_prices(): a comparison of any sources is complete only if each of them
\* answered, and gave all it had or is named by a warning.
THEOREM CompleteAlwaysTrue == AgentSpec => []CompleteTrue
<1>1. CompareInv => CompleteTrue
  <2> SUFFICES ASSUME CompareInv, P!Answered, answer.complete, NEW i \in P!requested(request)
               PROVE  /\ i \in DOMAIN calls
                      /\ P!asked(request)[i] \notin Excused =>
                           calls[i].whole \/ P!asked(request)[i] \in answer.warned
    BY DEF CompleteTrue, P!CompleteTrue
  <2>1. /\ \A j \in DOMAIN calls : calls[j].status = "ok"
        /\ P!missing(request) = {}
        /\ \A j \in DOMAIN calls : calls[j].warned => calls[j].source \in answer.warned
    <3>1. answer = P!CompareResponse(request)
      BY PlacesFit
    <3>3. answer.complete =>
            {calls[j].source : j \in {j \in DOMAIN calls : calls[j].status # "ok"}} \cup P!missing(request) = {}
      BY <3>1 DEF P!CompareResponse
    <3>4. answer.warned = {calls[j].source : j \in {j \in DOMAIN calls : calls[j].warned}}
      BY <3>1 DEF P!CompareResponse
    <3> QED BY <3>3, <3>4
  <2>2. i \in DOMAIN calls
    BY <2>1, PlacesFit DEF P!missing
  <2>3. calls[i].source = P!asked(request)[i] /\ Honest(calls[i])
    BY <2>2 DEF CompareInv, CallsFit, AnswerFit, P!Answered, Fits
  <2> QED BY <2>1, <2>2, <2>3 DEF Honest
<1>2. CompareInv /\ [P!Next]_comparing => CompareInv'
  BY CompareKeeps
<1> QED BY <1>1, <1>2, CompareBegins, AgentKeepsCompare, PTL

\* "A conditional price never wins a ranking of everyday prices": whatever the
\* sources list, the cheapest offer is the least of what everybody may pay.
THEOREM CheapestAlwaysReal == AgentSpec => []CheapestReal
<1>1. CompareInv /\ [P!Next]_comparing => CompareInv'
  BY CompareKeeps
<1> QED BY <1>1, CheapestOfInv, CompareBegins, AgentKeepsCompare, PTL

\* _dedupe() and the ranking: each listing is in the answer once, one without an id
\* as often as it was listed, and nothing else is.
THEOREM NothingEverLost == AgentSpec => []NothingLost
<1>1. CompareInv /\ [P!Next]_comparing => CompareInv'
  BY CompareKeeps
<1> QED BY <1>1, LostOfInv, CompareBegins, AgentKeepsCompare, PTL

\* What is priced stands before what is not, and the cheaper before the dearer.
AnswerRanked ==
  P!Answered =>
    \A m, n \in DOMAIN answer.offers :
      m < n /\ P!Prices(answer.offers[n], request.in_stock_only) =>
        /\ P!Prices(answer.offers[m], request.in_stock_only)
        /\ answer.offers[m].rub <= answer.offers[n].rub

\* compare_prices(): "rank on everyday ruble prices only", and the rest behind.
THEOREM AnswersAlwaysRanked == AgentSpec => []AnswerRanked
<1>1. ASSUME CompareInv PROVE AnswerRanked
  <2> SUFFICES ASSUME P!Answered,
                      NEW m \in DOMAIN answer.offers, NEW n \in DOMAIN answer.offers, m < n,
                      P!Prices(answer.offers[n], request.in_stock_only)
               PROVE  /\ P!Prices(answer.offers[m], request.in_stock_only)
                      /\ answer.offers[m].rub <= answer.offers[n].rub
    BY DEF AnswerRanked
  <2>1. PICK stock \in BOOLEAN : stock = request.in_stock_only
    BY <1>1, PlacesFit, RequestNames
  <2>2. PICK S \in SUBSET P!Places : S = P!dedupe
    BY DEF P!dedupe
  <2>3. answer.offers = P!ranked(S, stock)
    BY <1>1, <2>1, <2>2, PlacesFit DEF P!CompareResponse
  <2>4. PICK place : /\ place \in Bijection(1..Cardinality(S), S)
                     /\ \A j, k \in 1..Cardinality(S) : j < k => P!Outranks(place[j], place[k], stock)
                     /\ P!ranked(S, stock) = [k \in 1..Cardinality(S) |-> P!OfferAt(place[k])]
    BY <1>1, RankedOrders
  <2>5. /\ P!Outranks(place[m], place[n], stock) /\ place[m] \in P!Places /\ place[n] \in P!Places
        /\ answer.offers[m] = P!OfferAt(place[m]) /\ answer.offers[n] = P!OfferAt(place[n])
    BY <2>3, <2>4 DEF Bijection, Injection
  <2>6. \A p \in P!Places : P!Prices(P!OfferAt(p), stock) => P!OfferAt(p).rub \in Nat
    BY <1>1, PlacesFit, OfferKeeps
  <2> QED BY <2>1, <2>5, <2>6 DEF P!Outranks
<1>2. CompareInv /\ [P!Next]_comparing => CompareInv'
  BY CompareKeeps
<1> QED BY <1>1, <1>2, CompareBegins, AgentKeepsCompare, PTL
-----------------------------------------------------------------------------
(* What is verified *)

\* price_verification(): a verdict is that of the one record which speaks of the
\* product, at a price that everybody pays.
LEMMA PriceToldByRecord ==
  ASSUME NEW id, NEW s, NEW variant, NEW expected, NEW rows, rows = <<>> \/ \E n \in {1, 2} : DOMAIN rows = 1..n,
         checked' = P!compare_verify_offer(s, id, variant, expected, rows)
  PROVE  P!VerifiedTrue'
<1>0. CASE checked' = [status |-> "bad_request"]
  BY <1>0 DEF P!VerifiedTrue
<1> SUFFICES ASSUME checked' # [status |-> "bad_request"]
             PROVE  P!VerifiedTrue'
  BY <1>0
<1>1. /\ checked'.source = s /\ checked'.id = id /\ checked'.expected = expected /\ checked'.card = rows
      /\ checked'.variant = variant
      /\ checked'.verdict = P!price_verification(expected, P!record(s, id, rows))
      /\ variant # P!Blank => s = "yandex_market" /\ rows[1].variant = variant
  BY DEF P!compare_verify_offer
<1>2. SUFFICES ASSUME checked'.verdict # "untold"
               PROVE  \E k \in {k \in DOMAIN rows : s = "wildberries" => rows[k].id = id} :
                        /\ s = "wildberries" => {j \in DOMAIN rows : s = "wildberries" => rows[j].id = id} = {k}
                        /\ variant # P!Blank => rows[k].variant = variant
                        /\ rows[k].kind = "regular"
                        /\ (rows[k].price = expected) <=> (checked'.verdict = "matches")
  BY <1>1 DEF P!VerifiedTrue
<1>3. PICK own : own = P!record(s, id, rows)
  OBVIOUS
<1>4. /\ own # <<>> /\ own[1].kind = "regular"
      /\ checked'.verdict = IF own[1].price = expected THEN "matches" ELSE "differs"
  BY <1>1, <1>2, <1>3 DEF P!price_verification
<1>5. CASE s = "wildberries"
  <2>1. PICK mine : mine = {k \in DOMAIN rows : rows[k].id = id}
    OBVIOUS
  <2>2. own = IF \E k \in mine : mine = {k} THEN <<rows[CHOOSE k \in mine : TRUE]>> ELSE <<>>
    BY <1>3, <1>5, <2>1 DEF P!record
  <2>3. PICK k \in mine : mine = {k}
    BY <1>4, <2>2
  <2>4. own[1] = rows[k]
    BY <2>2, <2>3
  <2> QED BY <1>1, <1>4, <1>5, <2>1, <2>3, <2>4
<1>6. CASE s # "wildberries"
  <2>1. own = P!FirstOf(rows, 1)
    BY <1>3, <1>6 DEF P!record
  <2>2. 1 \in DOMAIN rows /\ own[1] = rows[1]
    BY <1>4, <2>1 DEF P!FirstOf
  <2> QED BY <1>1, <1>4, <1>6, <2>2
<1> QED BY <1>5, <1>6

\* match_product_identity(): evidence against beats any evidence for, and neither
\* product is preferred.
LEMMA IdentityToldByEvidence ==
  ASSUME NEW a \in Identities, NEW b \in Identities
  PROVE  LET verdict == P!match_product_identity(a, b)
         IN  /\ verdict = "mismatch" <=> P!Against(a, b)
             /\ verdict = "exact" =>
                  /\ a.variant = b.variant
                  /\ \/ a.gtin = b.gtin /\ a.gtin \notin {P!Untold, "invalid"}
                     \/ a.mpn = b.mpn /\ a.mpn # P!Untold /\ a.brand = b.brand /\ a.brand # P!Untold
             /\ verdict = P!match_product_identity(b, a)
<1>1. PICK x, y : x = P!Normal(a) /\ y = P!Normal(b)
  OBVIOUS
<1>2. /\ a \in [brand : STRING, gtin : STRING, mpn : STRING, model : STRING, variant : STRING]
      /\ b \in [brand : STRING, gtin : STRING, mpn : STRING, model : STRING, variant : STRING]
  BY CompareAssumption
<1>3. /\ x.brand = a.brand /\ x.mpn = a.mpn /\ x.model = a.model /\ x.variant = a.variant
      /\ x.gtin = IF a.gtin = "invalid" THEN "" ELSE a.gtin
      /\ y.brand = b.brand /\ y.mpn = b.mpn /\ y.model = b.model /\ y.variant = b.variant
      /\ y.gtin = IF b.gtin = "invalid" THEN "" ELSE b.gtin
  BY <1>1, <1>2 DEF P!Normal, P!normalize_gtin, P!Untold
<1>4. PICK conflict \in BOOLEAN :
        conflict <=> \E f \in {"variant", "brand", "gtin", "mpn"} : P!Conflict(x, y, f)
  OBVIOUS
<1>5. conflict <=> \E f \in {"variant", "brand", "gtin", "mpn"} : P!Conflict(y, x, f)
  BY <1>4 DEF P!Conflict
<1>6. conflict <=> P!Against(a, b)
  BY <1>3, <1>4 DEF P!Conflict, P!Against, P!Untold
<1>7. \A f : P!Shared(x, y, f) <=> P!Shared(y, x, f)
  BY DEF P!Shared
<1>8. P!match_product_identity(a, b) =
        IF conflict THEN "mismatch"
        ELSE IF "invalid" \in {a.gtin, b.gtin} \/ x.variant # y.variant THEN "unknown"
        ELSE IF P!Shared(x, y, "gtin") \/ (P!Shared(x, y, "mpn") /\ P!Shared(x, y, "brand")) THEN "exact"
        ELSE IF P!Shared(x, y, "model") /\ ~P!Shared(x, y, "mpn") THEN "likely"
        ELSE "unknown"
  BY <1>1, <1>4 DEF P!match_product_identity
<1>9. P!match_product_identity(b, a) = P!match_product_identity(a, b)
  BY <1>1, <1>5, <1>7, <1>8 DEF P!match_product_identity
<1>10. P!match_product_identity(a, b) = "mismatch" <=> conflict
  BY <1>8
<1>11. P!match_product_identity(a, b) = "exact" =>
         /\ x.variant = y.variant
         /\ P!Shared(x, y, "gtin") \/ (P!Shared(x, y, "mpn") /\ P!Shared(x, y, "brand"))
  BY <1>8
<1>12. P!Shared(x, y, "gtin") => a.gtin = b.gtin /\ a.gtin \notin {P!Untold, "invalid"}
  BY <1>3 DEF P!Shared, P!Untold
<1>13. /\ P!Shared(x, y, "mpn") => a.mpn = b.mpn /\ a.mpn # P!Untold
       /\ P!Shared(x, y, "brand") => a.brand = b.brand /\ a.brand # P!Untold
  BY <1>3 DEF P!Shared
<1> QED BY <1>3, <1>6, <1>9, <1>10, <1>11, <1>12, <1>13

\* compare_verify_offer() and match_product_identity(): a price is confirmed or
\* denied only by the record of the very product, and evidence against its
\* identity beats any evidence for it.
THEOREM VerifiedAlwaysTrue == AgentSpec => []VerifiedTrue
<1>1. P!Init => VerifiedTrue
  BY DEF P!Init, P!None, VerifiedTrue, P!VerifiedTrue, P!IdentityTrue
<1>2. ASSUME VerifiedTrue, [P!Next]_comparing
      PROVE  VerifiedTrue'
  <2>1. CASE P!VerifyOffer
    <3>1. PICK rows \in {<<>>} \cup [1..1 -> Rows[answer.cheapest.source]] \cup [1..2 -> Rows[answer.cheapest.source]],
               variant \in {P!Blank, answer.cheapest.variant} :
            checked' = P!compare_verify_offer(answer.cheapest.source, answer.cheapest.id, variant,
                                              answer.cheapest.rub, rows)
      BY <2>1 DEF P!VerifyOffer
    <3>2. rows = <<>> \/ \E n \in {1, 2} : DOMAIN rows = 1..n
      OBVIOUS
    <3>3. P!VerifiedTrue'
      BY <3>1, <3>2, PriceToldByRecord
    <3>4. P!IdentityTrue'
      BY <3>1 DEF P!IdentityTrue, P!compare_verify_offer
    <3> QED BY <3>3, <3>4 DEF VerifiedTrue
  <2>2. CASE P!MatchIdentity
    <3>1. PICK a \in Identities, b \in Identities :
            checked' = [status |-> "matched", expected |-> a, observed |-> b,
                        verdict |-> P!match_product_identity(a, b)]
      BY <2>2 DEF P!MatchIdentity
    <3>2. P!VerifiedTrue'
      BY <3>1 DEF P!VerifiedTrue
    <3>3. P!IdentityTrue'
      BY <3>1, IdentityToldByEvidence DEF P!IdentityTrue
    <3> QED BY <3>2, <3>3 DEF VerifiedTrue
  <2>3. CASE P!Return
    <3>1. checked' = P!None
      BY <2>3 DEF P!Return
    <3> QED BY <3>1 DEF VerifiedTrue, P!VerifiedTrue, P!IdentityTrue, P!None
  <2>4. ASSUME \/ \E r \in Requests : P!Ask(r)
               \/ P!SourceStep \/ P!TimeOut \/ P!Finish \/ UNCHANGED comparing
        PROVE  VerifiedTrue'
    <3>1. UNCHANGED checked
      BY <2>4 DEF P!Ask, P!SourceStep, P!TimeOut, P!Finish, P!SourceAnswers, P!SourceFails, P!SourceTimesOut,
                  P!Settle, comparing
    <3> QED BY <1>2, <3>1 DEF VerifiedTrue, P!VerifiedTrue, P!IdentityTrue
  <2> QED BY <1>2, <2>1, <2>2, <2>3, <2>4 DEF P!Next
<1> QED BY <1>1, <1>2, AgentKeepsCompare, PTL

-----------------------------------------------------------------------------
(* The reading of displayed numbers *)

\* A text is a sequence of runs and other symbols.
TextInv == text \in Seq(Display!Runs \cup Display!Symbols)

\* Positions have a first and a last.
LEMMA FirstAndLast ==
  ASSUME NEW n \in Nat, NEW S \in SUBSET (1..n), S # {}
  PROVE  /\ Display!Min(S) \in S /\ \A i \in S : Display!Min(S) <= i
         /\ Display!Max(S) \in S /\ \A i \in S : i <= Display!Max(S)
<1>1. PICK Rel : Rel = OpToRel(<, Nat)
  OBVIOUS
<1>2. IsWellFoundedOn(Rel, Nat)
  BY <1>1, NatLessThanWellFounded
<1>3. \A i, j \in Nat : <<i, j>> \in Rel <=> i < j
  BY <1>1 DEF OpToRel
<1>4. \E i \in S : \A j \in S : i <= j
  <2>1. S \subseteq Nat
    OBVIOUS
  <2>2. PICK i \in S : \A j \in S : <<j, i>> \notin Rel
    BY <1>2, <2>1, WFMin
  <2>3. \A j \in S : ~(j < i)
    BY <1>3, <2>1, <2>2
  <2>4. \A j \in S : i <= j
    BY <2>1, <2>3
  <2> QED BY <2>4
<1>5. \E i \in S : \A j \in S : j <= i
  <2>1. PICK T : T = {n - i : i \in S}
    OBVIOUS
  <2>2. T \subseteq Nat /\ T # {}
    <3>1. \A i \in S : n - i \in Nat
      OBVIOUS
    <3> QED BY <2>1, <3>1
  <2>3. PICK c \in T : \A d \in T : <<d, c>> \notin Rel
    BY <1>2, <2>2, WFMin
  <2>4. PICK i \in S : c = n - i
    BY <2>1, <2>3
  <2>5. ASSUME NEW j \in S PROVE j <= i
    <3>1. n - j \in T
      BY <2>1
    <3>2. ~(n - j < n - i)
      BY <1>3, <2>2, <2>3, <2>4, <3>1
    <3> QED BY <3>2
  <2> QED BY <2>5
<1>6. Display!Min(S) \in S /\ \A i \in S : Display!Min(S) <= i
  BY <1>4 DEF Display!Min
<1>7. Display!Max(S) \in S /\ \A i \in S : i <= Display!Max(S)
  <2>1. \E i \in S : \A j \in S : i >= j
    BY <1>5
  <2>2. Display!Max(S) \in S /\ \A i \in S : Display!Max(S) >= i
    BY <2>1 DEF Display!Max
  <2> QED BY <2>2
<1> QED BY <1>6, <1>7

\* The runs of a text and where they begin and end.
LEMMA RunsOfText ==
  ASSUME TextInv
  PROVE  /\ Len(text) \in Nat /\ DOMAIN text = 1..Len(text)
         /\ \A i \in DOMAIN text : text[i] \in Display!Runs \cup Display!Symbols
         /\ \A i \in DOMAIN text : i \in Display!Digits(text) <=> text[i] \in Display!Runs
         /\ Display!Digits(text) \in SUBSET (1..Len(text))
         /\ Display!Digits(text) # {} =>
              /\ Display!Min(Display!Digits(text)) \in Display!Digits(text)
              /\ Display!Max(Display!Digits(text)) \in Display!Digits(text)
              /\ \A i \in Display!Digits(text) :
                   Display!Min(Display!Digits(text)) <= i /\ i <= Display!Max(Display!Digits(text))
<1>1. /\ Len(text) \in Nat /\ DOMAIN text = 1..Len(text)
      /\ \A i \in DOMAIN text : text[i] \in Display!Runs \cup Display!Symbols
  BY DEF TextInv
<1>2. \A i \in DOMAIN text : i \in Display!Digits(text) <=> text[i] \in Display!Runs
  BY DEF Display!Digits, Display!At
<1>3. Display!Digits(text) \in SUBSET (1..Len(text))
  BY <1>1 DEF Display!Digits, Display!At
<1> QED BY <1>1, <1>2, <1>3, FirstAndLast

\* Before() and After(): with nothing but spaces between, what is told of is there.
LEMMA NothingBetween ==
  ASSUME TextInv, NEW i \in DOMAIN text, NEW j \in DOMAIN text, text[i] # Display!Space,
         \A k \in DOMAIN text : (i < k /\ k < j) \/ (j < k /\ k < i) => text[k] = Display!Space
  PROVE  /\ i < j => Display!Before(text, j) = text[i]
         /\ i > j => Display!After(text, j) = text[i]
<1>1. ASSUME i < j PROVE Display!Before(text, j) = text[i]
  <2>1. PICK S : S = {k \in 1..(j - 1) : text[k] # Display!Space}
    OBVIOUS
  <2>2. S \in SUBSET (1..Len(text)) /\ i \in S /\ \A k \in S : k <= i
    BY <1>1, <2>1, RunsOfText
  <2>3. Display!Max(S) = i
    <3>1. Display!Max(S) \in S /\ i <= Display!Max(S)
      BY <2>2, FirstAndLast, RunsOfText
    <3> QED BY <2>2, <3>1, RunsOfText
  <2> QED BY <2>1, <2>2, <2>3 DEF Display!Before
<1>2. ASSUME i > j PROVE Display!After(text, j) = text[i]
  <2>1. PICK S : S = {k \in (j + 1)..Len(text) : text[k] # Display!Space}
    OBVIOUS
  <2>2. S \in SUBSET (1..Len(text)) /\ i \in S /\ \A k \in S : i <= k
    BY <1>2, <2>1, RunsOfText
  <2>3. Display!Min(S) = i
    <3>1. Display!Min(S) \in S /\ Display!Min(S) <= i
      BY <2>2, FirstAndLast, RunsOfText
    <3> QED BY <2>2, <3>1, RunsOfText
  <2> QED BY <2>1, <2>2, <2>3 DEF Display!After
<1> QED BY <1>1, <1>2

\* Nothing stands before the first symbol, and behind a number that ends the text
\* its sign or nothing.
LEMMA NothingAround ==
  ASSUME TextInv, NEW k \in DOMAIN text, NEW sign, Display!End(k, sign)
  PROVE  /\ Display!Before(text, 1) = Display!Space
         /\ Display!After(text, k) \in {Display!Space, sign}
<1>1. Display!Before(text, 1) = Display!Space
  <2>1. {j \in 1..(1 - 1) : text[j] # Display!Space} = {}
    OBVIOUS
  <2> QED BY <2>1 DEF Display!Before
<1>2. PICK S : S = {j \in (k + 1)..Len(text) : text[j] # Display!Space}
  OBVIOUS
<1>3. S \in SUBSET (1..Len(text)) /\ \A j \in S : text[j] = sign
  BY <1>2, RunsOfText DEF Display!End
<1>4. S # {} => Display!Min(S) \in S
  BY <1>3, FirstAndLast, RunsOfText
<1> QED BY <1>1, <1>2, <1>3, <1>4 DEF Display!After

\* The symbols are told apart.
LEMMA SymbolsApart ==
  /\ Display!Runs = {Display!Two, Display!Three, Display!More}
  /\ Display!Two # Display!Three /\ Display!Three # Display!More /\ Display!Two # Display!More
  /\ Display!Grouped = {Display!Space, Display!Point, Display!Comma}
  /\ Display!Labels = {Display!Review, Display!Label} /\ Display!Decoys = {Display!Review, Display!Decoy}
  /\ Display!Marks = {Display!Minus, Display!Money, Display!Kilo, Display!Review, Display!Label, Display!Decoy}
  /\ \A x \in Display!Grouped : x \notin Display!Marks /\ x \notin Display!Runs
  /\ \A x \in Display!Marks : x \notin Display!Runs
  /\ Display!Money # Display!Kilo /\ Display!Money # Display!Minus
  /\ \A x \in {Display!Minus, Display!Money, Display!Kilo} : x \notin Display!Labels /\ x \notin Display!Decoys
  BY DEF Display!Runs, Display!Two, Display!Three, Display!More, Display!Grouped, Display!Space, Display!Point,
         Display!Comma, Display!Marks, Display!Minus, Display!Money, Display!Kilo, Display!Labels,
         Display!Decoys, Display!Review, Display!Label, Display!Decoy

\* The only set with such ends.
LEMMA EndsAre ==
  ASSUME NEW n \in Nat, NEW S \in SUBSET (1..n), NEW a \in S, NEW b \in S, \A i \in S : a <= i /\ i <= b
  PROVE  Display!Min(S) = a /\ Display!Max(S) = b
<1>1. /\ Display!Min(S) \in S /\ Display!Min(S) <= a
      /\ Display!Max(S) \in S /\ b <= Display!Max(S)
  BY FirstAndLast
<1>2. PICK least \in S : least = Display!Min(S)
  BY <1>1
<1>3. PICK most \in S : most = Display!Max(S)
  BY <1>1
<1>4. /\ least \in Nat /\ least <= a /\ a <= least
      /\ most \in Nat /\ most <= b /\ b <= most
  BY <1>1, <1>2, <1>3
<1>5. least = a /\ most = b
  BY <1>4
<1> QED BY <1>2, <1>3, <1>5

\* Where a written number ends: with its whole part, or two symbols behind it.
LEMMA PriceOfWritten ==
  ASSUME TextInv, NEW k \in DOMAIN text, NEW s \in Display!Grouped, Display!Whole(k, s),
         NEW l \in {k, k + 2}, l # k => Display!Decimals(k), Display!End(l, Display!Money)
  PROVE  Display!coerce_price(text) =
           Display!Number(Display!Digits(text) \cap 1..k, IF l = k THEN {} ELSE {l})
<1>1. PICK D : D = Display!Digits(text)
  OBVIOUS
<1>2. /\ k \in Nat \ {0} /\ l \in DOMAIN text /\ D \in SUBSET (1..Len(text)) /\ Len(text) \in Nat
      /\ DOMAIN text = 1..Len(text)
      /\ \A i \in DOMAIN text : i \in D <=> text[i] \in Display!Runs
  BY <1>1, RunsOfText DEF Display!Decimals
<1>3. /\ 1 \in D /\ k \in D
      /\ \A i \in 1..k : text[i] \in Display!Runs \cup {s}
      /\ k > 1 => text[1] # Display!More
      /\ \A i \in 2..k : text[i] \in Display!Runs => text[i] = Display!Three
  BY <1>1 DEF Display!Whole
<1>4. /\ \A i \in DOMAIN text : i > l => text[i] \in {Display!Money, Display!Space}
      /\ l # k => text[k + 1] \in {Display!Point, Display!Comma} /\ text[k + 2] = Display!Two
  BY DEF Display!End, Display!Decimals
<1>5. /\ l \in D /\ D \ (1..k) = (IF l = k THEN {} ELSE {l})
      /\ \A i \in D : 1 <= i /\ i <= l
  <2>1. \A i \in DOMAIN text : i > l => i \notin D
    BY <1>2, <1>4, SymbolsApart
  <2>2. l # k => l \in D /\ l = k + 2 /\ k + 1 \notin D
    BY <1>2, <1>4, SymbolsApart
  <2>3. \A i \in D : i \in DOMAIN text /\ 1 <= i /\ i <= l
    BY <1>2, <2>1
  <2>4. CASE l = k
    BY <1>2, <1>3, <2>3, <2>4
  <2>5. CASE l # k
    <3>1. D \ (1..k) = {l}
      <4>1. ASSUME NEW i \in D, i \notin 1..k PROVE i = l
        <5>1. i \in Nat /\ i > k /\ i <= k + 2 /\ i # k + 1
          BY <1>2, <2>2, <2>3, <2>5, <4>1
        <5> QED BY <1>2, <2>2, <2>5, <5>1
      <4>2. l \in D /\ l \notin 1..k
        BY <1>2, <2>2, <2>5
      <4> QED BY <4>1, <4>2
    <3> QED BY <2>2, <2>3, <2>5, <3>1
  <2> QED BY <2>4, <2>5
<1>6. Display!Min(D) = 1 /\ Display!Max(D) = l
  BY <1>2, <1>3, <1>5, EndsAre
<1>7. \A i \in 1..l : text[i] \in Display!Runs \cup Display!Grouped
  BY <1>2, <1>3, <1>4, SymbolsApart
<1>8. Display!At(text, Display!Decoys) = {}
  <2>1. ASSUME NEW i \in DOMAIN text PROVE text[i] \notin Display!Decoys
    <3>1. CASE i > l
      BY <1>4, <3>1, SymbolsApart
    <3>2. CASE i \in 1..l
      BY <1>7, <3>2, SymbolsApart
    <3> QED BY <1>2, <3>1, <3>2
  <2> QED BY <2>1 DEF Display!At
<1>9. Display!Before(text, 1) # Display!Minus /\ Display!After(text, l) # Display!Kilo
  BY <1>2, NothingAround, SymbolsApart
<1>10. PICK G : G = D \cap 1..k
  OBVIOUS
<1>11. Display!OneNumber(text, G)
  <2>1. Display!Min(G) = 1 /\ G # {}
    <3>1. G \in SUBSET (1..k) /\ 1 \in G /\ k \in G /\ k \in Nat /\ \A i \in G : 1 <= i /\ i <= k
      BY <1>2, <1>3, <1>10
    <3> QED BY <3>1, EndsAre
  <2>2. ASSUME NEW i \in G, i # 1 PROVE text[1] # Display!More /\ text[i] = Display!Three
    BY <1>2, <1>3, <1>10, <2>2
  <2> QED BY <2>1, <2>2 DEF Display!OneNumber
<1>12. /\ (1 + 2 <= l /\ text[l] = Display!Two /\ text[l - 1] \in {Display!Point, Display!Comma}) <=> l # k
  BY <1>2, <1>3, <1>4, SymbolsApart
<1>13. \A i, j \in (1..k) \ G : text[i] = text[j]
  BY <1>2, <1>3, <1>10
<1>14. Display!parse_money_token(text, 1, l) = Display!Number(G, IF l = k THEN {} ELSE {l})
  <2>1. 1..(IF l # k THEN l - 2 ELSE l) = 1..k
    BY <1>2
  <2>2. (1..k) \cap Display!Digits(text) = G
    BY <1>1, <1>10
  <2>3. CASE l = k
    BY <1>11, <1>12, <1>13, <2>1, <2>2, <2>3 DEF Display!parse_money_token
  <2>4. CASE l # k
    BY <1>11, <1>12, <1>13, <2>1, <2>2, <2>4 DEF Display!parse_money_token
  <2> QED BY <2>3, <2>4
<1> QED BY <1>1, <1>3, <1>6, <1>7, <1>8, <1>9, <1>10, <1>14 DEF Display!coerce_price

\* A number as shops write it is read as that number.
LEMMA ReadsTheWritten == ASSUME TextInv PROVE Display!ReadAsWritten
<1> SUFFICES ASSUME NEW k \in DOMAIN text, NEW s \in Display!Grouped, Display!Whole(k, s)
             PROVE  LET groups == Display!Digits(text) \cap 1..k
                    IN  /\ Display!End(k, Display!Money) => Display!coerce_price(text) = Display!Number(groups, {})
                        /\ Display!Decimals(k) /\ Display!End(k + 2, Display!Money) =>
                             Display!coerce_price(text) = Display!Number(groups, {k + 2})
                        /\ s = Display!Space => \A word \in Display!Labels :
                             Display!End(k, word) => Display!coerce_count(text) = Display!Number(groups, {})
  BY DEF Display!ReadAsWritten
<1>1. k \in Nat \ {0} /\ k + 2 # k
  BY RunsOfText
<1>2. PICK G : G = Display!Digits(text) \cap 1..k
  OBVIOUS
<1>3. Display!End(k, Display!Money) => Display!coerce_price(text) = Display!Number(G, {})
  BY <1>2, PriceOfWritten
<1>4. Display!Decimals(k) /\ Display!End(k + 2, Display!Money) =>
        Display!coerce_price(text) = Display!Number(G, {k + 2})
  BY <1>1, <1>2, PriceOfWritten
<1>5. ASSUME s = Display!Space, NEW word \in Display!Labels, Display!End(k, word)
      PROVE  Display!coerce_count(text) = Display!Number(G, {})
  <2>1. /\ \A i \in 1..k : text[i] \in Display!Runs \cup {Display!Space}
        /\ 1 \in Display!Digits(text)
        /\ k > 1 => text[1] # Display!More
        /\ \A i \in 2..k : text[i] \in Display!Runs => text[i] = Display!Three
    BY <1>5 DEF Display!Whole
  <2>2. \A i \in DOMAIN text : i > k => text[i] \in {word, Display!Space}
    BY <1>5 DEF Display!End
  <2>3. Display!Digits(text) = G
    <3>1. ASSUME NEW i \in Display!Digits(text) PROVE i \in 1..k
      BY <1>1, <1>5, <2>2, RunsOfText, SymbolsApart
    <3> QED BY <1>2, <3>1
  <2>4. Display!Only(text, {Display!Space} \cup Display!Labels)
    BY <1>1, <1>5, <2>1, <2>2, RunsOfText DEF Display!Only
  <2>5. Display!Min(Display!Digits(text)) = 1
    BY <2>1, RunsOfText, EndsAre
  <2>6. Display!OneNumber(text, Display!Digits(text))
    BY <1>1, <1>2, <2>1, <2>3, <2>5, RunsOfText DEF Display!OneNumber
  <2> QED BY <2>3, <2>4, <2>6 DEF Display!coerce_count
<1> QED BY <1>2, <1>3, <1>4, <1>5

\* What is read as one number: several runs are threes behind a short one.
LEMMA ReadAsOne ==
  ASSUME TextInv, NEW S \in SUBSET Display!Digits(text), Display!OneNumber(text, S)
  PROVE  S # {} /\ \A i, j \in S : i < j => text[i] # Display!More /\ text[j] = Display!Three
<1>1. /\ S # {} /\ S \in SUBSET (1..Len(text)) /\ Len(text) \in Nat
      /\ \A i \in S : i # Display!Min(S) => text[Display!Min(S)] # Display!More /\ text[i] = Display!Three
  BY RunsOfText DEF Display!OneNumber
<1>2. PICK first \in S : first = Display!Min(S) /\ \A i \in S : first <= i
  BY <1>1, FirstAndLast
<1>3. ASSUME NEW i \in S, NEW j \in S, i < j PROVE text[i] # Display!More /\ text[j] = Display!Three
  <2>1. j # first
    BY <1>1, <1>2, <1>3
  <2> QED BY <1>1, <1>2, <2>1, SymbolsApart
<1> QED BY <1>1, <1>3

\* What a price was read from.
LEMMA PriceIsOf ==
  ASSUME TextInv, Display!coerce_price(text) # Display!None,
         NEW D, D = Display!Digits(text), NEW f, f = Display!Min(D), NEW l, l = Display!Max(D)
  PROVE  /\ f \in D /\ l \in D /\ D \in SUBSET (1..Len(text)) /\ \A i \in D : f <= i /\ i <= l
         /\ Display!At(text, Display!Decoys) = {}
         /\ Display!Before(text, f) # Display!Minus /\ Display!After(text, l) # Display!Kilo
         /\ \A i \in f..l : text[i] \in Display!Runs \cup Display!Grouped
         /\ Display!coerce_price(text) = Display!parse_money_token(text, f, l)
<1>1. /\ D # {} /\ Display!At(text, Display!Decoys) = {}
      /\ Display!Before(text, f) # Display!Minus /\ Display!After(text, l) # Display!Kilo
      /\ \A i \in f..l : text[i] \in Display!Runs \cup Display!Grouped
      /\ Display!coerce_price(text) = Display!parse_money_token(text, f, l)
  BY DEF Display!coerce_price
<1> QED BY <1>1, RunsOfText

\* A price has all the digits of its text.
LEMMA PriceSpelledOut == ASSUME TextInv PROVE Display!SpelledOut(Display!coerce_price(text))
<1> SUFFICES ASSUME Display!coerce_price(text) # Display!None
             PROVE  Display!SpelledOut(Display!coerce_price(text))
  BY DEF Display!SpelledOut
<1>1. PICK D, f, l : D = Display!Digits(text) /\ f = Display!Min(D) /\ l = Display!Max(D)
  OBVIOUS
<1>2. /\ f \in D /\ l \in D /\ D \in SUBSET (1..Len(text)) /\ \A i \in D : f <= i /\ i <= l
      /\ Display!coerce_price(text) = Display!parse_money_token(text, f, l)
      /\ Len(text) \in Nat
      /\ \A i \in DOMAIN text : i \in D <=> text[i] \in Display!Runs
      /\ DOMAIN text = 1..Len(text)
  BY <1>1, PriceIsOf, RunsOfText
<1>3. PICK tailed \in BOOLEAN :
        tailed <=> f + 2 <= l /\ text[l] = Display!Two /\ text[l - 1] \in {Display!Point, Display!Comma}
  OBVIOUS
<1>4. PICK G : G = (f..(IF tailed THEN l - 2 ELSE l)) \cap D
  OBVIOUS
<1>5. /\ Display!OneNumber(text, G)
      /\ Display!coerce_price(text) = Display!Number(G, IF tailed THEN {l} ELSE {})
  <2>1. CASE tailed
    BY <1>1, <1>2, <1>3, <1>4, <2>1 DEF Display!parse_money_token
  <2>2. CASE ~tailed
    BY <1>1, <1>2, <1>3, <1>4, <2>2 DEF Display!parse_money_token
  <2> QED BY <1>3, <2>1, <2>2
<1>6. G # {} /\ \A i, j \in G : i < j => text[i] # Display!More /\ text[j] = Display!Three
  BY <1>1, <1>4, <1>5, ReadAsOne
<1>7. tailed => l - 1 \notin D /\ l \notin G
  BY <1>2, <1>3, <1>4, SymbolsApart
<1>8. G \cup (IF tailed THEN {l} ELSE {}) = D
  <2>1. ASSUME NEW i \in D, i \notin G PROVE tailed /\ i = l
    BY <1>2, <1>4, <1>7, <2>1
  <2> QED BY <1>2, <1>4, <2>1
<1>9. ASSUME tailed
      PROVE  /\ text[l] = Display!Two /\ text[l - 1] \in {Display!Point, Display!Comma}
             /\ \A j \in D : j <= l /\ (j \in G <=> j # l)
  BY <1>2, <1>3, <1>7, <1>8, <1>9
<1> QED BY <1>1, <1>3, <1>5, <1>6, <1>8, <1>9 DEF Display!SpelledOut, Display!Number

\* A count too, and it is what coerce_int() reads if that reads anything.
LEMMA CountSpelledOut ==
  ASSUME TextInv
  PROVE  /\ Display!SpelledOut(Display!coerce_count(text))
         /\ Display!coerce_count(text) # Display!None =>
              Display!coerce_int(text) \in {Display!coerce_count(text), Display!None}
<1> SUFFICES ASSUME Display!coerce_count(text) # Display!None
             PROVE  /\ Display!SpelledOut(Display!coerce_count(text))
                    /\ Display!coerce_int(text) \in {Display!coerce_count(text), Display!None}
  BY DEF Display!SpelledOut
<1>1. /\ Display!OneNumber(text, Display!Digits(text))
      /\ Display!coerce_count(text) = Display!Number(Display!Digits(text), {})
  BY DEF Display!coerce_count
<1>2. Display!SpelledOut(Display!coerce_count(text))
  BY <1>1, ReadAsOne DEF Display!SpelledOut, Display!Number
<1>3. Display!coerce_int(text) \in {Display!Number(Display!Digits(text), {}), Display!None}
  BY DEF Display!coerce_int
<1> QED BY <1>1, <1>2, <1>3

\* Nothing is read as a price that a sign makes something else.
LEMMA PriceNeverGuessed ==
  ASSUME TextInv, Display!coerce_price(text) # Display!None,
         NEW i \in DOMAIN text, NEW j \in Display!Digits(text)
  PROVE  /\ text[i] = Display!Minus /\ i < j => \E k \in (i + 1)..(j - 1) : text[k] # Display!Space
         /\ text[i] = Display!Kilo /\ i > j => \E k \in (j + 1)..(i - 1) : text[k] # Display!Space
         /\ text[i] \in Display!Marks => \A k \in Display!Digits(text) : (i < j) = (i < k)
<1>1. PICK D, f, l : D = Display!Digits(text) /\ f = Display!Min(D) /\ l = Display!Max(D)
  OBVIOUS
<1>2. /\ f \in D /\ l \in D /\ D \in SUBSET (1..Len(text)) /\ \A k \in D : f <= k /\ k <= l
      /\ Display!Before(text, f) # Display!Minus /\ Display!After(text, l) # Display!Kilo
      /\ \A k \in f..l : text[k] \in Display!Runs \cup Display!Grouped
      /\ Len(text) \in Nat /\ DOMAIN text = 1..Len(text)
      /\ \A k \in D : text[k] # Display!Space
  BY <1>1, PriceIsOf, RunsOfText, SymbolsApart
<1>3. text[i] \in Display!Marks => i < f \/ l < i
  BY <1>2, SymbolsApart
<1>4. text[i] \in Display!Marks => \A k \in D : (i < j) = (i < k)
  BY <1>1, <1>2, <1>3
<1>5. ASSUME text[i] = Display!Minus, i < j PROVE \E k \in (i + 1)..(j - 1) : text[k] # Display!Space
  <2>1. i < f
    BY <1>1, <1>2, <1>3, <1>5, SymbolsApart
  <2>2. CASE j # f
    BY <1>1, <1>2, <2>1, <2>2
  <2>3. CASE j = f
    <3>1. ~(\A k \in DOMAIN text : (i < k /\ k < f) \/ (f < k /\ k < i) => text[k] = Display!Space)
      BY <1>2, <1>5, <2>1, NothingBetween, SymbolsApart
    <3> QED BY <1>2, <2>1, <2>3, <3>1
  <2> QED BY <2>2, <2>3
<1>6. ASSUME text[i] = Display!Kilo, i > j PROVE \E k \in (j + 1)..(i - 1) : text[k] # Display!Space
  <2>1. l < i
    BY <1>1, <1>2, <1>3, <1>6, SymbolsApart
  <2>2. CASE j # l
    BY <1>1, <1>2, <2>1, <2>2
  <2>3. CASE j = l
    <3>1. ~(\A k \in DOMAIN text : (i < k /\ k < l) \/ (l < k /\ k < i) => text[k] = Display!Space)
      BY <1>2, <1>6, <2>1, NothingBetween, SymbolsApart
    <3> QED BY <1>2, <2>1, <2>3, <3>1
  <2> QED BY <2>2, <2>3
<1> QED BY <1>1, <1>4, <1>5, <1>6

LEMMA NumbersOfInv == ASSUME TextInv PROVE Display!NumbersRight
<1>1. Display!coerce_price(text) # Display!None => Display!At(text, Display!Decoys) = {}
  BY DEF Display!coerce_price
<1>2. Display!NeverGuessed
  BY <1>1, PriceSpelledOut, CountSpelledOut, PriceNeverGuessed DEF Display!NeverGuessed
<1> QED BY <1>2, ReadsTheWritten DEF Display!NumbersRight

LEMMA AgentKeepsText == AgentSpec => Display!Init /\ [][Display!Next]_text
<1>1. AgentInit => Display!Init
  BY DEF AgentInit
<1>2. [AgentNext]_<<part, vars, comparing, tabs, working, text, configuring>> => [Display!Next]_text
  BY DEF AgentNext
<1> QED BY <1>1, <1>2, PTL DEF AgentSpec

\* coerce_price(), coerce_count(): texts of every length are read as shops write
\* them, with all their digits, and neither a delta, a rounded sum, a range nor a
\* sum that DECOY_MARKERS names is read as a price.
THEOREM NumbersAlwaysRight == AgentSpec => []NumbersRight
<1>1. Display!Init => TextInv
  BY DEF Display!Init, TextInv
<1>2. TextInv /\ [Display!Next]_text => TextInv'
  <2> SUFFICES ASSUME TextInv, [Display!Next]_text PROVE TextInv'
    OBVIOUS
  <2>1. ASSUME NEW x \in Display!Runs \cup Display!Symbols, Display!Write(x) PROVE TextInv'
    BY <2>1 DEF TextInv, Display!Write
  <2>2. CASE Display!Clear
    BY <2>2 DEF TextInv, Display!Clear
  <2>3. CASE UNCHANGED text
    BY <2>3 DEF TextInv
  <2> QED BY <2>1, <2>2, <2>3 DEF Display!Next
<1>3. TextInv => NumbersRight
  BY NumbersOfInv DEF NumbersRight
<1> QED BY <1>1, <1>2, <1>3, AgentKeepsText, PTL
=============================================================================
