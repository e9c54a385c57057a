----------------------------- MODULE SourceTools -----------------------------
(***************************************************************************)
(* A client that calls the tools of a table, one call after the other.  A  *)
(* call goes through the steps of its tool; each step meets what its       *)
(* branches allow.  A tool that reaches its end answers, with _meta.healthy*)
(* set by the warnings it collected; a selfcheck answers with the verdict  *)
(* selfcheck_result() makes of its checks.                                 *)
(***************************************************************************)
EXTENDS ToolSteps, FiniteSets

CONSTANTS
  Tools,   \* the tools called in this model ...
  Table,   \* ... and a function from tools to what they are made of
  Silent,  \* tools that may answer healthy over a doubt
  Hasty,   \* selfchecks that may judge what they could not reach
  Blind,   \* selfchecks that may miss a drift
  Stale    \* selfchecks that may judge an answer of the cache

BranchesOf ==
  [met : Facts, does : SUBSET Effects, hop : Nat \ {0}, code : Codes \cup {"none"},
   verdict : Verdicts \cup {"none"}, check : STRING, after : SUBSET (Verdicts \cup {"none"})]

ASSUME TableAssumption == \A t \in Tools : /\ Table[t].steps \in Seq(SUBSET BranchesOf)
                                          /\ Table[t].canary \in BOOLEAN

VARIABLES
  tool,     \* the tool being called
  at,       \* the step it is at
  met,      \* the facts met, since the last verdict in a selfcheck
  told,     \* what the pacer was told since then
  warned,   \* a warning other than an info: note is in _meta
  checks,   \* the checks made: name and verdict
  last,     \* the last verdict
  over,     \* the facts it was made over
  end       \* "none" while the call runs, then how it ended

vars == <<tool, at, met, told, warned, checks, last, over, end>>

None  == "none"
Steps == Table[tool].steps

Start(t) ==
  /\ tool' = t
  /\ at' = 1
  /\ met' = {}
  /\ told' = {}
  /\ warned' = FALSE
  /\ checks' = {}
  /\ last' = None
  /\ over' = {}
  /\ end' = None

Init ==
  /\ tool \in Tools
  /\ at = 1
  /\ met = {}
  /\ told = {}
  /\ warned = FALSE
  /\ checks = {}
  /\ last = None
  /\ over = {}
  /\ end = None

\* attach_meta() and raise_tool_error() as a step of the tool sees them.
Take(b) ==
  /\ at' = at + b.hop
  /\ met' = IF b.verdict = None THEN met \cup {b.met} ELSE {}
  /\ told' = (IF met = {} THEN {} ELSE told) \cup (b.does \ {"warn"})
  /\ warned' = (warned \/ "warn" \in b.does)
  /\ checks' = IF b.verdict = None THEN checks ELSE checks \cup {[name |-> b.check, verdict |-> b.verdict]}
  /\ last' = IF b.verdict = None THEN last ELSE b.verdict
  /\ over' = IF b.verdict = None THEN over ELSE met \cup {b.met}
  /\ end' = b.code
  /\ UNCHANGED tool

Step ==
  /\ end = None
  /\ at <= Len(Steps)
  /\ \E b \in Steps[at] : last \in b.after /\ Take(b)

Answer ==
  /\ end = None
  /\ at > Len(Steps)
  /\ ~Table[tool].canary
  /\ end' = IF warned THEN "unhealthy" ELSE "healthy"
  /\ UNCHANGED <<tool, at, met, told, warned, checks, last, over>>

\* A required check that was never made counts as one that could not be judged.
States == {c.verdict : c \in checks}
          \cup {"inconclusive" : n \in Table[tool].required \ {c.name : c \in checks}}

\* Fault: only the checks that were made are looked at.
ResultOfMade ==
  LET made == {c.verdict : c \in checks}
  IN  IF "drift" \in made THEN "drift_detected"
      ELSE IF made \subseteq {"healthy"} THEN "success" ELSE "inconclusive"

selfcheck_result ==
  CASE "drift" \in States    -> "drift_detected"
    [] States = {"healthy"}  -> "success"
    [] OTHER                 -> "inconclusive"

Report ==
  /\ end = None
  /\ at > Len(Steps)
  /\ Table[tool].canary
  /\ end' = selfcheck_result
  /\ UNCHANGED <<tool, at, met, told, warned, checks, last, over>>

Call == end # None /\ \E t \in Tools : Start(t)

Next == Step \/ Answer \/ Report \/ Call

Spec == Init /\ [][Next]_vars /\ WF_vars(Step \/ Answer \/ Report)
-----------------------------------------------------------------------------
(* Properties *)

\* The call in hand is well formed.
TypeOK ==
  /\ tool \in Tools
  /\ at \in Nat \ {0}
  /\ met \subseteq Facts /\ over \subseteq Facts
  /\ told \subseteq {"refusal", "success"}
  /\ warned \in BOOLEAN
  /\ last \in Verdicts \cup {None}
  /\ end \in Codes \cup {None, "healthy", "unhealthy", "success", "drift_detected", "inconclusive"}

(***************************************************************************)
(* attach_meta(): "healthy is True only when the parser got a complete     *)
(* answer AND every value in it was trustworthy".  Whatever a tool met on  *)
(* its way - a value out of place, a part whose own read failed, a page    *)
(* that was not what the parser expects - an answer called healthy met     *)
(* none of it.                                                             *)
(***************************************************************************)
Doubtful == {"odd", "off", "lost", "late", "garbled", "refused", "limited", "down"}

HealthTrue == end = "healthy" /\ tool \notin Silent => met \cap Doubtful = {}

(***************************************************************************)
(* The code of an error is what the agent acts on (errors.py): it retries, *)
(* waits, asks its user for a login, or gives the item up.  Each code has  *)
(* a cause among what the call met: a wall is never reported as a change   *)
(* of the page, nor an outage as a missing item.                           *)
(***************************************************************************)
Causes == [
  auth_missing       |-> {"locked", "refused"},
  rate_limited       |-> {"limited", "busy"},
  timeout            |-> {"late", "down"},
  transport_down     |-> {"refused", "limited", "down", "late", "lost", "gone", "odd", "garbled"},
  parser_drift       |-> {"garbled", "odd", "none"},
  bad_request        |-> {"bad"},
  permission_denied  |-> {"refused"},
  challenge_required |-> {"refused"},
  not_found          |-> {"gone", "none"}]

CodeFits == end \in Codes => met \cap Causes[end] # {}

(***************************************************************************)
(* PoliteLimiter.record_refusal(): "Only count what the marketplace        *)
(* actively refused".  The pacer is told of a refusal only by a call that  *)
(* met one, and of a success only by one that was given something.         *)
(***************************************************************************)
Given == {"fine", "none", "odd", "off"}

Seen == IF met = {} THEN over ELSE met

PacerToldTrue ==
  /\ "refusal" \in told => Seen \cap {"refused", "limited"} # {}
  /\ "success" \in told => Seen \cap Given # {}

(***************************************************************************)
(* The contract of the selfchecks (resilience.py:909): drift is a baseline *)
(* that was reached and lost something the parser needs.  A source that    *)
(* refused, was down, or no longer has the item is not judged, a baseline  *)
(* that was reached with a part missing is called drift, and               *)
(* selfcheck_result() reports success only if every check that must be     *)
(* made was made and healthy, and nothing milder than drift over one that  *)
(* drifted.  And "a health signal has to describe the present"             *)
(* (_fresh_get_text()): nothing is judged over an answer of the cache.     *)
(***************************************************************************)
Unjudged == {"busy", "locked", "refused", "limited", "down", "late", "gone"}

DriftEarned  == over \cap {"odd", "off", "none", "garbled"} # {} /\ over \cap Unjudged = {}
HealthEarned == over \cap ({"odd", "garbled"} \cup Unjudged) = {}

ReportEarned ==
  /\ end = "success" => /\ Table[tool].required \subseteq {c.name : c \in checks}
                        /\ \A c \in checks : c.verdict = "healthy"
  /\ end = "inconclusive" => \A c \in checks : c.verdict # "drift"

VerdictEarned ==
  /\ tool \notin Hasty /\ last = "drift" => DriftEarned
  /\ tool \notin Hasty /\ last = "healthy" => HealthEarned
  /\ tool \notin Blind /\ "odd" \in over => last = "drift"
  /\ tool \notin Stale => "kept" \notin over
  /\ ReportEarned
=============================================================================
