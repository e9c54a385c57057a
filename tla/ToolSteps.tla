------------------------------ MODULE ToolSteps ------------------------------
(***************************************************************************)
(* What the tools of the connectors are made of.  A tool is a sequence of  *)
(* steps, a step the set of its branches: what the step may meet, and what *)
(* the code then does.  The catalogues (AvitoTools, WildberriesTools, ...) *)
(* write every tool of the repository this way, and SourceTools runs them. *)
(*                                                                         *)
(* met is the fact that selects the branch.  hop says where the tool goes  *)
(* on: 1 is the next step, a larger number skips.  A branch with a code    *)
(* ends the call in that error (mcp_core.errors), one with a verdict       *)
(* records a check of a selfcheck.  does holds the side effects: a warning *)
(* in _meta, and what the pacer is told.                                   *)
(***************************************************************************)
EXTENDS Sequences, Naturals

(***************************************************************************)
(* The facts.  fine: what the step hoped for; kept: it is in the cache;    *)
(* none: nothing there, which is an answer; bad: an argument the tool has  *)
(* no use for; locked: no credentials; busy: calls to this source are      *)
(* paused here, and nothing was asked; refused: the source turns us away   *)
(* (401, 403, a login page, a challenge, a firewall); limited: it says too *)
(* many requests; gone: it says there is no such thing; down: no usable    *)
(* answer; late: the page was not ready in time; garbled: the answer is    *)
(* not of the format expected; odd: it is, but a part the parser needs is  *)
(* missing; off: a value in it is out of place (in a list, in half of its  *)
(* items); lost: a part the tool can do without was not had.               *)
(***************************************************************************)
Facts == {"fine", "kept", "none", "bad", "locked", "busy", "refused", "limited", "gone", "down",
          "late", "garbled", "odd", "off", "lost"}

Effects == {"warn", "refusal", "success"}

Codes == {"auth_missing", "rate_limited", "timeout", "transport_down", "parser_drift", "bad_request",
          "permission_denied", "challenge_required", "not_found"}

Verdicts == {"healthy", "drift", "inconclusive"}

\* after: the verdicts of the check before it that lead here.
Branch(f, effects, hop, code, verdict) ==
  [met |-> f, does |-> effects, hop |-> hop, code |-> code, verdict |-> verdict, check |-> "none",
   after |-> Verdicts \cup {"none"}]

\* The tool goes on; it goes on and warns; it skips n steps.
On(f)      == Branch(f, {}, 1, "none", "none")
Doubt(f)   == Branch(f, {"warn"}, 1, "none", "none")
Skip(n, f) == Branch(f, {}, n + 1, "none", "none")

\* The call ends in an error.
Fail(f, code)    == Branch(f, {}, 1, code, "none")
Refused(f, code) == Branch(f, {"refusal"}, 1, code, "none")

\* The check in hand has its verdict.
Is(f, verdict) == Branch(f, {}, 1, "none", verdict)

Ons(F)         == {On(f) : f \in F}
Doubts(F)      == {Doubt(f) : f \in F}
Fails(F, code) == {Fail(f, code) : f \in F}
All(F, verdict) == {Is(f, verdict) : f \in F}

\* pacer.record_success() on the way.
Glad(b) == [b EXCEPT !.does = @ \cup {"success"}]

\* A step in which what meets one of F also warns, tells the pacer of a
\* refusal, or gives the check in hand its verdict.
Warning(F, step) == {IF b.met \in F THEN [b EXCEPT !.does = @ \cup {"warn"}] ELSE b : b \in step}
Telling(F, step) == {IF b.met \in F THEN [b EXCEPT !.does = @ \cup {"refusal"}] ELSE b : b \in step}
Judging(F, verdict, step) ==
  {IF b.met \in F /\ b.code = "none" THEN [b EXCEPT !.verdict = verdict] ELSE b : b \in step}

\* A step that can only be taken after such a verdict.
After(V, step) == {[b EXCEPT !.after = V] : b \in step}

\* A branch of step i of n in a probe: an error is caught and becomes a
\* verdict, and a verdict ends the probe.
Caught(b, name, drifts, i, n) ==
  IF b.code # "none"
  THEN [b EXCEPT !.code = "none", !.hop = n + 1 - i, !.check = name,
                 !.verdict = IF b.code \in drifts THEN "drift" ELSE "inconclusive"]
  ELSE IF b.verdict # "none" THEN [b EXCEPT !.hop = n + 1 - i, !.check = name] ELSE b

(***************************************************************************)
(* One probe of a selfcheck: the steps of what it calls and of what it     *)
(* makes of the result, the last of which gives a verdict on every branch. *)
(* drifts are the codes the canary reads as drift, the others being        *)
(* inconclusive.                                                           *)
(***************************************************************************)
Probe(name, drifts, steps) ==
  [i \in 1..Len(steps) |-> {Caught(b, name, drifts, i, Len(steps)) : b \in steps[i]}]

\* A probe that needs something from the one before it, which only the
\* verdicts V give, and not always.
ProbeAfter(V, name, drifts, steps) ==
  Probe(name, drifts,
        <<After(V, {On("fine"), Is("none", "inconclusive")})
          \cup After(Verdicts \ V, {Is("none", "inconclusive")})>> \o steps)

\* Steps that go on n steps further than the one after them.
Then(n, steps) ==
  [steps EXCEPT ![Len(steps)] = {IF b.code = "none" THEN [b EXCEPT !.hop = @ + n] ELSE b : b \in @}]

\* A tool, and a selfcheck with the checks it must have made.
Tool(steps)             == [steps |-> steps, required |-> {}, canary |-> FALSE]
Canary(required, steps) == [steps |-> steps, required |-> required, canary |-> TRUE]
=============================================================================
