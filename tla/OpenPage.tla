------------------------------- MODULE OpenPage -------------------------------
(***************************************************************************)
(* open_page() of transport/chrome_cdp.py: take a navigation permit, come  *)
(* to a running Chrome (CdpAutostart), attach with Playwright or, when     *)
(* that times out, over raw CDP, create a tab, navigate, judge the         *)
(* document, give the permit back, yield the page, close the tab.          *)
(*                                                                         *)
(* The permits are those NavigationAdmission promises.  A tab is named     *)
(* after the call that asked for it; a name is used again once the tab is  *)
(* gone.  An action runs from one await to the next, and a timeout may     *)
(* fire in any state that has one.                                         *)
(***************************************************************************)
EXTENDS CdpAutostart, FiniteSets

CONSTANTS Hosts, HostOf, MaxConcurrent, PerHost

ASSUME OpenPageAssumption ==
  /\ HostOf \in [Callers -> Hosts]
  /\ MaxConcurrent \in Nat \ {0}
  /\ PerHost \in Nat \ {0}

VARIABLES
  permit,   \* the calls that hold a navigation permit
  paused,   \* the hosts whose breaker is open
  tab,      \* the tab each call asked Chrome for
  nav       \* what each call knows of its tab

pageVars == <<permit, paused, tab, nav>>
vars == <<loopback, port, launched, holder, queue, failure, left, pc, burnt, permit, paused, tab, nav>>
autostart == <<chrome, holder, queue, memory, burnt>>

\* "wall" is a 403, "refused" another status of _NAV_FAIL_STATUSES, "elsewhere"
\* a host outside the policy, "blank" about:blank.
Docs == {"blank", "good", "wall", "refused", "elsewhere"}
Failing == {"wall", "refused"}
OffPolicy == {"blank", "elsewhere"}

NoNav == [raw |-> FALSE,      \* attached over raw CDP
          target |-> FALSE,   \* createTarget was answered
          page |-> None,      \* the tab it drives
          doc |-> "blank",    \* the main document of that tab
          seen |-> "blank",   \* the last one the call was told of
          blocked |-> FALSE]  \* NavBlocked is on its way

Init ==
  /\ AutostartInit
  /\ permit = {} /\ paused = {}
  /\ tab = [c \in Callers |-> "none"]
  /\ nav = [c \in Callers |-> NoNav]

Now(c, p) == pc' = [pc EXCEPT ![c] = p]

\* The call gives its permit back and ends.
Ends(c) ==
  /\ Now(c, "idle")
  /\ permit' = permit \ {c}
  /\ nav' = [nav EXCEPT ![c] = NoNav]

-----------------------------------------------------------------------------
(* Permit and attach.                                                       *)

Admitted(c) ==
  /\ HostOf[c] \notin paused
  /\ Cardinality(permit) < MaxConcurrent
  /\ Cardinality({d \in permit : HostOf[d] = HostOf[c]}) < PerHost

\* A call that is told at once that there is no Chrome gives the permit back.
Begin(c) ==
  /\ pc[c] = "idle" /\ tab[c] = "none"
  /\ Admitted(c)
  /\ Asks(c) \/ TakesLock(c)
  /\ permit' = IF pc'[c] = "idle" THEN permit ELSE permit \union {c}
  /\ UNCHANGED <<paused, tab, nav>>

Attach(c) ==
  /\ pc[c] \in Attempting \union {"queued"}
  /\ TakesLock(c) \/ Attempt(c) \/ AutostartCancelled(c)
  /\ permit' = IF pc'[c] = "idle" THEN permit \ {c} ELSE permit
  /\ UNCHANGED <<paused, tab, nav>>

\* _CdpConnectTimeout: once more, over raw CDP.
AttachTimesOut(c) ==
  /\ pc[c] = "connect" /\ ~nav[c].raw
  /\ nav' = [nav EXCEPT ![c].raw = TRUE]
  /\ UNCHANGED <<autostart, pc, permit, paused, tab>>

AttachFails(c) ==
  /\ pc[c] = "connect"
  /\ Ends(c)
  /\ UNCHANGED <<autostart, paused, tab>>

-----------------------------------------------------------------------------
(* The tab.                                                                 *)

AskForTab(c) ==
  /\ pc[c] = "connect" /\ port
  /\ Now(c, "ask")
  /\ tab' = [tab EXCEPT ![c] = "asked"]
  /\ UNCHANGED <<autostart, permit, paused, nav>>

\* Chrome creates it; the answer is still under way.
TabCreated(c) ==
  /\ tab[c] = "asked" /\ port
  /\ tab' = [tab EXCEPT ![c] = "open"]
  /\ UNCHANGED <<autostart, pc, permit, paused, nav>>

\* The answer names the target.  new_page(), without stealth, returns the page.
TargetKnown(c) ==
  /\ pc[c] = "ask" /\ tab[c] = "open"
  /\ \/ /\ Now(c, "claim")
        /\ nav' = [nav EXCEPT ![c].target = TRUE]
     \/ /\ ~nav[c].raw
        /\ Now(c, "load")
        /\ nav' = [nav EXCEPT ![c].target = TRUE, ![c].page = c]
  /\ UNCHANGED <<autostart, permit, paused, tab>>

\* The answer does not come in time, or the call is cancelled: whatever Chrome
\* makes of the request is nobody's.
TargetUnknown(c) ==
  /\ pc[c] = "ask"
  /\ Now(c, "leave")
  /\ UNCHANGED <<autostart, pageVars>>

\* Fault: the first page every client is told of.
ClaimFirst(c) ==
  /\ pc[c] = "claim"
  /\ \E d \in Callers : tab[d] = "open" /\ nav' = [nav EXCEPT ![c].page = d]
  /\ Now(c, IF nav[c].raw THEN "load" ELSE "claimed")
  /\ UNCHANGED <<autostart, permit, paused, tab>>

\* _new_tab() finds its page among those of all clients, the raw path its socket
\* in the target list, both by target id.
Claim(c) ==
  /\ pc[c] = "claim"
  /\ \E d \in Callers : tab[d] = "open" /\ d = c /\ nav' = [nav EXCEPT ![c].page = d]
  /\ Now(c, IF nav[c].raw THEN "load" ELSE "claimed")
  /\ UNCHANGED <<autostart, permit, paused, tab>>

\* The browser session used for creating the tab is gone.
Detached(c) ==
  /\ pc[c] = "claimed"
  /\ Now(c, "load")
  /\ UNCHANGED <<autostart, pageVars>>

\* The tab a call would close: the page it drives, else the target it was named.
Owned(c) == IF nav[c].page # None THEN {nav[c].page} ELSE IF nav[c].target THEN {c} ELSE {}

Shut(c) == tab' = [d \in Callers |-> IF d \in Owned(c) /\ tab[d] = "open" THEN "closing" ELSE tab[d]]

\* Fault: a claimed page is lost when the detach is cancelled.
AbortedUnclaimed(c) ==
  /\ pc[c] \in {"claim", "claimed", "load", "recheck", "settle"}
  /\ IF pc[c] = "claimed" THEN UNCHANGED tab ELSE Shut(c)
  /\ Now(c, "leave")
  /\ UNCHANGED <<autostart, permit, paused, nav>>

\* A step fails, times out or is cancelled: the tab is told to close, and the
\* call waits for the answer and the detach.
Aborted(c) ==
  /\ pc[c] \in {"claim", "claimed", "load", "recheck", "settle"}
  /\ Shut(c)
  /\ Now(c, "leave")
  /\ UNCHANGED <<autostart, permit, paused, nav>>

-----------------------------------------------------------------------------
(* The document.                                                            *)

\* NavBlocked closes the tab first and is reported when it reaches open_page().
Blocked(c, d) ==
  /\ Shut(c)
  /\ Now(c, "leave")
  /\ nav' = [nav EXCEPT ![c].doc = d, ![c].seen = d, ![c].blocked = TRUE]

Accepted(c, d) ==
  /\ Now(c, "settle")
  /\ nav' = [nav EXCEPT ![c].doc = d, ![c].seen = d]
  /\ UNCHANGED tab

\* Fault: a 403 counts as the answer before the re-check has ended.
LoadsCounted(c, d) ==
  /\ pc[c] = "load" /\ d # "blank"
  /\ \/ d = "refused" /\ Blocked(c, d)
     \/ d \notin Failing /\ Accepted(c, d)
     \/ /\ d = "wall"
        /\ Now(c, "recheck")
        /\ nav' = [nav EXCEPT ![c].doc = d, ![c].seen = d, ![c].blocked = TRUE]
        /\ UNCHANGED tab
  /\ UNCHANGED <<autostart, permit, paused>>

\* A 403 may be a check that reloads the page by itself.
Loads(c, d) ==
  /\ pc[c] = "load" /\ d # "blank"
  /\ \/ d = "refused" /\ Blocked(c, d)
     \/ d \notin Failing /\ Accepted(c, d)
     \/ /\ d = "wall"
        /\ Now(c, "recheck")
        /\ nav' = [nav EXCEPT ![c].doc = d, ![c].seen = d]
        /\ UNCHANGED tab
  /\ UNCHANGED <<autostart, permit, paused>>

\* goto_and_status() returns no status when nothing arrives in time.
NothingLoads(c) ==
  /\ pc[c] = "load" /\ nav[c].raw
  /\ Accepted(c, "blank")
  /\ UNCHANGED <<autostart, permit, paused>>

\* Fault: whatever comes after the 403 is taken.
ReloadsUnjudged(c, d) ==
  /\ pc[c] = "recheck" /\ d # "blank"
  /\ Accepted(c, d)
  /\ UNCHANGED <<autostart, permit, paused>>

Reloads(c, d) ==
  /\ pc[c] = "recheck" /\ d # "blank"
  /\ IF d \in Failing THEN Blocked(c, d) ELSE Accepted(c, d)
  /\ UNCHANGED <<autostart, permit, paused>>

WallStays(c) ==
  /\ pc[c] = "recheck"
  /\ Blocked(c, "wall")
  /\ UNCHANGED <<autostart, permit, paused>>

\* The page navigates by itself while it settles.  Playwright follows; the raw
\* page reads no event until the next command.
Moves(c, d) ==
  /\ pc[c] = "settle" /\ d # "blank"
  /\ nav' = [nav EXCEPT ![c].doc = d]
  /\ UNCHANGED <<autostart, pc, permit, paused, tab>>

\* page.url
Url(c) == IF nav[c].raw THEN nav[c].seen ELSE nav[c].doc

\* Fault: the permit is kept for as long as the page is.
YieldsWithPermit(c) ==
  /\ pc[c] = "settle" /\ Url(c) \notin OffPolicy
  /\ Now(c, "yielded")
  /\ paused' = paused \ {HostOf[c]}
  /\ UNCHANGED <<autostart, permit, tab, nav>>

\* ok() and release(), then the caller has the page.
Yields(c) ==
  /\ pc[c] = "settle" /\ Url(c) \notin OffPolicy
  /\ Now(c, "yielded")
  /\ permit' = permit \ {c}
  /\ paused' = paused \ {HostOf[c]}
  /\ UNCHANGED <<autostart, tab, nav>>

\* NavigationPolicyError: neutral().
OffHost(c) ==
  /\ pc[c] = "settle" /\ Url(c) \in OffPolicy
  /\ Shut(c)
  /\ Now(c, "leave")
  /\ UNCHANGED <<autostart, permit, paused, nav>>

\* The caller is done with the page, or cancelled.
UseEnds(c) ==
  /\ pc[c] = "yielded"
  /\ Shut(c)
  /\ Now(c, "leave")
  /\ UNCHANGED <<autostart, permit, paused, nav>>

\* Cleaned up: refused() for NavBlocked, which may open the breaker, release().
Leaves(c) ==
  /\ pc[c] = "leave"
  /\ paused' \in IF nav[c].blocked THEN {paused, paused \union {HostOf[c]}} ELSE {paused}
  /\ Ends(c)
  /\ UNCHANGED <<autostart, tab>>

-----------------------------------------------------------------------------
(* Chrome, the clock and the rest of the world.                             *)

TabCloses(c) ==
  /\ tab[c] = "closing"
  /\ tab' = [tab EXCEPT ![c] = "none"]
  /\ UNCHANGED <<autostart, pc, permit, paused, nav>>

ChromeChanges ==
  /\ Environment
  /\ tab' = IF launched' THEN tab ELSE [c \in Callers |-> "none"]
  /\ UNCHANGED <<permit, paused, nav>>

TimePasses == Tick /\ UNCHANGED pageVars

CooldownElapses(h) ==
  /\ h \in paused
  /\ paused' = paused \ {h}
  /\ UNCHANGED <<autostart, pc, permit, tab, nav>>

Attaches(c) == AttachTimesOut(c) \/ AttachFails(c) \/ AskForTab(c)
Asked(c)    == TargetKnown(c) \/ TargetUnknown(c)
Claims(c)   == Claim(c) \/ Detached(c)
Documents(c) == NothingLoads(c) \/ WallStays(c) \/ \E d \in Docs : Loads(c, d) \/ Reloads(c, d)
Settles(c)  == Yields(c) \/ OffHost(c)

Step(c) == Attach(c) \/ Attaches(c) \/ Asked(c) \/ Claims(c) \/ Aborted(c) \/ Documents(c) \/ Settles(c) \/ Leaves(c)

Next ==
  \/ \E c \in Callers :
       Begin(c) \/ Step(c) \/ UseEnds(c) \/ TabCreated(c) \/ TabCloses(c) \/ \E d \in Docs : Moves(c, d)
  \/ \E h \in Hosts : CooldownElapses(h)
  \/ ChromeChanges \/ TimePasses

Spec == Init /\ [][Next]_vars

\* Every await of open_page() before the yield has a timeout, and the loop
\* resumes whoever is ready.  Nothing makes a caller let go of its page.
Fairness ==
  /\ WF_vars(TimePasses)
  /\ \A c \in Callers :
       /\ WF_vars(pc[c] = "queued" /\ TakesLock(c) /\ Attach(c))
       /\ WF_vars(Attempt(c) /\ Attach(c))
       /\ WF_vars(Attaches(c)) /\ WF_vars(Asked(c)) /\ WF_vars(Leaves(c))
       /\ WF_vars(Claims(c) \/ Documents(c) \/ Settles(c) \/ Aborted(c))

FairSpec == Spec /\ Fairness

-----------------------------------------------------------------------------
(* Properties.                                                              *)

\* A call on its way out has told Chrome to close the tab it was named, however
\* often it failed or was cancelled: "ownership starts at createTarget".
NoTabLeft == \A c \in Callers : pc[c] = "leave" /\ nav[c].target => tab[c] # "open"

\* A tab is told to close by the call it belongs to, never by another client
\* that took it for its own.
PagesKept ==
  [][\A c \in Callers : tab[c] = "open" /\ tab'[c] = "closing" => pc[c] # "leave" /\ pc'[c] = "leave"]_vars

\* The page handed over passed the judgement: its document is none the host
\* refused, and its URL is inside the policy as far as the transport knows.
YieldsJudged ==
  [][\A c \in Callers : pc[c] = "settle" /\ pc'[c] = "yielded" =>
       /\ nav[c].seen \notin Failing
       /\ IF nav[c].raw THEN nav[c].seen \notin OffPolicy ELSE nav[c].doc \notin OffPolicy]_vars

\* "redirects to an arbitrary host are never allowed": the document of a page
\* that is handed over is inside the policy.
YieldedInPolicy ==
  [][\A c \in Callers : pc[c] = "settle" /\ pc'[c] = "yielded" => nav[c].doc \notin OffPolicy]_vars

\* The breaker counts what the site refused ("NavBlocked: the host actively
\* refused the main document"): a host is paused only as a call on it leaves that
\* still holds its permit and whose last document was a refusal.  A 403 that
\* reloaded into the page, a timeout or cancellation behind it, a navigation the
\* policy refused and a page already handed over never count.
BreakerEarned ==
  [][\A h \in paused' \ paused : \E c \in permit :
       HostOf[c] = h /\ pc[c] = "leave" /\ pc'[c] = "idle" /\ nav[c].seen \in Failing]_vars

\* Every permit is given back, whatever hangs ("a wedged CDP session cannot hang
\* a tool call indefinitely") and however long the page is used ("the permit
\* covers the navigation, not the page").
PermitsReturn == \A c \in Callers : c \in permit ~> c \notin permit

\* open_page() seen from the budget.  The bounds are what Begin asks for; that no
\* other step disturbs them is proved and not run (the runs' two calls never meet
\* a bound).
Admission == INSTANCE NavigationAdmission WITH active <- permit, Navs <- Callers
UsesAdmission == Admission!Spec
=============================================================================
