------------------------------ MODULE ItemPopups ------------------------------
(***************************************************************************)
(* aliexpress_connector/server.py, _cdp_card(): a call opens its item in a *)
(* new tab from a landing page, finds that tab among those of a Chrome it  *)
(* shares with the operator and with other processes, reads it, and closes *)
(* it on every way out.  _cdp_lock lets one such call in at a time, up to  *)
(* the end of its cleanup, so the module has one call after the other.     *)
(*                                                                         *)
(* A tab is Absent until Playwright delivers it, shows pages, and may be   *)
(* Closed.  Popup is the tab the call opens; the landing page may open     *)
(* Promos of its own; Foreign tabs are opened by anybody else, and what an *)
(* earlier call left behind is one of them to the next.                    *)
(***************************************************************************)
EXTENDS Naturals, FiniteSets

CONSTANTS
  Popup,    \* the tab the call opens
  Promos,   \* tabs the landing page opens by itself
  Foreign,  \* tabs of other clients of the same Chrome
  Comes,    \* what each of these may show when it is delivered
  Rounds    \* range(20): looks for the tab, a second apart

Tabs == {Popup} \cup Promos \cup Foreign

VARIABLES
  phase,    \* where the call is
  tab,      \* what each tab shows
  before,   \* the tabs there were when the call began to listen
  owned,    \* the tabs it takes for its own
  toAsk,    \* candidates collect_owned() has still to ask for their opener
  round,    \* looks made
  target,   \* the tabs read: none or one
  closing,  \* the owned tabs cleanup() has still to close
  tried,    \* (ghost) those it closed or tried to
  strange   \* (ghost) tabs that were delivered showing another item, or too
            \* late for cleanup() to see

vars == <<phase, tab, before, owned, toAsk, round, target, closing, tried, strange>>

Absent == "absent"
Closed == "closed"
Urls   == {"blank", "item", "another", "punish", "shop"}

\* The tab of the call is no other client's, and a tab comes showing some page.
TabsApart == Popup \notin Foreign /\ Comes \in [Tabs -> SUBSET Urls]

Present == {t \in Tabs : tab[t] \in Urls}

\* opener() of a tab is this landing page.
OpenedHere(t) == t \notin Foreign

Idle == "idle"

\* _cdp_card() has the lock and its landing page loads.
Begin ==
  /\ phase = Idle
  /\ phase' = "loading"
  /\ UNCHANGED <<tab, before, owned, toAsk, round, target, closing, tried, strange>>

\* Chrome or the network refuses the landing page, or it came over raw CDP,
\* which has no tabs to tell apart.
NoLanding ==
  /\ phase = "loading"
  /\ phase' = "ended"
  /\ UNCHANGED <<tab, before, owned, toAsk, round, target, closing, tried, strange>>

\* before, page.on("popup") and window.open(), with no await between.
Listen ==
  /\ phase = "loading"
  /\ phase' = "opening"
  /\ before' = Present
  /\ UNCHANGED <<tab, owned, toAsk, round, target, closing, tried, strange>>

Cleaning == {"collecting first", "waiting", "collecting last", "closing"}
Running  == {"opening", "looking", "collecting", "reading"}

\* finally: cleanup() runs as a task of its own, beginning with collect_owned().
CleanUp ==
  /\ phase' = "collecting first"
  /\ toAsk' = Present

\* window.open() is done, and the call sleeps before its first look.
Opened ==
  /\ phase = "opening"
  /\ phase' = "looking"
  /\ UNCHANGED <<tab, before, owned, toAsk, round, target, closing, tried, strange>>

\* It failed or its answer is late, or the caller is cancelled at whatever it
\* awaits.
Fail ==
  /\ phase \in Running
  /\ CleanUp
  /\ UNCHANGED <<tab, before, owned, round, target, closing, tried, strange>>

Look ==
  /\ phase = "looking"
  /\ round < Rounds
  /\ round' = round + 1
  /\ phase' = "collecting"
  /\ toAsk' = Present
  /\ UNCHANGED <<tab, before, owned, target, closing, tried, strange>>

\* Fault: the address of a tab is taken for proof of ownership.
AskNobody(t) ==
  /\ phase \in {"collecting", "collecting first", "collecting last"}
  /\ t \in toAsk
  /\ toAsk' = toAsk \ {t}
  /\ owned' = IF t \notin before /\ tab[t] \in {"item", "blank", "punish"} THEN owned \cup {t} ELSE owned
  /\ UNCHANGED <<phase, tab, before, round, target, closing, tried, strange>>

\* collect_owned(): the opener of a tab may fail to be told in time.
AskOpener(t) ==
  /\ phase \in {"collecting", "collecting first", "collecting last"}
  /\ t \in toAsk
  /\ toAsk' = toAsk \ {t}
  /\ \/ /\ t \notin before
        /\ tab[t] \in {"item", "blank", "punish"}
        /\ OpenedHere(t)
        /\ owned' = owned \cup {t}
     \/ UNCHANGED owned
  /\ UNCHANGED <<phase, tab, before, round, target, closing, tried, strange>>

\* A tab of the call that shows the item becomes the target.
Choose ==
  /\ phase = "collecting"
  /\ toAsk = {}
  /\ \/ \E t \in owned : tab[t] = "item" /\ target' = {t} /\ phase' = "reading"
     \/ /\ \A t \in owned : tab[t] # "item"
        /\ phase' = "looking"
        /\ UNCHANGED target
  /\ UNCHANGED <<tab, before, owned, toAsk, round, closing, tried, strange>>

\* The tab never materialised.
GiveUp ==
  /\ phase = "looking"
  /\ round = Rounds
  /\ CleanUp
  /\ UNCHANGED <<tab, before, owned, round, target, closing, tried, strange>>

\* The tab was read, whatever it showed: data, a challenge or nothing.
ReadEnds ==
  /\ phase = "reading"
  /\ CleanUp
  /\ UNCHANGED <<tab, before, owned, round, target, closing, tried, strange>>

StartClosing ==
  /\ phase' = "closing"
  /\ closing' = owned

\* With no tab of its own yet, cleanup() gives one two seconds to arrive.
CollectedFirst ==
  /\ phase = "collecting first"
  /\ toAsk = {}
  /\ \/ owned = {} /\ phase' = "waiting" /\ UNCHANGED closing
     \/ owned # {} /\ StartClosing
  /\ UNCHANGED <<tab, before, owned, toAsk, round, target, tried, strange>>

\* arrived is set, or the two seconds are over.
WaitEnds ==
  /\ phase = "waiting"
  /\ phase' = "collecting last"
  /\ toAsk' = Present
  /\ UNCHANGED <<tab, before, owned, round, target, closing, tried, strange>>

CollectedLast ==
  /\ phase = "collecting last"
  /\ toAsk = {}
  /\ StartClosing
  /\ UNCHANGED <<tab, before, owned, toAsk, round, target, tried, strange>>

\* close() succeeds, or fails or is late and is not tried again.
Close(t) ==
  /\ phase = "closing"
  /\ t \in closing
  /\ closing' = closing \ {t}
  /\ tried' = tried \cup {t}
  /\ \/ tab' = [tab EXCEPT ![t] = Closed]
     \/ UNCHANGED tab
  /\ UNCHANGED <<phase, before, owned, toAsk, round, target, strange>>

\* The landing page closes and the lock is given back.
End ==
  /\ phase = "closing"
  /\ closing = {}
  /\ phase' = "ended"
  /\ UNCHANGED <<tab, before, owned, toAsk, round, target, closing, tried, strange>>

\* Fault: a caller cancelled again does not wait for its cleanup.
CancelAbandons ==
  /\ phase \in Cleaning
  /\ phase' = "ended"
  /\ UNCHANGED <<tab, before, owned, toAsk, round, target, closing, tried, strange>>

\* asyncio.shield(): a caller cancelled again waits on for its cleanup.
CancelAgain == phase \in Cleaning /\ UNCHANGED vars

\* The next call knows nothing of this one, nor of its tabs.
Forget ==
  /\ phase = "ended"
  /\ phase' = Idle
  /\ tab' = [t \in Tabs |-> IF OpenedHere(t) \/ tab[t] = Closed THEN Absent ELSE tab[t]]
  /\ before' = {} /\ owned' = {} /\ toAsk' = {} /\ round' = 0
  /\ target' = {} /\ closing' = {} /\ tried' = {} /\ strange' = {}

-----------------------------------------------------------------------------
(* Chrome *)

Listening == phase \in Running \cup Cleaning

\* Playwright delivers a tab; its event reaches the page that opened it, and
\* observe_popup() leaves alone what shows another item.
Arrive(t, url) ==
  /\ tab[t] = Absent
  /\ t = Popup => Listening
  /\ t \in Promos => phase \notin {Idle, "ended"}
  /\ tab' = [tab EXCEPT ![t] = url]
  /\ owned' = IF Listening /\ OpenedHere(t) /\ url # "another" THEN owned \cup {t} ELSE owned
  /\ strange' = IF url = "another" \/ phase = "closing" THEN strange \cup {t} ELSE strange
  /\ UNCHANGED <<phase, before, toAsk, round, target, closing, tried>>

Moves == [blank |-> {"item", "punish", "shop"}, item |-> {"punish", "another"}, another |-> {"item"},
          punish |-> {"item"}, shop |-> {}]

\* A page redirects itself.  Those of others may come as anything they become.
Redirect(t) ==
  /\ t \in Present \ Foreign
  /\ \E url \in Moves[tab[t]] : tab' = [tab EXCEPT ![t] = url]
  /\ UNCHANGED <<phase, before, owned, toAsk, round, target, closing, tried, strange>>

\* The operator, or whoever opened it, closes a tab.
CloseElsewhere(t) ==
  /\ t \in Present
  /\ phase # Idle
  /\ tab' = [tab EXCEPT ![t] = Closed]
  /\ UNCHANGED <<phase, before, owned, toAsk, round, target, closing, tried, strange>>

Init ==
  /\ phase = Idle
  /\ tab = [t \in Tabs |-> Absent]
  /\ before = {} /\ owned = {} /\ toAsk = {} /\ round = 0
  /\ target = {} /\ closing = {} /\ tried = {} /\ strange = {}

Next ==
  \/ Begin \/ NoLanding \/ Listen \/ Opened \/ Fail \/ Look \/ Choose \/ GiveUp \/ ReadEnds
  \/ CollectedFirst \/ WaitEnds \/ CollectedLast \/ End \/ CancelAgain
  \/ Forget
  \/ \E t \in Tabs : AskOpener(t) \/ Close(t) \/ Redirect(t) \/ CloseElsewhere(t)
  \/ \E t \in Tabs : \E url \in Comes[t] : Arrive(t, url)

Spec == Init /\ [][Next]_vars
-----------------------------------------------------------------------------
(* Properties *)

(***************************************************************************)
(* "URL and arrival time are not ownership: other CDP clients see the same *)
(* broadcasts, including the very same item."  Whatever is read or closed  *)
(* was opened by the landing page of this call after it began to listen.   *)
(***************************************************************************)
OthersKept == \A t \in owned \cup target \cup tried : t \notin Foreign \cup before

(***************************************************************************)
(* "Keep the landing page and lock until bounded cleanup ends": when the   *)
(* lock is given back, however the call ended and however often it was     *)
(* cancelled, the tab it opened is closed or its close was tried - unless  *)
(* it came later than the cleanup looked, or as the page of another item.  *)
(***************************************************************************)
NoPopupLeft == phase = "ended" /\ tab[Popup] \in Urls => Popup \in tried \cup strange

TabsSettled == OthersKept /\ NoPopupLeft
=============================================================================
