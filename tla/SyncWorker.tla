------------------------------ MODULE SyncWorker ------------------------------
(***************************************************************************)
(* ozon_connector/server.py, _sync_call_in_process(), with the end of a    *)
(* worker in mcp_core/process.py: a thread has one blocking GET made by a  *)
(* process of its own, waits for it under a timeout, and takes the answer  *)
(* from a temporary file.  The worker is another process, and may be       *)
(* anywhere when the timeout strikes.                                      *)
(***************************************************************************)
EXTENDS Naturals

CONSTANT Results  \* what the function may return

VARIABLES
  phase,   \* where the thread is
  worker,  \* where the worker is
  result,  \* what the function returned in it, or that it raised
  file,    \* the temporary file: absent, empty, torn, or what is in it
  ended,   \* what the thread's caller gets
  spared   \* (ghost) the thread could not kill the worker, or not spawn it

vars == <<phase, worker, result, file, ended, spared>>

None    == "none"
Raised  == "raised"
Alive   == {"starting", "working", "writing"}

\* What the function returns is told from what else a call or a file may hold.
ResultsDistinct == Results \cap {None, Raised, "error", "timeout", "absent", "empty", "torn"} = {}

Begin ==
  /\ phase = "idle"
  /\ phase' = "spawning"
  /\ file' = "empty"
  /\ UNCHANGED <<worker, result, ended, spared>>

Spawn ==
  /\ phase = "spawning"
  /\ phase' = "feeding"
  /\ worker' = "starting"
  /\ UNCHANGED <<result, file, ended, spared>>

\* Popen() is before the try: nobody removes the file.
SpawnFails ==
  /\ phase = "spawning"
  /\ phase' = "ended"
  /\ ended' = "error"
  /\ spared' = TRUE
  /\ UNCHANGED <<worker, result, file>>

\* stdin is written and closed; a worker that has died breaks the pipe.
Written ==
  /\ phase = "feeding"
  /\ \/ phase' = "waiting" /\ UNCHANGED ended
     \/ worker = "dead" /\ phase' = "removing" /\ ended' = "error"
  /\ UNCHANGED <<worker, result, file, spared>>

Waited ==
  /\ phase = "waiting"
  /\ \/ worker = "done" /\ phase' = "reading" /\ UNCHANGED ended
     \/ worker = "dead" /\ phase' = "removing" /\ ended' = "error"
  /\ UNCHANGED <<worker, result, file, spared>>

\* TimeoutExpired, however far the worker has come.
TimesOut ==
  /\ phase = "waiting"
  /\ phase' = "killing"
  /\ ended' = "timeout"
  /\ UNCHANGED <<worker, result, file, spared>>

\* A file that cannot be unpickled is an error.
Read ==
  /\ phase = "reading"
  /\ phase' = "removing"
  /\ ended' = IF file \in Results THEN file ELSE "error"
  /\ UNCHANGED <<worker, result, file, spared>>

\* Fault: the worker is left to end by itself.
KillsNobody ==
  /\ phase = "killing"
  /\ phase' = "removing"
  /\ UNCHANGED <<worker, result, file, ended, spared>>

\* terminate_process_tree(): killpg(), taskkill or kill(); a taskkill that
\* fails without an exception leaves the worker running.
Kill ==
  /\ phase = "killing"
  /\ phase' = "removing"
  /\ \/ worker' = (IF worker \in Alive THEN "dead" ELSE worker) /\ UNCHANGED spared
     \/ worker \in Alive /\ spared' = TRUE /\ UNCHANGED worker
  /\ UNCHANGED <<result, file, ended>>

Remove ==
  /\ phase = "removing"
  /\ phase' = "ended"
  /\ file' = "absent"
  /\ UNCHANGED <<worker, result, ended, spared>>

\* The next call has a file and a worker of its own.
Forget ==
  /\ phase = "ended"
  /\ phase' = "idle"
  /\ worker' = None
  /\ result' = None
  /\ file' = "absent"
  /\ ended' = None
  /\ spared' = FALSE

-----------------------------------------------------------------------------
(* The worker *)

\* It reads what to call up to the end of its stdin, calls it, ...
WorkerCalls ==
  /\ worker = "starting"
  /\ phase \notin {"spawning", "feeding"}
  /\ worker' = "working"
  /\ result' \in Results \cup {Raised}
  /\ UNCHANGED <<phase, file, ended, spared>>

\* ... opens the file, which empties it and makes it anew if it is gone, ...
WorkerOpens ==
  /\ worker = "working"
  /\ worker' = "writing"
  /\ file' = "torn"
  /\ UNCHANGED <<phase, result, ended, spared>>

\* ... and ends with all of it written.
WorkerEnds ==
  /\ worker = "writing"
  /\ worker' = "done"
  /\ file' = result
  /\ UNCHANGED <<phase, result, ended, spared>>

\* It cannot start, its disk is full, or somebody kills it.
WorkerDies ==
  /\ worker \in Alive
  /\ worker' = "dead"
  /\ UNCHANGED <<phase, result, file, ended, spared>>

Init ==
  /\ phase = "idle"
  /\ worker = None
  /\ result = None
  /\ file = "absent"
  /\ ended = None
  /\ spared = FALSE

Next ==
  \/ Begin \/ Spawn \/ SpawnFails \/ Written \/ Waited \/ TimesOut \/ Read \/ Kill \/ Remove \/ Forget
  \/ WorkerCalls \/ WorkerOpens \/ WorkerEnds \/ WorkerDies

Spec == Init /\ [][Next]_vars
-----------------------------------------------------------------------------
(* Properties *)

(***************************************************************************)
(* "a throwaway child process so a hung TLS handshake can never wedge the  *)
(* event loop": whenever the timeout strikes or the worker dies, a page is *)
(* told only as the worker that ended well returned it, and a call that    *)
(* ended leaves neither a worker running nor a file behind - unless the    *)
(* system would not spawn the one or kill it.                              *)
(***************************************************************************)
WorkerSettled ==
  /\ ended \in Results => worker = "done" /\ ended = result
  /\ phase = "ended" /\ ~spared => worker \notin Alive /\ file = "absent"
=============================================================================
