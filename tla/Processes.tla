------------------------------ MODULE Processes ------------------------------
(***************************************************************************)
(* FFmpegProcessManager (utils/ffmpeg.py), the owner of FFmpeg and ffprobe *)
(* subprocesses: `create` and `run` submit a handle whose runner task      *)
(* (_execute) takes a permit, spawns the process, feeds its stdin, waits   *)
(* for the exit, drains the pipes and publishes one result.  `stop` asks   *)
(* FFmpeg to quit through stdin, then terminates, then kills; `kill` kills *)
(* at once; `close` stops everything the manager still tracks.             *)
(*                                                                         *)
(* Each handle h has up to three operations at work on it: "run" (the stop *)
(* that follows run's timeout), "kill" (a caller's kill) and "close" (the  *)
(* stop gathered by close).                                                *)
(***************************************************************************)
EXTENDS Naturals, FiniteSets

CONSTANTS Handles,      \* submitted processes
          HasInput,     \* the handles submitted with input_data
          MaxProcesses, \* permits of the semaphore
          Asked         \* pairs <<h, "run">>, <<h, "kill">>: the operations
                        \* callers may begin on the handles

ASSUME ProcessesAssumption ==
    /\ IsFiniteSet(Handles) /\ HasInput \subseteq Handles
    /\ MaxProcesses \in Nat \ {0}
    /\ Asked \subseteq Handles \X {"run", "kill"}

VARIABLES
    state,    \* FFmpegProcessState of the handle; "new" before create
    runner,   \* where the handle's _execute task is
    proc,     \* the OS process: "none", "alive", "exited"
    signal,   \* strongest request the process received
    pipe,     \* its stdin: "ready", "full" (writes wait), "broken"
    stopRq,   \* handle._stop_requested
    forceRq,  \* handle._force_kill_requested
    result,   \* state published through handle._completion
    op,       \* op[h][k]: where operation k on the handle is
    closed    \* manager._closed

processVars == <<state, runner, proc, signal, pipe, stopRq, forceRq, result,
                 op, closed>>

Operations == {"run", "kill", "close"}

FinalStates == {"succeeded", "failed", "cancelled", "killed"}

(* Runner positions at which the task holds a permit.                      *)
Holding == {"spawn", "input", "wait", "drain", "unwind", "killwait"}

Holders == {h \in Handles : runner[h] \in Holding}

(* self._processes: what close looks at.                                   *)
Tracked == {h \in Handles : state[h] # "new" /\ result[h] = "none"}

ProcessesInit ==
    /\ state = [h \in Handles |-> "new"]
    /\ runner = [h \in Handles |-> "none"]
    /\ proc = [h \in Handles |-> "none"]
    /\ signal = [h \in Handles |-> "none"]
    /\ pipe = [h \in Handles |-> "ready"]
    /\ stopRq = [h \in Handles |-> FALSE]
    /\ forceRq = [h \in Handles |-> FALSE]
    /\ result = [h \in Handles |-> "none"]
    /\ op = [h \in Handles |-> [k \in Operations |-> "none"]]
    /\ closed = FALSE

-----------------------------------------------------------------------------
(* _complete: the first completion publishes, later ones return.           *)
Complete(h, s) ==
    IF result[h] # "none"
    THEN UNCHANGED <<state, result>>
    ELSE /\ state' = [state EXCEPT ![h] = s]
         /\ result' = [result EXCEPT ![h] = s]

CancelledState(h) == IF forceRq'[h] THEN "killed" ELSE "cancelled"

(* _terminal_state: a stop request names the state, otherwise the exit     *)
(* code and the stream callbacks (one that raised makes it FAILED) do.     *)
TerminalStates(h) ==
    CASE forceRq[h]               -> {"killed"}
      [] stopRq[h] /\ ~forceRq[h] -> {"cancelled"}
      [] OTHER                    -> {"succeeded", "failed"}

(* create, refused once the manager is closed.                             *)
Create(h) ==
    /\ state[h] = "new" /\ ~closed
    /\ state' = [state EXCEPT ![h] = "queued"]
    /\ runner' = [runner EXCEPT ![h] = "acquire"]
    /\ UNCHANGED <<proc, signal, pipe, stopRq, forceRq, result, op,
                   closed>>

(* semaphore.acquire returns and the process is being spawned.  (A stop    *)
(* that came first has cancelled the runner and completed the handle.)     *)
Acquire(h) ==
    /\ runner[h] = "acquire" /\ Cardinality(Holders) < MaxProcesses
    /\ state' = [state EXCEPT ![h] = "starting"]
    /\ runner' = [runner EXCEPT ![h] = "spawn"]
    /\ UNCHANGED <<proc, signal, pipe, stopRq, forceRq, result, op,
                   closed>>

(* create_subprocess_exec returns: RUNNING, wait_started is released.      *)
Spawned(h) ==
    /\ runner[h] = "spawn"
    /\ proc' = [proc EXCEPT ![h] = "alive"]
    /\ state' = [state EXCEPT ![h] = "running"]
    /\ runner' = [runner EXCEPT ![h] = IF h \in HasInput THEN "input"
                                       ELSE "wait"]
    /\ \E p \in IF h \in HasInput THEN {"ready", "full"} ELSE {"ready"} :
          pipe' = [pipe EXCEPT ![h] = p]
    /\ UNCHANGED <<signal, stopRq, forceRq, result, op, closed>>

(* It raises: the executable is missing, or no process can be made.        *)
SpawnFails(h) ==
    /\ runner[h] = "spawn"
    /\ Complete(h, "failed")
    /\ runner' = [runner EXCEPT ![h] = "done"]
    /\ UNCHANGED <<proc, signal, pipe, stopRq, forceRq, op, closed>>

(* stdin.drain returns and stdin is closed.                                *)
InputWritten(h) ==
    /\ runner[h] = "input" /\ pipe[h] = "ready"
    /\ runner' = [runner EXCEPT ![h] = "wait"]
    /\ UNCHANGED <<state, proc, signal, pipe, stopRq, forceRq,
                   result, op, closed>>

(* stdin.drain raises because the pipe broke: the handle is FAILED and no  *)
(* longer tracked, whatever the process does.                              *)
InputFails(h) ==
    /\ runner[h] = "input" /\ pipe[h] = "broken"
    /\ Complete(h, "failed")
    /\ runner' = [runner EXCEPT ![h] = "unwind"]
    /\ UNCHANGED <<proc, signal, pipe, stopRq, forceRq, op, closed>>

(* process.wait returns.                                                   *)
Waited(h) ==
    /\ runner[h] = "wait" /\ proc[h] = "exited"
    /\ runner' = [runner EXCEPT ![h] = "drain"]
    /\ UNCHANGED <<state, proc, signal, pipe, stopRq, forceRq,
                   result, op, closed>>

(* The stream tasks reached end of file; the result is published and the   *)
(* permit goes back.                                                       *)
Drained(h) ==
    /\ runner[h] = "drain"
    /\ \E s \in TerminalStates(h) : Complete(h, s)
    /\ runner' = [runner EXCEPT ![h] = "done"]
    /\ UNCHANGED <<proc, signal, pipe, stopRq, forceRq, op, closed>>

(* Defect: the permit goes back before the stream tasks are awaited.       *)
UnwindEarly(h) ==
    /\ runner[h] = "unwind"
    /\ runner' = [runner EXCEPT ![h] = "done"]
    /\ UNCHANGED <<state, proc, signal, pipe, stopRq, forceRq, result, op,
                   closed>>

(* The finally of a failed runner: the stream tasks end when the process   *)
(* closes its pipes, and only then the permit goes back.                   *)
Unwind(h) ==
    /\ runner[h] = "unwind" /\ proc[h] = "exited"
    /\ runner' = [runner EXCEPT ![h] = "done"]
    /\ UNCHANGED <<state, proc, signal, pipe, stopRq, forceRq,
                   result, op, closed>>

(* The event loop cancels the runner at its end (asyncio.run): a live      *)
(* process is killed and awaited before the handle is completed.           *)
RunnerCancelled(h) ==
    /\ runner[h] \in {"spawn", "input", "wait"} /\ closed
    /\ IF proc[h] = "alive"
       THEN /\ forceRq' = [forceRq EXCEPT ![h] = TRUE]
            /\ signal' = [signal EXCEPT ![h] = "kill"]
            /\ runner' = [runner EXCEPT ![h] = "killwait"]
            /\ UNCHANGED <<state, result>>
       ELSE /\ UNCHANGED <<forceRq, signal>>
            /\ Complete(h, CancelledState(h))
            /\ runner' = [runner EXCEPT ![h] = "done"]
    /\ UNCHANGED <<proc, pipe, stopRq, op, closed>>

KilledWaited(h) ==
    /\ runner[h] = "killwait" /\ proc[h] = "exited"
    /\ UNCHANGED forceRq
    /\ Complete(h, CancelledState(h))
    /\ runner' = [runner EXCEPT ![h] = "done"]
    /\ UNCHANGED <<proc, signal, pipe, stopRq, op, closed>>

-----------------------------------------------------------------------------
(* The process: it exits by itself, or because of a signal; its stdin      *)
(* accepts more, or is closed while the process lives on.                  *)
Exit(h) ==
    /\ proc[h] = "alive"
    /\ proc' = [proc EXCEPT ![h] = "exited"]
    /\ pipe' = [pipe EXCEPT ![h] = "broken"]
    /\ UNCHANGED <<state, runner, signal, stopRq, forceRq, result,
                   op, closed>>

Killed(h) == signal[h] = "kill" /\ Exit(h)

ReadsInput(h) ==
    /\ proc[h] = "alive" /\ pipe[h] = "full"
    /\ \E p \in {"ready", "broken"} : pipe' = [pipe EXCEPT ![h] = p]
    /\ UNCHANGED <<state, runner, proc, signal, stopRq, forceRq,
                   result, op, closed>>

-----------------------------------------------------------------------------
OpAt(h, k, p) == [op EXCEPT ![h] = [@ EXCEPT ![k] = p]]

(* The body of stop and of kill up to its first suspension.  A queued      *)
(* handle is cancelled with its runner; one being spawned is waited for;   *)
(* a live process is asked to quit, or killed.                             *)
Request(h, k) ==
    IF state[h] \in FinalStates
    THEN /\ op' = OpAt(h, k, "wait")
         /\ UNCHANGED <<state, runner, signal, stopRq, forceRq, result>>
    ELSE /\ stopRq' = [stopRq EXCEPT ![h] = TRUE]
         /\ forceRq' = [forceRq EXCEPT ![h] = @ \/ k = "kill"]
         /\ \/ /\ proc[h] = "none" /\ state[h] = "queued"
               /\ runner' = [runner EXCEPT ![h] = "done"]
               /\ Complete(h, CancelledState(h))
               /\ op' = OpAt(h, k, "wait")
               /\ UNCHANGED signal
            \/ /\ proc[h] = "none" /\ state[h] # "queued"
               /\ op' = OpAt(h, k, "started")
               /\ UNCHANGED <<state, runner, signal, result>>
            \/ /\ proc[h] # "none"
               /\ state' = [state EXCEPT ![h] = "stopping"]
               /\ op' = OpAt(h, k, IF k = "kill" THEN "wait" ELSE "quit")
               /\ signal' = [signal EXCEPT ![h] =
                                IF k = "kill" THEN "kill" ELSE @]
               /\ UNCHANGED <<runner, result>>

(* run's wait_for expires, or a caller kills the handle.                   *)
Ask(h, k) ==
    /\ <<h, k>> \in Asked /\ op[h][k] = "none" /\ state[h] # "new"
    /\ k = "run" => result[h] = "none"
    /\ Request(h, k)
    /\ UNCHANGED <<proc, pipe, closed>>

(* wait_started returns: the process exists, or the spawn failed.          *)
AskAgain(h, k) ==
    /\ op[h][k] = "started" /\ state[h] \notin {"queued", "starting"}
    /\ Request(h, k)
    /\ UNCHANGED <<proc, pipe, closed>>

(* _request_ffmpeg_quit: the drain of the quit command waits while the     *)
(* pipe is full; a broken pipe is ignored.                                 *)
QuitWritten(h, k) ==
    /\ op[h][k] = "quit" /\ pipe[h] # "full"
    /\ op' = OpAt(h, k, IF proc[h] = "exited" THEN "wait" ELSE "grace")
    /\ UNCHANGED <<state, runner, proc, signal, pipe, stopRq, forceRq, result, closed>>

(* _wait_process sees the exit within the grace or the terminate timeout.  *)
ExitSeen(h, k) ==
    /\ op[h][k] \in {"grace", "term"} /\ proc[h] = "exited"
    /\ op' = OpAt(h, k, "wait")
    /\ UNCHANGED <<state, runner, proc, signal, pipe, stopRq, forceRq, result, closed>>

(* Defect: SIGTERM is the last resort.                                     *)
EscalateTerm(h, k) ==
    /\ op[h][k] = "grace" /\ proc[h] = "alive"
    /\ op' = OpAt(h, k, "wait")
    /\ UNCHANGED <<state, runner, proc, signal, pipe, stopRq, forceRq,
                   result, closed>>

(* The grace timeout: SIGTERM to the group.  The terminate timeout:        *)
(* SIGKILL.                                                                *)
Escalate(h, k) ==
    \/ /\ op[h][k] = "grace" /\ proc[h] = "alive"
       /\ op' = OpAt(h, k, "term")
       /\ UNCHANGED <<state, runner, proc, signal, pipe, stopRq, forceRq, result, closed>>
    \/ /\ op[h][k] = "term" /\ proc[h] = "alive"
       /\ forceRq' = [forceRq EXCEPT ![h] = TRUE]
       /\ signal' = [signal EXCEPT ![h] = "kill"]
       /\ op' = OpAt(h, k, "wait")
       /\ UNCHANGED <<state, runner, proc, pipe, stopRq, result,
                      closed>>

(* handle.wait returns the published result.                               *)
Return(h, k) ==
    /\ op[h][k] = "wait" /\ result[h] # "none"
    /\ op' = OpAt(h, k, "done")
    /\ UNCHANGED <<state, runner, proc, signal, pipe, stopRq, forceRq, result, closed>>

(* close: no more work is accepted, and one stop is gathered for every     *)
(* tracked handle; each of them then makes its own first step.             *)
CloseManager ==
    /\ ~closed
    /\ closed' = TRUE
    /\ op' = [h \in Handles |->
                 IF h \in Tracked THEN [op[h] EXCEPT !["close"] = "ask"]
                 ELSE op[h]]
    /\ UNCHANGED <<state, runner, proc, signal, pipe, stopRq, forceRq, result>>

CloseStops(h) ==
    /\ op[h]["close"] = "ask"
    /\ Request(h, "close")
    /\ UNCHANGED <<proc, pipe, closed>>

RunnerStep(h) ==
    \/ Acquire(h) \/ Spawned(h) \/ SpawnFails(h) \/ InputWritten(h)
    \/ InputFails(h) \/ Waited(h) \/ Drained(h) \/ Unwind(h)
    \/ KilledWaited(h)

OperationStep(h, k) ==
    \/ AskAgain(h, k) \/ QuitWritten(h, k) \/ ExitSeen(h, k)
    \/ Escalate(h, k) \/ Return(h, k) \/ (k = "close" /\ CloseStops(h))

ProcessesNext ==
    \/ CloseManager
    \/ \E h \in Handles :
          \/ Create(h) \/ RunnerStep(h)
          \/ RunnerCancelled(h) \/ Exit(h) \/ ReadsInput(h)
          \/ \E k \in Operations : Ask(h, k) \/ OperationStep(h, k)

(* Tasks that can run do; the kernel delivers SIGKILL.  A process need not *)
(* end by itself, honour the quit command or SIGTERM, or read its stdin.   *)
ProcessesSpec ==
    /\ ProcessesInit /\ [][ProcessesNext]_processVars
    /\ \A h \in Handles :
          /\ WF_processVars(RunnerStep(h))
          /\ WF_processVars(Killed(h))
          /\ \A k \in Operations : WF_processVars(OperationStep(h, k))

-----------------------------------------------------------------------------
ProcessesTypeOK ==
    /\ state \in [Handles -> {"new", "queued", "starting", "running",
                              "stopping"} \cup FinalStates]
    /\ runner \in [Handles -> {"none", "acquire", "done"} \cup Holding]
    /\ proc \in [Handles -> {"none", "alive", "exited"}]
    /\ signal \in [Handles -> {"none", "kill"}]
    /\ pipe \in [Handles -> {"ready", "full", "broken"}]
    /\ stopRq \in [Handles -> BOOLEAN] /\ forceRq \in [Handles -> BOOLEAN]
    /\ result \in [Handles -> {"none"} \cup FinalStates]
    /\ op \in [Handles -> [Operations -> {"none", "ask", "started", "quit",
                                          "grace", "term", "wait", "done"}]]
    /\ closed \in BOOLEAN

(* The types hold; live processes never exceed max_processes, also when    *)
(* runners fail, are cancelled, or lose a stop race; and a handle whose    *)
(* result is published keeps that state (_execute's finally, _complete).   *)
BoundedAndFinal ==
    /\ ProcessesTypeOK
    /\ Cardinality({h \in Handles : proc[h] = "alive"}) <= MaxProcesses
    /\ \A h \in Handles : result[h] # "none" => state[h] = result[h]

(* When every stop gathered by close has returned, no process of the       *)
(* manager is alive, except one whose stdin broke under its input_data:    *)
(* _execute published FAILED and untracked it while it was still running.  *)
NoneLeft ==
    (closed /\ \A h \in Handles : op[h]["close"] \in {"none", "done"})
    => \A h \in Handles :
          proc[h] = "alive" => runner[h] = "unwind" \/ runner[h] = "killwait"

(* Both, in every state.                                                   *)
ProcessesInv == BoundedAndFinal /\ NoneLeft

(* A stop, a kill and the stops of close return, provided the process's    *)
(* stdin does not stay full: the write of the quit command has no timeout. *)
StopsReturn ==
    \A x \in Asked \cup (Handles \X {"close"}) :
       LET h == x[1]
           k == x[2]
       IN ([]<>(pipe[h] # "full")) =>
             ((op[h][k] \notin {"none", "done"}) ~> (op[h][k] = "done"))

(* Request graceful shutdown, then terminate if it stays alive: the        *)
(* docstring of FFmpegProcess.stop, without that proviso.  A full stdin    *)
(* refutes it, so no run checks it.                                        *)
StopAlwaysReturns ==
    \A h \in Handles : (op[h]["run"] = "quit") ~> (op[h]["run"] = "done")
=============================================================================
