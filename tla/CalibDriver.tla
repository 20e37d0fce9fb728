----------------------------- MODULE CalibDriver ----------------------------
(***************************************************************************)
(* One process of the calibration driver: the phases of main and of _run,  *)
(* the manifest they keep on disk, and the watchdogs.  Loading the model   *)
(* and stepping the engine may never return; each such call is made under  *)
(* a Watchdog, a timer thread which at the deadline writes its evidence,   *)
(* completes the manifest and ends the process with os._exit(3), whatever  *)
(* the main thread is doing.  A timer that is already running cannot be    *)
(* cancelled, so the two threads can meet in the manifest.                 *)
(*                                                                         *)
(* Of the manifest only what tells how the run ended is kept.  The engine  *)
(* is external: a call returns, raises or hangs.                           *)
(***************************************************************************)
EXTENDS Naturals

CONSTANTS
    Arms,           \* arms that are run: "global", "masked", "reference"
    CleanupChecks,  \* values of --cleanup-check; the fixture arms require it
    MaxMishaps      \* exceptions and file operations that fail

ASSUME CalibDriverAssumption ==
    /\ Arms \subseteq {"global", "masked", "reference"}
    /\ CleanupChecks \subseteq BOOLEAN /\ MaxMishaps \in Nat

Labels == {"startup", "request", "failure-cleanup", "cleanup"}

VARIABLES
    arm, cleanupCheck,
    \* the main thread
    mainPc, cont,       \* cont: where main goes on after a save
    err,            \* "none", "error", "budget" or "escaped": what is in flight
    failed,         \* CheckLog.failed is not empty
    wrapped,        \* restore_capture is on the ExitStack
    code, mem,      \* exit_code and the manifest in memory
    \* the disk
    fileState, file,    \* manifest.json: "absent", "torn" or "whole"
    evidence,           \* labels with a budget_exceeded file
    errorTxt,
    \* the watchdogs
    timer,          \* timer[l]: how far the thread of l has come
    expired,        \* expired[l]: its deadline has passed
    seen,           \* seen[l]: the manifest the thread has read
    lost,           \* the labels whose thread could not write
    \* the process
    status,         \* "running", "returned", "escaped" or "killed"
    killer,         \* the watchdog that ended it
    mishaps

mainVars == <<mainPc, cont, err, failed, wrapped, code, mem>>
diskVars == <<fileState, file, evidence, errorTxt>>
timerVars == <<timer, expired, seen, lost>>
procVars == <<arm, cleanupCheck, status, killer>>
driverVars == <<mainVars, diskVars, timerVars, procVars, mishaps>>

Fixture == arm # "global"

\* ended_cst is set; exit_code, which is None before; failures and notes are
\* not empty.
Manifests == [ended : BOOLEAN, code : 0..3, failures : BOOLEAN, notes : BOOLEAN]
Begun == [ended |-> FALSE, code |-> 1, failures |-> FALSE, notes |-> FALSE]

DriverInit ==
    /\ arm \in Arms
    /\ cleanupCheck \in IF Fixture THEN {TRUE} ELSE CleanupChecks
    /\ mainPc = "begin" /\ cont = "begin" /\ err = "none" /\ failed = FALSE /\ wrapped = FALSE
    /\ code = 1 /\ mem = Begun
    /\ fileState = "absent" /\ file = Begun /\ evidence = {} /\ errorTxt = FALSE
    /\ timer = [l \in Labels |-> "off"] /\ expired = [l \in Labels |-> FALSE]
    /\ seen = [l \in Labels |-> Begun] /\ lost = {}
    /\ status = "running" /\ killer = "none" /\ mishaps = 0

Mishap == mishaps < MaxMishaps /\ mishaps' = mishaps + 1

At(here) == status = "running" /\ mainPc = here

GoOn(next) == mainPc' = next /\ UNCHANGED cont

-----------------------------------------------------------------------------
(* save_manifest opens the file, which empties it, and then writes.        *)

Save(next) ==
    /\ mainPc' = "write" /\ cont' = next
    /\ fileState' = "torn"
    /\ UNCHANGED <<file, evidence, errorTxt>>

Write ==
    /\ At("write")
    /\ mainPc' = cont /\ file' = mem /\ fileState' = "whole"
    /\ UNCHANGED <<cont, err, failed, wrapped, code, mem, evidence, errorTxt, timerVars, procVars, mishaps>>

\* The first save precedes the try of main, the last one is in its finally:
\* nothing catches what they raise.
WriteFails ==
    /\ At("write")
    /\ Mishap
    /\ err' = IF cont \in {"deploy", "exit"} THEN "escaped" ELSE "error"
    /\ GoOn(CASE cont \in {"deploy", "exit"} -> "exit"
              [] cont \in {"load", "except"} -> "except"
              [] OTHER                       -> "unwind")
    /\ UNCHANGED <<failed, wrapped, code, mem, diskVars, timerVars, procVars>>

-----------------------------------------------------------------------------
(* Regions under a watchdog.                                               *)

\* Mutant: the clean-up of a failed request is not watched.
EnterUnwatched(l) ==
    /\ timer' = IF l = "failure-cleanup" THEN timer ELSE [timer EXCEPT ![l] = "armed"]
    /\ UNCHANGED <<expired, seen, lost>>

Enter(l) == timer' = [timer EXCEPT ![l] = "armed"] /\ UNCHANGED <<expired, seen, lost>>

\* Timer.cancel has no effect on a thread that has begun.
Exit(l) ==
    /\ timer' = IF timer[l] = "armed" THEN [timer EXCEPT ![l] = "off"] ELSE timer
    /\ UNCHANGED <<expired, seen, lost>>

\* Mutant: the elapsed time is not looked at again.
LateNever(l) == FALSE

Late(l) == expired[l]

\* Where an exception goes that is raised at pc.
Raise(e) ==
    /\ err' = e
    /\ GoOn(IF mainPc \in {"enter", "request", "request_check"} THEN "handler"
            ELSE IF mainPc \in {"deploy"} THEN "except" ELSE "unwind")

-----------------------------------------------------------------------------
(* main and _run up to the request.                                        *)

Begin ==
    /\ At("begin")
    /\ Save("deploy")
    /\ UNCHANGED <<err, failed, wrapped, code, mem, timerVars, procVars, mishaps>>

Deploy ==
    /\ At("deploy")
    /\ \/ Save("load") /\ UNCHANGED <<err, mishaps>>
       \/ Mishap /\ Raise("error") /\ UNCHANGED diskVars
    /\ UNCHANGED <<failed, wrapped, code, mem, timerVars, procVars>>

Load ==
    /\ At("load")
    /\ \/ GoOn("startup") /\ Enter("startup") /\ UNCHANGED <<err, mishaps>>
       \/ Mishap /\ Raise("error") /\ UNCHANGED timerVars
    /\ UNCHANGED <<failed, wrapped, code, mem, diskVars, procVars>>

\* LLM(...), in the engine: nothing promises that it returns.
Startup ==
    /\ At("startup")
    /\ Exit("startup")
    /\ \/ GoOn("startup_check") /\ UNCHANGED <<err, mishaps>>
       \/ Mishap /\ Raise("error")
    /\ UNCHANGED <<failed, wrapped, code, mem, diskVars, procVars>>

StartupCheck ==
    /\ At("startup_check")
    /\ IF Late("startup") THEN Raise("budget") ELSE GoOn("prepare") /\ UNCHANGED err
    /\ UNCHANGED <<failed, wrapped, code, mem, diskVars, timerVars, procVars, mishaps>>

\* Installs the capture, submits the request and writes the control file.  The
\* global arm can be run without the capture (--no-record-layers); an exception
\* may come before it is on the ExitStack or after.
Prepare ==
    /\ At("prepare")
    /\ \E w \in BOOLEAN : wrapped' = w
    /\ \/ (wrapped' \/ ~Fixture) /\ Save("enter") /\ UNCHANGED <<err, mishaps>>
       \/ Mishap /\ Raise("error") /\ UNCHANGED diskVars
    /\ UNCHANGED <<failed, code, mem, timerVars, procVars>>

EnterRequest ==
    /\ At("enter")
    /\ \/ GoOn("request") /\ Enter("request") /\ UNCHANGED <<err, mishaps>>
       \/ Mishap /\ Raise("error") /\ UNCHANGED timerVars
    /\ UNCHANGED <<failed, wrapped, code, mem, diskVars, procVars>>

\* drive_main_request, in the engine.
Request ==
    /\ At("request")
    /\ Exit("request")
    /\ \/ GoOn("request_check") /\ UNCHANGED <<err, mishaps>>
       \/ Mishap /\ Raise("error")
    /\ UNCHANGED <<failed, wrapped, code, mem, diskVars, procVars>>

RequestCheck ==
    /\ At("request_check")
    /\ IF Late("request") THEN Raise("budget") ELSE GoOn("judge") /\ UNCHANGED err
    /\ UNCHANGED <<failed, wrapped, code, mem, diskVars, timerVars, procVars, mishaps>>

-----------------------------------------------------------------------------
(* A failed request of a fixture arm is aborted in the engine.             *)

Handler ==
    /\ At("handler")
    /\ \/ /\ Fixture
          /\ GoOn("abort") /\ Enter("failure-cleanup") /\ UNCHANGED <<err, mishaps>>
       \/ Fixture /\ Mishap /\ Raise("error") /\ UNCHANGED timerVars
       \/ ~Fixture /\ Raise(err) /\ UNCHANGED <<timerVars, mishaps>>
    /\ UNCHANGED <<failed, wrapped, code, mem, diskVars, procVars>>

\* abort_request and one step, in the engine; an exception is only noted.
Abort ==
    /\ At("abort")
    /\ Exit("failure-cleanup")
    /\ GoOn("abort_done")
    /\ UNCHANGED <<err, failed, wrapped, code, mem, diskVars, procVars, mishaps>>

AbortDone ==
    /\ At("abort_done")
    /\ Save("unwind")
    /\ UNCHANGED <<err, failed, wrapped, code, mem, timerVars, procVars, mishaps>>

-----------------------------------------------------------------------------
(* The checks, the clean-up check and the result.                          *)

\* Mutant: the judgement waits for the last save.
RecordsJudgementNever == FALSE

RecordsJudgement == Fixture

AfterJudge == IF cleanupCheck THEN "enter_cleanup" ELSE "finish"

Judge ==
    /\ At("judge")
    /\ \/ /\ failed' \in BOOLEAN
          /\ IF RecordsJudgement
             THEN mem' = [mem EXCEPT !.failures = failed'] /\ Save(AfterJudge)
             ELSE GoOn(AfterJudge) /\ UNCHANGED <<mem, diskVars>>
          /\ UNCHANGED <<err, mishaps>>
       \/ Mishap /\ Raise("error") /\ UNCHANGED <<failed, mem, diskVars>>
    /\ UNCHANGED <<wrapped, code, timerVars, procVars>>

EnterCleanup ==
    /\ At("enter_cleanup")
    /\ GoOn("cleanup") /\ Enter("cleanup")
    /\ UNCHANGED <<err, failed, wrapped, code, mem, diskVars, procVars, mishaps>>

\* run_cleanup_check, in the engine: what goes wrong is a failed check.
Cleanup ==
    /\ At("cleanup")
    /\ Exit("cleanup")
    /\ \E bad \in BOOLEAN : failed' = (failed \/ bad)
    /\ GoOn("finish")
    /\ UNCHANGED <<err, wrapped, code, mem, diskVars, procVars, mishaps>>

Finish ==
    /\ At("finish")
    /\ \/ /\ \E bad \in BOOLEAN : failed' = (failed \/ bad)
          /\ mem' = [mem EXCEPT !.failures = failed']
          /\ Save("unwind")
          /\ UNCHANGED <<err, mishaps>>
       \/ Mishap /\ Raise("error") /\ UNCHANGED <<failed, mem, diskVars>>
    /\ UNCHANGED <<wrapped, code, timerVars, procVars>>

-----------------------------------------------------------------------------
(* The way out: the callbacks of the ExitStack, except, finally.           *)

Unwind ==
    /\ At("unwind")
    /\ wrapped' = FALSE
    /\ \/ /\ IF wrapped /\ arm = "reference" THEN Save("except") ELSE GoOn("except") /\ UNCHANGED diskVars
          /\ UNCHANGED <<err, mishaps>>
       \/ wrapped /\ Mishap /\ err' = "error" /\ GoOn("except") /\ UNCHANGED diskVars
    /\ UNCHANGED <<failed, code, mem, timerVars, procVars>>

\* Mutant: the clause catches RuntimeError, of which BudgetExceeded is one.
OverBudgetAny(e) == e # "none"

OverBudget(e) == e = "budget"

\* What is in flight is turned into notes, or into failures and error.txt; if
\* there is nothing, _run has returned its result.
Except ==
    /\ At("except")
    /\ GoOn("finally")
    /\ \/ /\ err = "none"
          /\ code' = IF failed THEN 1 ELSE 0
          /\ UNCHANGED <<mem, err, errorTxt, mishaps>>
       \/ /\ OverBudget(err)
          /\ code' = 3 /\ mem' = [mem EXCEPT !.notes = TRUE]
          /\ UNCHANGED <<err, errorTxt, mishaps>>
       \/ /\ err # "none" /\ ~OverBudget(err)
          /\ code' = 1 /\ mem' = [mem EXCEPT !.failures = TRUE]
          /\ \/ errorTxt' = TRUE /\ UNCHANGED <<err, mishaps>>
             \/ Mishap /\ err' = "escaped" /\ UNCHANGED errorTxt
    /\ UNCHANGED <<failed, wrapped, fileState, file, evidence, timerVars, procVars>>

DriftCode(drift) == IF drift /\ code = 0 THEN 1 ELSE code

Ended(drift) == [mem EXCEPT !.ended = TRUE, !.code = DriftCode(drift), !.failures = @ \/ drift]

Finally ==
    /\ At("finally")
    /\ \E drift \in BOOLEAN : code' = DriftCode(drift) /\ mem' = Ended(drift)
    /\ Save("exit")
    /\ UNCHANGED <<err, failed, wrapped, timerVars, procVars, mishaps>>

\* The timers are daemon threads: they end with the interpreter.
Leave ==
    /\ At("exit")
    /\ status' = IF err = "escaped" THEN "escaped" ELSE "returned"
    /\ UNCHANGED <<mainVars, diskVars, timerVars, arm, cleanupCheck, killer, mishaps>>

-----------------------------------------------------------------------------
(* The thread of a watchdog.                                               *)

\* The budget runs out: of the timer, or of the check after the region.
Expire(l) ==
    /\ status = "running" /\ ~expired[l]
    /\ \/ timer[l] = "armed"
       \/ l = "startup" /\ mainPc = "startup_check"
       \/ l = "request" /\ mainPc = "request_check"
    /\ expired' = [expired EXCEPT ![l] = TRUE]
    /\ UNCHANGED <<mainVars, diskVars, timer, seen, lost, procVars, mishaps>>

Thread(l, here, next) ==
    /\ status = "running" /\ timer[l] = here
    /\ timer' = [timer EXCEPT ![l] = next]
    /\ UNCHANGED <<mainVars, errorTxt, expired, arm, cleanupCheck>>

Fire(l) ==
    /\ expired[l]
    /\ Thread(l, "armed", "evidence")
    /\ UNCHANGED <<fileState, file, evidence, seen, lost, status, killer, mishaps>>

WriteEvidence(l) ==
    /\ \/ Thread(l, "evidence", "read") /\ evidence' = evidence \cup {l} /\ UNCHANGED <<lost, mishaps>>
       \/ Thread(l, "evidence", "exit") /\ Mishap /\ lost' = lost \cup {l} /\ UNCHANGED evidence
    /\ UNCHANGED <<fileState, file, seen, status, killer>>

\* The watchdogs that were given the path of the manifest.
HasPath(l) == l # "cleanup"

\* Mutant: only the watchdog of the startup completes the manifest.
CompletesStartup(l) == l = "startup" /\ fileState = "whole"

\* mark_manifest_ended: a manifest that cannot be read is left alone.
Completes(l) == HasPath(l) /\ fileState = "whole"

ReadManifest(l) ==
    /\ IF Completes(l)
       THEN Thread(l, "read", "truncate") /\ seen' = [seen EXCEPT ![l] = file]
       ELSE Thread(l, "read", "exit") /\ UNCHANGED seen
    /\ UNCHANGED <<fileState, file, evidence, lost, status, killer, mishaps>>

Truncate(l) ==
    /\ Thread(l, "truncate", "complete")
    /\ fileState' = "torn"
    /\ UNCHANGED <<file, evidence, seen, lost, status, killer, mishaps>>

Complete(l) ==
    /\ \/ /\ Thread(l, "complete", "exit")
          /\ file' = [seen[l] EXCEPT !.ended = TRUE, !.code = 3, !.notes = TRUE]
          /\ fileState' = "whole"
          /\ UNCHANGED <<lost, mishaps>>
       \/ Thread(l, "complete", "exit") /\ Mishap /\ lost' = lost \cup {l} /\ UNCHANGED <<file, fileState>>
    /\ UNCHANGED <<evidence, seen, status, killer>>

\* os._exit(3)
Kill(l) ==
    /\ Thread(l, "exit", "done")
    /\ status' = "killed" /\ killer' = l
    /\ UNCHANGED <<fileState, file, evidence, seen, lost, mishaps>>

Watchdog(l) ==
    \/ Fire(l) \/ WriteEvidence(l) \/ ReadManifest(l) \/ Truncate(l) \/ Complete(l) \/ Kill(l)

\* What main does without the engine.
MainStep ==
    \/ Begin \/ Deploy \/ Load \/ StartupCheck \/ Prepare \/ EnterRequest \/ RequestCheck
    \/ Handler \/ AbortDone \/ Judge \/ EnterCleanup \/ Finish
    \/ Unwind \/ Except \/ Finally \/ Leave \/ Write \/ WriteFails

EngineCall == Startup \/ Request \/ Abort \/ Cleanup

DriverNext ==
    \/ MainStep \/ EngineCall
    \/ \E l \in Labels : Expire(l) \/ Watchdog(l)

DriverSpec == DriverInit /\ [][DriverNext]_driverVars

\* Threads run and time passes; a call into the engine may hang forever.
FairSpec ==
    /\ DriverSpec
    /\ WF_driverVars(MainStep)
    /\ \A l \in Labels : WF_driverVars(Expire(l)) /\ WF_driverVars(Watchdog(l))

-----------------------------------------------------------------------------
Blocked(l) == mainPc = (CASE l = "startup" -> "startup" [] l = "request" -> "request"
                          [] l = "failure-cleanup" -> "abort" [] l = "cleanup" -> "cleanup")

MainTypes ==
    /\ mainPc \in {"begin", "deploy", "load", "startup", "startup_check", "prepare", "enter", "request",
                   "request_check", "handler", "abort", "abort_done", "judge", "enter_cleanup", "cleanup",
                   "finish", "unwind", "except", "finally", "exit", "write"}
    /\ err \in {"none", "error", "budget", "escaped"}
    /\ failed \in BOOLEAN /\ wrapped \in BOOLEAN /\ code \in {0, 1, 3} /\ mem \in Manifests

DiskTypes ==
    /\ fileState \in {"absent", "torn", "whole"} /\ file \in Manifests /\ errorTxt \in BOOLEAN
    /\ evidence \subseteq {l \in Labels : expired[l]}

TimerTypes ==
    /\ timer \in [Labels -> {"off", "armed", "evidence", "read", "truncate", "complete", "exit", "done"}]
    /\ expired \in [Labels -> BOOLEAN] /\ seen \in [Labels -> Manifests] /\ lost \subseteq Labels
    /\ \A l \in Labels : /\ timer[l] = "armed" => Blocked(l)
                         /\ timer[l] \notin {"off", "armed"} => expired[l]

\* Type invariant; a watchdog is armed only while main is in its call.
DriverTyped ==
    /\ MainTypes /\ DiskTypes /\ TimerTypes
    /\ arm \in Arms /\ cleanupCheck \in BOOLEAN
    /\ status \in {"running", "returned", "escaped", "killed"}
    /\ killer \in Labels \cup {"none"} /\ mishaps \in 0..MaxMishaps

Quiet(S) == \A l \in S : timer[l] \in {"off", "armed"}

\* A watchdog that ends the process in the call it watches leaves its evidence
\* and a manifest that says when and how the run ended, unless it could not
\* write or another one was writing.
RecordedBy(l) ==
    (killer = l /\ Blocked(l) /\ l \notin lost /\ Quiet(Labels \ {l})) =>
        /\ l \in evidence
        /\ fileState = "whole" /\ file.ended /\ file.code = 3

TimeoutIsRecorded == \A l \in Labels \ {"cleanup"} : RecordedBy(l)

\* What the test of the watchdog asks of every timeout.
EveryTimeoutIsRecorded == \A l \in Labels : RecordedBy(l)

\* A process that returned from main says in the manifest what it returned, and
\* why, unless a watchdog has begun to write as well.
ReturnIsRecorded ==
    (status = "returned" /\ Quiet(Labels)) =>
        /\ fileState = "whole" /\ file.ended /\ file.code = code
        /\ code = 0 => ~file.failures
        /\ code = 1 => file.failures
        /\ code = 3 => file.notes

\* Success is never claimed for a run whose startup or request was over budget,
\* that failed a check or raised.
GreenIsClean ==
    (status = "returned" /\ code = 0) =>
        /\ ~expired["startup"] /\ ~expired["request"]
        /\ ~failed /\ err = "none" /\ ~file.failures

\* An exception after the first manifest lands in error.txt and in the
\* manifest, if main gets to its end.
ErrorLands ==
    (status = "returned" /\ err = "error") => errorTxt /\ code = 1 /\ mem.failures

\* The same if the process is ended in a call that never returns.
EveryErrorLands ==
    (err = "error" /\ (status = "returned" \/ (status = "killed" /\ Blocked(killer)))) => errorTxt

\* The fixture arms have the judgement of the request on disk before the
\* clean-up check, which may hang and be killed.
JudgedBeforeCleanup ==
    (Fixture /\ killer = "cleanup" /\ Blocked("cleanup")) =>
        fileState = "whole" /\ file.failures = failed

-----------------------------------------------------------------------------
(* The inductive invariant. *)

\* Where main is, or is going once its manifest is written.
Place == IF mainPc = "write" THEN cont ELSE mainPc

Ahead == {"begin", "deploy", "load", "startup", "startup_check", "prepare", "enter", "request",
          "request_check", "judge", "enter_cleanup", "cleanup", "finish"}
Failing == {"handler", "abort", "abort_done"}

\* What is in flight follows from where main is (the try blocks of main and _run).
PlaceInv ==
    /\ mainPc = "write" => cont \in {"deploy", "load", "enter", "enter_cleanup", "finish", "unwind",
                                 "except", "exit"}
    /\ Place \in Ahead => err = "none"
    /\ Place \in Failing => err \in {"error", "budget"}
    /\ Place \in {"unwind", "except"} => err # "escaped"

\* A watchdog is not heard of before its region, and after it only if it was late.
TimerInv ==
    /\ Place \in {"begin", "deploy", "load"} => timer["startup"] = "off"
    /\ Place \in {"begin", "deploy", "load", "startup", "startup_check", "prepare", "enter"}
         => timer["request"] = "off"
    /\ err = "none" \/ Place = "handler" => timer["failure-cleanup"] = "off"
    /\ Place \in Ahead \ {"cleanup", "finish"} => timer["cleanup"] = "off"
    /\ (err = "none" /\ Place \notin {"startup", "startup_check"}) => ~expired["startup"]
    /\ (err = "none" /\ Place \notin {"request", "request_check"}) => ~expired["request"]
    /\ err = "none" => ~expired["failure-cleanup"]
    /\ timer["cleanup"] \notin {"truncate", "complete"}
    /\ \A l \in Labels : timer[l] \in {"read", "truncate", "complete"} => l \in evidence

\* No watchdog has begun to write, or to end the process.
Untorn == \A l \in Labels \ {"cleanup"} :
    timer[l] \in {"off", "armed", "evidence", "read", "truncate"}

\* The manifest on disk: whole wherever main does not write, as long as no
\* watchdog has; complete at the end; complete where a watchdog has gone through
\* in the call it watches.
FileInv ==
    /\ (mainPc \in (Ahead \ {"begin"}) \cup Failing /\ Untorn) => fileState = "whole"
    /\ (mainPc = "exit" /\ err # "escaped" /\ Quiet(Labels \ {"cleanup"})) =>
          fileState = "whole" /\ file = mem
    /\ \A l \in Labels \ {"cleanup"} :
         (timer[l] \in {"exit", "done"} /\ Blocked(l) /\ l \notin lost /\ Quiet(Labels \ {l})) =>
            l \in evidence /\ fileState = "whole" /\ file.ended /\ file.code = 3

\* The manifest in memory, and the exit code, from the judgement to the end.
MemInv ==
    /\ (Fixture /\ Place \in {"enter_cleanup", "cleanup"}) =>
         /\ mem.failures = failed
         /\ mainPc # "write" => file.failures = failed
    /\ (Place \in {"unwind", "except"} /\ err = "none") => mem.failures = failed
    /\ Place \in {"finally", "exit"} =>
         /\ err = "error" => errorTxt /\ code = 1 /\ mem.failures
         /\ err # "escaped" => /\ code = 0 => err = "none" /\ ~failed /\ ~mem.failures
                               /\ code = 1 => mem.failures
                               /\ code = 3 => mem.notes
    /\ (Place = "exit" /\ err # "escaped") => mem.ended /\ mem.code = code

ProcessInv ==
    /\ killer # "none" => status = "killed" /\ timer[killer] = "done"
    /\ status = "returned" => mainPc = "exit" /\ err # "escaped"

CoreInv == DriverTyped /\ PlaceInv /\ TimerInv /\ FileInv /\ MemInv /\ ProcessInv

\* The end of a process is told truly: the manifest says what was returned,
\* and a green end is a clean one (main's finally, the deadline checks).
DriverInv == CoreInv /\ ReturnIsRecorded /\ GreenIsClean

-----------------------------------------------------------------------------
\* The process ends, whether or not the engine ever returns.
RunEnds == <>(status # "running")
=============================================================================
