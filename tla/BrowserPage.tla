---------------------------- MODULE BrowserPage ----------------------------
(***************************************************************************)
(* main.js: the page around browser_entry.  A handler runs until it awaits *)
(* a call of Python; other handlers -- clicks, a file that was picked, the *)
(* emulation loop -- run before it goes on.  Calls reach Python in the     *)
(* order in which they were made, and handlers go on in the order in which *)
(* their calls were answered.                                              *)
(*                                                                         *)
(* A handler that waits is [at, why, opts, res]: the call it awaits; for a *)
(* call of stop, who called stopEmulation; the options it has read from    *)
(* the page; and, once answered, the answer.                               *)
(***************************************************************************)
EXTENDS BrowserEntry, Integers, Sequences

CONSTANTS
  MaxWaiting,  \* bound on handlers that wait, for the user's actions
  MaxFrames    \* bound on requestAnimationFrame callbacks, likewise

VARIABLES
  ui,          \* the options that the page shows
  js_options,  \* the Python global of that name
  isRunning,
  run_enabled, stop_enabled, label,
  frames,      \* callbacks of runEmulationLoop that are due
  calls,       \* calls of Python, oldest first
  answers,     \* answered calls, oldest first
  overlap      \* history: Run was clicked before an earlier start, loop, load or
               \* reset was over, or a load or reset begun before start was

buttons == <<run_enabled, stop_enabled, label>>
jsVars == <<ui, js_options, isRunning, buttons, frames, overlap>>
vars == <<pyVars, jsVars, calls, answers>>

Init ==
  /\ PyInit
  /\ ui \in Options /\ js_options = NoOptions
  /\ isRunning = FALSE
  /\ run_enabled = FALSE /\ stop_enabled = FALSE /\ label = "Run"
  /\ frames = 0
  /\ calls = <<>> /\ answers = <<>>
  /\ overlap = FALSE

-----------------------------------------------------------------------------
(* Awaiting Python                                                         *)

Call(at, why, opts) == [at |-> at, why |-> why, opts |-> opts, res |-> FALSE]

\* pyodide.runPythonAsync
Await(at, why, opts) == calls' = Append(calls, Call(at, why, opts))

InFlight(at) ==
  \/ \E i \in DOMAIN calls : calls[i].at = at
  \/ \E i \in DOMAIN answers : answers[i].at = at

\* runEmulationLoop is due or under way.
Looping ==
  frames > 0 \/ \E at \in {"run_chunk", "raised", "count", "exit_info"} : InFlight(at)

\* A load or a reset is under way.
Replacing ==
  \/ \E at \in {"reset", "init?", "initialize", "load_file"} : InFlight(at)
  \/ \E q \in {calls, answers} : \E i \in DOMAIN q : q[i].why \in {"reset", "load"}

\* stopEmulation: nothing if it is not running; what follows it then follows
\* at once, as Then.
Stopping(why, Then) ==
  \/ /\ isRunning
     /\ isRunning' = FALSE
     /\ Await("stop", why, NoOptions)
     /\ UNCHANGED js_options
  \/ /\ ~isRunning
     /\ Then
     /\ UNCHANGED isRunning

\* What follows stopEmulation in each of its callers.
AfterStop(why) ==
  \/ why = "button" /\ UNCHANGED <<calls, js_options>>
  \/ why = "loop" /\ Await("exit_info", "", NoOptions) /\ UNCHANGED js_options
  \/ why = "reset" /\ js_options' = ui /\ Await("reset", "", NoOptions)
  \/ why = "load" /\ Await("init?", "", ui) /\ UNCHANGED js_options

-----------------------------------------------------------------------------
(* What the user does                                                      *)

Idle == Len(calls) + Len(answers) < MaxWaiting

\* The Run button: startEmulation.
click_run ==
  /\ Idle /\ frames < MaxFrames
  /\ run_enabled /\ ~isRunning
  /\ Await("start", "", NoOptions)
  /\ overlap' = (overlap \/ Replacing \/ Looping \/ InFlight("start"))
  /\ UNCHANGED <<pyVars, ui, js_options, isRunning, buttons, frames, answers>>

\* The Stop button: stopEmulation.
click_stop ==
  /\ Idle
  /\ stop_enabled
  /\ Stopping("button", AfterStop("button"))
  /\ UNCHANGED <<pyVars, ui, buttons, frames, answers, overlap>>

\* The Reset button: resetEmulation.
click_reset ==
  /\ Idle
  /\ Stopping("reset", AfterStop("reset"))
  /\ overlap' = (overlap \/ InFlight("start"))
  /\ UNCHANGED <<pyVars, ui, buttons, frames, answers>>

\* A slip in pick_file: a program that runs is not stopped first.
pick_file_running ==
  /\ Idle
  /\ AfterStop("load")
  /\ overlap' = (overlap \/ InFlight("start"))
  /\ UNCHANGED <<pyVars, ui, isRunning, buttons, frames, answers>>

\* A file is picked: onFileLoaded.
pick_file ==
  /\ Idle
  /\ Stopping("load", AfterStop("load"))
  /\ overlap' = (overlap \/ InFlight("start"))
  /\ UNCHANGED <<pyVars, ui, buttons, frames, answers>>

\* A check box that calls updateOptions, or one that does not.
change_options(o) ==
  /\ Idle
  /\ ui' = o
  /\ Await("options?", "", o) \/ UNCHANGED calls
  /\ UNCHANGED <<pyVars, js_options, isRunning, buttons, frames, answers, overlap>>

-----------------------------------------------------------------------------
(* Python answers the oldest call; run_chunk raises if the page asks for a *)
(* register that there is not                                              *)

python ==
  /\ calls # <<>>
  /\ calls' = Tail(calls)
  /\ UNCHANGED jsVars
  /\ LET c == Head(calls) IN
     \/ \E r \in BOOLEAN :
          /\ answers' = Append(answers, [c EXCEPT !.res = r])
          /\ \/ c.at = "start" /\ start(r)
             \/ c.at = "stop" /\ stop(r)
             \/ c.at = "reset" /\ reset(js_options, r)
             \/ c.at = "initialize" /\ initialize(js_options, r)
             \/ c.at = "load_file" /\ load_file(js_options, r)
             \/ c.at = "run_chunk" /\ run_chunk(r)
             \/ c.at = "update_options" /\ update_options(js_options, r)
             \/ c.at \in {"init?", "options?"} /\ query(r)
             \/ c.at = "count" /\ r = c.res /\ UNCHANGED pyVars
             \/ c.at = "exit_info" /\ r /\ UNCHANGED pyVars
     \/ /\ c.at = "run_chunk" /\ running
        /\ answers' = Append(answers, [c EXCEPT !.at = "raised"])
        /\ UNCHANGED pyVars

-----------------------------------------------------------------------------
(* The handler whose call was answered goes on                             *)

\* The oldest answer is one to a call of at.
Answered(at) == answers # <<>> /\ Head(answers).at = at
Taken == answers' = Tail(answers) /\ UNCHANGED <<pyVars, ui, overlap>>
Result == Head(answers).res

startEmulation ==
  /\ Answered("start") /\ Taken
  /\ \/ /\ Result
        /\ isRunning' = TRUE
        /\ run_enabled' = FALSE /\ stop_enabled' = TRUE /\ label' = "Resume"
        /\ frames' = frames + 1
     \/ /\ ~Result
        /\ UNCHANGED <<isRunning, buttons, frames>>
  /\ UNCHANGED <<js_options, calls>>

stopEmulation ==
  /\ Answered("stop") /\ Taken
  /\ run_enabled' = TRUE /\ stop_enabled' = FALSE
  /\ AfterStop(Head(answers).why)
  /\ UNCHANGED <<isRunning, label, frames>>

resetEmulation ==
  /\ Answered("reset") /\ Taken
  /\ label' = IF Result THEN "Run" ELSE label
  /\ UNCHANGED <<js_options, isRunning, run_enabled, stop_enabled, frames, calls>>

\* onFileLoaded, after the question whether Python is initialized, and after
\* initialize.
load_begins ==
  /\ Answered("init?") \/ (Answered("initialize") /\ Result)
  /\ Taken
  /\ js_options' = Head(answers).opts
  /\ Await(IF Result THEN "load_file" ELSE "initialize", "", Head(answers).opts)
  /\ UNCHANGED <<isRunning, buttons, frames>>

\* onFileLoaded, at its end.
load_ends ==
  /\ Answered("load_file") \/ (Answered("initialize") /\ ~Result)
  /\ Taken
  /\ run_enabled' = Result
  /\ label' = IF Result THEN "Run" ELSE label
  /\ UNCHANGED <<js_options, isRunning, stop_enabled, frames, calls>>

updateOptions ==
  /\ answers # <<>>
  /\ Taken
  /\ \/ /\ Answered("options?") /\ Result
        /\ js_options' = Head(answers).opts
        /\ Await("update_options", "", NoOptions)
     \/ /\ Answered("update_options") \/ (Answered("options?") /\ ~Result)
        /\ UNCHANGED <<js_options, calls>>
  /\ UNCHANGED <<isRunning, buttons, frames>>

-----------------------------------------------------------------------------
(* runEmulationLoop                                                        *)

loop_begins ==
  /\ frames > 0
  /\ frames' = frames - 1
  /\ \/ isRunning /\ Await("run_chunk", "", NoOptions)
     \/ ~isRunning /\ UNCHANGED calls
  /\ UNCHANGED <<pyVars, ui, js_options, isRunning, buttons, answers, overlap>>

loop_counts ==
  /\ Answered("run_chunk") /\ Taken
  /\ calls' = Append(calls, [Call("count", "", NoOptions) EXCEPT !.res = Result])
  /\ UNCHANGED <<js_options, isRunning, buttons, frames>>

loop_raised ==
  /\ Answered("raised") /\ Taken
  /\ Stopping("button", AfterStop("button"))
  /\ UNCHANGED <<buttons, frames>>

\* A slip in loop_ends: the page is not told that the program has ended.
loop_ends_silent ==
  /\ Answered("count") /\ Taken
  /\ frames' = IF Result THEN frames + 1 ELSE frames
  /\ UNCHANGED <<js_options, isRunning, calls, buttons>>

\* Another frame; or the program has ended.
loop_ends ==
  /\ Answered("count") /\ Taken
  /\ \/ Result /\ frames' = frames + 1 /\ UNCHANGED <<js_options, isRunning, calls>>
     \/ ~Result /\ Stopping("loop", AfterStop("loop")) /\ UNCHANGED frames
  /\ UNCHANGED buttons

exit_shown ==
  /\ Answered("exit_info") /\ Taken
  /\ label' = "Run"
  /\ UNCHANGED <<js_options, isRunning, run_enabled, stop_enabled, frames, calls>>

-----------------------------------------------------------------------------
User ==
  \/ click_run \/ click_stop \/ click_reset \/ pick_file
  \/ \E o \in Options : change_options(o)

GoOn ==
  \/ startEmulation \/ stopEmulation \/ resetEmulation
  \/ load_begins \/ load_ends \/ updateOptions
  \/ loop_counts \/ loop_raised \/ loop_ends \/ exit_shown

Next == User \/ python \/ GoOn \/ loop_begins

\* The browser's event loop serves answers, frames and Python's tasks; the
\* user need do nothing.
Spec == Init /\ [][Next]_vars /\ WF_vars(python) /\ WF_vars(GoOn) /\ WF_vars(loop_begins)

-----------------------------------------------------------------------------
(* Properties                                                              *)

Quiet == calls = <<>> /\ answers = <<>> /\ frames = 0

\* main.js: while the page takes the emulator to be running, some call of
\* runEmulationLoop is due or under way, so that a program that ends is
\* noticed, however clicks overlap.
LoopAlive ==
  isRunning => frames > 0 \/ \E at \in {"run_chunk", "raised", "count"} : InFlight(at)

\* main.js: when nothing is under way any more, the emulator is stopped in
\* Python as well, and a loaded program can be started again.
QuietMeansStopped ==
  Quiet => /\ ~isRunning /\ ~running /\ ~stop_enabled
           /\ file_loaded => run_enabled

\* main.js, start: when nothing is under way, the Run button says "Resume" if
\* and only if start() will go on from where the program was, unless Run was
\* clicked while a start, a loop, a load or a reset was under way.
LabelTruthful == Quiet /\ file_loaded /\ ~overlap => (label = "Resume" <=> ~should_reset_pc)

\* browser_entry.py: instructions are only run of a program that was loaded,
\* likewise.
RunsLoadedProgram == running /\ ~overlap => file_loaded

\* start, stop, run_chunk: the program goes back to its entry point only if
\* it was loaded, reset or had ended since it was last started: Stop and Run
\* resume it.
StopThenRunResumes == [][pc = "mid" /\ pc' = "entry" => restart_due \/ restart_due' \/ ~file_loaded']_vars

\* run_chunk, runEmulationLoop: when the program has ended, the page notices.
EndNoticed == isRunning /\ ~running ~> ~isRunning \/ running

\* load_file, "ALWAYS performs full reinitialization": a file is loaded into
\* a new machine, built from the options that the call was given.
LoadAlwaysFresh == fresh
=============================================================================
