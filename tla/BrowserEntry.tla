---------------------------- MODULE BrowserEntry ----------------------------
(***************************************************************************)
(* browser_entry.py: the Python half of the web application.  Python code  *)
(* runs to completion once called, so every function is one action; its    *)
(* parameter res is what it returns to JavaScript.                         *)
(*                                                                         *)
(* Options stands for the values of the check boxes that decide how the    *)
(* machine is built (timer, rvc, check_ram, ram_size).  The machine is     *)
(* what it was built from, whether its RAM holds anything but the file     *)
(* that was last loaded, and whether the program has left its entry point. *)
(***************************************************************************)
CONSTANTS Options, NoOptions

ASSUME OptionsAssumption == NoOptions \notin Options

VARIABLES
  initialized, file_loaded, running, should_reset_pc, options,
  built,      \* the options of cpu, ram and machine
  clean,      \* nothing has been stored in ram but by one load_file
  pc,         \* "entry" or "mid"
  fresh,      \* history: the last load_file that succeeded had a new machine
              \* with the options it was given
  restart_due \* history: loaded, reset or ended since the last start

machineVars == <<built, clean, pc>>
pyVars == <<initialized, file_loaded, running, should_reset_pc, options, machineVars,
            fresh, restart_due>>

PyInit ==
  /\ initialized = FALSE /\ file_loaded = FALSE /\ running = FALSE
  /\ should_reset_pc = TRUE
  /\ options = NoOptions /\ built = NoOptions
  /\ clean = FALSE /\ pc = "entry"
  /\ fresh = TRUE /\ restart_due = TRUE

-----------------------------------------------------------------------------
(* Building and loading                                                    *)

\* initialize, called from JavaScript; it may raise before it is done.
initialize(o, res) ==
  /\ options' = o
  /\ \/ /\ res
        /\ built' = o /\ clean' = TRUE /\ pc' = "entry"
        /\ initialized' = TRUE
     \/ /\ ~res
        /\ UNCHANGED <<machineVars, initialized>>
  /\ UNCHANGED <<file_loaded, running, should_reset_pc, fresh, restart_due>>

\* The second half of load_file: the file goes into a machine built from b
\* whose RAM is new if c.  It fails on a bad file, on one that does not fit,
\* or half way through.
Loaded(b, c, given, res) ==
  /\ built' = b
  /\ initialized' = TRUE
  /\ \/ /\ res
        /\ file_loaded' = TRUE
        /\ clean' = c
        /\ pc' = "entry"
        /\ should_reset_pc' = TRUE
        /\ restart_due' = TRUE
        /\ fresh' = (c /\ b = given)
     \/ /\ ~res
        /\ file_loaded' = FALSE
        /\ clean' \in {c, FALSE}
        /\ pc' \in {pc, "entry"}
        /\ UNCHANGED <<should_reset_pc, restart_due, fresh>>

\* The machine is built again, and the file loaded into the new one.
Rebuilt(o, given, res) ==
  /\ options' = o
  /\ \/ Loaded(o, TRUE, given, res)
     \/ /\ ~res
        /\ initialized' = FALSE /\ file_loaded' = FALSE
        /\ UNCHANGED <<machineVars, should_reset_pc, fresh, restart_due>>
  /\ UNCHANGED running

load_file(o, res) ==
  \/ /\ ~initialized
     /\ ~res
     /\ UNCHANGED pyVars
  \/ /\ initialized /\ file_loaded
     /\ Rebuilt(o, o, res)
  \/ /\ initialized /\ ~file_loaded
     /\ Loaded(built, clean, o, res)
     /\ UNCHANGED <<options, running>>

\* "browser_entry.state.options = ...; browser_entry.reset()"
reset(o, res) ==
  \/ /\ ~file_loaded
     /\ ~res
     /\ options' = o
     /\ UNCHANGED <<initialized, file_loaded, running, should_reset_pc, machineVars,
                    fresh, restart_due>>
  \/ /\ file_loaded
     /\ Rebuilt(o, o, res)

-----------------------------------------------------------------------------
(* Running                                                                 *)

\* A slip in start: the flag is left as it is.
start_flag_kept(res) ==
  \/ /\ ~initialized \/ ~file_loaded
     /\ ~res
     /\ UNCHANGED pyVars
  \/ /\ initialized /\ file_loaded
     /\ res
     /\ pc' = IF should_reset_pc THEN "entry" ELSE pc
     /\ running' = TRUE
     /\ restart_due' = FALSE
     /\ UNCHANGED <<should_reset_pc, initialized, file_loaded, options, built, clean, fresh>>

\* It raises when there is nothing to run.
start(res) ==
  \/ /\ ~initialized \/ ~file_loaded
     /\ ~res
     /\ UNCHANGED pyVars
  \/ /\ initialized /\ file_loaded
     /\ res
     /\ pc' = IF should_reset_pc THEN "entry" ELSE pc
     /\ running' = TRUE
     /\ should_reset_pc' = FALSE
     /\ restart_due' = FALSE
     /\ UNCHANGED <<initialized, file_loaded, options, built, clean, fresh>>

\* A slip in stop: the emulator goes on running.
stop_ignored(res) == res /\ UNCHANGED pyVars

stop(res) ==
  /\ res
  /\ running' = FALSE
  /\ UNCHANGED <<initialized, file_loaded, should_reset_pc, options, machineVars, fresh,
                 restart_due>>

\* A slip in run_chunk: the end of the program is not recorded.
run_chunk_end_lost(res) ==
  \/ /\ ~running /\ ~res
     /\ UNCHANGED pyVars
  \/ /\ running
     /\ pc' = "mid" /\ clean' = FALSE
     /\ restart_due' = (restart_due \/ ~res)
     /\ UNCHANGED <<running, should_reset_pc, initialized, file_loaded, options, built, fresh>>

\* Some instructions; the program may end, by _exit or with an error.
run_chunk(res) ==
  \/ /\ ~running /\ ~res
     /\ UNCHANGED pyVars
  \/ /\ running
     /\ pc' = "mid" /\ clean' = FALSE
     /\ \/ res /\ UNCHANGED <<running, should_reset_pc, restart_due>>
        \/ ~res /\ running' = FALSE /\ should_reset_pc' = TRUE /\ restart_due' = TRUE
     /\ UNCHANGED <<initialized, file_loaded, options, built, fresh>>

\* The tracing flags change at once; the options that decide how the machine
\* is built are stored, but the machine stays.
update_options(o, res) ==
  /\ res = initialized
  /\ options' = IF initialized THEN o ELSE options
  /\ UNCHANGED <<initialized, file_loaded, running, should_reset_pc, machineVars, fresh,
                 restart_due>>

\* get_instruction_count, get_exit_info, and looking at state.initialized
query(res) == res = initialized /\ UNCHANGED pyVars
=============================================================================
