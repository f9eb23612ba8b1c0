------------------------------ MODULE Frontend ------------------------------
(***************************************************************************)
(* A session of the libretro front end (libretro.c) with the core's        *)
(* commands (api/frontend.c, main_run) and the cheat engine.               *)
(*                                                                         *)
(* The emulator is a coroutine.  retro_run switches to it, and it switches *)
(* back in new_vi, once per frame, or when main_run has ended.  The front  *)
(* end calls nothing while the coroutine runs.  A coroutine that is        *)
(* resumed after its end returns from its entry point, which libco answers *)
(* with a failed assertion.                                                *)
(*                                                                         *)
(* The host keeps to the calls libretro.h allows: it runs and resets a     *)
(* game and gives cheats between load and unload, and unloads before       *)
(* retro_deinit.  The core stays in the process between two sessions.      *)
(***************************************************************************)
EXTENDS Cheats

CONSTANT
    Hacks,       \* the cheat that the ROM database has for the game, or <<>>
    MaxSessions  \* bound on calls of retro_init

ASSUME FrontendAssumption == MaxSessions \in Nat /\ IsList(Hacks)

VARIABLES
    host,         \* "off", "ready" (after retro_init), "loaded"
    waiting,      \* the call that has switched to the coroutine: "run", "deinit"
    thread,       \* the coroutine
    initializing,
    l_ROMOpen,
    g_EmulatorRunning,
    stop,         \* r4300->stop
    powered,      \* poweron_device has been called
    nmi,          \* NMI_INT is queued
    sessions,
    died,         \* history: in this session main_run ended, or failed, by itself
    late          \* history: retro_deinit has started the emulator

session == <<host, waiting, thread, initializing, l_ROMOpen, g_EmulatorRunning, stop,
             powered, nmi, sessions, died, late>>
vars == <<session, cheatVars>>

Init ==
    /\ InitCheats
    /\ host = "off" /\ waiting = "no" /\ thread = "none" /\ initializing = FALSE
    /\ l_ROMOpen = FALSE /\ g_EmulatorRunning = FALSE /\ stop = FALSE /\ powered = FALSE
    /\ nmi = FALSE /\ sessions = 0 /\ died = FALSE /\ late = FALSE
-----------------------------------------------------------------------------
(* The host's calls *)

Idle == waiting = "no" /\ thread # "crashed"

retro_init ==
    /\ Idle /\ host = "off" /\ sessions < MaxSessions
    /\ host' = "ready" /\ initializing' = TRUE /\ thread' = "created"
    /\ sessions' = sessions + 1 /\ died' = FALSE
    /\ UNCHANGED <<cheatVars, waiting, l_ROMOpen, g_EmulatorRunning, stop, powered, nmi, late>>

\* emu_step_load_data: M64CMD_ROM_OPEN is refused while a ROM is open or the
\* emulator runs.  An image that is no ROM changes nothing.
retro_load_game ==
    /\ Idle /\ host = "ready"
    /\ IF g_EmulatorRunning \/ l_ROMOpen
         THEN UNCHANGED <<host, l_ROMOpen, active_cheats, lost>>
         ELSE /\ host' = "loaded" /\ l_ROMOpen' = TRUE
              /\ active_cheats' = <<>> /\ RecordLost(TRUE)
    /\ UNCHANGED <<waiting, thread, initializing, g_EmulatorRunning, stop, powered, nmi,
                   sessions, died, late, mem, g_gs_vi_counter, GamesharkActive>>

\* M64CMD_ROM_CLOSE is refused while the emulator runs.
retro_unload_game ==
    /\ Idle /\ host = "loaded" /\ host' = "ready"
    /\ IF g_EmulatorRunning \/ ~l_ROMOpen
         THEN UNCHANGED <<l_ROMOpen, active_cheats, lost>>
         ELSE l_ROMOpen' = FALSE /\ active_cheats' = <<>> /\ RecordLost(TRUE)
    /\ UNCHANGED <<waiting, thread, initializing, g_EmulatorRunning, stop, powered, nmi,
                   sessions, died, late, mem, g_gs_vi_counter, GamesharkActive>>

\* co_switch(game_thread)
Switch(call) ==
    /\ waiting' = call
    /\ thread' = CASE thread = "created"   -> "starting"
                   [] thread = "suspended" -> "running"
                   [] thread = "ended"     -> "crashed"

retro_run ==
    /\ Idle /\ host = "loaded" /\ Switch("run")
    /\ UNCHANGED <<cheatVars, host, initializing, l_ROMOpen, g_EmulatorRunning, stop, powered,
                   nmi, sessions, died, late>>

\* M64CMD_RESET: soft_reset_device
retro_reset ==
    /\ Idle /\ host = "loaded" /\ g_EmulatorRunning
    /\ nmi' = TRUE
    /\ UNCHANGED <<cheatVars, host, waiting, thread, initializing, l_ROMOpen, g_EmulatorRunning,
                   stop, powered, sessions, died, late>>

HostCheats ==
    /\ Idle /\ host = "loaded"
    /\ CheatCalls /\ RecordLost(TRUE)
    /\ UNCHANGED session

\* Mutant: the core is not told to stop.
retro_deinit_noStop ==
    /\ Idle /\ host = "ready" /\ Switch("deinit")
    /\ UNCHANGED <<cheatVars, host, initializing, l_ROMOpen, g_EmulatorRunning, stop, powered,
                   nmi, sessions, died, late>>

\* M64CMD_STOP is refused unless the emulator runs.
retro_deinit ==
    /\ Idle /\ host = "ready" /\ Switch("deinit")
    /\ stop' = (stop \/ g_EmulatorRunning)
    /\ UNCHANGED <<cheatVars, host, initializing, l_ROMOpen, g_EmulatorRunning, powered,
                   nmi, sessions, died, late>>
-----------------------------------------------------------------------------
(* The coroutine *)

\* co_switch(retro_thread).  retro_deinit goes on to delete the coroutine.
Return(state) ==
    /\ waiting' = "no"
    /\ IF waiting = "deinit" THEN thread' = "none" /\ host' = "off"
                             ELSE thread' = state /\ UNCHANGED host

\* EmuThreadFunction, M64CMD_EXECUTE and main_run up to run_device.  A plugin
\* may refuse to start.
EmuThreadFunction ==
    /\ thread = "starting" /\ initializing' = FALSE
    /\ \/ /\ g_EmulatorRunning \/ ~l_ROMOpen
          /\ Return("ended")
          /\ UNCHANGED <<cheatVars, g_EmulatorRunning, stop, powered, nmi, died, late>>
       \/ /\ ~g_EmulatorRunning /\ l_ROMOpen
          /\ active_cheats' = IF Hacks = <<>> THEN active_cheats
                              ELSE cheat_add_new(active_cheats, "HACK0", Hacks, TRUE)
          /\ \/ /\ died' = TRUE /\ Return("ended")
                /\ UNCHANGED <<mem, g_EmulatorRunning, stop, powered, nmi, late>>
             \/ /\ g_EmulatorRunning' = TRUE /\ powered' = TRUE /\ stop' = FALSE /\ nmi' = FALSE
                /\ mem' = [c \in Cells |-> 0]
                /\ thread' = "running" /\ late' = (late \/ waiting = "deinit")
                /\ UNCHANGED <<waiting, host, died>>
          /\ RecordLost(TRUE)
          /\ UNCHANGED <<g_gs_vi_counter, GamesharkActive>>
    /\ UNCHANGED <<l_ROMOpen, sessions>>

Guest ==
    /\ thread = "running" /\ ~stop
    /\ \E c \in Cells, v \in GuestValues : GuestWrite(c, v)
    /\ UNCHANGED <<session, lost>>

\* nmi_int_handler
Nmi ==
    /\ thread = "running" /\ ~stop /\ nmi
    /\ nmi' = FALSE /\ g_gs_vi_counter' = 0
    /\ UNCHANGED <<host, waiting, thread, initializing, l_ROMOpen, g_EmulatorRunning, stop, powered,
                   sessions, died, late, mem, active_cheats, GamesharkActive, lost>>

\* The guest executes an instruction that the interpreter does not implement:
\* the run loop ends behind it.  In a delay slot the branch comes first, and
\* with it gen_interrupt, which clears the counter and may reach new_vi.
NI ==
    /\ thread = "running" /\ ~stop
    /\ stop' = TRUE /\ died' = TRUE
    /\ \/ UNCHANGED <<cheatVars, host, waiting, thread>>
       \/ /\ gs_apply_cheats(0) /\ RecordLost(FALSE) /\ Return("suspended")
          /\ UNCHANGED GamesharkActive
    /\ UNCHANGED <<initializing, l_ROMOpen, g_EmulatorRunning, powered, nmi, sessions, late>>

new_vi ==
    /\ thread = "running" /\ ~stop
    /\ gs_apply_cheats(g_gs_vi_counter) /\ RecordLost(FALSE)
    /\ Return("suspended")
    /\ UNCHANGED <<GamesharkActive, initializing, l_ROMOpen, g_EmulatorRunning, stop, powered, nmi,
                   sessions, died, late>>

\* run_r4300 leaves its loop, perhaps after a last gen_interrupt, which clears
\* the counter, and main_run cleans up.
StopRun ==
    /\ thread = "running" /\ stop
    /\ g_EmulatorRunning' = FALSE
    /\ g_gs_vi_counter' \in {g_gs_vi_counter, 0}
    /\ Return("ended")
    /\ UNCHANGED <<mem, active_cheats, GamesharkActive, lost, initializing, l_ROMOpen, stop,
                   powered, nmi, sessions, died, late>>
-----------------------------------------------------------------------------
Next ==
    \/ retro_init \/ retro_load_game \/ retro_unload_game \/ retro_run \/ retro_reset
    \/ HostCheats \/ retro_deinit
    \/ EmuThreadFunction \/ Guest \/ Nmi \/ NI \/ new_vi \/ StopRun

Spec == Init /\ [][Next]_vars
-----------------------------------------------------------------------------
(* Properties *)

\* The coroutine is resumed after its end only when main_run ended or failed
\* by itself; an emulator that retro_run started does not outlive
\* retro_deinit, and retro_deinit starts one only when an earlier session
\* has left its game open; retro_serialize answers (initializing is clear)
\* only for a device that has been powered on (retro_deinit,
\* EmuThreadFunction, CoreDoCommand).
SessionEnds ==
    /\ thread = "crashed" => died
    /\ host = "off" /\ g_EmulatorRunning => late
    /\ late => sessions > 1
    /\ host # "off" /\ ~initializing => powered \/ died \/ waiting = "deinit"

\* The switch to the core in retro_deinit lets it finish: no emulator is left
\* running whose coroutine has been deleted.
CoreFinishes == host = "off" => ~g_EmulatorRunning
=============================================================================
