--------------------------- MODULE FrontendProofs ---------------------------
(***************************************************************************)
(* Proofs about the sessions of Frontend, for every cheat, every list of   *)
(* codes and any number of sessions.                                       *)
(*                                                                         *)
(* SessionInv says how the front end's call, the coroutine and the core's  *)
(* flags go together.  What carries the proof: a game that is loaded has   *)
(* its ROM open and, until its coroutine has started, no emulator running; *)
(* an open ROM behind a coroutine that has not started comes from an       *)
(* earlier session; and the core is told to stop by retro_deinit or stops  *)
(* by itself.                                                              *)
(*                                                                         *)
(* CheatInv is about the cheats.  A cell that is not recorded as lost is   *)
(* written by at most one code, one that saves; that code holds nothing or *)
(* a value of the guest; and the cell holds a value of the guest or the    *)
(* code does.  Each code of a pass keeps this (CodeKept), so a pass does,  *)
(* by induction over the codes and over the cheats.  That a pass obeys the *)
(* tests in a list of codes is an induction over the codes too (AgreeStep).*)
(***************************************************************************)
EXTENDS Frontend, NaturalsInduction, WellFoundedInduction, TLAPS

SessionTypeOK ==
    /\ host \in {"off", "ready", "loaded"}
    /\ waiting \in {"no", "run", "deinit"}
    /\ thread \in {"none", "created", "starting", "running", "suspended", "ended", "crashed"}
    /\ initializing \in BOOLEAN /\ l_ROMOpen \in BOOLEAN /\ g_EmulatorRunning \in BOOLEAN
    /\ stop \in BOOLEAN /\ powered \in BOOLEAN /\ nmi \in BOOLEAN
    /\ sessions \in Nat
    /\ died \in BOOLEAN /\ late \in BOOLEAN

\* Who has control, and what call it is in.
Control ==
    /\ waiting # "no" <=> thread \in {"starting", "running", "crashed"}
    /\ host = "off" <=> thread = "none"
    /\ waiting = "run" => host = "loaded"
    /\ waiting = "deinit" => host = "ready"

\* The core's flags under each state of the coroutine.
Flags ==
    /\ host = "loaded" => l_ROMOpen
    /\ thread \in {"running", "suspended"} => g_EmulatorRunning
    /\ host = "loaded" /\ thread \in {"created", "starting"} => ~g_EmulatorRunning

\* How a coroutine comes to its end.
Ends ==
    /\ thread \in {"ended", "crashed"} => died
    /\ thread \in {"running", "suspended"} /\ stop /\ waiting # "deinit" => died

\* What is left over from an earlier session.
Leftover ==
    /\ g_EmulatorRunning /\ thread \in {"none", "created", "starting"} => late
    /\ thread = "running" /\ waiting = "deinit" /\ ~stop => late
    /\ host # "off" \/ l_ROMOpen => sessions > 0
    /\ host = "ready" /\ thread \in {"created", "starting"} /\ l_ROMOpen => sessions > 1

SessionInv == SessionTypeOK /\ Control /\ Flags /\ Ends /\ Leftover /\ SessionEnds
-----------------------------------------------------------------------------
\* The initial state satisfies the invariant.
LEMMA InitSession == Init => SessionInv
<1> SUFFICES ASSUME Init PROVE SessionInv
  OBVIOUS
<1>1. SessionTypeOK
  BY DEF Init, SessionTypeOK
<1>2. Control /\ Flags /\ Ends
  BY DEF Init, Control, Flags, Ends
<1>3. Leftover /\ SessionEnds
  BY DEF Init, Leftover, SessionEnds
<1> QED
  BY <1>1, <1>2, <1>3 DEF SessionInv

\* The calls of the host that do not switch to the coroutine.
LEMMA HostStep ==
    ASSUME SessionInv,
           \/ retro_init \/ retro_load_game \/ retro_unload_game \/ retro_reset
           \/ HostCheats
    PROVE  SessionInv'
<1> USE DEF SessionInv, SessionTypeOK, Control, Flags, Ends, Leftover, SessionEnds, Idle
<1>1. CASE retro_init
  <2>1. /\ host = "off" /\ waiting = "no"
        /\ host' = "ready" /\ initializing' = TRUE /\ thread' = "created"
        /\ sessions' = sessions + 1 /\ died' = FALSE
        /\ UNCHANGED <<waiting, l_ROMOpen, g_EmulatorRunning, stop, powered, nmi, late>>
    BY <1>1 DEF retro_init
  <2>2. SessionTypeOK'
    <3>1. sessions' \in Nat
      BY <2>1
    <3>2. died' \in BOOLEAN /\ initializing' \in BOOLEAN
      BY <2>1
    <3> QED
      BY <2>1, <3>1, <3>2
  <2>3. Control' /\ Flags' /\ Ends'
    BY <2>1
  <2>4. Leftover' /\ SessionEnds'
    BY <2>1
  <2> QED
    BY <2>2, <2>3, <2>4
<1>2. CASE retro_load_game
  <2>1. CASE g_EmulatorRunning \/ l_ROMOpen
    BY <1>2, <2>1 DEF retro_load_game
  <2>2. CASE ~(g_EmulatorRunning \/ l_ROMOpen)
    BY <1>2, <2>2 DEF retro_load_game
  <2> QED
    BY <2>1, <2>2
<1>3. CASE retro_unload_game
  <2>1. CASE g_EmulatorRunning \/ ~l_ROMOpen
    BY <1>3, <2>1 DEF retro_unload_game
  <2>2. CASE ~(g_EmulatorRunning \/ ~l_ROMOpen)
    BY <1>3, <2>2 DEF retro_unload_game
  <2> QED
    BY <2>1, <2>2
<1>4. CASE retro_reset
  BY <1>4 DEF retro_reset
<1>5. CASE HostCheats
  BY <1>5 DEF HostCheats, session
<1> QED
  BY <1>1, <1>2, <1>3, <1>4, <1>5

\* What co_switch makes of the coroutine: only one that has ended crashes.
LEMMA SwitchStates ==
    ASSUME NEW call, SessionInv, Idle, host # "off", Switch(call)
    PROVE  /\ waiting' = call
           /\ \/ thread = "created" /\ thread' = "starting"
              \/ thread = "suspended" /\ thread' = "running"
              \/ thread = "ended" /\ thread' = "crashed"
<1>1. thread \in {"created", "suspended", "ended"}
  BY DEF SessionInv, SessionTypeOK, Control, Idle
<1> QED
  BY <1>1 DEF Switch

\* The calls that switch to the coroutine.  A suspended core that retro_deinit
\* wakes runs, and has been told to stop.
LEMMA SwitchStep == ASSUME SessionInv, retro_run \/ retro_deinit PROVE SessionInv'
<1> USE DEF SessionInv, SessionTypeOK, Control, Flags, Ends, Leftover, SessionEnds, Idle
<1>1. CASE retro_run
  <2>1. /\ waiting' = "run"
        /\ \/ thread = "created" /\ thread' = "starting"
           \/ thread = "suspended" /\ thread' = "running"
           \/ thread = "ended" /\ thread' = "crashed"
    BY <1>1, SwitchStates DEF retro_run
  <2> QED
    BY <1>1, <2>1 DEF retro_run
<1>2. CASE retro_deinit
  <2>1. /\ waiting' = "deinit"
        /\ \/ thread = "created" /\ thread' = "starting"
           \/ thread = "suspended" /\ thread' = "running"
           \/ thread = "ended" /\ thread' = "crashed"
    BY <1>2, SwitchStates DEF retro_deinit
  <2>2. /\ host = "ready" /\ waiting = "no" /\ stop' = (stop \/ g_EmulatorRunning)
        /\ UNCHANGED <<host, initializing, l_ROMOpen, g_EmulatorRunning, powered, nmi,
                       sessions, died, late>>
    BY <1>2 DEF retro_deinit
  <2> QED
    BY <2>1, <2>2
<1> QED
  BY <1>1, <1>2

\* The coroutine starts the emulator, or ends at once.
LEMMA StartStep == ASSUME SessionInv, EmuThreadFunction PROVE SessionInv'
<1> USE DEF SessionInv, SessionTypeOK, Control, Flags, Ends, Leftover, SessionEnds
<1>1. thread = "starting" /\ initializing' = FALSE /\ UNCHANGED <<l_ROMOpen, sessions>>
  BY DEF EmuThreadFunction
<1>2. CASE /\ g_EmulatorRunning \/ ~l_ROMOpen
           /\ Return("ended")
           /\ UNCHANGED <<g_EmulatorRunning, stop, powered, nmi, died, late>>
  BY <1>1, <1>2 DEF Return
<1>3. CASE /\ ~g_EmulatorRunning /\ l_ROMOpen
           /\ died' = TRUE /\ Return("ended")
           /\ UNCHANGED <<g_EmulatorRunning, stop, powered, nmi, late>>
  BY <1>1, <1>3 DEF Return
<1>4. CASE /\ ~g_EmulatorRunning /\ l_ROMOpen
           /\ g_EmulatorRunning' = TRUE /\ powered' = TRUE /\ stop' = FALSE /\ nmi' = FALSE
           /\ thread' = "running" /\ late' = (late \/ waiting = "deinit")
           /\ UNCHANGED <<waiting, host, died>>
  BY <1>1, <1>4
<1> QED
  BY <1>2, <1>3, <1>4 DEF EmuThreadFunction

\* The running emulator.
LEMMA CoreStep ==
    ASSUME SessionInv, Guest \/ Nmi \/ NI \/ new_vi \/ StopRun
    PROVE  SessionInv'
<1> USE DEF SessionInv, SessionTypeOK, Control, Flags, Ends, Leftover, SessionEnds
<1>1. CASE Guest \/ Nmi
  <2>1. /\ nmi' \in BOOLEAN
        /\ UNCHANGED <<host, waiting, thread, initializing, l_ROMOpen, g_EmulatorRunning,
                       stop, powered, sessions, died, late>>
    BY <1>1 DEF Guest, Nmi, session
  <2> QED
    BY <2>1
<1>2. CASE NI
  <2>1. /\ thread = "running" /\ ~stop /\ stop' = TRUE /\ died' = TRUE
        /\ UNCHANGED <<initializing, l_ROMOpen, g_EmulatorRunning, powered, nmi, sessions,
                       late>>
        /\ UNCHANGED <<host, waiting, thread>> \/ Return("suspended")
    BY <1>2 DEF NI
  <2> QED
    BY <2>1 DEF Return
<1>3. CASE new_vi
  BY <1>3 DEF new_vi, Return
<1>4. CASE StopRun
  BY <1>4 DEF StopRun, Return
<1> QED
  BY <1>1, <1>2, <1>3, <1>4

\* The invariant is inductive.
LEMMA SessionStep == SessionInv /\ [Next]_vars => SessionInv'
<1> SUFFICES ASSUME SessionInv, [Next]_vars PROVE SessionInv'
  OBVIOUS
<1>1. CASE UNCHANGED vars
  BY <1>1 DEF vars, session, SessionInv, SessionTypeOK, Control, Flags, Ends, Leftover,
     SessionEnds
<1> QED
  BY <1>1, HostStep, SwitchStep, StartStep, CoreStep DEF Next

\* Over any number of sessions: the coroutine is resumed after its end only when
\* main_run ended by itself, no emulator that retro_run started outlives
\* retro_deinit, and retro_serialize answers only for a device that has been powered
\* on.
THEOREM SessionAlwaysEnds == Spec => []SessionEnds
<1>1. SessionInv => SessionEnds
  BY DEF SessionInv
<1> QED
  BY <1>1, InitSession, SessionStep, PTL DEF Spec
-----------------------------------------------------------------------------
(* Induction over places *)

\* A set of numbers that is not empty has a least element.
LEMMA LeastExists ==
    ASSUME NEW T, T \subseteq Nat, T # {}
    PROVE  \E x \in T : \A y \in T : x <= y
<1>1. PICK x \in T : \A y \in T : ~ (<<y, x>> \in OpToRel(<, Nat))
  BY NatLessThanWellFounded, WFMin
<1>2. \A y \in T : ~ (y < x)
  BY <1>1, Zenon DEF OpToRel
<1> QED
  BY <1>2

\* Induction up to N: a set that holds 0 and the successor of each of its
\* members.
LEMMA UpTo ==
    ASSUME NEW N \in Nat, NEW T, 0 \in T, \A i \in 1 .. N : i - 1 \in T => i \in T
    PROVE  \A i \in 0 .. N : i \in T
<1> DEFINE U == {i \in Nat : i <= N /\ i \notin T}
<1> SUFFICES ASSUME U # {} PROVE FALSE
  OBVIOUS
<1>1. U \subseteq Nat
  OBVIOUS
<1>2. PICK x \in U : \A y \in U : x <= y
  <2> HIDE DEF U
  <2> QED
    BY <1>1, LeastExists
<1>3. x \in 1 .. N /\ x - 1 \in Nat /\ x - 1 <= N /\ ~(x <= x - 1)
  BY <1>2
<1>4. x - 1 \in T
  BY <1>2, <1>3
<1> QED
  BY <1>2, <1>3, <1>4

\* f repeats step from base on, N times.
Iterates(S, base, N, step, f) ==
    f \in [0 .. N -> S] /\ f[0] = base /\ \A i \in 1 .. N : f[i] = step[<<f[i - 1], i>>]

\* A step can be repeated N times.
LEMMA Iteration ==
    ASSUME NEW S, NEW base \in S, NEW N \in Nat, NEW step \in [S \X Nat -> S]
    PROVE  \E f : Iterates(S, base, N, step, f)
<1> DEFINE Sol(n, f) == /\ f \in [0 .. n -> S] /\ f[0] = base
                        /\ \A i \in 1 .. n : f[i] = step[<<f[i - 1], i>>]
           T == {n \in Nat : \E f : Sol(n, f)}
<1>1. 0 \in T
  <2>1. Sol(0, [i \in 0 .. 0 |-> base])
    OBVIOUS
  <2> QED
    BY <2>1
<1>2. ASSUME NEW n \in 1 .. N, n - 1 \in T PROVE n \in T
  <2>1. PICK g : Sol(n - 1, g)
    BY <1>2
  <2> DEFINE v == step[<<g[n - 1], n>>]
             f == [i \in 0 .. n |-> IF i <= n - 1 THEN g[i] ELSE v]
  <2>2. n - 1 \in 0 .. n - 1 /\ n \in Nat /\ n - 1 \in Nat
    OBVIOUS
  <2>3. v \in S
    BY <2>1, <2>2
  <2> HIDE DEF v
  <2>4. f \in [0 .. n -> S] /\ f[0] = base
    BY <2>1, <2>2, <2>3
  <2>5. ASSUME NEW i \in 1 .. n PROVE f[i] = step[<<f[i - 1], i>>]
    <3>1. CASE i <= n - 1
      <4>1. i \in 1 .. n - 1 /\ i - 1 \in 0 .. n - 1
        BY <3>1, <2>2
      <4>2. f[i] = g[i] /\ f[i - 1] = g[i - 1]
        BY <4>1, <2>2
      <4>3. g[i] = step[<<g[i - 1], i>>]
        BY <4>1, <2>1
      <4> QED
        BY <4>2, <4>3
    <3>2. CASE ~(i <= n - 1)
      <4>1. i = n /\ f[i] = v /\ f[i - 1] = g[n - 1]
        BY <3>2, <2>2
      <4> QED
        BY <4>1 DEF v
    <3> QED
      BY <3>1, <3>2
  <2> HIDE DEF f
  <2>6. Sol(n, f)
    BY <2>4, <2>5
  <2> HIDE DEF Sol
  <2> QED
    BY <2>2, <2>6
<1> HIDE DEF T
<1>3. N \in T
  <2>1. \A i \in 0 .. N : i \in T
    BY <1>1, <1>2, UpTo
  <2> QED
    BY <2>1
<1> QED
  BY <1>3 DEF T, Iterates
-----------------------------------------------------------------------------
(* Cheats: the types *)

Codes == [op : STRING, cell : Cells, value : Nat, old : Nat]
CheatRecords ==
    [name : Names \cup {"HACK0"}, enabled : BOOLEAN, was_enabled : BOOLEAN, codes : Seq(Codes)]
Memory == [Cells -> Nat]

\* The states of a pass over n codes.
PassStates(n) ==
    [mem : Memory, codes : [1 .. n -> Codes], cond_failed : BOOLEAN]

\* Code k in a pass over the codes.
Step(mode, s, k) ==
    CASE mode = "VI"      -> ViCode(s, k)
      [] mode = "BOOT"    -> BootCode(s, k)
      [] mode = "RESTORE" -> RestoreCode(s, k)
      [] OTHER            -> s

\* What a code can do to the memory and to itself: nothing; it stores, and
\* saves what it overwrites unless it is a button or an expansion code or holds
\* a value already; or it is undone.
Effect(code, m, m2, old2) ==
    \/ m2 = m /\ old2 = code.old
    \/ /\ code.op \notin Writers
       /\ m2 = m
    \/ /\ code.op \in {"write", "boot"}
       /\ m2 = [m EXCEPT ![code.cell] = code.value]
       /\ old2 = IF code.old = CHEAT_CODE_MAGIC_VALUE THEN m[code.cell] ELSE code.old
    \/ /\ code.op \in {"button", "expansion"}
       /\ m2 = [m EXCEPT ![code.cell] = code.value] \/ m2 = [m EXCEPT ![code.cell] = code.old]
    \/ /\ code.op \in {"write", "boot"} /\ code.old # CHEAT_CODE_MAGIC_VALUE
       /\ m2 = [m EXCEPT ![code.cell] = code.old]
       /\ old2 = CHEAT_CODE_MAGIC_VALUE

\* execute_cheat keeps to its types, and changes no more of the code than old.
LEMMA ExecuteCode ==
    ASSUME NEW m \in Memory, NEW code \in Codes, NEW save \in BOOLEAN, NEW value \in Nat
    PROVE  /\ execute_cheat(m, code, value, save).mem \in Memory
           /\ execute_cheat(m, code, value, save).mem =
                 IF code.op \in Writers THEN [m EXCEPT ![code.cell] = value] ELSE m
           /\ OldValue(m, code, save) \in Nat
           /\ execute_cheat(m, code, value, save).code = [code EXCEPT !.old = OldValue(m, code, save)]
           /\ execute_cheat(m, code, value, save).code \in Codes
<1>1. OldValue(m, code, save) \in Nat
  BY DEF OldValue, Codes, Memory
<1>2. execute_cheat(m, code, value, save).mem =
                 IF code.op \in Writers THEN [m EXCEPT ![code.cell] = value] ELSE m
  BY DEF execute_cheat
<1>3. execute_cheat(m, code, value, save).code = [code EXCEPT !.old = OldValue(m, code, save)]
  BY DEF execute_cheat
<1>4. (IF code.op \in Writers THEN [m EXCEPT ![code.cell] = value] ELSE m) \in Memory
  BY DEF Memory, Codes
<1>5. [code EXCEPT !.old = OldValue(m, code, save)] \in Codes
  BY <1>1 DEF Codes
<1> QED
  BY <1>1, <1>2, <1>3, <1>4, <1>5

\* One step of a pass: it changes the value one code has saved, and one cell.
LEMMA StepEffect ==
    ASSUME NEW n \in Nat, NEW s \in PassStates(n), NEW k \in 1 .. n, NEW mode
    PROVE  /\ Step(mode, s, k) \in PassStates(n)
           /\ \E old2 \in Nat :
                 /\ Step(mode, s, k).codes = [s.codes EXCEPT ![k].old = old2]
                 /\ Effect(s.codes[k], s.mem, Step(mode, s, k).mem, old2)
<1> DEFINE code == s.codes[k]
           Goal(t) == /\ t \in PassStates(n)
                      /\ \E old2 \in Nat : /\ t.codes = [s.codes EXCEPT ![k].old = old2]
                                           /\ Effect(s.codes[k], s.mem, t.mem, old2)
<1>a. PICK t : t = Step(mode, s, k)
  OBVIOUS
<1> SUFFICES Goal(t)
  BY <1>a, Zenon
<1>0. code \in Codes /\ s.mem \in Memory /\ s.cond_failed \in BOOLEAN /\ s.codes \in [1 .. n -> Codes]
  BY DEF PassStates
<1>1. code.old \in Nat /\ code.value \in Nat
  BY <1>0 DEF Codes
<1>2. s.codes = [s.codes EXCEPT ![k].old = code.old]
  BY <1>0 DEF Codes
<1>3. ASSUME t.mem = s.mem, t.codes = s.codes, t.cond_failed \in BOOLEAN,
             t = [s EXCEPT !.cond_failed = t.cond_failed]
      PROVE  Goal(t)
  <2>1. t \in PassStates(n)
    BY <1>3 DEF PassStates
  <2>2. Effect(code, s.mem, t.mem, code.old)
    BY <1>3 DEF Effect
  <2>3. t.codes = [s.codes EXCEPT ![k].old = code.old]
    BY <1>3, <1>2
  <2> QED
    BY <1>1, <2>1, <2>2, <2>3
<1>4. ASSUME NEW save \in BOOLEAN, t = Executed(s, k, execute_cheat(s.mem, code, code.value, save)),
             code.op \in Writers => (save <=> code.op # "button")
      PROVE  Goal(t)
  <2> DEFINE e == execute_cheat(s.mem, code, code.value, save)
             o == OldValue(s.mem, code, save)
  <2>1. /\ e.mem \in Memory /\ o \in Nat /\ e.code \in Codes
        /\ e.mem = IF code.op \in Writers THEN [s.mem EXCEPT ![code.cell] = code.value] ELSE s.mem
        /\ e.code = [code EXCEPT !.old = o]
    BY <1>0, <1>1, ExecuteCode, SMTT(60)
  <2>2. code.op \in {"write", "boot"} =>
           o = IF code.old = CHEAT_CODE_MAGIC_VALUE THEN s.mem[code.cell] ELSE code.old
    BY <1>4 DEF OldValue, Saved, Writers
  <2> HIDE DEF e, o
  <2>3. t = [s EXCEPT !.mem = e.mem, !.codes[k] = e.code]
    BY <1>4 DEF Executed, e
  <2>4. t \in PassStates(n) /\ t.mem = e.mem /\ t.codes = [s.codes EXCEPT ![k] = e.code]
    BY <2>1, <2>3 DEF PassStates
  <2>5. t.codes = [s.codes EXCEPT ![k].old = o]
    BY <2>1, <2>4, <1>0
  <2>6. Effect(code, s.mem, t.mem, o)
    BY <2>1, <2>2, <2>4 DEF Effect, Writers, Saved
  <2> QED
    BY <2>1, <2>4, <2>5, <2>6
<1> HIDE DEF Goal
<1>5. CASE mode = "VI"
  <2>0. t = ViCode(s, k)
    BY <1>a, <1>5 DEF Step
  <2>1. CASE code.op \in Tests
    <3> DEFINE e == execute_cheat(s.mem, code, code.value, code.op # "button")
    <3>0. PICK b \in BOOLEAN : b = (s.cond_failed \/ ~e.runNext \/ NeedsButton(code))
      OBVIOUS
    <3>1. t = [s EXCEPT !.cond_failed = b]
      BY <2>0, <2>1, <3>0, <1>0 DEF ViCode
    <3>2. t.mem = s.mem /\ t.codes = s.codes /\ t.cond_failed = b
      BY <3>1 DEF PassStates
    <3> QED
      BY <3>1, <3>2, <1>3
  <2>2. CASE code.op \notin Tests /\ s.cond_failed
    <3>1. t = [s EXCEPT !.cond_failed = FALSE]
      BY <2>0, <2>2 DEF ViCode, Skipped
    <3>2. t.mem = s.mem /\ t.codes = s.codes /\ t.cond_failed = FALSE
      BY <3>1 DEF PassStates
    <3> QED
      BY <3>1, <3>2, <1>3
  <2>3. CASE code.op \notin Tests /\ ~s.cond_failed
    <3>1. CASE code.op = "boot" \/ NeedsButton(code)
      <4>1. t = s
        BY <2>0, <2>3, <3>1 DEF ViCode
      <4>2. t = [s EXCEPT !.cond_failed = s.cond_failed]
        BY <4>1 DEF PassStates
      <4> QED
        BY <4>1, <4>2, <1>0, <1>3
    <3>2. CASE ~(code.op = "boot" \/ NeedsButton(code))
      <4>0. PICK save \in BOOLEAN : save = (code.op # "button")
        OBVIOUS
      <4>1. t = Executed(s, k, execute_cheat(s.mem, code, code.value, save))
        BY <2>0, <2>3, <3>2, <4>0 DEF ViCode
      <4> QED
        BY <4>0, <4>1, <1>4
    <3> QED
      BY <3>1, <3>2
  <2> QED
    BY <1>0, <2>1, <2>2, <2>3
<1>6. CASE mode = "BOOT"
  <2>0. t = BootCode(s, k)
    BY <1>a, <1>6 DEF Step
  <2>1. CASE code.op = "boot"
    <3>0. PICK save \in BOOLEAN : save = TRUE
      OBVIOUS
    <3>1. t = Executed(s, k, execute_cheat(s.mem, code, code.value, save))
      BY <2>0, <2>1, <3>0 DEF BootCode
    <3> QED
      BY <2>1, <3>0, <3>1, <1>4
  <2>2. CASE code.op # "boot"
    <3>1. t = s
      BY <2>0, <2>2 DEF BootCode
    <3>2. t = [s EXCEPT !.cond_failed = s.cond_failed]
      BY <3>1 DEF PassStates
    <3> QED
      BY <3>1, <3>2, <1>0, <1>3
  <2> QED
    BY <2>1, <2>2
<1>7. CASE mode = "RESTORE"
  <2>0. t = RestoreCode(s, k)
    BY <1>a, <1>7 DEF Step
  <2>1. CASE code.old = CHEAT_CODE_MAGIC_VALUE
    <3>1. t = s
      BY <2>0, <2>1 DEF RestoreCode
    <3>2. t = [s EXCEPT !.cond_failed = s.cond_failed]
      BY <3>1 DEF PassStates
    <3> QED
      BY <3>1, <3>2, <1>0, <1>3
  <2>2. CASE code.old # CHEAT_CODE_MAGIC_VALUE
    <3>0. PICK M : M = execute_cheat(s.mem, code, code.old, FALSE).mem
      OBVIOUS
    <3>1. /\ M \in Memory
          /\ M = IF code.op \in Writers THEN [s.mem EXCEPT ![code.cell] = code.old] ELSE s.mem
      <4>1. PICK save \in BOOLEAN : save = FALSE
        OBVIOUS
      <4>2. M = execute_cheat(s.mem, code, code.old, save).mem
        BY <3>0, <4>1
      <4>3. PICK v \in Nat : v = code.old
        BY <1>1
      <4>4. PICK sm \in Memory : sm = s.mem
        BY <1>0
      <4>5. PICK cd \in Codes : cd = code
        BY <1>0
      <4>7. /\ execute_cheat(sm, cd, v, save).mem \in Memory
            /\ execute_cheat(sm, cd, v, save).mem =
                 IF cd.op \in Writers THEN [sm EXCEPT ![cd.cell] = v] ELSE sm
            /\ OldValue(sm, cd, save) \in Nat
            /\ execute_cheat(sm, cd, v, save).code = [cd EXCEPT !.old = OldValue(sm, cd, save)]
            /\ execute_cheat(sm, cd, v, save).code \in Codes
        BY ExecuteCode
      <4>6. /\ execute_cheat(sm, cd, v, save).mem \in Memory
            /\ execute_cheat(sm, cd, v, save).mem =
                  IF cd.op \in Writers THEN [sm EXCEPT ![cd.cell] = v] ELSE sm
        BY <4>7, Zenon
      <4> QED
        BY <4>2, <4>3, <4>4, <4>5, <4>6
    <3>2. PICK o \in Nat : o = CHEAT_CODE_MAGIC_VALUE
      BY DEF CHEAT_CODE_MAGIC_VALUE
    <3>3. t = [s EXCEPT !.mem = M, !.codes[k].old = o]
      BY <2>0, <2>2, <3>0, <3>2 DEF RestoreCode
    <3>4. t.mem = M /\ t.codes = [s.codes EXCEPT ![k].old = o] /\ t.cond_failed = s.cond_failed
      BY <3>3 DEF PassStates
    <3>5. t \in PassStates(n)
      <4>1. [s.codes EXCEPT ![k].old = o] \in [1 .. n -> Codes]
        BY <1>0 DEF Codes
      <4> QED
        BY <4>1, <3>1, <3>3 DEF PassStates
    <3>6. Effect(code, s.mem, M, o)
      BY <2>2, <3>1, <3>2 DEF Effect, Writers, Saved
    <3> QED
      BY <3>2, <3>4, <3>5, <3>6 DEF Goal
  <2> QED
    BY <2>1, <2>2
<1>8. CASE mode \notin {"VI", "BOOT", "RESTORE"}
  <2>1. t = s
    BY <1>a, <1>8 DEF Step
  <2>2. t = [s EXCEPT !.cond_failed = s.cond_failed]
    BY <2>1 DEF PassStates
  <2> QED
    BY <2>1, <2>2, <1>0, <1>3
<1> QED
  BY <1>5, <1>6, <1>7, <1>8

-----------------------------------------------------------------------------
(* Cheats: what is kept *)

\* The cell c is either the guest's, or its value is with the one code that
\* writes it.
KeptAt(c, m, cheats) ==
    /\ c \notin Unsaved(cheats)
    /\ \A i \in DOMAIN cheats : \A k \in DOMAIN cheats[i].codes :
          WritesTo(cheats, i, k, c) =>
             cheats[i].codes[k].old \in GuestValues \cup {CHEAT_CODE_MAGIC_VALUE}
    /\ m[c] \in GuestValues \/ Holds(cheats, c)

\* Two lists that differ in the values saved by their codes only.
SameCodes(cheats, ch2) ==
    /\ DOMAIN ch2 = DOMAIN cheats
    /\ \A j \in DOMAIN cheats :
          /\ DOMAIN ch2[j].codes = DOMAIN cheats[j].codes
          /\ \A l \in DOMAIN cheats[j].codes :
                /\ ch2[j].codes[l].op = cheats[j].codes[l].op
                /\ ch2[j].codes[l].cell = cheats[j].codes[l].cell

\* The same cells cannot be restored.
LEMMA SameUnsaved ==
    ASSUME NEW cheats, NEW ch2, SameCodes(cheats, ch2)
    PROVE  /\ Unsaved(ch2) = Unsaved(cheats)
           /\ \A c : \A j \in DOMAIN cheats : \A l \in DOMAIN cheats[j].codes :
                WritesTo(ch2, j, l, c) <=> WritesTo(cheats, j, l, c)
<1>1. \A c : \A j \in DOMAIN cheats : \A l \in DOMAIN cheats[j].codes :
         WritesTo(ch2, j, l, c) <=> WritesTo(cheats, j, l, c)
  BY DEF SameCodes, WritesTo
<1>2. Unsaved(ch2) = Unsaved(cheats)
  BY <1>1 DEF SameCodes, Unsaved
<1> QED
  BY <1>1, <1>2

\* The effect of one code on a cell and on the value saved for it.
LEMMA CodeKept ==
    ASSUME NEW cheats, NEW ch2, NEW m \in Memory, NEW m2 \in Memory, NEW c \in Cells,
           SameCodes(cheats, ch2), KeptAt(c, m, cheats),
           NEW i \in DOMAIN cheats, NEW k \in DOMAIN cheats[i].codes,
           cheats[i].codes[k] \in Codes,
           NEW old2, ch2[i].codes[k].old = old2,
           \A j \in DOMAIN cheats : \A l \in DOMAIN cheats[j].codes :
              j # i \/ l # k => ch2[j].codes[l].old = cheats[j].codes[l].old,
           Effect(cheats[i].codes[k], m, m2, old2)
    PROVE  KeptAt(c, m2, ch2)
<1> DEFINE code == cheats[i].codes[k]
<1>1. c \notin Unsaved(ch2)
  BY SameUnsaved DEF KeptAt
<1>2. \A j \in DOMAIN cheats : \A l \in DOMAIN cheats[j].codes :
         WritesTo(ch2, j, l, c) <=> WritesTo(cheats, j, l, c)
  BY SameUnsaved
<1>3. DOMAIN ch2 = DOMAIN cheats /\ \A j \in DOMAIN cheats : DOMAIN ch2[j].codes = DOMAIN cheats[j].codes
  BY DEF SameCodes
<1>4. CASE ~WritesTo(cheats, i, k, c)
  <2>1. m2[c] = m[c]
    <3>1. code.cell # c \/ code.op \notin Writers
      BY <1>4 DEF WritesTo
    <3> QED
      BY <3>1 DEF Effect, Memory, Writers, Saved, Codes
  <2>2. \A j \in DOMAIN cheats : \A l \in DOMAIN cheats[j].codes :
           WritesTo(cheats, j, l, c) => ch2[j].codes[l].old = cheats[j].codes[l].old
    BY <1>4
  <2> QED
    BY <1>1, <1>2, <1>3, <2>1, <2>2 DEF KeptAt, Holds
<1>5. CASE WritesTo(cheats, i, k, c)
  <2>1. code.cell = c /\ code.op \in {"write", "boot"}
    BY <1>5 DEF WritesTo, KeptAt, Unsaved, Writers, Saved
  <2>2. ASSUME NEW j \in DOMAIN cheats, NEW l \in DOMAIN cheats[j].codes, WritesTo(cheats, j, l, c)
        PROVE  j = i /\ l = k
    <3>1. <<i, k>> = <<j, l>>
      BY <1>5, <2>2 DEF KeptAt, Unsaved
    <3> QED
      BY <3>1
  <2>3. code.old \in GuestValues \cup {CHEAT_CODE_MAGIC_VALUE}
    BY <1>5 DEF KeptAt
  <2>4. m[c] \in GuestValues \/ code.old \in GuestValues
    BY <2>2 DEF KeptAt, Holds
  <2>5. CHEAT_CODE_MAGIC_VALUE \notin GuestValues
    BY CheatsAssumption
  <2>6. /\ old2 \in GuestValues \cup {CHEAT_CODE_MAGIC_VALUE}
        /\ m2[c] \in GuestValues \/ old2 \in GuestValues
    BY <2>1, <2>3, <2>4, <2>5 DEF Effect, Memory, Writers, Saved
  <2>7. m2[c] \in GuestValues \/ Holds(ch2, c)
    BY <1>2, <1>3, <1>5, <2>6 DEF Holds
  <2>8. \A j \in DOMAIN ch2 : \A l \in DOMAIN ch2[j].codes :
          WritesTo(ch2, j, l, c) =>
             ch2[j].codes[l].old \in GuestValues \cup {CHEAT_CODE_MAGIC_VALUE}
    BY <1>2, <1>3, <2>2, <2>6
  <2> QED
    BY <1>1, <2>7, <2>8 DEF KeptAt
<1> QED
  BY <1>4, <1>5

\* The equation that defines Pass.
PassEq(mode, m, codes, f) ==
    f = [k \in 0 .. Len(codes) |->
            IF k = 0 THEN Start(m, codes)
            ELSE CASE mode = "VI"      -> ViCode(f[k - 1], k)
                   [] mode = "BOOT"    -> BootCode(f[k - 1], k)
                   [] mode = "RESTORE" -> RestoreCode(f[k - 1], k)
                   [] OTHER            -> f[k - 1]]

\* The pass goes code by code.
LEMMA PassSteps ==
    ASSUME NEW mode, NEW m \in Memory, NEW codes \in Seq(Codes)
    PROVE  \E f \in [0 .. Len(codes) -> PassStates(Len(codes))] :
             /\ f[0] = Start(m, codes)
             /\ \A k \in 1 .. Len(codes) : f[k] = Step(mode, f[k - 1], k)
             /\ Pass(mode, m, codes) = f[Len(codes)]
<1> DEFINE n == Len(codes)
           S == PassStates(n)
           F(s, k) == IF k \in 1 .. n THEN Step(mode, s, k) ELSE s
           step == [p \in S \X Nat |-> F(p[1], p[2])]
           Eq(f) == PassEq(mode, m, codes, f)
           g == CHOOSE f : Eq(f)
<1>1. n \in Nat /\ Start(m, codes) \in S
  BY DEF Start, PassStates
<1>2. ASSUME NEW s \in S, NEW k \in 1 .. n PROVE Step(mode, s, k) \in S
  BY <1>1, <1>2, StepEffect
<1>3. step \in [S \X Nat -> S]
  <2>1. \A s \in S : \A k \in Nat : F(s, k) \in S
    BY <1>2
  <2> HIDE DEF F, S
  <2> QED
    BY <2>1
<1>4. PICK h \in [0 .. n -> S] : h[0] = Start(m, codes) /\ \A k \in 1 .. n : h[k] = step[<<h[k - 1], k>>]
  <2>1. PICK b \in S : b = Start(m, codes)
    BY <1>1
  <2>2. PICK st \in [S \X Nat -> S] : st = step
    BY <1>3
  <2>3. PICK N \in Nat : N = n
    BY <1>1
  <2> HIDE DEF step, S, n
  <2>4. PICK h : Iterates(S, b, N, st, h)
    BY Iteration
  <2>5. h \in [0 .. n -> S] /\ h[0] = Start(m, codes) /\ \A k \in 1 .. n : h[k] = step[<<h[k - 1], k>>]
    BY <2>1, <2>2, <2>3, <2>4, Zenon DEF Iterates
  <2> QED
    BY <2>5
<1>5. \A k \in 1 .. n : h[k] = Step(mode, h[k - 1], k)
  <2> SUFFICES ASSUME NEW k \in 1 .. n PROVE h[k] = Step(mode, h[k - 1], k)
    OBVIOUS
  <2>1. h[k - 1] \in S /\ k \in Nat
    <3>1. k - 1 \in 0 .. n
      BY <1>1
    <3> QED
      BY <1>4, <3>1
  <2>2. step[<<h[k - 1], k>>] = F(h[k - 1], k)
    <3> HIDE DEF F, S
    <3> QED
      BY <2>1
  <2> QED
    BY <1>4, <2>2
<1>6. Eq(h)
  <2>1. h = [k \in 0 .. n |-> h[k]]
    BY <1>4
  <2>2. \A k \in 0 .. n : h[k] = IF k = 0 THEN Start(m, codes) ELSE Step(mode, h[k - 1], k)
    BY <1>1, <1>4, <1>5
  <2>3. h = [k \in 0 .. n |-> IF k = 0 THEN Start(m, codes) ELSE Step(mode, h[k - 1], k)]
    BY <2>1, <2>2, Zenon
  <2> QED
    BY <2>3, Zenon DEF PassEq, Step
<1>7. Eq(g)
  BY <1>6, Zenon
<1>8. Pass(mode, m, codes) = g[n]
  BY Zenon DEF Pass, PassEq
<1>9. g = [k \in 0 .. n |-> IF k = 0 THEN Start(m, codes) ELSE Step(mode, g[k - 1], k)]
  BY <1>7, Zenon DEF PassEq, Step
<1> HIDE DEF g
<1>10. g[0] = Start(m, codes) /\ \A k \in 1 .. n : g[k] = Step(mode, g[k - 1], k)
  <2>1. \A k \in 0 .. n : g[k] = IF k = 0 THEN Start(m, codes) ELSE Step(mode, g[k - 1], k)
    BY <1>9, Zenon
  <2>2. 0 \in 0 .. n /\ \A k \in 1 .. n : k \in 0 .. n /\ k # 0
    BY <1>1
  <2> HIDE DEF n
  <2> QED
    BY <2>1, <2>2, Zenon
<1>11. \A k \in 0 .. n : k \in {j \in 0 .. n : g[j] \in S}
  <2> DEFINE T == {j \in 0 .. n : g[j] \in S}
  <2>1. 0 \in T
    BY <1>1, <1>10
  <2>2. ASSUME NEW k \in 1 .. n, k - 1 \in T PROVE k \in T
    BY <1>1, <1>2, <1>10, <2>2
  <2> HIDE DEF T, n
  <2> QED
    BY <1>1, <2>1, <2>2, UpTo DEF T
<1>12. g \in [0 .. n -> S]
  <2>1. g = [k \in 0 .. n |-> g[k]]
    <3> DEFINE V(k) == IF k = 0 THEN Start(m, codes) ELSE Step(mode, g[k - 1], k)
    <3>1. g = [k \in 0 .. n |-> V(k)]
      BY <1>9
    <3> HIDE DEF V, n
    <3> QED
      BY <3>1
  <2> HIDE DEF S, n
  <2> QED
    BY <1>11, <2>1
<1> QED
  BY <1>8, <1>10, <1>12

\* A pass over the codes of cheat i keeps what is kept, and keeps its types.
LEMMA PassKept ==
    ASSUME NEW mode, NEW m \in Memory, NEW cheats \in Seq(CheatRecords),
           NEW i \in DOMAIN cheats
    PROVE  LET r == Pass(mode, m, cheats[i].codes)
           IN  /\ r.mem \in Memory /\ r.codes \in Seq(Codes)
               /\ \A c \in Cells : KeptAt(c, m, cheats) =>
                     KeptAt(c, r.mem, [cheats EXCEPT ![i].codes = r.codes])
<1> DEFINE codes == cheats[i].codes
           n == Len(codes)
           W(s) == [cheats EXCEPT ![i].codes = s.codes]
<1>1. codes \in Seq(Codes) /\ n \in Nat /\ codes \in [1 .. n -> Codes]
  <2>1. cheats[i] \in CheatRecords
    OBVIOUS
  <2>2. cheats[i].codes \in Seq(Codes)
    BY <2>1 DEF CheatRecords
  <2> QED
    BY <2>2
<1>1a. PICK N \in Nat : N = Len(cheats)
  OBVIOUS
<1>1b. cheats \in [1 .. N -> CheatRecords] /\ i \in 1 .. N
  BY <1>1a
<1>1c. ASSUME NEW s, NEW w, w = W(s)
       PROVE  /\ DOMAIN w = DOMAIN cheats /\ w[i].codes = s.codes
              /\ \A j \in DOMAIN cheats : j # i => w[j] = cheats[j]
  <2>1. w = [cheats EXCEPT ![i] = [cheats[i] EXCEPT !.codes = s.codes]]
    BY <1>1c
  <2>2. [cheats[i] EXCEPT !.codes = s.codes].codes = s.codes
    BY <1>1b DEF CheatRecords
  <2> QED
    BY <1>1b, <2>1, <2>2
<1>2. PICK f \in [0 .. n -> PassStates(n)] :
         /\ f[0] = Start(m, codes)
         /\ \A k \in 1 .. n : f[k] = Step(mode, f[k - 1], k)
         /\ Pass(mode, m, codes) = f[n]
  BY <1>1, PassSteps
<1>3. f[n] \in PassStates(n)
  BY <1>1, <1>2
<1>4. f[n].mem \in Memory /\ f[n].codes \in Seq(Codes)
  <2>1. f[n].mem \in Memory /\ f[n].codes \in [1 .. n -> Codes]
    BY <1>3 DEF PassStates
  <2>2. PICK x \in Nat : x = n
    BY <1>1
  <2>3. PICK q \in [1 .. x -> Codes] : q = f[n].codes
    BY <2>1, <2>2
  <2>4. q \in Seq(Codes)
    OBVIOUS
  <2> QED
    BY <2>1, <2>3, <2>4
<1>5. ASSUME NEW c \in Cells, KeptAt(c, m, cheats)
      PROVE  KeptAt(c, f[n].mem, W(f[n]))
  <2> DEFINE T == {k \in 0 .. n : KeptAt(c, f[k].mem, W(f[k]))}
  <2>1. 0 \in T
    <3>1. f[0].mem = m /\ f[0].codes = codes
      BY <1>2 DEF Start
    <3>2. W(f[0]) = cheats
      <4>1. [cheats[i] EXCEPT !.codes = codes] = cheats[i]
        BY <1>1b DEF CheatRecords
      <4>2. W(f[0]) = [cheats EXCEPT ![i] = [cheats[i] EXCEPT !.codes = codes]]
        BY <3>1
      <4> QED
        BY <1>1b, <4>1, <4>2
    <3> QED
      BY <1>1, <1>5, <3>1, <3>2
  <2>2. ASSUME NEW k \in 1 .. n, k - 1 \in T PROVE k \in T
    <3>0. k - 1 \in 0 .. n /\ k \in 0 .. n
      BY <1>1
    <3>1. PICK s \in PassStates(n) : s = f[k - 1]
      BY <1>2, <3>0
    <3>2. PICK t : t = Step(mode, s, k)
      OBVIOUS
    <3>3. f[k] = t /\ KeptAt(c, s.mem, W(s))
      BY <1>2, <2>2, <3>0, <3>1, <3>2
    <3>4. t \in PassStates(n) /\ \E old2 \in Nat :
                 /\ t.codes = [s.codes EXCEPT ![k].old = old2]
                 /\ Effect(s.codes[k], s.mem, t.mem, old2)
      BY <1>1, <3>2, StepEffect
    <3>5. PICK old2 \in Nat : /\ t.codes = [s.codes EXCEPT ![k].old = old2]
                              /\ Effect(s.codes[k], s.mem, t.mem, old2)
      BY <3>4
    <3>6. s.codes \in [1 .. n -> Codes] /\ t.codes \in [1 .. n -> Codes] /\ s.mem \in Memory /\ t.mem \in Memory
      BY <3>1, <3>4 DEF PassStates
    <3>7. PICK ws : ws = W(s)
      OBVIOUS
    <3>8. PICK wt : wt = W(t)
      OBVIOUS
    <3>9. /\ DOMAIN ws = DOMAIN cheats /\ ws[i].codes = s.codes
          /\ \A j \in DOMAIN cheats : j # i => ws[j] = cheats[j]
      BY <3>7, <1>1c
    <3>10. /\ DOMAIN wt = DOMAIN cheats /\ wt[i].codes = t.codes
           /\ \A j \in DOMAIN cheats : j # i => wt[j] = cheats[j]
      BY <3>8, <1>1c
    <3>11. /\ DOMAIN s.codes = 1 .. n /\ DOMAIN t.codes = 1 .. n
           /\ t.codes[k].old = old2
           /\ \A l \in 1 .. n : /\ t.codes[l].op = s.codes[l].op
                                /\ t.codes[l].cell = s.codes[l].cell
                                /\ l # k => t.codes[l].old = s.codes[l].old
      <4>1. PICK M \in Nat : M = n
        BY <1>1
      <4>2. PICK sc \in [1 .. M -> Codes] : sc = s.codes
        BY <3>6, <4>1
      <4>3. PICK tc : tc = t.codes
        OBVIOUS
      <4>4. k \in 1 .. M /\ tc = [sc EXCEPT ![k] = [sc[k] EXCEPT !.old = old2]]
        BY <3>5, <4>1, <4>2, <4>3
      <4>5. \A x \in Codes : /\ [x EXCEPT !.old = old2].old = old2
                             /\ [x EXCEPT !.old = old2].op = x.op
                             /\ [x EXCEPT !.old = old2].cell = x.cell
        BY DEF Codes
      <4>6. /\ DOMAIN sc = 1 .. M /\ DOMAIN tc = 1 .. M
            /\ tc[k] = [sc[k] EXCEPT !.old = old2]
            /\ \A l \in 1 .. M : l # k => tc[l] = sc[l]
        BY <4>4
      <4>7. tc[k].old = old2 /\ tc[k].op = sc[k].op /\ tc[k].cell = sc[k].cell
        BY <4>4, <4>5, <4>6
      <4>8. \A l \in 1 .. M : /\ tc[l].op = sc[l].op
                              /\ tc[l].cell = sc[l].cell
                              /\ l # k => tc[l].old = sc[l].old
        BY <4>6, <4>7
      <4> QED
        BY <4>1, <4>2, <4>3, <4>6, <4>7, <4>8
    <3>12. SameCodes(ws, wt)
      BY <3>9, <3>10, <3>11, ZenonT(60) DEF SameCodes
    <3>13. \A j \in DOMAIN ws : \A l \in DOMAIN ws[j].codes :
              j # i \/ l # k => wt[j].codes[l].old = ws[j].codes[l].old
      BY <3>9, <3>10, <3>11, ZenonT(60)
    <3>14. /\ i \in DOMAIN ws /\ k \in DOMAIN ws[i].codes /\ ws[i].codes[k] \in Codes
           /\ wt[i].codes[k].old = old2
           /\ Effect(ws[i].codes[k], s.mem, t.mem, old2)
      BY <3>5, <3>6, <3>9, <3>10, <3>11
    <3>15. KeptAt(c, s.mem, ws)
      BY <3>3, <3>7
    <3>16. KeptAt(c, t.mem, wt)
      <4>1. PICK sm \in Memory : sm = s.mem
        BY <3>6
      <4>2. PICK tm \in Memory : tm = t.mem
        BY <3>6
      <4>3. KeptAt(c, sm, ws) /\ Effect(ws[i].codes[k], sm, tm, old2)
        BY <4>1, <4>2, <3>14, <3>15
      <4>4. KeptAt(c, tm, wt)
        BY <4>3, <3>12, <3>13, <3>14, CodeKept
      <4> QED
        BY <4>2, <4>4
    <3> QED
      BY <3>0, <3>3, <3>8, <3>16
  <2>3. n \in T
    <3> HIDE DEF T, n
    <3>1. \A k \in 0 .. n : k \in T
      BY <1>1, <2>1, <2>2, UpTo
    <3> QED
      BY <1>1, <3>1
  <2> QED
    BY <2>3
<1> QED
  BY <1>2, <1>4, <1>5

\* What is kept depends on the codes only.
LEMMA KeptSame ==
    ASSUME NEW c, NEW m, NEW cheats, NEW ch2, DOMAIN ch2 = DOMAIN cheats,
           \A j \in DOMAIN cheats : ch2[j].codes = cheats[j].codes,
           KeptAt(c, m, cheats)
    PROVE  KeptAt(c, m, ch2)
<1>1. SameCodes(cheats, ch2)
  BY DEF SameCodes
<1>2. c \notin Unsaved(ch2)
  BY <1>1, SameUnsaved DEF KeptAt
<1>3. \A j \in DOMAIN cheats : \A l \in DOMAIN cheats[j].codes :
         WritesTo(ch2, j, l, c) <=> WritesTo(cheats, j, l, c)
  BY <1>1, SameUnsaved
<1> QED
  BY <1>2, <1>3 DEF KeptAt, Holds

\* The states of a pass over n cheats, and the step for cheat i.
ListStates(n) == [mem : Memory, cheats : [1 .. n -> CheatRecords]]

ListStep(entry, s, i) ==
    LET r == Pass(Mode(s.cheats[i], entry), s.mem, s.cheats[i].codes)
    IN  [mem |-> r.mem,
         cheats |-> [s.cheats EXCEPT ![i].codes = r.codes,
                                     ![i].was_enabled = s.cheats[i].enabled]]

\* The codes of one cheat, in a pass over the list.
LEMMA ListStepKept ==
    ASSUME NEW n \in Nat, NEW s \in ListStates(n), NEW i \in 1 .. n, NEW entry
    PROVE  /\ ListStep(entry, s, i) \in ListStates(n)
           /\ \A c \in Cells : KeptAt(c, s.mem, s.cheats) =>
                 KeptAt(c, ListStep(entry, s, i).mem, ListStep(entry, s, i).cheats)
<1>1. PICK cheats \in [1 .. n -> CheatRecords] : cheats = s.cheats
  BY DEF ListStates
<1>2. PICK m \in Memory : m = s.mem
  BY DEF ListStates
<1>3. PICK mode : mode = Mode(s.cheats[i], entry)
  OBVIOUS
<1>4. PICK r : r = Pass(mode, m, cheats[i].codes)
  OBVIOUS
<1>5. cheats \in Seq(CheatRecords) /\ i \in DOMAIN cheats
  OBVIOUS
<1>6. /\ r.mem \in Memory /\ r.codes \in Seq(Codes)
      /\ \A c \in Cells : KeptAt(c, m, cheats) =>
            KeptAt(c, r.mem, [cheats EXCEPT ![i].codes = r.codes])
  BY <1>4, <1>5, PassKept
<1>7. PICK t : t = ListStep(entry, s, i)
  OBVIOUS
<1>8. PICK e \in BOOLEAN : e = cheats[i].enabled
  BY DEF CheatRecords
<1>9. t = [mem |-> r.mem, cheats |-> [cheats EXCEPT ![i].codes = r.codes, ![i].was_enabled = e]]
  BY <1>1, <1>2, <1>3, <1>4, <1>7, <1>8 DEF ListStep
<1>10. PICK w : w = [cheats EXCEPT ![i].codes = r.codes]
  OBVIOUS
<1>11. w \in [1 .. n -> CheatRecords] /\ w[i].codes = r.codes
  BY <1>6, <1>10 DEF CheatRecords
<1>12. t.cheats = [w EXCEPT ![i].was_enabled = e] /\ t.mem = r.mem
  BY <1>9, <1>10
<1>13. /\ t.cheats \in [1 .. n -> CheatRecords]
       /\ \A j \in 1 .. n : t.cheats[j].codes = w[j].codes
  <2>1. PICK tc : tc = t.cheats
    OBVIOUS
  <2>2. tc = [w EXCEPT ![i] = [w[i] EXCEPT !.was_enabled = e]]
    BY <1>12, <2>1
  <2>3. \A x \in CheatRecords : /\ [x EXCEPT !.was_enabled = e] \in CheatRecords
                                /\ [x EXCEPT !.was_enabled = e].codes = x.codes
    BY DEF CheatRecords
  <2>4. PICK x \in CheatRecords : x = w[i]
    BY <1>11
  <2>5. PICK y \in CheatRecords : y = [x EXCEPT !.was_enabled = e] /\ y.codes = x.codes
    BY <2>3
  <2>6. tc = [w EXCEPT ![i] = y]
    BY <2>2, <2>4, <2>5
  <2>7. tc \in [1 .. n -> CheatRecords] /\ \A j \in 1 .. n : tc[j].codes = w[j].codes
    BY <1>11, <2>4, <2>5, <2>6
  <2> QED
    BY <2>1, <2>7
<1>14. t \in ListStates(n)
  BY <1>6, <1>9, <1>12, <1>13 DEF ListStates
<1>15. ASSUME NEW c \in Cells, KeptAt(c, m, cheats) PROVE KeptAt(c, t.mem, t.cheats)
  <2>1. KeptAt(c, r.mem, w)
    BY <1>6, <1>10, <1>15
  <2>2. PICK tc : tc = t.cheats
    OBVIOUS
  <2>3. DOMAIN tc = DOMAIN w /\ \A j \in DOMAIN w : tc[j].codes = w[j].codes
    BY <1>11, <1>13, <2>2
  <2>4. KeptAt(c, r.mem, tc)
    BY <2>1, <2>3, KeptSame
  <2> QED
    BY <1>12, <2>2, <2>4
<1> QED
  BY <1>1, <1>2, <1>7, <1>14, <1>15

\* The equation that defines cheat_apply_cheats.
ListEq(m, cheats, entry, f) ==
    f = [i \in 0 .. Len(cheats) |->
            IF i = 0 THEN [mem |-> m, cheats |-> cheats] ELSE ListStep(entry, f[i - 1], i)]

\* cheat_apply_cheats keeps what is kept.
LEMMA ApplyKept ==
    ASSUME NEW m \in Memory, NEW cheats \in Seq(CheatRecords), NEW entry
    PROVE  LET r == cheat_apply_cheats(m, cheats, entry)
           IN  /\ r.mem \in Memory /\ r.cheats \in Seq(CheatRecords)
               /\ \A c \in Cells : KeptAt(c, m, cheats) => KeptAt(c, r.mem, r.cheats)
<1> DEFINE n == Len(cheats)
           S == ListStates(n)
           F(s, k) == IF k \in 1 .. n THEN ListStep(entry, s, k) ELSE s
           step == [p \in S \X Nat |-> F(p[1], p[2])]
           base == [mem |-> m, cheats |-> cheats]
           Eq(f) == \* The equation that defines cheat_apply_cheats.
ListEq(m, cheats, entry, f)
           g == CHOOSE f : Eq(f)
<1>1. n \in Nat /\ base \in S
  BY DEF ListStates
<1>2. ASSUME NEW s \in S, NEW k \in 1 .. n
      PROVE  /\ ListStep(entry, s, k) \in S
             /\ \A c \in Cells : KeptAt(c, s.mem, s.cheats) =>
                   KeptAt(c, ListStep(entry, s, k).mem, ListStep(entry, s, k).cheats)
  BY <1>1, <1>2, ListStepKept
<1>3. step \in [S \X Nat -> S]
  <2>1. \A s \in S : \A k \in Nat : F(s, k) \in S
    BY <1>2
  <2> HIDE DEF F, S
  <2> QED
    BY <2>1
<1>4. PICK h \in [0 .. n -> S] : h[0] = base /\ \A k \in 1 .. n : h[k] = step[<<h[k - 1], k>>]
  <2>1. PICK b \in S : b = base
    BY <1>1
  <2>2. PICK st \in [S \X Nat -> S] : st = step
    BY <1>3
  <2>3. PICK N \in Nat : N = n
    BY <1>1
  <2> HIDE DEF step, S, n, base
  <2>4. PICK h : Iterates(S, b, N, st, h)
    BY Iteration
  <2>5. h \in [0 .. n -> S] /\ h[0] = base /\ \A k \in 1 .. n : h[k] = step[<<h[k - 1], k>>]
    BY <2>1, <2>2, <2>3, <2>4, Zenon DEF Iterates
  <2> QED
    BY <2>5
<1>5. \A k \in 1 .. n : h[k] = ListStep(entry, h[k - 1], k)
  <2> SUFFICES ASSUME NEW k \in 1 .. n PROVE h[k] = ListStep(entry, h[k - 1], k)
    OBVIOUS
  <2>1. h[k - 1] \in S /\ k \in Nat
    <3>1. k - 1 \in 0 .. n
      BY <1>1
    <3> QED
      BY <1>4, <3>1
  <2>2. step[<<h[k - 1], k>>] = F(h[k - 1], k)
    <3> HIDE DEF F, S
    <3> QED
      BY <2>1
  <2> QED
    BY <1>4, <2>2
<1>6. Eq(h)
  <2>1. h = [k \in 0 .. n |-> h[k]]
    BY <1>4
  <2>2. \A k \in 0 .. n : h[k] = IF k = 0 THEN base ELSE ListStep(entry, h[k - 1], k)
    <3> HIDE DEF base
    <3> QED
      BY <1>1, <1>4, <1>5
  <2>3. h = [k \in 0 .. n |-> IF k = 0 THEN base ELSE ListStep(entry, h[k - 1], k)]
    BY <2>1, <2>2, Zenon
  <2> QED
    BY <2>3, Zenon DEF ListEq
<1>7. Eq(g)
  BY <1>6, Zenon
<1>8. cheat_apply_cheats(m, cheats, entry) = g[n]
  BY Zenon DEF cheat_apply_cheats, ListEq, ListStep
<1>9. g = [k \in 0 .. n |-> IF k = 0 THEN base ELSE ListStep(entry, g[k - 1], k)]
  BY <1>7, Zenon DEF ListEq
<1> HIDE DEF g
<1>10. g[0] = base /\ \A k \in 1 .. n : g[k] = ListStep(entry, g[k - 1], k)
  <2>1. \A k \in 0 .. n : g[k] = IF k = 0 THEN base ELSE ListStep(entry, g[k - 1], k)
    BY <1>9, Zenon
  <2>2. 0 \in 0 .. n /\ \A k \in 1 .. n : k \in 0 .. n /\ k # 0
    BY <1>1
  <2> HIDE DEF n, base
  <2> QED
    BY <2>1, <2>2, Zenon
<1>11. base.mem = m /\ base.cheats = cheats
  OBVIOUS
<1> DEFINE P(s) == s \in S /\ \A c \in Cells : KeptAt(c, m, cheats) => KeptAt(c, s.mem, s.cheats)
           T == {k \in 0 .. n : P(g[k])}
<1>12. 0 \in T
  <2>1. P(base)
    BY <1>1, <1>11
  <2> HIDE DEF P, base
  <2> QED
    BY <1>1, <1>10, <2>1
<1>13. ASSUME NEW k \in 1 .. n, k - 1 \in T PROVE k \in T
  <2>1. PICK s : s = g[k - 1]
    OBVIOUS
  <2>2. PICK t : t = ListStep(entry, s, k)
    OBVIOUS
  <2>3. P(s) /\ g[k] = t
    BY <1>10, <1>13, <2>1, <2>2
  <2>4. P(t)
    <3> HIDE DEF S
    <3> QED
      BY <1>2, <2>2, <2>3
  <2> HIDE DEF P
  <2> QED
    BY <1>1, <2>3, <2>4
<1>14. P(g[n])
  <2> HIDE DEF P, n
  <2>1. PICK N \in Nat : N = n
    BY <1>1
  <2>2. PICK T2 : T2 = T
    OBVIOUS
  <2>3. 0 \in T2 /\ \A k \in 1 .. N : k - 1 \in T2 => k \in T2
    BY <1>12, <1>13, <2>1, <2>2
  <2>4. \A k \in 0 .. N : k \in T2
    BY <2>3, UpTo
  <2> QED
    BY <2>1, <2>2, <2>4
<1>15. g[n].mem \in Memory /\ g[n].cheats \in Seq(CheatRecords)
  <2>1. PICK N \in Nat : N = n
    BY <1>1
  <2>2. g[n].mem \in Memory /\ g[n].cheats \in [1 .. n -> CheatRecords]
    BY <1>14 DEF ListStates
  <2>3. PICK q \in [1 .. N -> CheatRecords] : q = g[n].cheats
    BY <2>1, <2>2
  <2>4. q \in Seq(CheatRecords)
    OBVIOUS
  <2> QED
    BY <2>2, <2>3, <2>4
<1> QED
  BY <1>8, <1>14, <1>15

-----------------------------------------------------------------------------
(* Cheats: a list of codes as it is stored *)

RawCodes == [op : STRING, cell : Nat, value : Nat, count : Nat]
Fresh == [op : STRING, cell : Cells, value : Nat, old : {CHEAT_CODE_MAGIC_VALUE}]

\* The codes from place i on, given those from the next two places on.
ExpandFrom(list, i, a, b) ==
    CASE i > Len(list) -> <<>>
      [] i < Len(list) /\ list[i].op = "patch" ->
             [j \in 1..list[i].count |->
                 [op |-> list[i + 1].op, old |-> CHEAT_CODE_MAGIC_VALUE,
                  cell |-> list[i + 1].cell + (j - 1) * list[i].cell,
                  value |-> list[i + 1].value + (j - 1) * list[i].value]]
             \o b
      [] OTHER -> <<[op |-> list[i].op, cell |-> list[i].cell, value |-> list[i].value,
                     old |-> CHEAT_CODE_MAGIC_VALUE]>> \o a

ExpandEq(list, f) ==
    f = [i \in 1 .. Len(list) + 2 |-> ExpandFrom(list, i, f[i + 1], f[i + 2])]

\* One place of the list.
LEMMA ExpandType ==
    ASSUME NEW list, IsList(list), NEW i \in 1 .. Len(list),
           NEW a \in Seq(Fresh), NEW b \in Seq(Fresh)
    PROVE  ExpandFrom(list, i, a, b) \in Seq(Fresh)
<1>1. /\ Len(list) \in Nat /\ i \in Nat /\ ~(i > Len(list))
      /\ list[i] \in RawCodes
  <2>1. list \in Seq(RawCodes)
    BY Zenon DEF IsList, RawCodes
  <2> QED
    BY <2>1
<1>2. CASE i < Len(list) /\ list[i].op = "patch"
  <2>1. PICK x \in RawCodes : x = list[i]
    BY <1>1
  <2>2. list[i + 1] \in RawCodes
    <3>1. i + 1 \in 1 .. Len(list)
      BY <1>1, <1>2
    <3> QED
      <4>1. list \in Seq(RawCodes)
        BY Zenon DEF IsList, RawCodes
      <4> QED
        BY <3>1, <4>1
  <2>3. PICK y \in RawCodes : y = list[i + 1]
    BY <2>2
  <2>4. PICK n \in Nat : n = x.count
    BY DEF RawCodes
  <2>5. \A j \in 1 .. n : y.cell + (j - 1) * x.cell \in Cells
    <3>1. list \in Seq(RawCodes)
      BY Zenon DEF IsList, RawCodes
    <3>2. i \in DOMAIN list
      BY <3>1
    <3>3. \A j \in 1 .. list[i].count : list[i + 1].cell + (j - 1) * list[i].cell \in Cells
      BY <1>2, <3>2, Zenon DEF IsList
    <3> QED
      BY <2>1, <2>3, <2>4, <3>3, Zenon
  <2>6. \A j \in 1 .. n : y.value + (j - 1) * x.value \in Nat
    <3>1. \A j \in 1 .. n : j - 1 \in Nat
      OBVIOUS
    <3>2. x.value \in Nat /\ y.value \in Nat
      BY DEF RawCodes
    <3>3. \A p, q \in Nat : p * q \in Nat
      OBVIOUS
    <3>4. \A j \in 1 .. n : (j - 1) * x.value \in Nat
      BY <3>1, <3>2, <3>3
    <3> QED
      BY <3>2, <3>4
  <2> DEFINE V(j) == [op |-> y.op, old |-> CHEAT_CODE_MAGIC_VALUE,
                      cell |-> y.cell + (j - 1) * x.cell,
                      value |-> y.value + (j - 1) * x.value]
  <2>7. \A j \in 1 .. n : V(j) \in Fresh
    BY <2>5, <2>6 DEF Fresh, RawCodes
  <2> HIDE DEF V
  <2>8. [j \in 1 .. n |-> V(j)] \in Seq(Fresh)
    BY <2>7
  <2>9. [j \in 1 .. n |-> V(j)] \o b \in Seq(Fresh)
    BY <2>8
  <2>10. ExpandFrom(list, i, a, b) = [j \in 1 .. n |-> V(j)] \o b
    BY <1>1, <1>2, <2>1, <2>3, <2>4, Zenon DEF ExpandFrom, V
  <2> QED
    BY <2>9, <2>10
<1>3. CASE ~(i < Len(list) /\ list[i].op = "patch")
  <2>1. list[i].cell \in Cells
    BY <1>1, <1>3 DEF IsList
  <2> DEFINE v == [op |-> list[i].op, cell |-> list[i].cell, value |-> list[i].value,
                   old |-> CHEAT_CODE_MAGIC_VALUE]
  <2>2. v \in Fresh
    BY <1>1, <2>1 DEF Fresh, RawCodes
  <2>3. ExpandFrom(list, i, a, b) = <<v>> \o a
    BY <1>1, <1>3, Zenon DEF ExpandFrom
  <2> HIDE DEF v
  <2> QED
    BY <2>2, <2>3
<1> QED
  BY <1>2, <1>3

\* A stored list: every code is for a cell and holds no old value.
LEMMA ExpandFresh ==
    ASSUME NEW list, IsList(list)
    PROVE  Expand(list) \in Seq(Fresh)
<1> DEFINE n == Len(list)
           S == Seq(Fresh) \X Seq(Fresh)
           F(s, j) == IF j \in 1 .. n THEN <<ExpandFrom(list, n + 1 - j, s[1], s[2]), s[1]>> ELSE s
           step == [p \in S \X Nat |-> F(p[1], p[2])]
           g == CHOOSE f : ExpandEq(list, f)
<1>1. n \in Nat /\ <<>> \in Seq(Fresh)
  BY DEF IsList
<1>2. ASSUME NEW s \in S, NEW j \in Nat PROVE F(s, j) \in S
  <2>1. PICK a \in Seq(Fresh), b \in Seq(Fresh) : s = <<a, b>>
    OBVIOUS
  <2>2. CASE j \in 1 .. n
    <3>1. PICK i \in 1 .. n : i = n + 1 - j
      <4>1. n + 1 - j \in 1 .. n
        BY <1>1, <2>2
      <4> QED
        BY <4>1
    <3>2. ExpandFrom(list, i, a, b) \in Seq(Fresh)
      BY ExpandType
    <3>3. F(s, j) = <<ExpandFrom(list, i, a, b), a>>
      BY <2>1, <2>2, <3>1
    <3> QED
      BY <3>2, <3>3
  <2> QED
    BY <2>2
<1>3. step \in [S \X Nat -> S]
  <2> HIDE DEF F, S
  <2> QED
    BY <1>2
<1>4. PICK h \in [0 .. n -> S] : h[0] = <<<<>>, <<>>>> /\ \A j \in 1 .. n : h[j] = step[<<h[j - 1], j>>]
  <2>1. PICK b \in S : b = <<<<>>, <<>>>>
    BY <1>1
  <2>2. PICK st \in [S \X Nat -> S] : st = step
    BY <1>3
  <2>3. PICK N \in Nat : N = n
    BY <1>1
  <2> HIDE DEF step, S, n
  <2>4. PICK h : Iterates(S, b, N, st, h)
    BY Iteration
  <2>5. h \in [0 .. n -> S] /\ h[0] = <<<<>>, <<>>>> /\ \A j \in 1 .. n : h[j] = step[<<h[j - 1], j>>]
    BY <2>1, <2>2, <2>3, <2>4, Zenon DEF Iterates
  <2> QED
    BY <2>5
<1>5. ASSUME NEW j \in 1 .. n
      PROVE  /\ h[j - 1] \in S /\ h[j] \in S
             /\ h[j][1] = ExpandFrom(list, n + 1 - j, h[j - 1][1], h[j - 1][2])
             /\ h[j][2] = h[j - 1][1]
  <2>1. h[j - 1] \in S /\ j \in Nat /\ h[j] \in S
    <3>1. j - 1 \in 0 .. n /\ j \in 0 .. n
      BY <1>1
    <3> QED
      BY <1>4, <3>1
  <2>2. step[<<h[j - 1], j>>] = F(h[j - 1], j)
    <3> HIDE DEF F, S
    <3> QED
      BY <2>1
  <2>3. h[j] = <<ExpandFrom(list, n + 1 - j, h[j - 1][1], h[j - 1][2]), h[j - 1][1]>>
    BY <1>4, <2>2
  <2> QED
    BY <2>1, <2>3
<1> DEFINE f == [i \in 1 .. n + 2 |-> IF i = n + 2 THEN <<>> ELSE h[n + 1 - i][1]]
<1>6. \A i \in 1 .. n + 2 : f[i] = ExpandFrom(list, i, f[i + 1], f[i + 2])
  <2> SUFFICES ASSUME NEW i \in 1 .. n + 2 PROVE f[i] = ExpandFrom(list, i, f[i + 1], f[i + 2])
    OBVIOUS
  <2>1. CASE i > n
    <3>1. ExpandFrom(list, i, f[i + 1], f[i + 2]) = <<>>
      <4>1. ~(i < n)
        BY <1>1, <2>1
      <4> QED
        BY <2>1, <4>1, Zenon DEF ExpandFrom
    <3>2. f[i] = <<>>
      BY <1>1, <1>4, <2>1
    <3> QED
      BY <3>1, <3>2
  <2>2. CASE ~(i > n)
    <3>1. PICK j \in 1 .. n : j = n + 1 - i
      <4>1. n + 1 - i \in 1 .. n
        BY <1>1, <2>2
      <4> QED
        BY <4>1
    <3>2. n + 1 - j = i /\ j - 1 = n + 1 - (i + 1) /\ i + 1 \in 1 .. n + 2 /\ i + 1 # n + 2 /\ i # n + 2
      BY <1>1, <2>2, <3>1
    <3>3. f[i] = h[j][1] /\ f[i + 1] = h[j - 1][1]
      BY <3>1, <3>2
    <3>4. f[i + 2] = h[j - 1][2]
      <4>1. CASE j = 1
        <5>1. i + 2 = n + 2 /\ i + 2 \in 1 .. n + 2 /\ j - 1 = 0
          BY <1>1, <3>1, <4>1
        <5>2. f[i + 2] = <<>>
          BY <5>1
        <5>3. h[j - 1][2] = <<>>
          BY <5>1, <1>4
        <5> QED
          BY <5>2, <5>3
      <4>2. CASE j # 1
        <5>1. j - 1 \in 1 .. n /\ j - 1 - 1 = n + 1 - (i + 2) /\ i + 2 \in 1 .. n + 2 /\ i + 2 # n + 2
          BY <1>1, <3>1, <4>2
        <5>2. h[j - 1][2] = h[j - 1 - 1][1]
          BY <1>5, <5>1
        <5>3. f[i + 2] = h[n + 1 - (i + 2)][1]
          BY <5>1
        <5> QED
          BY <5>1, <5>2, <5>3
      <4> QED
        BY <4>1, <4>2
    <3>5. h[j][1] = ExpandFrom(list, n + 1 - j, h[j - 1][1], h[j - 1][2])
      BY <1>5
    <3> HIDE DEF f, n
    <3> QED
      BY <3>2, <3>3, <3>4, <3>5
  <2> QED
    BY <2>1, <2>2
<1>7. ExpandEq(list, f)
  <2>1. f = [i \in 1 .. n + 2 |-> f[i]]
    OBVIOUS
  <2> HIDE DEF f
  <2>2. f = [i \in 1 .. n + 2 |-> ExpandFrom(list, i, f[i + 1], f[i + 2])]
    BY <1>6, <2>1, Zenon
  <2> QED
    BY <2>2, Zenon DEF ExpandEq
<1> HIDE DEF f
<1>8. ExpandEq(list, g)
  BY <1>7, Zenon
<1>9. Expand(list) = g[1]
  BY Zenon DEF Expand, ExpandEq, ExpandFrom
<1> HIDE DEF g
<1>10. \A i \in 1 .. n + 2 : g[i] = ExpandFrom(list, i, g[i + 1], g[i + 2])
  BY <1>8, Zenon DEF ExpandEq
<1> DEFINE T == {j \in 0 .. n : g[n + 1 - j] \in Seq(Fresh) /\ g[n + 2 - j] \in Seq(Fresh)}
<1>11. 0 \in T
  <2>1. \A i \in 1 .. n + 2 : i > n => g[i] = <<>>
    <3>1. \A i \in 1 .. n + 2 : i > n => ~(i < n)
      BY <1>1
    <3> QED
      BY <1>10, <3>1, Zenon DEF ExpandFrom
  <2>2. /\ n + 1 \in 1 .. n + 2 /\ n + 2 \in 1 .. n + 2 /\ n + 1 > n /\ n + 2 > n
        /\ n + 1 - 0 = n + 1 /\ n + 2 - 0 = n + 2 /\ 0 \in 0 .. n
    BY <1>1
  <2>3. g[n + 1] = <<>> /\ g[n + 2] = <<>>
    BY <2>1, <2>2
  <2> QED
    BY <1>1, <2>2, <2>3
<1>12. ASSUME NEW j \in 1 .. n, j - 1 \in T PROVE j \in T
  <2>1. PICK i \in 1 .. n : i = n + 1 - j
    <3>1. n + 1 - j \in 1 .. n
      BY <1>1
    <3> QED
      BY <3>1
  <2>2. /\ n + 1 - (j - 1) = i + 1 /\ n + 2 - (j - 1) = i + 2 /\ n + 2 - j = i + 1
        /\ i \in 1 .. n + 2 /\ j \in 0 .. n
    BY <1>1, <2>1
  <2>3. PICK a \in Seq(Fresh) : a = g[i + 1]
    BY <1>12, <2>2
  <2>4. PICK b \in Seq(Fresh) : b = g[i + 2]
    BY <1>12, <2>2
  <2>5. ExpandFrom(list, i, a, b) \in Seq(Fresh)
    BY ExpandType
  <2>6. g[i] = ExpandFrom(list, i, a, b)
    BY <1>10, <2>2, <2>3, <2>4, Zenon
  <2>7. g[n + 1 - j] \in Seq(Fresh) /\ g[n + 2 - j] \in Seq(Fresh)
    BY <2>1, <2>2, <2>3, <2>5, <2>6
  <2> QED
    BY <2>2, <2>7
<1>13. n \in T
  <2>1. PICK N \in Nat : N = n
    BY <1>1
  <2>2. PICK T2 : T2 = T
    OBVIOUS
  <2> HIDE DEF T, n
  <2>3. 0 \in T2 /\ \A k \in 1 .. N : k - 1 \in T2 => k \in T2
    BY <1>11, <1>12, <2>1, <2>2
  <2>4. \A k \in 0 .. N : k \in T2
    BY <2>3, UpTo
  <2> QED
    BY <2>1, <2>2, <2>4
<1>14. g[n + 1 - n] \in Seq(Fresh) /\ n + 1 - n = 1
  BY <1>1, <1>13
<1> QED
  BY <1>9, <1>14

-----------------------------------------------------------------------------
(* Cheats: the invariant *)

CheatInv ==
    /\ mem \in Memory /\ active_cheats \in Seq(CheatRecords) /\ GamesharkActive \in BOOLEAN
    /\ \A c \in Cells \ lost : KeptAt(c, mem, active_cheats)

\* A stored list is one of codes, and every code of it lacks an old value.
LEMMA NewCheat ==
    ASSUME NEW list, IsList(list)
    PROVE  /\ Expand(list) \in Seq(Codes)
           /\ \A k \in DOMAIN Expand(list) : Expand(list)[k].old = CHEAT_CODE_MAGIC_VALUE
<1>1. PICK s \in Seq(Fresh) : s = Expand(list)
  BY ExpandFresh
<1>2. \A k \in DOMAIN s : s[k] \in Fresh
  OBVIOUS
<1>3. \A x \in Fresh : x \in Codes /\ x.old = CHEAT_CODE_MAGIC_VALUE
  BY DEF Fresh, Codes, CHEAT_CODE_MAGIC_VALUE
<1>4. s \in Seq(Codes)
  <2>1. PICK n \in Nat : n = Len(s)
    OBVIOUS
  <2>2. s \in [1 .. n -> Fresh]
    BY <2>1
  <2>3. s \in [1 .. n -> Codes]
    BY <1>3, <2>2
  <2> QED
    BY <2>3
<1> QED
  BY <1>1, <1>2, <1>3, <1>4

\* The list after cheat_add_new: it is one of cheats, and every code that holds
\* a value was there before, at the same place.
LEMMA AddNewList ==
    ASSUME NEW cheats \in Seq(CheatRecords), NEW name \in Names \cup {"HACK0"}, NEW enabled \in BOOLEAN,
           NEW list, IsList(list)
    PROVE  LET ch2 == cheat_add_new(cheats, name, list, enabled)
           IN  /\ ch2 \in Seq(CheatRecords)
               /\ \A j \in DOMAIN ch2 : \A l \in DOMAIN ch2[j].codes :
                     \/ ch2[j].codes[l].old = CHEAT_CODE_MAGIC_VALUE
                     \/ j \in DOMAIN cheats /\ ch2[j] = cheats[j]
<1>1. PICK codes \in Seq(Codes) : codes = Expand(list)
  BY NewCheat
<1>2. \A k \in DOMAIN codes : codes[k].old = CHEAT_CODE_MAGIC_VALUE
  BY <1>1, NewCheat
<1> DEFINE new0 == [name |-> name, enabled |-> enabled, was_enabled |-> FALSE, codes |-> codes]
<1>3. new0 \in CheatRecords /\ new0.codes = codes
  BY DEF CheatRecords
<1>4. PICK new \in CheatRecords : new = new0
  BY <1>3
<1>5. new.codes = codes
  BY <1>3, <1>4
<1>6. PICK ch2 : ch2 = cheat_add_new(cheats, name, list, enabled)
  OBVIOUS
<1>7. ch2 = IF \E i \in DOMAIN cheats : cheats[i].name = name
              THEN [i \in DOMAIN cheats |-> IF cheats[i].name = name THEN new ELSE cheats[i]]
              ELSE Append(cheats, new)
  BY <1>1, <1>4, <1>6, Zenon DEF cheat_add_new
<1>8. CASE \E i \in DOMAIN cheats : cheats[i].name = name
  <2>1. ch2 = [i \in DOMAIN cheats |-> IF cheats[i].name = name THEN new ELSE cheats[i]]
    BY <1>7, <1>8
  <2>2. ch2 \in Seq(CheatRecords) /\ \A j \in DOMAIN ch2 : j \in DOMAIN cheats /\ (ch2[j] = new \/ ch2[j] = cheats[j])
    <3>1. PICK n \in Nat : n = Len(cheats)
      OBVIOUS
    <3>2. cheats \in [1 .. n -> CheatRecords] /\ DOMAIN cheats = 1 .. n
      BY <3>1
    <3>3. ch2 \in [1 .. n -> CheatRecords]
      BY <2>1, <3>2
    <3> QED
      BY <2>1, <3>2, <3>3
  <2> QED
    BY <1>2, <1>5, <1>6, <2>2
<1>9. CASE ~\E i \in DOMAIN cheats : cheats[i].name = name
  <2>1. ch2 = Append(cheats, new)
    BY <1>7, <1>9
  <2>2. ch2 \in Seq(CheatRecords)
    BY <2>1
  <2>3. \A j \in DOMAIN ch2 : ch2[j] = new \/ (j \in DOMAIN cheats /\ ch2[j] = cheats[j])
    BY <2>1
  <2> QED
    BY <1>2, <1>5, <1>6, <2>2, <2>3
<1> QED
  BY <1>8, <1>9

\* Codes change or go, and memory stays, or becomes the guest's: what is not
\* recorded as lost is kept.
LEMMA DiscardKept ==
    ASSUME NEW c \in Cells, NEW m, NEW m2, NEW cheats, NEW ch2,
           KeptAt(c, m, cheats), m2[c] = m[c] \/ m2[c] \in GuestValues,
           c \notin Unsaved(ch2), ~(Holds(cheats, c) /\ ~Holds(ch2, c)),
           \A j \in DOMAIN ch2 : \A l \in DOMAIN ch2[j].codes :
              \/ ch2[j].codes[l].old = CHEAT_CODE_MAGIC_VALUE
              \/ j \in DOMAIN cheats /\ ch2[j].codes = cheats[j].codes
    PROVE  KeptAt(c, m2, ch2)
<1>1. ASSUME NEW j \in DOMAIN ch2, NEW l \in DOMAIN ch2[j].codes, WritesTo(ch2, j, l, c)
      PROVE  ch2[j].codes[l].old \in GuestValues \cup {CHEAT_CODE_MAGIC_VALUE}
  <2>1. CASE j \in DOMAIN cheats /\ ch2[j].codes = cheats[j].codes
    <3>1. l \in DOMAIN cheats[j].codes /\ WritesTo(cheats, j, l, c)
      BY <1>1, <2>1 DEF WritesTo
    <3> QED
      BY <2>1, <3>1 DEF KeptAt
  <2> QED
    BY <2>1
<1> QED
  BY <1>1 DEF KeptAt

\* A step that discards codes and records what is lost with them.
LEMMA DiscardStep ==
    ASSUME CheatInv, RecordLost(TRUE),
           mem' \in Memory, active_cheats' \in Seq(CheatRecords), GamesharkActive' \in BOOLEAN,
           \A c \in Cells : mem'[c] = mem[c] \/ mem'[c] \in GuestValues,
           \A j \in DOMAIN active_cheats' : \A l \in DOMAIN (active_cheats'[j].codes) :
              \/ active_cheats'[j].codes[l].old = CHEAT_CODE_MAGIC_VALUE
              \/ j \in DOMAIN active_cheats /\ active_cheats'[j].codes = active_cheats[j].codes
    PROVE  CheatInv'
<1>1. ASSUME NEW c \in Cells \ lost' PROVE KeptAt(c, mem, active_cheats)'
  <2>1. c \in Cells /\ c \notin lost /\ c \notin Unsaved(active_cheats')
        /\ ~(Holds(active_cheats, c) /\ ~Holds(active_cheats', c))
    BY <1>1 DEF RecordLost
  <2>2. PICK m : m = mem
    OBVIOUS
  <2>3. PICK m2 : m2 = mem'
    OBVIOUS
  <2>4. PICK cheats : cheats = active_cheats
    OBVIOUS
  <2>5. PICK ch2 : ch2 = active_cheats'
    OBVIOUS
  <2>6. KeptAt(c, m, cheats) /\ (m2[c] = m[c] \/ m2[c] \in GuestValues)
    BY <2>1, <2>2, <2>3, <2>4 DEF CheatInv
  <2>7. \A j \in DOMAIN ch2 : \A l \in DOMAIN (ch2[j].codes) :
              \/ ch2[j].codes[l].old = CHEAT_CODE_MAGIC_VALUE
              \/ j \in DOMAIN cheats /\ ch2[j].codes = cheats[j].codes
    BY <2>4, <2>5
  <2>8. c \in Cells /\ c \notin Unsaved(ch2) /\ ~(Holds(cheats, c) /\ ~Holds(ch2, c))
    BY <2>1, <2>4, <2>5
  <2>9. KeptAt(c, m2, ch2)
    BY <2>6, <2>7, <2>8, DiscardKept
  <2> QED
    BY <2>3, <2>5, <2>9
<1> QED
  BY <1>1 DEF CheatInv

\* A frame applies the cheats, or lets the guest boot.
LEMMA FrameStep ==
    ASSUME CheatInv, NEW n, gs_apply_cheats(n), RecordLost(FALSE), UNCHANGED GamesharkActive
    PROVE  CheatInv'
<1>1. lost' = lost \cup Unsaved(active_cheats')
  BY DEF RecordLost
<1>2. CASE UNCHANGED <<mem, active_cheats>>
  BY <1>1, <1>2 DEF CheatInv
<1>3. CASE ~UNCHANGED <<mem, active_cheats>>
  <2>1. PICK entry : entry = IF n = 0 THEN "BOOT" ELSE "VI"
    OBVIOUS
  <2>2. PICK r : r = cheat_apply_cheats(mem, active_cheats, entry)
    OBVIOUS
  <2>3. mem' = r.mem /\ active_cheats' = r.cheats
    BY <1>3, <2>1, <2>2 DEF gs_apply_cheats
  <2>4. PICK m \in Memory : m = mem
    BY DEF CheatInv
  <2>5. PICK cheats \in Seq(CheatRecords) : cheats = active_cheats
    BY DEF CheatInv
  <2>6. r = cheat_apply_cheats(m, cheats, entry)
    BY <2>2, <2>4, <2>5
  <2>7. /\ r.mem \in Memory /\ r.cheats \in Seq(CheatRecords)
        /\ \A c \in Cells : KeptAt(c, m, cheats) => KeptAt(c, r.mem, r.cheats)
    BY <2>6, ApplyKept
  <2>8. \A c \in Cells \ lost' : KeptAt(c, mem, active_cheats)'
    BY <1>1, <2>3, <2>4, <2>5, <2>7 DEF CheatInv
  <2> QED
    BY <2>3, <2>7, <2>8 DEF CheatInv
<1> QED
  BY <1>2, <1>3

\* The initial state keeps everything.
LEMMA InitCheatInv == Init => CheatInv
<1> SUFFICES ASSUME Init PROVE CheatInv
  OBVIOUS
<1>1. mem = [c \in Cells |-> 0] /\ active_cheats = <<>> /\ GamesharkActive = FALSE
  BY DEF Init, InitCheats
<1>2. mem \in Memory /\ \A c \in Cells : mem[c] \in GuestValues
  BY <1>1, CheatsAssumption DEF Memory
<1>3. ASSUME NEW c \in Cells PROVE KeptAt(c, mem, active_cheats)
  <2>1. DOMAIN active_cheats = {}
    BY <1>1
  <2> QED
    BY <1>2, <2>1 DEF KeptAt, Unsaved, Holds
<1>4. active_cheats \in Seq(CheatRecords) /\ GamesharkActive \in BOOLEAN
  <2>1. <<>> \in Seq(CheatRecords) /\ FALSE \in BOOLEAN
    OBVIOUS
  <2> QED
    BY <1>1, <2>1, Zenon
<1> QED
  BY <1>2, <1>3, <1>4 DEF CheatInv

\* The calls of the front end for cheats.
LEMMA CallsStep ==
    ASSUME CheatInv, CheatCalls, RecordLost(TRUE) PROVE CheatInv'
<1> DEFINE Fine == /\ mem' \in Memory /\ active_cheats' \in Seq(CheatRecords) /\ GamesharkActive' \in BOOLEAN
                   /\ \A c \in Cells : mem'[c] = mem[c] \/ mem'[c] \in GuestValues
                   /\ \A j \in DOMAIN active_cheats' : \A l \in DOMAIN (active_cheats'[j].codes) :
                        \/ active_cheats'[j].codes[l].old = CHEAT_CODE_MAGIC_VALUE
                        \/ j \in DOMAIN active_cheats /\ active_cheats'[j].codes = active_cheats[j].codes
<1> SUFFICES Fine
  BY DiscardStep
<1>0. mem \in Memory /\ active_cheats \in Seq(CheatRecords) /\ GamesharkActive \in BOOLEAN
  BY DEF CheatInv
<1>1. ASSUME NEW name \in Names, NEW e \in BOOLEAN, cheat_set_enabled(name, e) PROVE Fine
  <2>1. PICK n \in Nat : n = Len(active_cheats)
    BY <1>0
  <2>2. active_cheats \in [1 .. n -> CheatRecords] /\ DOMAIN active_cheats = 1 .. n
    BY <1>0, <2>1
  <2>3. \A x \in CheatRecords : [x EXCEPT !.enabled = e] \in CheatRecords /\ [x EXCEPT !.enabled = e].codes = x.codes
    BY DEF CheatRecords
  <2>4. active_cheats' = [i \in 1 .. n |->
                            IF active_cheats[i].name = name
                              THEN [active_cheats[i] EXCEPT !.enabled = e]
                              ELSE active_cheats[i]]
        /\ UNCHANGED <<mem, GamesharkActive>>
    BY <1>1, <2>2 DEF cheat_set_enabled
  <2>5. active_cheats' \in [1 .. n -> CheatRecords] /\ \A i \in 1 .. n : active_cheats'[i].codes = active_cheats[i].codes
    BY <2>2, <2>3, <2>4
  <2>6. active_cheats' \in Seq(CheatRecords) /\ DOMAIN active_cheats' = 1 .. n
    BY <2>5
  <2> QED
    BY <1>0, <2>2, <2>4, <2>5, <2>6
<1>2. ASSUME NEW name \in Names, NEW e \in BOOLEAN, NEW list \in Lists, retro_cheat_set(name, e, list) PROVE Fine
  <2>1. PICK cheats \in Seq(CheatRecords) : cheats = active_cheats
    BY <1>0
  <2>2. IsList(list)
    BY CheatsAssumption
  <2>3. PICK nm \in Names \cup {"HACK0"} : nm = name
    OBVIOUS
  <2>4. PICK ch2 : ch2 = cheat_add_new(cheats, nm, list, e)
    OBVIOUS
  <2>5. active_cheats' = ch2 /\ UNCHANGED <<mem, GamesharkActive>>
    BY <1>2, <2>1, <2>3, <2>4 DEF retro_cheat_set
  <2>6. /\ ch2 \in Seq(CheatRecords)
        /\ \A j \in DOMAIN ch2 : \A l \in DOMAIN ch2[j].codes :
              \/ ch2[j].codes[l].old = CHEAT_CODE_MAGIC_VALUE
              \/ j \in DOMAIN cheats /\ ch2[j] = cheats[j]
    BY <2>2, <2>4, AddNewList
  <2> QED
    BY <1>0, <2>1, <2>5, <2>6
<1>3. CASE retro_cheat_reset
  <2>1. active_cheats' = <<>> /\ UNCHANGED <<mem, GamesharkActive>>
    BY <1>3 DEF retro_cheat_reset
  <2>2. active_cheats' \in Seq(CheatRecords) /\ DOMAIN active_cheats' = {}
    BY <2>1
  <2> QED
    BY <1>0, <2>1, <2>2
<1>4. ASSUME NEW a \in BOOLEAN, event_set_gameshark(a) PROVE Fine
  <2>1. GamesharkActive' = a /\ UNCHANGED <<mem, active_cheats>>
    BY <1>4 DEF event_set_gameshark
  <2> QED
    BY <1>0, <2>1
<1> HIDE DEF Fine
<1> QED
  BY <1>1, <1>2, <1>3, <1>4 DEF CheatCalls

\* Every step keeps what is not recorded as lost.
LEMMA CheatStep == CheatInv /\ [Next]_vars => CheatInv'
<1> SUFFICES ASSUME CheatInv, [Next]_vars PROVE CheatInv'
  OBVIOUS
<1>0. mem \in Memory /\ active_cheats \in Seq(CheatRecords) /\ GamesharkActive \in BOOLEAN
  BY DEF CheatInv
<1>1. ASSUME UNCHANGED <<mem, active_cheats, GamesharkActive, lost>> PROVE CheatInv'
  BY <1>1 DEF CheatInv
<1>2. ASSUME active_cheats' = <<>>, RecordLost(TRUE), UNCHANGED <<mem, GamesharkActive>> PROVE CheatInv'
  <2>1. active_cheats' \in Seq(CheatRecords) /\ DOMAIN active_cheats' = {}
    BY <1>2
  <2>2. /\ mem' \in Memory /\ GamesharkActive' \in BOOLEAN
        /\ \A c \in Cells : mem'[c] = mem[c] \/ mem'[c] \in GuestValues
        /\ \A j \in DOMAIN active_cheats' : \A l \in DOMAIN (active_cheats'[j].codes) :
              \/ active_cheats'[j].codes[l].old = CHEAT_CODE_MAGIC_VALUE
              \/ j \in DOMAIN active_cheats /\ active_cheats'[j].codes = active_cheats[j].codes
    BY <1>0, <1>2, <2>1
  <2> QED
    BY <1>2, <2>1, <2>2, DiscardStep
<1>3. CASE retro_init \/ retro_run \/ retro_reset \/ retro_deinit \/ Nmi \/ StopRun
  BY <1>1, <1>3 DEF retro_init, retro_run, retro_reset, retro_deinit, Nmi, StopRun, cheatVars
<1>4. CASE retro_load_game \/ retro_unload_game
  BY <1>1, <1>2, <1>4 DEF retro_load_game, retro_unload_game
<1>5. CASE HostCheats
  BY <1>5, CallsStep DEF HostCheats
<1>6. CASE EmuThreadFunction
  <2>1. CASE UNCHANGED cheatVars
    BY <1>1, <2>1 DEF cheatVars
  <2>2. CASE ~UNCHANGED cheatVars
    <3>1. /\ active_cheats' = IF Hacks = <<>> THEN active_cheats
                              ELSE cheat_add_new(active_cheats, "HACK0", Hacks, TRUE)
          /\ mem' = mem \/ mem' = [c \in Cells |-> 0]
          /\ RecordLost(TRUE) /\ UNCHANGED GamesharkActive
      BY <1>6, <2>2 DEF EmuThreadFunction
    <3>2. mem' \in Memory /\ \A c \in Cells : mem'[c] = mem[c] \/ mem'[c] \in GuestValues
      BY <1>0, <3>1, CheatsAssumption DEF Memory
    <3>3. /\ active_cheats' \in Seq(CheatRecords)
          /\ \A j \in DOMAIN active_cheats' : \A l \in DOMAIN (active_cheats'[j].codes) :
               \/ active_cheats'[j].codes[l].old = CHEAT_CODE_MAGIC_VALUE
               \/ j \in DOMAIN active_cheats /\ active_cheats'[j].codes = active_cheats[j].codes
      <4>1. CASE active_cheats' = active_cheats
        BY <1>0, <4>1
      <4>2. CASE active_cheats' = cheat_add_new(active_cheats, "HACK0", Hacks, TRUE)
        <5>1. PICK cheats \in Seq(CheatRecords) : cheats = active_cheats
          BY <1>0
        <5>2. PICK list : list = Hacks
          OBVIOUS
        <5>3. PICK nm \in Names \cup {"HACK0"} : nm = "HACK0"
          OBVIOUS
        <5>4. PICK e \in BOOLEAN : e = TRUE
          OBVIOUS
        <5>5. PICK ch2 : ch2 = cheat_add_new(cheats, nm, list, e)
          OBVIOUS
        <5>6. IsList(list)
          BY <5>2, FrontendAssumption
        <5>7. /\ ch2 \in Seq(CheatRecords)
              /\ \A j \in DOMAIN ch2 : \A l \in DOMAIN ch2[j].codes :
                    \/ ch2[j].codes[l].old = CHEAT_CODE_MAGIC_VALUE
                    \/ j \in DOMAIN cheats /\ ch2[j] = cheats[j]
          BY <5>5, <5>6, AddNewList
        <5>8. active_cheats' = ch2
          BY <4>2, <5>1, <5>2, <5>3, <5>4, <5>5
        <5> QED
          BY <5>1, <5>7, <5>8
      <4> QED
        BY <3>1, <4>1, <4>2
    <3> QED
      BY <1>0, <3>1, <3>2, <3>3, DiscardStep
  <2> QED
    BY <2>1, <2>2
<1>7. CASE Guest
  <2>1. PICK c \in Cells, v \in GuestValues : mem' = [mem EXCEPT ![c] = v]
    BY <1>7 DEF Guest, GuestWrite
  <2>2. UNCHANGED <<active_cheats, GamesharkActive, lost>>
    BY <1>7 DEF Guest, GuestWrite
  <2>3. mem' \in Memory /\ \A d \in Cells : mem'[d] = mem[d] \/ mem'[d] \in GuestValues
    BY <1>0, <2>1, CheatsAssumption DEF Memory
  <2>4. ASSUME NEW d \in Cells \ lost PROVE KeptAt(d, mem, active_cheats)'
    BY <2>2, <2>3 DEF CheatInv, KeptAt
  <2> QED
    BY <1>0, <2>2, <2>3, <2>4 DEF CheatInv
<1>8. CASE NI
  <2>1. CASE UNCHANGED cheatVars
    BY <1>1, <2>1 DEF cheatVars
  <2>2. CASE ~UNCHANGED cheatVars
    <3>1. gs_apply_cheats(0) /\ RecordLost(FALSE) /\ UNCHANGED GamesharkActive
      BY <1>8, <2>2 DEF NI
    <3> QED
      BY <3>1, FrameStep
  <2> QED
    BY <2>1, <2>2
<1>9. CASE new_vi
  BY <1>9, FrameStep DEF new_vi
<1>10. CASE UNCHANGED vars
  BY <1>1, <1>10 DEF vars, cheatVars
<1> QED
  BY <1>3, <1>4, <1>5, <1>6, <1>7, <1>8, <1>9, <1>10 DEF Next

\* What the guest had in a cell is kept as long as the value of a code stands
\* there (OriginalsKept): for every set of cells, cheats and lists of codes.
THEOREM OriginalsAlwaysKept == Spec => []OriginalsKept
<1>1. CheatInv => OriginalsKept
  <2> SUFFICES ASSUME CheatInv, NEW c \in Cells \ lost, mem[c] \in CheatValues
               PROVE  Holds(active_cheats, c)
    BY DEF OriginalsKept
  <2>1. mem[c] \notin GuestValues
    BY CheatsAssumption
  <2> QED
    BY <2>1 DEF CheatInv, KeptAt
<1> QED
  BY <1>1, InitCheatInv, CheatStep, PTL DEF Spec

-----------------------------------------------------------------------------
(* Cheats: a pass over the codes and its reference *)

\* The place k, if the code there takes effect after those at the places in
\* before have.
Fires(m, codes, k, before) ==
    {f \in {k} :
        /\ \/ codes[f].op \in {"write", "expansion"}
           \/ codes[f].op = "button" /\ GamesharkActive
        /\ \A j \in Guards(codes, f) :
              TestHolds(Stored(m, codes, {g \in before : g < j}), codes[j])}

FiredEq(m, codes, f) ==
    f = [k \in 0 .. Len(codes) |->
            IF k = 0 THEN {} ELSE f[k - 1] \cup Fires(m, codes, k, f[k - 1])]

\* The places of the codes that take effect, one code after the other.
LEMMA FiredSteps ==
    ASSUME NEW m, NEW codes \in Seq(Codes)
    PROVE  \E f : /\ f[0] = {}
                  /\ \A k \in 1 .. Len(codes) : f[k] = f[k - 1] \cup Fires(m, codes, k, f[k - 1])
                  /\ Reference(m, codes) = Stored(m, codes, f[Len(codes)])
<1> DEFINE n == Len(codes)
           S == SUBSET Nat
           F(s, k) == s \cup Fires(m, codes, k, s)
           step == [p \in S \X Nat |-> F(p[1], p[2])]
           g == CHOOSE f : FiredEq(m, codes, f)
<1>1. n \in Nat
  OBVIOUS
<1>2. \A s \in S : \A k \in Nat : F(s, k) \in S
  <2>1. \A s : \A k \in Nat : Fires(m, codes, k, s) \subseteq {k}
    BY DEF Fires
  <2> SUFFICES ASSUME NEW s \in S, NEW k \in Nat PROVE F(s, k) \in S
    OBVIOUS
  <2>2. PICK t : t = Fires(m, codes, k, s)
    OBVIOUS
  <2>3. t \subseteq Nat
    BY <2>1, <2>2
  <2> QED
    BY <2>2, <2>3
<1>3. step \in [S \X Nat -> S]
  <2> HIDE DEF F, S
  <2> QED
    BY <1>2
<1>4. PICK h \in [0 .. n -> S] : h[0] = {} /\ \A k \in 1 .. n : h[k] = step[<<h[k - 1], k>>]
  <2>1. PICK b \in S : b = {}
    OBVIOUS
  <2>2. PICK st \in [S \X Nat -> S] : st = step
    BY <1>3
  <2>3. PICK N \in Nat : N = n
    BY <1>1
  <2> HIDE DEF step, S, n
  <2>4. PICK h : Iterates(S, b, N, st, h)
    BY Iteration
  <2>5. h \in [0 .. n -> S] /\ h[0] = {} /\ \A k \in 1 .. n : h[k] = step[<<h[k - 1], k>>]
    BY <2>1, <2>2, <2>3, <2>4, Zenon DEF Iterates
  <2> QED
    BY <2>5
<1>5. \A k \in 1 .. n : h[k] = F(h[k - 1], k)
  <2> SUFFICES ASSUME NEW k \in 1 .. n PROVE h[k] = F(h[k - 1], k)
    OBVIOUS
  <2>1. h[k - 1] \in S /\ k \in Nat
    <3>1. k - 1 \in 0 .. n
      BY <1>1
    <3> HIDE DEF S
    <3> QED
      BY <1>4, <3>1
  <2>2. step[<<h[k - 1], k>>] = F(h[k - 1], k)
    <3> HIDE DEF F, S
    <3> QED
      BY <2>1
  <2> HIDE DEF F, S, step
  <2> QED
    BY <1>4, <2>2
<1>6. FiredEq(m, codes, h)
  <2>1. h = [k \in 0 .. n |-> h[k]]
    BY <1>4, Zenon
  <2>2. \A k \in 0 .. n : h[k] = IF k = 0 THEN {} ELSE F(h[k - 1], k)
    <3> HIDE DEF F, S, step
    <3> QED
      BY <1>1, <1>4, <1>5
  <2>3. h = [k \in 0 .. n |-> IF k = 0 THEN {} ELSE F(h[k - 1], k)]
    BY <2>1, <2>2, Zenon
  <2> QED
    BY <2>3, Zenon DEF FiredEq
<1>7. FiredEq(m, codes, g)
  BY <1>6, Zenon
<1>8. Reference(m, codes) = Stored(m, codes, g[n])
  BY Zenon DEF Reference, FiredEq, Fires
<1>9. g = [k \in 0 .. n |-> IF k = 0 THEN {} ELSE F(g[k - 1], k)]
  BY <1>7, Zenon DEF FiredEq
<1> HIDE DEF g
<1>10. g[0] = {} /\ \A k \in 1 .. n : g[k] = F(g[k - 1], k)
  <2>1. \A k \in 0 .. n : g[k] = IF k = 0 THEN {} ELSE F(g[k - 1], k)
    BY <1>9, Zenon
  <2>2. 0 \in 0 .. n /\ \A k \in 1 .. n : k \in 0 .. n /\ k # 0
    BY <1>1
  <2> HIDE DEF n, F
  <2> QED
    BY <2>1, <2>2, Zenon
<1> QED
  BY <1>8, <1>10

Put(m, c, v) == [m EXCEPT ![c] = v]

\* The last code to store decides.
LEMMA StoredLast ==
    ASSUME NEW m, NEW codes, NEW k \in Nat, NEW fired, \A g \in fired : g \in Nat /\ g < k,
           codes[k].cell \in Cells
    PROVE  Stored(m, codes, fired \cup {k}) =
              Put(Stored(m, codes, fired), codes[k].cell, codes[k].value)
<1> DEFINE On(F, c) == {f \in F : codes[f].cell = c}
           Last(on, c) == IF on = {} THEN m[c] ELSE codes[CHOOSE f \in on : \A g \in on : g <= f].value
           Value(F, c) == Last(On(F, c), c)
           G == fired \cup {k}
<1>1. \A F : Stored(m, codes, F) = [c \in Cells |-> Value(F, c)]
  BY Zenon DEF Stored
<1>2. ASSUME NEW c \in Cells, c # codes[k].cell PROVE Value(G, c) = Value(fired, c)
  <2>1. On(G, c) = On(fired, c)
    BY <1>2
  <2> HIDE DEF On, G, Last
  <2> QED
    BY <2>1
<1>3. Value(G, codes[k].cell) = codes[k].value
  <2> DEFINE O == On(G, codes[k].cell)
  <2>1. k \in O /\ \A g \in O : g \in Nat /\ g <= k
    OBVIOUS
  <2>2. \A f \in O : (\A g \in O : g <= f) => f = k
    <3> HIDE DEF O
    <3> QED
      BY <2>1
  <2> HIDE DEF O
  <2>3. (CHOOSE f \in O : \A g \in O : g <= f) = k
    <3>1. \E f \in O : \A g \in O : g <= f
      BY <2>1
    <3>2. PICK x : x = CHOOSE f \in O : \A g \in O : g <= f
      OBVIOUS
    <3>3. x \in O /\ \A g \in O : g <= x
      BY <3>1, <3>2, Zenon
    <3> QED
      BY <2>2, <3>2, <3>3, Zenon
  <2>4. O # {}
    BY <2>1
  <2> QED
    BY <2>3, <2>4, Zenon DEF O
<1> HIDE DEF Value, G
<1>4. Stored(m, codes, G) = [c \in Cells |-> Value(G, c)] /\ Stored(m, codes, fired) = [c \in Cells |-> Value(fired, c)]
  BY <1>1, Zenon
<1>5. Stored(m, codes, G) = [Stored(m, codes, fired) EXCEPT ![codes[k].cell] = codes[k].value]
  <2>1. PICK a : a = Stored(m, codes, G)
    OBVIOUS
  <2>2. PICK b : b = Stored(m, codes, fired)
    OBVIOUS
  <2>3. PICK d \in Cells : d = codes[k].cell
    OBVIOUS
  <2>4. PICK v : v = codes[k].value
    OBVIOUS
  <2>5. a = [c \in Cells |-> a[c]] /\ b = [c \in Cells |-> b[c]]
    BY <1>4, <2>1, <2>2
  <2>6. a[d] = v /\ \A c \in Cells : c # d => a[c] = b[c]
    BY <1>2, <1>3, <1>4, <2>1, <2>2, <2>3, <2>4
  <2>7. a = [b EXCEPT ![d] = v]
    BY <2>5, <2>6
  <2> QED
    BY <2>1, <2>2, <2>3, <2>4, <2>7
<1> QED
  BY <1>5 DEF G, Put

\* A code that takes part in a pass is the one of the list, but for its old value.
Alike(code, code2) ==
    code2.op = code.op /\ code2.cell = code.cell /\ code2.value = code.value

\* What the pass over the first k codes has made of the memory and of
\* cond_failed, against the places that have fired.
Agrees(m, codes, k, s, fired) ==
    /\ \A g \in fired : g \in 1 .. k /\ codes[g].op \notin Tests
    /\ s.mem = Stored(m, codes, fired)
    /\ s.cond_failed <=> \E j \in Guards(codes, k + 1) : ~TestHolds(s.mem, codes[j])
    /\ \A l \in 1 .. Len(codes) : Alike(codes[l], s.codes[l])

\* The tests directly before the next code.
LEMMA NextGuards ==
    ASSUME NEW codes, NEW k \in Nat \ {0}
    PROVE  Guards(codes, k + 1) =
              IF codes[k].op \in Tests THEN Guards(codes, k) \cup {k} ELSE {}
<1>1. k + 1 - 1 = k /\ k \in k .. k
  OBVIOUS
<1>2. CASE codes[k].op \notin Tests
  <2>1. \A j \in 1 .. k : k \in j .. k
    OBVIOUS
  <2> QED
    BY <1>1, <1>2, <2>1 DEF Guards
<1>3. CASE codes[k].op \in Tests
  <2>1. \A j \in 1 .. k - 1 : j .. k = (j .. k - 1) \cup {k}
    OBVIOUS
  <2>2. 1 .. k = (1 .. k - 1) \cup {k} /\ k .. k = {k}
    OBVIOUS
  <2> QED
    BY <1>1, <1>3, <2>1, <2>2 DEF Guards
<1> QED
  BY <1>2, <1>3

\* A guard of the next code reads the memory as it is then: no code that
\* stores comes between them.
LEMMA GuardReads ==
    ASSUME NEW codes, NEW k \in Nat \ {0}, NEW j \in Guards(codes, k), NEW fired,
           \A g \in fired : g \in 1 .. k - 1 /\ codes[g].op \notin Tests
    PROVE  {g \in fired : g < j} = fired
<1>1. j \in 1 .. k - 1 /\ \A g \in j .. k - 1 : codes[g].op \in Tests
  BY DEF Guards
<1>2. ASSUME NEW g \in fired PROVE g < j
  <2>1. g \in 1 .. k - 1 /\ g \notin j .. k - 1
    BY <1>1
  <2> QED
    BY <1>1, <2>1
<1> QED
  BY <1>2

\* One code of a pass and of the reference.
LEMMA AgreeStep ==
    ASSUME GamesharkActive \in BOOLEAN, NEW m, NEW codes \in Seq(Codes),
           NEW k \in 1 .. Len(codes), NEW s \in PassStates(Len(codes)), NEW fired,
           Agrees(m, codes, k - 1, s, fired)
    PROVE  Agrees(m, codes, k, ViCode(s, k), fired \cup Fires(m, codes, k, fired))
<1> DEFINE n == Len(codes)
           code == codes[k]
           own == s.codes[k]
<1>1. PICK t : t = ViCode(s, k)
  OBVIOUS
<1>2. n \in Nat /\ k \in Nat \ {0} /\ k - 1 + 1 = k /\ code \in Codes
  OBVIOUS
<1>3. /\ \A g \in fired : g \in 1 .. k - 1 /\ codes[g].op \notin Tests
      /\ s.mem = Stored(m, codes, fired)
      /\ s.cond_failed <=> \E j \in Guards(codes, k) : ~TestHolds(s.mem, codes[j])
      /\ \A l \in 1 .. n : Alike(codes[l], s.codes[l])
  BY <1>2 DEF Agrees
<1>4. s.mem \in Memory /\ s.codes \in [1 .. n -> Codes] /\ s.cond_failed \in BOOLEAN /\ own \in Codes
  BY DEF PassStates
<1>5. own.op = code.op /\ own.cell = code.cell /\ own.value = code.value
  BY <1>3 DEF Alike
<1>6. \A l \in 1 .. n : Alike(codes[l], t.codes[l])
  <2>1. PICK mode : mode = "VI"
    OBVIOUS
  <2>2. t = Step(mode, s, k)
    BY <1>1, <2>1 DEF Step
  <2>3. PICK N \in Nat : N = n
    BY <1>2
  <2>4. s \in PassStates(N) /\ k \in 1 .. N
    BY <2>3
  <2>5. t \in PassStates(N) /\ \E old2 \in Nat :
           /\ t.codes = [s.codes EXCEPT ![k].old = old2]
           /\ Effect(s.codes[k], s.mem, t.mem, old2)
    BY <2>2, <2>4, StepEffect
  <2>6. PICK old2 \in Nat : t.codes = [s.codes EXCEPT ![k].old = old2]
    BY <2>5
  <2>7. PICK sc \in [1 .. N -> Codes] : sc = s.codes
    BY <1>4, <2>3
  <2>8. t.codes = [sc EXCEPT ![k].old = old2]
    BY <2>6, <2>7
  <2>9. \A l \in 1 .. N : Alike(sc[l], t.codes[l])
    BY <2>4, <2>8, SMTT(60) DEF Alike, Codes
  <2> QED
    BY <1>3, <2>3, <2>7, <2>9 DEF Alike
<1>7. PICK fs : fs = Fires(m, codes, k, fired)
  OBVIOUS
<1>8. fs = IF /\ code.op \in {"write", "expansion"} \/ (code.op = "button" /\ GamesharkActive)
              /\ ~s.cond_failed
             THEN {k} ELSE {}
  <2>1. \A j \in Guards(codes, k) : {g \in fired : g < j} = fired
    BY <1>2, <1>3, GuardReads
  <2>2. \A j \in Guards(codes, k) :
           Stored(m, codes, {g \in fired : g < j}) = s.mem
    BY <1>3, <2>1
  <2>3. (\A j \in Guards(codes, k) :
            TestHolds(Stored(m, codes, {g \in fired : g < j}), codes[j])) <=> ~s.cond_failed
    BY <1>3, <2>2
  <2> QED
    BY <1>7, <2>3 DEF Fires
<1>9. Guards(codes, k + 1) = IF code.op \in Tests THEN Guards(codes, k) \cup {k} ELSE {}
  BY <1>2, NextGuards
<1>10. CASE code.op \in Tests
  <2>1. fs = {}
    BY <1>8, <1>10 DEF Tests
  <2> DEFINE e == execute_cheat(s.mem, own, own.value, own.op # "button")
  <2>2. e.runNext = CASE own.op \in {"is", "isButton"} -> s.mem[own.cell] = own.value
                      [] own.op \in {"isnt", "isntButton"} -> s.mem[own.cell] # own.value
                      [] OTHER -> TRUE
    BY Zenon DEF execute_cheat
  <2>3. PICK b \in BOOLEAN : b = (s.cond_failed \/ ~e.runNext \/ NeedsButton(own))
    OBVIOUS
  <2>4. t = [s EXCEPT !.cond_failed = b]
    BY <1>1, <1>5, <1>10, <2>3 DEF ViCode
  <2>5. t.mem = s.mem /\ t.cond_failed = b
    BY <2>4 DEF PassStates
  <2>6. ~TestHolds(s.mem, code) <=> ~e.runNext \/ NeedsButton(own)
    BY <1>5, <1>10, <2>2 DEF TestHolds, NeedsButton, Tests
  <2>7. t.cond_failed <=> \E j \in Guards(codes, k + 1) : ~TestHolds(t.mem, codes[j])
    BY <1>3, <1>9, <1>10, <2>3, <2>5, <2>6
  <2>8. \A g \in fired \cup fs : g \in 1 .. k /\ codes[g].op \notin Tests
    BY <1>2, <1>3, <2>1
  <2>9. t.mem = Stored(m, codes, fired \cup fs)
    BY <1>3, <2>1, <2>5
  <2> QED
    BY <1>1, <1>6, <1>7, <2>7, <2>8, <2>9 DEF Agrees
<1>11. CASE code.op \notin Tests /\ s.cond_failed
  <2>1. fs = {}
    BY <1>8, <1>11
  <2>2. t = [s EXCEPT !.cond_failed = FALSE]
    BY <1>1, <1>5, <1>11 DEF ViCode, Skipped
  <2>3. t.mem = s.mem /\ t.cond_failed = FALSE
    BY <2>2 DEF PassStates
  <2>4. t.cond_failed <=> \E j \in Guards(codes, k + 1) : ~TestHolds(t.mem, codes[j])
    BY <1>9, <1>11, <2>3
  <2>5. \A g \in fired \cup fs : g \in 1 .. k /\ codes[g].op \notin Tests
    BY <1>2, <1>3, <2>1
  <2>6. t.mem = Stored(m, codes, fired \cup fs)
    BY <1>3, <2>1, <2>3
  <2> QED
    BY <1>1, <1>6, <1>7, <2>4, <2>5, <2>6 DEF Agrees
<1>12. CASE code.op \notin Tests /\ ~s.cond_failed
  <2>1. t.cond_failed = FALSE /\ t.mem = IF fs = {} THEN s.mem ELSE [s.mem EXCEPT ![code.cell] = code.value]
    <3>1. CASE own.op = "boot" \/ NeedsButton(own)
      <4>1. t = s
        BY <1>1, <1>5, <1>12, <3>1 DEF ViCode
      <4>2. fs = {}
        BY <1>5, <1>8, <1>12, <3>1 DEF NeedsButton
      <4> QED
        BY <1>4, <1>12, <4>1, <4>2
    <3>2. CASE ~(own.op = "boot" \/ NeedsButton(own))
      <4>1. PICK save \in BOOLEAN : save = (own.op # "button")
        OBVIOUS
      <4>2. PICK e : e = execute_cheat(s.mem, own, own.value, save)
        OBVIOUS
      <4>3. t = [s EXCEPT !.mem = e.mem, !.codes[k] = e.code]
        BY <1>1, <1>5, <1>12, <3>2, <4>1, <4>2 DEF ViCode, Executed
      <4>4. t.cond_failed = s.cond_failed /\ t.mem = e.mem
        BY <4>3 DEF PassStates
      <4>5. e.mem = IF own.op \in Writers THEN [s.mem EXCEPT ![own.cell] = own.value] ELSE s.mem
        BY <4>2 DEF execute_cheat
      <4>6. own.op \in Writers <=> fs # {}
        BY <1>5, <1>8, <1>12, <3>2 DEF NeedsButton, Writers, Saved
      <4> QED
        BY <1>4, <1>5, <1>12, <4>4, <4>5, <4>6
    <3> QED
      BY <3>1, <3>2
  <2>2. t.cond_failed <=> \E j \in Guards(codes, k + 1) : ~TestHolds(t.mem, codes[j])
    BY <1>9, <1>12, <2>1
  <2>3. \A g \in fired \cup fs : g \in 1 .. k /\ codes[g].op \notin Tests
    BY <1>2, <1>3, <1>8, <1>12
  <2>4. t.mem = Stored(m, codes, fired \cup fs)
    <3>1. CASE fs = {}
      BY <1>3, <2>1, <3>1
    <3>2. CASE fs = {k}
      <4>1. code.cell \in Cells /\ \A g \in fired : g \in Nat /\ g < k
        BY <1>2, <1>3, SMTT(60) DEF Codes
      <4>2. Stored(m, codes, fired \cup {k}) =
              Put(Stored(m, codes, fired), codes[k].cell, codes[k].value)
        <5>1. k \in Nat /\ codes[k].cell \in Cells
          BY <1>2, <4>1
        <5> QED
          BY <4>1, <5>1, StoredLast
      <4> QED
        BY <1>3, <2>1, <3>2, <4>2 DEF Put
    <3> QED
      BY <1>8, <3>1, <3>2
  <2> QED
    BY <1>1, <1>6, <1>7, <2>2, <2>3, <2>4 DEF Agrees
<1> QED
  BY <1>10, <1>11, <1>12

\* The pass and the reference make the same of the memory.
LEMMA PassAgrees ==
    ASSUME GamesharkActive \in BOOLEAN, NEW m \in Memory, NEW codes \in Seq(Codes)
    PROVE  Pass("VI", m, codes).mem = Reference(m, codes)
<1>1. PICK mode : mode = "VI"
  OBVIOUS
<1>2. PICK n \in Nat : n = Len(codes)
  OBVIOUS
<1>3. PICK f \in [0 .. n -> PassStates(n)] :
         /\ f[0] = Start(m, codes)
         /\ \A k \in 1 .. n : f[k] = Step(mode, f[k - 1], k)
         /\ Pass(mode, m, codes) = f[n]
  BY <1>2, PassSteps
<1>4. PICK g : /\ g[0] = {}
               /\ \A k \in 1 .. n : g[k] = g[k - 1] \cup Fires(m, codes, k, g[k - 1])
               /\ Reference(m, codes) = Stored(m, codes, g[n])
  BY <1>2, FiredSteps
<1> DEFINE T == {k \in 0 .. n : Agrees(m, codes, k, f[k], g[k])}
<1>5. 0 \in T
  <2>1. f[0].mem = m /\ f[0].codes = codes /\ f[0].cond_failed = FALSE
    BY <1>3 DEF Start
  <2>2. Stored(m, codes, {}) = m
    <3>1. Stored(m, codes, {}) = [c \in Cells |-> m[c]]
      <4>1. \A c : {x \in {} : codes[x].cell = c} = {}
        OBVIOUS
      <4> QED
        BY <4>1, Zenon DEF Stored
    <3> QED
      BY <3>1 DEF Memory
  <2>3. Guards(codes, 0 + 1) = {}
    <3>1. 1 .. 0 + 1 - 1 = {}
      OBVIOUS
    <3> QED
      BY <3>1 DEF Guards
  <2>4. Agrees(m, codes, 0, f[0], g[0])
    BY <1>2, <1>4, <2>1, <2>2, <2>3 DEF Agrees, Alike
  <2> QED
    BY <2>4
<1>6. ASSUME NEW k \in 1 .. n, k - 1 \in T PROVE k \in T
  <2>1. PICK s \in PassStates(n) : s = f[k - 1]
    BY <1>3, <1>6
  <2>2. PICK fired : fired = g[k - 1]
    OBVIOUS
  <2>3. Agrees(m, codes, k - 1, s, fired)
    BY <1>6, <2>1, <2>2
  <2>4. Agrees(m, codes, k, ViCode(s, k), fired \cup Fires(m, codes, k, fired))
    BY <1>2, <2>3, AgreeStep
  <2>5. f[k] = ViCode(s, k)
    BY <1>1, <1>3, <2>1 DEF Step
  <2>6. g[k] = fired \cup Fires(m, codes, k, fired)
    BY <1>4, <2>2
  <2>7. k \in 0 .. n
    OBVIOUS
  <2> QED
    BY <2>4, <2>5, <2>6, <2>7
<1>7. n \in T
  <2> HIDE DEF T
  <2>1. \A k \in 0 .. n : k \in T
    BY <1>5, <1>6, UpTo
  <2> QED
    BY <2>1
<1> QED
  BY <1>1, <1>3, <1>4, <1>7 DEF Agrees

\* A list of codes means what its tests say (ConditionsGuard): for every cheat,
\* of any length, and every content of the memory.
THEOREM ConditionsAlwaysGuard == Spec => []ConditionsGuard
<1>1. CheatInv => ConditionsGuard
  <2> SUFFICES ASSUME CheatInv, NEW i \in DOMAIN active_cheats
               PROVE  Pass("VI", mem, active_cheats[i].codes).mem
                         = Reference(mem, active_cheats[i].codes)
    BY DEF ConditionsGuard
  <2>1. active_cheats[i] \in CheatRecords
    BY DEF CheatInv
  <2>2. PICK codes \in Seq(Codes) : codes = active_cheats[i].codes
    BY <2>1 DEF CheatRecords
  <2>3. PICK m \in Memory : m = mem
    BY DEF CheatInv
  <2>4. GamesharkActive \in BOOLEAN
    BY DEF CheatInv
  <2>5. Pass("VI", m, codes).mem = Reference(m, codes)
    BY <2>4, PassAgrees
  <2> QED
    BY <2>2, <2>3, <2>5
<1> QED
  BY <1>1, InitCheatInv, CheatStep, PTL DEF Spec
=============================================================================
