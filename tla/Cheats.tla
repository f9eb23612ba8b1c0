------------------------------- MODULE Cheats -------------------------------
(***************************************************************************)
(* The cheat engine (main/cheat.c): named lists of codes, applied to the   *)
(* guest's memory once per vertical interrupt.                             *)
(*                                                                         *)
(* A code keeps the value its cell had when it was first applied and puts  *)
(* it back when the cheat is switched off.  A test code that fails skips   *)
(* the next code that is no test.  Boot codes run once, in the first frame *)
(* after power-on or a soft reset.                                         *)
(*                                                                         *)
(* A cell is a byte or a halfword, and cells do not overlap.  The kinds of *)
(* code (the top byte of its address) are grouped by what they do.         *)
(***************************************************************************)
EXTENDS Naturals, Sequences

CONSTANTS
    Cells,         \* addresses, as numbers
    GuestValues,   \* what the guest stores
    CheatValues,   \* what codes store
    Names,         \* names of cheats
    Lists,         \* the lists of codes the front end gives
    BootFrames     \* 60: frames before the codes of ENTRY_VI are applied

CHEAT_CODE_MAGIC_VALUE == 1000   \* 0xDEAD0000: no cell holds it

Tests == {"is", "isnt", "isButton", "isntButton"}   \* D0 D1; D2 D3; D8 D9; DA DB
Saved == {"write", "boot", "button"}                \* 80 81 A0 A1; F0 F1; 88 89 A8 A9
Writers == Saved \cup {"expansion"}                 \* EE

\* A list as the front end gives it: every code of it, those that a patch code
\* stands for included, is for a cell of the memory.
IsList(list) ==
    /\ list \in Seq([op : STRING, cell : Nat, value : Nat, count : Nat])
    /\ \A i \in DOMAIN list :
          IF i < Len(list) /\ list[i].op = "patch"
            THEN \A j \in 1..list[i].count : list[i + 1].cell + (j - 1) * list[i].cell \in Cells
            ELSE list[i].cell \in Cells

ASSUME CheatsAssumption ==
    /\ Cells \subseteq Nat /\ GuestValues \subseteq Nat /\ CheatValues \subseteq Nat
    /\ \A list \in Lists : IsList(list)
    /\ 0 \in GuestValues /\ GuestValues \cap CheatValues = {}
    /\ CHEAT_CODE_MAGIC_VALUE \notin GuestValues \cup CheatValues
    /\ BootFrames \in Nat \ {0}

VARIABLES
    mem,              \* the guest's memory
    active_cheats,    \* the list of cheats: name, enabled, was_enabled, codes
    g_gs_vi_counter,
    GamesharkActive,
    lost              \* history: cells with a writer that cannot be undone

cheatVars == <<mem, active_cheats, g_gs_vi_counter, GamesharkActive, lost>>

InitCheats ==
    /\ mem = [c \in Cells |-> 0] /\ active_cheats = <<>>
    /\ g_gs_vi_counter = 0 /\ GamesharkActive = FALSE /\ lost = {}
-----------------------------------------------------------------------------
(* Applying codes *)

\* Mutant: the value is saved in every frame.
OldValue_resaved(m, code, save) ==
    IF save /\ code.op \in Saved THEN m[code.cell] ELSE code.old

\* old_value after the code has run on memory m: the value of the cell, if a
\* pointer to old_value is passed and it holds nothing yet.
OldValue(m, code, save) ==
    IF save /\ code.op \in Saved /\ code.old = CHEAT_CODE_MAGIC_VALUE
      THEN m[code.cell] ELSE code.old

\* What one code does to memory m, whether the next code is to run, and what
\* the code remembers.
execute_cheat(m, code, value, save) ==
    [mem |-> IF code.op \in Writers THEN [m EXCEPT ![code.cell] = value] ELSE m,
     runNext |-> CASE code.op \in {"is", "isButton"}     -> m[code.cell] = value
                   [] code.op \in {"isnt", "isntButton"} -> m[code.cell] # value
                   [] OTHER -> TRUE,
     code |-> [code EXCEPT !.old = OldValue(m, code, save)]]

NeedsButton(code) ==
    code.op \in {"isButton", "isntButton", "button"} /\ ~GamesharkActive

\* A pass over the codes of a cheat: the memory, the codes, and whether a test
\* has failed.
Start(m, codes) == [mem |-> m, codes |-> codes, cond_failed |-> FALSE]
Executed(s, k, e) == [s EXCEPT !.mem = e.mem, !.codes[k] = e.code]

\* Mutant: a skipped code leaves the condition failed.
Skipped_sticky(s) == s

\* A code whose conditions failed is skipped, and the next one starts afresh.
Skipped(s) == [s EXCEPT !.cond_failed = FALSE]

\* Code k of an enabled cheat on ENTRY_VI.
ViCode(s, k) ==
    LET code == s.codes[k]
        e == execute_cheat(s.mem, code, code.value, code.op # "button")
    IN  CASE code.op \in Tests ->
                 [s EXCEPT !.cond_failed = @ \/ ~e.runNext \/ NeedsButton(code)]
          [] code.op \notin Tests /\ s.cond_failed -> Skipped(s)
          [] OTHER -> IF code.op = "boot" \/ NeedsButton(code) THEN s ELSE Executed(s, k, e)

\* Code k of an enabled cheat on ENTRY_BOOT.
BootCode(s, k) ==
    LET code == s.codes[k]
    IN  IF code.op = "boot"
          THEN Executed(s, k, execute_cheat(s.mem, code, code.value, TRUE))
          ELSE s

\* Code k of a cheat that has been switched off, on ENTRY_VI.
RestoreCode(s, k) ==
    LET code == s.codes[k]
    IN  IF code.old = CHEAT_CODE_MAGIC_VALUE THEN s
        ELSE [s EXCEPT !.mem = execute_cheat(s.mem, code, code.old, FALSE).mem,
                       !.codes[k].old = CHEAT_CODE_MAGIC_VALUE]

\* What is done with the codes of a cheat.  One found switched off is restored
\* on ENTRY_VI; on ENTRY_BOOT it only forgets that it was enabled.
Mode(cheat, entry) ==
    CASE cheat.enabled -> entry
      [] ~cheat.enabled /\ cheat.was_enabled /\ entry = "VI" -> "RESTORE"
      [] OTHER -> "NONE"

Pass(mode, m, codes) ==
    LET upTo[k \in 0 .. Len(codes)] ==
            IF k = 0 THEN Start(m, codes)
            ELSE CASE mode = "VI"      -> ViCode(upTo[k - 1], k)
                   [] mode = "BOOT"    -> BootCode(upTo[k - 1], k)
                   [] mode = "RESTORE" -> RestoreCode(upTo[k - 1], k)
                   [] OTHER            -> upTo[k - 1]
    IN  upTo[Len(codes)]

\* One pass over the list, in its order.
cheat_apply_cheats(m, cheats, entry) ==
    LET Applied(s, i) ==
            LET r == Pass(Mode(s.cheats[i], entry), s.mem, s.cheats[i].codes)
            IN  [mem |-> r.mem,
                 cheats |-> [s.cheats EXCEPT ![i].codes = r.codes,
                                             ![i].was_enabled = s.cheats[i].enabled]]
        upTo[i \in 0 .. Len(cheats)] ==
            IF i = 0 THEN [mem |-> m, cheats |-> cheats] ELSE Applied(upTo[i - 1], i)
    IN  upTo[Len(cheats)]

\* The part of new_vi that touches memory, with the counter at n.
gs_apply_cheats(n) ==
    LET r == cheat_apply_cheats(mem, active_cheats, IF n = 0 THEN "BOOT" ELSE "VI")
    IN  /\ g_gs_vi_counter' = IF n < BootFrames THEN n + 1 ELSE n
        /\ IF n > 0 /\ n < BootFrames
             THEN UNCHANGED <<mem, active_cheats>>
             ELSE mem' = r.mem /\ active_cheats' = r.cheats
-----------------------------------------------------------------------------
(* The list of cheats *)

\* A list of codes as cheat_add_new stores it: a patch code (50) stands for
\* count copies of the next one, with a step for the address and the value.
Expand(list) ==
    LET From[i \in 1..Len(list) + 2] ==
            CASE i > Len(list) -> <<>>
              [] i < Len(list) /\ list[i].op = "patch" ->
                     [j \in 1..list[i].count |->
                         [op |-> list[i + 1].op, old |-> CHEAT_CODE_MAGIC_VALUE,
                          cell |-> list[i + 1].cell + (j - 1) * list[i].cell,
                          value |-> list[i + 1].value + (j - 1) * list[i].value]]
                     \o From[i + 2]
              [] OTHER -> <<[op |-> list[i].op, cell |-> list[i].cell, value |-> list[i].value,
                             old |-> CHEAT_CODE_MAGIC_VALUE]>> \o From[i + 1]
    IN  From[1]

\* find_or_create_cheat and the new codes: a cheat of that name loses its
\* codes, with what they saved, and its flags, and keeps its place.
cheat_add_new(cheats, name, list, enabled) ==
    LET new == [name |-> name, enabled |-> enabled, was_enabled |-> FALSE,
                codes |-> Expand(list)]
    IN  IF \E i \in DOMAIN cheats : cheats[i].name = name
          THEN [i \in DOMAIN cheats |-> IF cheats[i].name = name THEN new ELSE cheats[i]]
          ELSE Append(cheats, new)

cheat_set_enabled(name, enabled) ==
    /\ \E i \in DOMAIN active_cheats : active_cheats[i].name = name
    /\ active_cheats' = [i \in DOMAIN active_cheats |->
                            IF active_cheats[i].name = name
                              THEN [active_cheats[i] EXCEPT !.enabled = enabled]
                              ELSE active_cheats[i]]
    /\ UNCHANGED <<mem, g_gs_vi_counter, GamesharkActive>>

\* retro_cheat_set builds the cheat anew whether it is to be on or off.
\* CoreAddCheat is the same call with enabled = TRUE.
retro_cheat_set(name, enabled, list) ==
    /\ active_cheats' = cheat_add_new(active_cheats, name, list, enabled)
    /\ UNCHANGED <<mem, g_gs_vi_counter, GamesharkActive>>

retro_cheat_reset ==
    /\ active_cheats' = <<>>
    /\ UNCHANGED <<mem, g_gs_vi_counter, GamesharkActive>>

\* M64CORE_INPUT_GAMESHARK
event_set_gameshark(active) ==
    /\ GamesharkActive # active /\ GamesharkActive' = active
    /\ UNCHANGED <<mem, active_cheats, g_gs_vi_counter>>

CheatCalls ==
    \/ \E n \in Names, e \in BOOLEAN : cheat_set_enabled(n, e)
    \/ \E n \in Names, e \in BOOLEAN, l \in Lists : retro_cheat_set(n, e, l)
    \/ retro_cheat_reset
    \/ \E a \in BOOLEAN : event_set_gameshark(a)

\* The guest stores to memory, its own value or one it has computed.
GuestWrite(c, v) ==
    /\ mem' = [mem EXCEPT ![c] = v]
    /\ UNCHANGED <<active_cheats, g_gs_vi_counter, GamesharkActive>>
-----------------------------------------------------------------------------
(* Properties *)

\* Code k of cheat i writes to cell c.
WritesTo(cheats, i, k, c) ==
    cheats[i].codes[k].cell = c /\ cheats[i].codes[k].op \in Writers

Holds(cheats, c) ==
    \E i \in DOMAIN cheats : \E k \in DOMAIN cheats[i].codes :
        WritesTo(cheats, i, k, c) /\ cheats[i].codes[k].old \in GuestValues

\* The cells that a list of cheats changes for good: those of button and
\* expansion codes, whose old value is never saved, and those that two codes
\* write, since restoring follows the order of applying.
Unsaved(cheats) ==
    {c \in Cells :
        \E i \in DOMAIN cheats : \E k \in DOMAIN cheats[i].codes :
            /\ WritesTo(cheats, i, k, c)
            /\ \/ cheats[i].codes[k].op \in {"button", "expansion"}
               \/ \E j \in DOMAIN cheats : \E l \in DOMAIN cheats[j].codes :
                      WritesTo(cheats, j, l, c) /\ <<i, k>> # <<j, l>>}

\* History of the cells that cannot be restored, or whose saved value went
\* with the code that held it when codes were discarded.
RecordLost(discarding) ==
    lost' = lost \cup Unsaved(active_cheats')
                 \cup {c \in Cells : discarding /\ Holds(active_cheats, c)
                                     /\ ~Holds(active_cheats', c)}

\* A code's value stands in a cell only while the value the guest had there
\* is still saved: whatever the order of switching cheats on and off, of
\* frames, of guest stores and of resets (execute_cheat, the was_enabled
\* branch of cheat_apply_cheats).
OriginalsKept ==
    \A c \in Cells \ lost : mem[c] \in CheatValues => Holds(active_cheats, c)

\* The memory m after the codes at the places in fired have stored.
Stored(m, codes, fired) ==
    [c \in Cells |->
        LET on == {f \in fired : codes[f].cell = c}
        IN  IF on = {} THEN m[c] ELSE codes[CHOOSE f \in on : \A g \in on : g <= f].value]

TestHolds(m, code) ==
    /\ code.op \in {"isButton", "isntButton"} => GamesharkActive
    /\ code.op \in {"is", "isButton"} => m[code.cell] = code.value
    /\ code.op \in {"isnt", "isntButton"} => m[code.cell] # code.value

\* The tests directly before code k.
Guards(codes, k) == {j \in 1..k - 1 : \A g \in j..k - 1 : codes[g].op \in Tests}

\* Reference for ENTRY_VI: a code takes effect when every test code directly
\* before it holds in the memory it would read.
Reference(m, codes) ==
    LET Fired[k \in 0 .. Len(codes)] ==
            IF k = 0 THEN {}
            ELSE Fired[k - 1] \cup
                 {f \in {k} :
                    /\ \/ codes[f].op \in {"write", "expansion"}
                       \/ codes[f].op = "button" /\ GamesharkActive
                    /\ \A j \in Guards(codes, f) :
                          TestHolds(Stored(m, codes, {g \in Fired[k - 1] : g < j}), codes[j])}
    IN  Stored(m, codes, Fired[Len(codes)])

\* Whatever cheat is in the list and whatever is in memory, the single pass
\* with its cond_failed flag does what the declarative reading of a list of
\* codes says (cheat_apply_cheats, ENTRY_VI).
ConditionsGuard ==
    \A i \in DOMAIN active_cheats :
        Pass("VI", mem, active_cheats[i].codes).mem = Reference(mem, active_cheats[i].codes)
=============================================================================
