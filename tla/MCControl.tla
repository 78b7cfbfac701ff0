------------------------------ MODULE MCControl ------------------------------
(***************************************************************************)
(* Two internal drives and an external one.  Drive 1 holds file 1; the     *)
(* external drive may hold the second chunk (22) of a dump already.        *)
(***************************************************************************)
EXTENDS Control

Cmd(type, ref, on, arg, to, out) ==
  [type |-> type, ref |-> ref, on |-> on, arg |-> arg, to |-> to, out |-> out,
   ok |-> FALSE]
Plain(type, arg) == Cmd(type, 90, 0, arg, None, {})

MCBefore ==
  {[d \in Drive |-> IF d = 1 THEN {1} ELSE IF d = 2 THEN {} ELSE c] :
     c \in {{}, {22}}}

StorageCmds ==
  {Plain("DWN", 0), Plain("DWN", 1), Plain("UP", 0), Plain("INI", 0),
   Plain("INI", 1), Plain("INI", 2), Plain("SHT", 2), Plain("EXT", 0),
   Plain("RPT", 0), Plain("DVN", 3), Plain("BAD", 0), Plain("LEN", 0),
   Cmd("SEL", 90, 2, 0, None, {}), Cmd("SEL", 90, 0, 1, None, {})}

OpCmds ==
  {Cmd("REC", 11, 0, 0, None, {}), Cmd("REC", 12, 2, 0, None, {}),
   Cmd("CPY", 13, 0, 1, 3, {21}), Cmd("DMP", 14, 0, 1, 3, {21, 22}),
   Cmd("DEL", 15, 0, 1, None, {}), Cmd("DEL", 15, 0, 9, None, {}),
   Cmd("FMT", 16, 0, 0, 3, {}), Cmd("FMT", 16, 0, 0, None, {}),
   Cmd("GET", 17, 0, 1, None, {}),
   Cmd("SYN", 18, 0, 0, None, {}), Cmd("TST", 19, 0, 0, None, {}),
   Cmd("SPC", 20, 0, 0, None, {}), Plain("STP", 11), Plain("STP", 13)}

MCCmds == StorageCmds \cup OpCmds
MCRare == MCCmds \ {Plain("DWN", 1), Plain("UP", 0), Plain("INI", 0),
                    Plain("DVN", 3), Plain("RPT", 0), Plain("STP", 11),
                    Plain("STP", 13), Cmd("REC", 11, 0, 0, None, {})}
=============================================================================
