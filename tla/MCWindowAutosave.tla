--------------------------- MODULE MCWindowAutosave ---------------------------
(* Two windows, two workspaces, and menus of operations for the runs.        *)
EXTENDS WindowAutosave, TLC

CONSTANTS k1, k2, w1, w2, o1, o2, o3

MenuOf(kinds, windows, spaces) == [kind : kinds, window : windows, ws : spaces]

(* An edit called from a window, one from elsewhere that leaves the copies     *)
(* unmarked, and a switch of the window; then operations called from the       *)
(* window that is being switched; then switches to the workspace it has.       *)
MCMenu == MenuOf({"edit"}, {k1}, {w1}) \cup MenuOf({"exclude"}, {None}, {w1})
            \cup MenuOf({"switch"}, {k1}, {w2})
MCFlushMenu == MenuOf({"switch"}, {k1}, {w1, w2}) \cup MenuOf({"edit"}, {k1}, {w2})
MCReloadMenu == MenuOf({"switch"}, {k1}, {w1}) \cup MenuOf({"edit"}, {None}, {w1})

Alike == Permutations(Ops)
==============================================================================
