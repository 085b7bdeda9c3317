--------------------------- MODULE MCModulatorEngine ---------------------------
(* ModulatorEngine for TLC: two ids, two control threads, three
   addresses: one table installed, one being built, one still being read. *)
EXTENDS ModulatorEngine

CONSTANTS o1, o2, o3, w1, w2, x, y
================================================================================
