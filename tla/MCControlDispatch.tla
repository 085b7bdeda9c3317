--------------------------- MODULE MCControlDispatch ---------------------------
(* Messages and configurations of the dispatch run. *)
EXTENDS ControlDispatch

Msg(kind, arg, id) == [kind |-> kind, wellFormed |-> TRUE, arg |-> arg, id |-> id]
Bad(kind) == [kind |-> kind, wellFormed |-> FALSE, arg |-> "none", id |-> "none"]

SessionMessages ==
    {Msg("session_open", "none", "none"), Msg("session_close", "none", "none"),
     Msg("tx_log", "none", "none"), Bad("tx_log"), Msg("register_source", "none", "none")}

QueueMessages ==
    {Msg("param_set", "none", "none"), Bad("param_set"), Msg("note", "now", "none"),
     Msg("note", "beat", "none"), Bad("note"), Msg("midi_in", "none", "none")}

EngineMessages ==
    {Msg("modulator_start", t, x) : t \in {"slope", "cipher", "unknown"}, x \in {"m1", "m2"}}
    \cup {Msg("modulator_stop", "none", "m1"), Msg("modulator_update", "none", "m1"),
          Bad("modulator_start")}

DeviceMessages ==
    {Msg("pitch_bend", "none", "none"), Bad("sysex"), Msg("osc", "none", "none"),
     Msg("osc", "oversized", "none"),
     Msg("wasm_hot_swap", "none", "none"), Bad("wasm_hot_swap"), Bad("repl_eval")}
    \cup {Msg("repl_eval", d, "none") : d \in {"fennel", "vcvrack-tty", "nous"}}

\* Everything wired, and nothing: each optional part is looked at on its own.
AllOrNothing == {Parts, {}}

AllMessages == SessionMessages \cup QueueMessages \cup EngineMessages \cup DeviceMessages
================================================================================
