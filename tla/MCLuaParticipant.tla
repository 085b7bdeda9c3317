--------------------------- MODULE MCLuaParticipant ---------------------------
(* Programs of the Lua participant's runs. *)
EXTENDS LuaParticipant

AllPrograms == {"value", "later", "chain", "register", "unregister"}

\* "later" runs a value at the next beat, "chain" runs "later" then; the handler that
\* "register" installs is "later".
AllEffects ==
    [p \in AllPrograms |->
        CASE p = "value"      -> [kind |-> "value", step |-> 0, then |-> "value"]
          [] p = "later"      -> [kind |-> "schedule", step |-> 1, then |-> "value"]
          [] p = "chain"      -> [kind |-> "schedule", step |-> 1, then |-> "later"]
          [] p = "register"   -> [kind |-> "register", step |-> 0, then |-> "later"]
          [] p = "unregister" -> [kind |-> "unregister", step |-> 0, then |-> "value"]]
================================================================================
