---------------------------- MODULE MCEventScheduler ----------------------------
(* EventScheduler for TLC: two messages, bundles of up to two events. *)
EXTENDS EventScheduler

MCBundles ==
    { <<[tick |-> 0, kind |-> "clap"], [tick |-> 0, kind |-> "osc"]>>,
      <<[tick |-> 1, kind |-> "osc"],  [tick |-> 0, kind |-> "osc"]>>,
      <<[tick |-> 0, kind |-> "skipped"], [tick |-> 1, kind |-> "clap"]>> }
================================================================================
