----------------------------- MODULE MCDevices -----------------------------
(* Two outputs, two relays, two callers and the counters of the button as  *)
(* they are in the code: see DevicesSafety.cfg.                            *)
EXTENDS Devices

\* The pump's port may come before or after the valves'.
MCPortLists == {<<"UP", "DOWN", "MOTOR", "in">>, <<"in", "DOWN", "UP", "MOTOR">>}
=============================================================================
