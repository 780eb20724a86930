----------------------------- MODULE MCEphPower -----------------------------
(* Model-checking instance of EphPower: double-tap wake-up turned on and  *)
(* off through gesture_wakeup, around two blank/unblank cycles, one       *)
(* system suspend and a finger touching and leaving the screen.           *)
EXTENDS EphPower

\* "2" enables double tap (BIT(2)), "-2" disables it.
MCStoreInputs == {2, -2}

\* CONFIG_SUPPORTED_TOUCHES = 1 and 2.
MCOneSlot == {0}
MCSlots == {0, 1}
====
