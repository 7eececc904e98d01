--------------------------- MODULE MCHidExchange ---------------------------
(* A camera for TLC: its settings change by what the program writes, which
   believes in another lens mode at the start. *)
EXTENDS HidExchange

MCCameraStates == {[tracking |-> 1, audio |-> 1, gesture |-> 0, battery |-> 9]}

(* The low byte of the firmware's version happens to be that of privacy, the
   serial number is cut off. *)
MCReplies ==
    [charge |-> {<<1>>}, sn |-> {<<>>}, ver |-> {<<2, 1>>},
     devver |-> {<<7, 0>>}, func |-> {<<1, 0, 0, 0>>}]

(* Slot 1 tells its position, slot 2 is set and tells its mode alone, which may
   be padded to the length of a report. *)
MCSlotReplies == <<{<<1, 1, 1>>}, {<<1>>, <<1, 0>>}>>
=============================================================================
