---------------------------- MODULE CameraIntent ----------------------------
(***************************************************************************)
(* What the daemon promises about the camera mode, without saying how:     *)
(* there is one mode the user gets, one the daemon remembers, one on disk. *)
(* A command first moves the lens and then changes the memory; a save in   *)
(* between still stores the old mode.  Disk only ever receives the memory, *)
(* a new process remembers what is on disk, and `agree' says that nothing  *)
(* has happened since the daemon last knew lens and memory to be equal.    *)
(***************************************************************************)
CONSTANTS
    Mode,          \* camera modes
    BootMode,      \* the mode the camera powers up in
    DefaultMode,   \* the mode of a daemon that was never told one
    NoMode         \* nothing remembered, nothing on disk

VARIABLES lens, memory, stored, agree

ivars == <<lens, memory, stored, agree>>

Init ==
    /\ lens = BootMode /\ memory = NoMode /\ stored = NoMode /\ agree = FALSE

\* The camera carries out a command; the daemon may never learn that it did.
Actuate(m) ==
    /\ memory # NoMode
    /\ lens' = m /\ agree' = FALSE
    /\ UNCHANGED <<memory, stored>>

\* The camera acknowledges a command and ignores it, or the daemon mistakes an old
\* report for the answer it waits for.
Doubt ==
    /\ memory # NoMode
    /\ agree' = FALSE
    /\ UNCHANGED <<lens, memory, stored>>

PowerCut ==
    /\ lens' = BootMode /\ agree' = FALSE
    /\ UNCHANGED <<memory, stored>>

\* The daemon remembers a mode it commanded or the camera reported, which a
\* power cut may have outdated by now; the save that follows may fail.
Remember(m) ==
    /\ memory # NoMode
    /\ memory' = m
    /\ stored' \in {stored, m}
    /\ agree' \in BOOLEAN /\ (agree' => lens = m)
    /\ UNCHANGED lens

Persist ==
    /\ memory # NoMode
    /\ stored' = memory
    /\ UNCHANGED <<lens, memory, agree>>

Confirm ==
    /\ memory = lens
    /\ agree' = TRUE
    /\ UNCHANGED <<lens, memory, stored>>

Stop ==
    /\ memory' = NoMode /\ agree' = FALSE
    /\ UNCHANGED <<lens, stored>>

Start ==
    /\ memory = NoMode
    /\ memory' = IF stored = NoMode THEN DefaultMode ELSE stored
    /\ UNCHANGED <<lens, stored, agree>>

Next ==
    \/ \E m \in Mode : Actuate(m) \/ Remember(m)
    \/ Doubt \/ PowerCut \/ Persist \/ Confirm \/ Stop \/ Start

Spec == Init /\ [][Next]_ivars
=============================================================================
