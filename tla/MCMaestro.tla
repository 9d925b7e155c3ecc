----------------------------- MODULE MCMaestro -----------------------------
(* One full-duplex file and one playback file of the channel of a Maestro *)
(* card.                                                                   *)
EXTENDS Maestro, TLC

CONSTANTS a, b, c1, c2

\* a is opened read-write, b write-only: b waits on open_wait while a is open.
MCModeOf == [f \in {a, b} |-> IF f = a THEN {"R", "W"} ELSE {"W"}]

\* Which free pages __get_free_pages returns does not matter.
ChunkSymmetry == Permutations({c1, c2})
====
