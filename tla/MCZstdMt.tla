------------------------------ MODULE MCZstdMt ------------------------------
(* TLC instances of zstd's multi-threaded streaming compression.           *)
EXTENDS ZstdMt

Small == [workers |-> {2}, chunks |-> 4, offers |-> {2}, rooms |-> {1, 20}, orders |-> Orders,
          frames |-> 1, habits |-> {}, memoryFails |-> FALSE]

(* Sections filled in part, and flushes in between. *)
Cut == [Small EXCEPT !.offers = {1, 2}, !.chunks = 3]

(* Workers run out of memory, and frames are given up. *)
Failing == [Small EXCEPT !.rooms = {20}, !.frames = 2, !.habits = {"restart"}, !.memoryFails = TRUE]

(* More and fewer workers from frame to frame. *)
Resized == [Small EXCEPT !.workers = {1, 2}, !.rooms = {20}, !.chunks = 3, !.frames = 2]

(* A frame longer than the round buffer, which holds ten chunks. *)
Round == [Small EXCEPT !.chunks = 12, !.rooms = {20}, !.orders = {"continue", "end"}]

(* Jobs that are done pile up until the job table is full. *)
Full == [Round EXCEPT !.workers = {1}, !.rooms = {1}, !.chunks = 10]

MCInstances == {Full, Cut, Failing, Resized, Round}
=============================================================================
