------------------------------ MODULE Geometry ------------------------------
(***************************************************************************)
(* The geometry helpers of include/protocol.h: where a track lies in a     *)
(* headerless disk image, in uint32_t arithmetic.  The width is a          *)
(* parameter: TLC checks every input of a narrow type, and the theorems of *)
(* DiskProofs hold for UINT32_MAX = 2^32 - 1 as for any other.             *)
(***************************************************************************)
EXTENDS Naturals

CONSTANT UINT32_MAX

ASSUME WidthAssumption == UINT32_MAX \in Nat \ {0}

UInt32 == 0..UINT32_MAX

\* The product of two uint32_t values wraps.
Mul32(a, b) == (a * b) % (UINT32_MAX + 1)

disk_track_offset(track, track_len) == Mul32(track, track_len)

disk_track_in_bounds(track, track_len, image_size) ==
    /\ track_len # 0
    /\ track <= UINT32_MAX \div track_len
    /\ LET off == Mul32(track, track_len) IN
        /\ off <= image_size
        /\ image_size - off >= track_len

disk_track_count(image_size, track_len) ==
    IF track_len # 0 THEN image_size \div track_len ELSE 0

-----------------------------------------------------------------------------
(* What the helpers are for, in unbounded arithmetic. *)

\* disk_track_in_bounds accepts exactly the tracks that lie in the image.
BoundsExact(track, track_len, image_size) ==
    disk_track_in_bounds(track, track_len, image_size)
        <=> track_len > 0 /\ (track + 1) * track_len <= image_size

\* For an accepted track the wrapped offset is the true one, so no byte that
\* disk.c transfers for the track lies outside the image.
OffsetExact(track, track_len, image_size) ==
    disk_track_in_bounds(track, track_len, image_size)
        => /\ disk_track_offset(track, track_len) = track * track_len
           /\ disk_track_offset(track, track_len) + track_len <= image_size

\* The tracks accepted are the first disk_track_count tracks.
CountExact(track, track_len, image_size) ==
    disk_track_in_bounds(track, track_len, image_size)
        <=> track < disk_track_count(image_size, track_len)

=============================================================================
