------------------------------ MODULE MCDisk ------------------------------
(* Small instances of Disk. *)
EXTENDS Disk, TLC

\* The one-cell track of a one-cell image.
WholeImage == {<<0, 1>>}

\* Two one-cell tracks of a two-cell image.
TwoTracks == {<<0, 1>>, <<1, 1>>}

\* Two one-cell tracks and the two-cell track that overlaps both; the track
\* <<1, 2>> lies outside the image.
OverlappingTracks == {<<0, 1>>, <<1, 1>>, <<0, 2>>, <<1, 2>>}

\* Every input of the narrow type: the geometry helpers do what DiskProofs
\* proves of them for every width.
ASSUME GeometryExact ==
    \A track, track_len, image_size \in UInt32 :
        /\ BoundsExact(track, track_len, image_size)
        /\ OffsetExact(track, track_len, image_size)
        /\ CountExact(track, track_len, image_size)

Symmetry ==
    Permutations(Backings) \cup Permutations(LocalImages) \cup Permutations(RemoteImages)

=============================================================================
