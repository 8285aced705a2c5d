---------------------------- MODULE MCAlbumMetadata ----------------------------
(***************************************************************************)
(* Small instances of AlbumMetadata.  Askers of a kind are interchangeable, *)
(* and so are the links.                                                    *)
(***************************************************************************)
EXTENDS AlbumMetadata

Symmetry ==
    Permutations(Handlers) \cup Permutations(Sweeps) \cup Permutations(JobRows)
        \cup Permutations(Links)

================================================================================
