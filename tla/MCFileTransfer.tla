--------------------------- MODULE MCFileTransfer ---------------------------
(***************************************************************************)
(* FileTransfer on small instances.                                        *)
(***************************************************************************)
EXTENDS TransferClaims, TransferRefinement

CONSTANTS a, b, c

\* A file with a repeated chunk, a version with another middle, a shorter
\* one, and the empty file.
FileVersions == {<<a, b, a>>, <<a, c, a>>, <<b, c>>, <<>>}
NonEmptyVersions == FileVersions \ {<<>>}

\* One chunk edited; a chunk edited and one cut off.
EditedVersions == {<<a, b, a>>, <<a, c, a>>}
TwoVersions == {<<a, b, a>>, <<a, c>>}
=============================================================================
