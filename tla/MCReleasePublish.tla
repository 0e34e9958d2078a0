-------------------------- MODULE MCReleasePublish --------------------------
(***************************************************************************)
(* Release runs over two commits of the same version, of which one does    *)
(* not announce a release and would not pass its identity checks.          *)
(***************************************************************************)
EXTENDS ReleasePublish

CONSTANTS c1, c2, v1

OneVersion == [c \in {c1, c2} |-> v1]

=============================================================================
