---------------------------- MODULE MCFolderTree ----------------------------
(* Three folders: the least with a cycle that neither a comparison with the  *)
(* target nor one with its parent finds.  Two handlers overlap.              *)
EXTENDS FolderTree
=============================================================================
