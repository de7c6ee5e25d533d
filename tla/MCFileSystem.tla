--------------------------- MODULE MCFileSystem ---------------------------
(***************************************************************************)
(* Instance of FileSystem for model checking.                              *)
(***************************************************************************)
EXTENDS FileSystem

some_CreateSizes == {0, 3, 7}
some_WriteSizes == {3}
some_Seeks == {4}
either_Parent == {ParentFree, ParentInUse}
only_InUse == {ParentInUse}
symmetry == Permutations(Handles) \cup Permutations(Names)
=============================================================================
