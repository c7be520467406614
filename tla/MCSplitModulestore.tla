------------------------- MODULE MCSplitModulestore -------------------------
(* A course with a chapter and a leaf in it, a leaf more, two editors.     *)
EXTENDS SplitModulestore, TLC

CONSTANTS course, chapter, problem, video, h1, h2

MCInitialChildren ==
  (course :> <<chapter, video>>) @@ (chapter :> <<problem>>) @@ (problem :> <<>>) @@ (video :> <<>>)

Symmetry == Permutations(Handlers)
=============================================================================
