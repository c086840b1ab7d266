------------------------ MODULE MCMessageController ------------------------
(* MessageController on small instances. *)
EXTENDS MessageController, TLC

CONSTANTS r1, r2, c1, c2, o1, o2, a1, f1

\* Two pages, of one website or of two; a configuration may trust the first.
MCPageOf == r1 :> c1 @@ r2 :> c2
MCLayouts == {c1 :> o2 @@ c2 :> o2, c1 :> o1 @@ c2 :> o2}
=============================================================================
