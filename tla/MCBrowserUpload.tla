-------------------------- MODULE MCBrowserUpload --------------------------
(* Constant values for model checking BrowserUpload. *)
EXTENDS BrowserUpload

CONSTANTS f1, f2, f3, x, y, z

ThreeFiles == {f1, f2, f3}
(* Two files of one length with a common tail, and an empty one. *)
Contents == [f \in ThreeFiles |->
    CASE f = f1 -> <<x, y, y>> [] f = f2 -> <<z, y, y>> [] f = f3 -> <<>>]
=============================================================================
